------------------------- MODULE PictureStoreProofs -------------------------
(***************************************************************************)
(* No dangling picture, an untouched default picture, nobody else's file,  *)
(* and nothing left behind by requests that follow each other, for every   *)
(* set of accounts, documents, extensions and requests.                    *)
(*                                                                         *)
(* A document is deleted by a request that read it long before, so the     *)
(* invariant has to say why nobody assigns it meanwhile: a document other  *)
(* than the default one is assigned only by the request that created it,   *)
(* and until then nobody else knows it (Fresh); afterwards it only gets    *)
(* replaced.  The default one is never deleted, because a request acts     *)
(* on a document only under a name other than the default (Shape), and     *)
(* such a document never gets the default name (Refers).                   *)
(*                                                                         *)
(* For whom a file may have been saved follows from the millisecond of its *)
(* name, which every later name of it keeps (Owned).                       *)
(*                                                                         *)
(* For requests that follow each other, Fits says how far the one at work  *)
(* has come: which picture, document or file is without the others at      *)
(* which await, and that what the request read is still so (Orderly).      *)
(***************************************************************************)
EXTENDS PictureStore, TLAPS

Giving == {"insert", "assign"}
Replacing == {"exists", "rename", "overwrite", "readOver", "describe"}
Deleting == {"guard", "erase", "unlink"}

\* What a request holds at each of its awaits, whatever the others do.
Shape(q) ==
    /\ q \in Request
    /\ q.pc \in {"file", "remove"} \cup Replacing \cup Deleting => q.picture \in FileIds
    /\ q.pc \in Giving => q.file \in FileIds
    /\ q.pc # "idle" => q.user \in Users /\ q.op \in Op
    /\ q.pc \in {"user", "file"} => q.op # "register"
    /\ q.pc = "user" => q.name = DefaultName
    /\ q.op = "updatePicture" \/ q.pc = "write" => q.upload \in Extensions
    /\ q.pc = "exists" => q.op = "updatePicture"
    /\ q.pc \in Replacing \cup Deleting => q.name.base \in Times
    /\ q.pc = "remove" => q.name = DefaultName \/ q.name.base \in Times
    /\ q.pc \in {"write", "readBack", "document"} => q.op # "deletePicture"
    /\ q.pc \in {"rename", "overwrite", "readOver", "describe", "readBack", "document"} =>
         q.target.base \in Times
    /\ q.op = "deletePicture" /\ q.pc \in {"findDefault", "createDefault", "assign"} =>
         q.name.base \in Times

\* The documents a request knows: that of its account once existed, and has
\* another name than the default one if it had one when it was read; the one it
\* is about to assign exists.
Refers(q) ==
    /\ q.picture \in FileIds => files[q.picture].state # "unborn"
    /\ q.name.base \in Times => q.picture \in FileIds /\ files[q.picture].name.base \in Times
    /\ q.pc \in Giving => Stored(q.file)

\* A document about to be assigned is the default one, or known to nobody else.
Fresh ==
    \A r \in Requests : requests[r].pc \in Giving =>
        LET f == requests[r].file IN
        files[f].name # DefaultName =>
            /\ \A q \in Requests : requests[q].picture # f
            /\ \A q \in Requests \ {r} : requests[q].pc \in Giving => requests[q].file # f
            /\ \A u \in Users : Live(u) => accounts[u].picture # f

\* A document about to be deleted is nobody's picture.
Unused ==
    \A r \in Requests : requests[r].pc = "erase" =>
        \A u \in Users : Live(u) => accounts[u].picture # requests[r].picture

Pictured ==
    \A u \in Users : Live(u) =>
        accounts[u].picture \in FileIds /\ Stored(accounts[u].picture)

Named == \A f \in FileIds : files[f].name = DefaultName \/ files[f].name.base \in Times

\* A file of some millisecond was saved for one of the accounts of that millisecond.
Belongs(name, u) == name.base \in Times => u \in savers[name.base]

\* A request reads, writes and assigns only files its account may have, under the names
\* of the document it read: a document may change the extension of its name but not the
\* millisecond.
Entrusted(q) ==
    /\ q.picture \in FileIds => Belongs(files[q.picture].name, q.user)
    /\ q.pc \in Giving => Belongs(files[q.file].name, q.user)
    /\ Belongs(q.target, q.user)
    /\ q.name.base \in Times =>
         q.picture \in FileIds /\ files[q.picture].name.base = q.name.base
    /\ q.pc \in {"rename", "overwrite", "readOver", "describe"} => q.target.base = q.name.base

\* Accounts, documents, requests and disk agree on whose a file may be.
Owned ==
    /\ \A n \in Filename : disk[n] # None => Belongs(n, disk[n])
    /\ \A u \in Users : Live(u) => Belongs(files[accounts[u].picture].name, u)
    /\ \A r \in Requests : Entrusted(requests[r])

Over == {"overwrite", "readOver", "describe"}

\* What an operation has its request do.
Course(q) ==
    /\ q.pc \in {"user", "file"} => q.op # "register"
    /\ q.pc \in {"findDefault", "createDefault"} => q.op \in {"register", "deletePicture"}
    /\ q.pc \in {"write", "readBack", "document"} => q.op \in {"register", "updatePicture"}
    /\ q.pc = "insert" => q.op = "register"
    /\ q.pc = "assign" => q.op \in {"updatePicture", "deletePicture"}
    /\ q.pc \in Replacing => q.op = "updatePicture"
    /\ q.pc \in {"remove"} \cup Deleting => q.op \in {"deletePicture", "delete"}

\* No two documents have the same name.
Distinct ==
    \A f \in FileIds, g \in FileIds :
        Stored(f) /\ Stored(g) /\ files[g].name = files[f].name => g = f

\* Every picture is on disk, except the one being overwritten.
Shown(q) ==
    \A u \in Users : Live(u) /\ ~(q.pc \in Over /\ accounts[u].picture = q.picture) =>
        disk[files[accounts[u].picture].name] # None

\* Every document is a picture, except the one about to be assigned or deleted.
Kept(q) ==
    \A f \in FileIds :
        /\ Stored(f) /\ files[f].name.base \in Times
        /\ ~(q.pc \in Giving /\ f = q.file)
        /\ ~(q.pc \in {"guard", "erase"} /\ f = q.picture)
        => \E u \in Users : Live(u) /\ accounts[u].picture = f

\* Every file has its document, except the one just written or about to be deleted.
Documented(q) ==
    \A n \in Filename :
        /\ disk[n] # None /\ n # DefaultName
        /\ ~(q.pc \in {"readBack", "document"} \cup Over /\ n = q.target)
        /\ ~(q.pc = "unlink" /\ n = q.name)
        => \E f \in FileIds : Stored(f) /\ files[f].name = n

\* What a request read is still so.
Current(q) ==
    /\ q.op = "register" /\ q.pc # "idle" => ~Live(q.user)
    /\ q.op # "register" /\ q.pc \notin {"idle", "user"} \cup Deleting =>
         Live(q.user) /\ accounts[q.user].picture = q.picture
    /\ q.op # "register" /\ q.pc \notin {"idle", "user", "file", "unlink"} =>
         Stored(q.picture) /\ files[q.picture].name = q.name
    /\ q.op = "updatePicture" /\ q.pc \in {"write", "readBack", "document", "assign"} =>
         q.name = DefaultName

\* What a request wrote or checked is still so.
Lasting(q) ==
    /\ q.pc \in {"readBack", "document"} => disk[q.target] # None
    /\ q.pc \in Giving => disk[files[q.file].name] # None
    /\ q.pc \in {"rename"} \cup Over => q.target.base = q.name.base
    /\ q.pc = "rename" => q.target # q.name
    /\ q.pc \in Over => q.target = q.name \/ disk[q.name] = None
    /\ q.pc \in {"readOver", "describe"} => disk[q.target] # None
    /\ q.pc = "unlink" => \A f \in FileIds : Stored(f) => files[f].name # q.name

Fits(q) ==
    Course(q) /\ Distinct /\ Shown(q) /\ Kept(q) /\ Documented(q) /\ Current(q) /\ Lasting(q)

Orderly ==
    clean =>
      /\ \A r \in Requests : (\A q \in Requests \ {r} : At(q, "idle")) => Fits(requests[r])
      /\ (\A r \in Requests : At(r, "idle")) => Fits(Idle)

\* At these awaits a picture, a document or a file may be without the others.
Exempt == Giving \cup Over \cup {"readBack", "document", "guard", "erase", "unlink"}

Types ==
    /\ accounts \in [Users -> Account]
    /\ files \in [FileIds -> File]
    /\ disk \in [Filename -> Users \cup {Default, None}]
    /\ saves \in 0..MaxSaves
    /\ savers \in [Times -> SUBSET Users]
    /\ clean \in BOOLEAN
    /\ requests \in [Requests -> Request]

IInv ==
    /\ Types
    /\ \A r \in Requests : Shape(requests[r]) /\ Refers(requests[r])
    /\ Fresh /\ Unused /\ Pictured /\ Named
    /\ DefaultIntact

-----------------------------------------------------------------------------

\* The default name is a filename, and no filename with a time.
LEMMA NameFacts ==
    /\ DefaultName \in Filename
    /\ DefaultName.base = None
    /\ \A name \in Filename : name.base \in Times => name # DefaultName
BY NoneAssumption DEF DefaultName, Filename

\* A request that waits for work is well formed.
LEMMA IdleFacts == Shape(Idle) /\ Refers(Idle)
BY NameFacts, NoneAssumption DEF Idle, Shape, Refers, Request, Giving, Replacing, Deleting, Op

\* The history variable stays a truth value.
LEMMA HistoryType == ASSUME NEW r \in Requests, History(r) PROVE clean' \in BOOLEAN
BY DEF History

\* The first state satisfies the invariant.
LEMMA Initially == Init => IInv
<1>. SUFFICES ASSUME Init PROVE IInv
    OBVIOUS
<1>1. Types
    BY NameFacts, IdleFacts, SavesAssumption DEF Init, Types, Account, File, State, Shape
<1>2. \A r \in Requests : Shape(requests[r]) /\ Refers(requests[r])
    BY IdleFacts DEF Init
<1>3. Fresh /\ Unused
    BY DEF Init, Fresh, Unused, Idle, Giving
<1>4. Pictured /\ Named
    BY DEF Init, Pictured, Named, Live
<1>5. DefaultIntact
    BY NameFacts DEF Init, DefaultIntact
<1>. QED
    BY <1>1, <1>2, <1>3, <1>4, <1>5 DEF IInv

\* A step that changes neither accounts nor documents keeps the invariant if the
\* request it leaves behind is well formed, learns no document but an account's
\* picture, and is about to assign or delete none but the default one or none in use.
LEMMA RequestStep ==
    ASSUME IInv, NEW r \in Requests, History(r), NEW q,
           Become(r, q), UNCHANGED <<accounts, files>>,
           Shape(q), Refers(q),
           \/ q.picture \in {requests[r].picture, None}
           \/ \E u \in Users : Live(u) /\ q.picture = accounts[u].picture,
           q.pc \in Giving => files[q.file].name = DefaultName,
           q.pc = "erase" => \A u \in Users : Live(u) => accounts[u].picture # q.picture,
           disk' \in [Filename -> Users \cup {Default, None}],
           disk'[DefaultName] = Default,
           saves' \in 0..MaxSaves, savers' \in [Times -> SUBSET Users]
    PROVE  IInv'
<1>0. requests' = [requests EXCEPT ![r] = q] /\ q \in Request
    BY DEF Become, Shape
<1>1. Types'
    BY <1>0, HistoryType DEF IInv, Types
<1>2. \A p \in Requests : requests'[p] = IF p = r THEN q ELSE requests[p]
    BY <1>0 DEF IInv, Types
<1>3. (\A p \in Requests : Shape(requests[p]) /\ Refers(requests[p]))'
    BY <1>2 DEF IInv, Refers, Stored, Shape
<1>4. Fresh'
    BY <1>2, <1>0, NoneAssumption DEF IInv, Fresh, Live, Types, Pictured, Stored, Shape, Refers
<1>5. Unused'
    BY <1>2 DEF IInv, Unused, Live
<1>6. Pictured' /\ Named' /\ DefaultIntact'
    BY DEF IInv, Pictured, Named, DefaultIntact, Live, Stored
<1>. QED
    BY <1>1, <1>3, <1>4, <1>5, <1>6 DEF IInv

\* So does a request that comes to its end without having changed a document.
LEMMA FinishStep ==
    ASSUME IInv, NEW r \in Requests, History(r), Finish(r), UNCHANGED <<accounts, files>>,
           disk' \in [Filename -> Users \cup {Default, None}],
           disk'[DefaultName] = Default,
           saves' \in 0..MaxSaves, savers' \in [Times -> SUBSET Users]
    PROVE  IInv'
<1>1. Become(r, Idle)
    BY DEF Finish
<1>2. Idle.picture = None /\ Idle.pc = "idle"
    BY DEF Idle
<1>. QED
    BY <1>1, <1>2, IdleFacts, RequestStep DEF Giving

\* The disk and the record of its files in a step that leaves them alone.
LEMMA DiskFacts ==
    ASSUME IInv
    PROVE  /\ disk \in [Filename -> Users \cup {Default, None}]
           /\ disk[DefaultName] = Default
           /\ saves \in 0..MaxSaves
           /\ savers \in [Times -> SUBSET Users]
BY DEF IInv, Types, DefaultIntact

-----------------------------------------------------------------------------
(* Steps that change no account and no document                            *)

\* A registration starts with nothing.
LEMMA RegisterKeeps ==
    ASSUME IInv, NEW r \in Requests, Register(r), History(r) PROVE IInv'
<1>1. PICK u \in Users, upload \in Extensions \cup {None} :
        Become(r, [Idle EXCEPT !.pc = IF upload = None THEN "findDefault" ELSE "write",
                               !.op = "register", !.user = u, !.upload = upload])
    BY DEF Register
<1> DEFINE q == [Idle EXCEPT !.pc = IF upload = None THEN "findDefault" ELSE "write",
                             !.op = "register", !.user = u, !.upload = upload]
<1>2. Shape(q) /\ Refers(q)
    BY NameFacts, NoneAssumption
    DEF Idle, Shape, Refers, Request, Giving, Replacing, Deleting, Op
<1>3. q.picture = None /\ q.pc \notin Giving /\ q.pc # "erase"
    BY DEF Idle, Giving
<1>. QED
    BY <1>1, <1>2, <1>3, DiskFacts, RequestStep DEF Register

\* A request starts with the account it names.
LEMMA StartKeeps ==
    ASSUME IInv, NEW r \in Requests, History(r),
           UpdatePicture(r) \/ DeletePicture(r) \/ Delete(r)
    PROVE  IInv'
<1>1. PICK op \in Op \ {"register"}, upload \in Extensions \cup {None} :
        Start(r, op, upload) /\ (op = "updatePicture" => upload \in Extensions)
    BY DEF UpdatePicture, DeletePicture, Delete, Op
<1>2. PICK u \in Users :
        Become(r, [Idle EXCEPT !.pc = "user", !.op = op, !.user = u, !.upload = upload])
    BY <1>1 DEF Start
<1> DEFINE q == [Idle EXCEPT !.pc = "user", !.op = op, !.user = u, !.upload = upload]
<1>3. Shape(q) /\ Refers(q)
    BY <1>1, NameFacts, NoneAssumption
    DEF Idle, Shape, Refers, Request, Giving, Replacing, Deleting
<1>4. q.picture = None /\ q.pc \notin Giving /\ q.pc # "erase"
    BY DEF Idle, Giving
<1>. QED
    BY <1>1, <1>2, <1>3, <1>4, DiskFacts, RequestStep DEF Start

\* A request learns the picture its account has now.
LEMMA ReadUserKeeps ==
    ASSUME IInv, NEW r \in Requests, ReadUser(r), History(r) PROVE IInv'
<1> DEFINE u == requests[r].user
           q == [requests[r] EXCEPT !.pc = "file", !.picture = accounts[u].picture]
<1>1. CASE Live(u)
    <2>1. u \in Users /\ accounts[u].picture \in FileIds /\ Stored(accounts[u].picture)
        BY <1>1 DEF ReadUser, At, IInv, Shape, Pictured
    <2>2. Shape(requests[r]) /\ Refers(requests[r]) /\ requests[r].pc = "user"
        BY DEF ReadUser, At, IInv
    <2>3. Shape(q)
        BY <2>1, <2>2 DEF Shape, Request, Giving, Replacing, Deleting
    <2>4. Refers(q) /\ q.pc \notin Giving /\ q.pc # "erase" /\ q.picture = accounts[u].picture
        BY <2>1, <2>2, NameFacts DEF Shape, Request, Refers, Stored, Giving
    <2>5. Become(r, q) /\ UNCHANGED <<accounts, files, disk, saves, savers>>
        BY <1>1 DEF ReadUser
    <2>. QED
        BY <1>1, <2>1, <2>3, <2>4, <2>5, DiskFacts, RequestStep
<1>2. CASE ~Live(u)
    BY <1>2, FinishStep, DiskFacts DEF ReadUser
<1>. QED
    BY <1>1, <1>2

\* A request learns the file of the document it read.
LEMMA ReadFileKeeps ==
    ASSUME IInv, NEW r \in Requests, ReadFile(r), History(r) PROVE IInv'
<1> DEFINE f == requests[r].picture
           next == NextStep(requests[r].op, files[f].name)
           q == [requests[r] EXCEPT !.pc = next, !.name = files[f].name]
<1>1. CASE Stored(f) /\ next # "idle"
    <2>1. Shape(requests[r]) /\ Refers(requests[r]) /\ requests[r].pc = "file" /\ f \in FileIds
        BY DEF ReadFile, At, IInv, Shape
    <2>2. files[f].name \in Filename /\ (files[f].name = DefaultName \/ files[f].name.base \in Times)
        BY <2>1 DEF IInv, Types, File, Named
    <2>3. requests[r].op \in {"updatePicture", "deletePicture", "delete"}
        BY <2>1 DEF Shape, Op
    <2>4. /\ next \in {"write", "exists", "findDefault", "remove"}
          /\ next = "write" => requests[r].op = "updatePicture"
          /\ next = "exists" => requests[r].op = "updatePicture" /\ files[f].name # DefaultName
          /\ next = "findDefault" => files[f].name # DefaultName
        BY <1>1, <2>3 DEF NextStep, isDefaultPicture
    <2>5. Shape(q)
        BY <2>1, <2>2, <2>4 DEF Shape, Request, Giving, Replacing, Deleting
    <2>6. Refers(q) /\ q.pc \notin Giving /\ q.pc # "erase" /\ q.picture = requests[r].picture
        BY <2>1, <2>4, <1>1 DEF Shape, Request, Refers, Stored, Giving
    <2>7. Become(r, q) /\ UNCHANGED <<accounts, files, disk, saves, savers>>
        BY <1>1 DEF ReadFile
    <2>. QED
        BY <2>5, <2>6, <2>7, DiskFacts, RequestStep
<1>2. CASE ~(Stored(f) /\ next # "idle")
    BY <1>2, FinishStep, DiskFacts DEF ReadFile
<1>. QED
    BY <1>1, <1>2

\* A request that goes on to its next await with what it holds.
LEMMA GotoStep ==
    ASSUME IInv, NEW r \in Requests, History(r), NEW pc, Goto(r, pc),
           UNCHANGED <<accounts, files>>,
           Shape([requests[r] EXCEPT !.pc = pc]), pc \notin Giving,
           pc = "erase" => \A u \in Users : Live(u) => accounts[u].picture # requests[r].picture,
           disk' \in [Filename -> Users \cup {Default, None}],
           disk'[DefaultName] = Default,
           saves' \in 0..MaxSaves, savers' \in [Times -> SUBSET Users]
    PROVE  IInv'
<1> DEFINE q == [requests[r] EXCEPT !.pc = pc]
<1>1. Shape(requests[r]) /\ Refers(requests[r])
    BY DEF IInv
<1>2. /\ q.pc = pc /\ q.picture = requests[r].picture /\ q.name = requests[r].name
      /\ Become(r, q)
    BY <1>1 DEF Shape, Request, Goto
<1>3. Refers(q)
    BY <1>1, <1>2 DEF Refers
<1>. QED
    BY <1>2, <1>3, RequestStep

\* The id of the default picture's document is known.
LEMMA FindDefaultKeeps ==
    ASSUME IInv, NEW r \in Requests, FindDefault(r), History(r) PROVE IInv'
<1>1. Shape(requests[r]) /\ Refers(requests[r]) /\ requests[r].pc = "findDefault"
    BY DEF FindDefault, At, IInv
<1>2. ASSUME NEW f \in FileIds, Stored(f), files[f].name = DefaultName, Obtained(r, f)
      PROVE  IInv'
    <2> DEFINE q == [requests[r] EXCEPT
                       !.pc = IF requests[r].op = "register" THEN "insert" ELSE "assign",
                       !.file = f]
    <2>1. Shape(q)
        BY <1>1 DEF Shape, Request, Giving, Replacing, Deleting
    <2>2. /\ Refers(q) /\ q.file = f /\ q.pc # "erase"
          /\ q.picture = requests[r].picture
        BY <1>1, <1>2 DEF Shape, Request, Refers
    <2>3. Become(r, q) /\ UNCHANGED <<accounts, files, disk, saves, savers>>
        BY <1>2 DEF FindDefault, Obtained
    <2>4. q.pc \in Giving => files[q.file].name = DefaultName
        BY <1>2, <2>2
    <2> HIDE DEF q
    <2>. QED
        BY <2>1, <2>2, <2>3, <2>4, DiskFacts, RequestStep
<1>3. ASSUME Goto(r, "createDefault") PROVE IInv'
    <2>1. Shape([requests[r] EXCEPT !.pc = "createDefault"])
        BY <1>1 DEF Shape, Request, Giving, Replacing, Deleting
    <2>. QED
        BY <1>3, <2>1, DiskFacts, GotoStep DEF FindDefault, Giving
<1>. QED
    BY <1>2, <1>3 DEF FindDefault, isDefaultPicture

-----------------------------------------------------------------------------
(* Steps that write, rename or delete a file                               *)

\* A file that is written is never the default picture.
LEMMA WriteKeeps ==
    ASSUME IInv, NEW r \in Requests, Write(r), History(r) PROVE IInv'
<1>1. PICK now \in Times :
        /\ saves < MaxSaves /\ saves' = saves + 1
        /\ savers' = [savers EXCEPT ![now] = @ \cup {requests[r].user}]
        /\ disk' = [disk EXCEPT ![[base |-> now, ext |-> requests[r].upload]] = requests[r].user]
        /\ Become(r, [requests[r] EXCEPT !.pc = "readBack",
                                         !.target = [base |-> now, ext |-> requests[r].upload]])
    BY DEF Write
<1> DEFINE name == [base |-> now, ext |-> requests[r].upload]
           q == [requests[r] EXCEPT !.pc = "readBack", !.target = name]
<1>2. /\ Shape(requests[r]) /\ Refers(requests[r]) /\ requests[r].pc = "write"
      /\ UNCHANGED <<accounts, files>>
    BY DEF Write, At, IInv
<1>3. requests[r].user \in Users /\ name \in Filename /\ name.base \in Times
    BY <1>2 DEF Filename, Shape
<1>4. saves' \in 0..MaxSaves /\ savers' \in [Times -> SUBSET Users]
    BY <1>1, <1>3, DiskFacts, SavesAssumption
<1>5. Shape(q)
    BY <1>2, <1>3 DEF Shape, Request, Giving, Replacing, Deleting
<1>6. Refers(q) /\ q.pc \notin Giving /\ q.pc # "erase" /\ q.picture = requests[r].picture
    BY <1>2 DEF Shape, Request, Refers, Giving
<1>7. Become(r, q) /\ disk' = [disk EXCEPT ![name] = requests[r].user]
    BY <1>1
<1> HIDE DEF q, name
<1>8. /\ disk' \in [Filename -> Users \cup {Default, None}]
      /\ disk'[DefaultName] = Default
    BY <1>3, <1>7, NameFacts, DiskFacts
<1>. QED
    BY <1>2, <1>4, <1>5, <1>6, <1>7, <1>8, RequestStep

\* Reading the new file changes nothing that is stored.
LEMMA ReadBackKeeps ==
    ASSUME IInv, NEW r \in Requests, ReadBack(r), History(r) PROVE IInv'
<1>1. Shape(requests[r]) /\ requests[r].pc = "readBack"
    BY DEF ReadBack, At, IInv
<1>2. Shape([requests[r] EXCEPT !.pc = "document"])
    BY <1>1 DEF Shape, Request, Giving, Replacing, Deleting
<1>3. CASE Goto(r, "document")
    BY <1>2, <1>3, DiskFacts, GotoStep DEF ReadBack, Giving
<1>4. CASE Finish(r)
    BY <1>4, DiskFacts, FinishStep DEF ReadBack
<1>. QED
    BY <1>3, <1>4 DEF ReadBack

\* Reading the overwritten file changes nothing that is stored.
LEMMA ReadOverKeeps ==
    ASSUME IInv, NEW r \in Requests, ReadOver(r), History(r) PROVE IInv'
<1>1. Shape(requests[r]) /\ requests[r].pc = "readOver"
    BY DEF ReadOver, At, IInv
<1>2. Shape([requests[r] EXCEPT !.pc = "describe"])
    BY <1>1 DEF Shape, Request, Giving, Replacing, Deleting
<1>3. CASE Goto(r, "describe")
    BY <1>2, <1>3, DiskFacts, GotoStep DEF ReadOver, Giving
<1>4. CASE Finish(r)
    BY <1>4, DiskFacts, FinishStep DEF ReadOver
<1>. QED
    BY <1>3, <1>4 DEF ReadOver

\* Looking for the old file changes nothing that is stored.
LEMMA ExistsKeeps ==
    ASSUME IInv, NEW r \in Requests, Exists(r), History(r) PROVE IInv'
<1> DEFINE target == [requests[r].name EXCEPT !.ext = requests[r].upload]
           q == [requests[r] EXCEPT
                   !.pc = IF target = requests[r].name THEN "overwrite" ELSE "rename",
                   !.target = target]
<1>1. Shape(requests[r]) /\ Refers(requests[r]) /\ requests[r].pc = "exists"
    BY DEF Exists, At, IInv
<1>2. target \in Filename /\ target.base \in Times
    BY <1>1 DEF Shape, Request, Filename, Replacing
<1>3. Shape(q)
    BY <1>1, <1>2 DEF Shape, Request, Giving, Replacing, Deleting
<1>4. Refers(q) /\ q.pc \notin Giving /\ q.pc # "erase" /\ q.picture = requests[r].picture
    BY <1>1 DEF Shape, Request, Refers, Giving
<1>5. CASE Become(r, q)
    <2>1. UNCHANGED <<accounts, files, disk, saves, savers>>
        BY DEF Exists
    <2> HIDE DEF q
    <2>. QED
        BY <1>3, <1>4, <1>5, <2>1, DiskFacts, RequestStep
<1>6. CASE Finish(r)
    BY <1>6, DiskFacts, FinishStep DEF Exists
<1>. QED
    BY <1>5, <1>6 DEF Exists

\* A rename concerns no default picture.
LEMMA RenameKeeps ==
    ASSUME IInv, NEW r \in Requests, Rename(r), History(r) PROVE IInv'
<1>1. Shape(requests[r]) /\ requests[r].pc = "rename"
    BY DEF Rename, At, IInv
<1>2. /\ requests[r].name \in Filename /\ requests[r].target \in Filename
      /\ requests[r].name # DefaultName /\ requests[r].target # DefaultName
    BY <1>1, NameFacts DEF Shape, Request, Replacing
<1>3. CASE /\ disk' = [disk EXCEPT ![requests[r].target] = disk[requests[r].name],
                                   ![requests[r].name] = None]
           /\ Goto(r, "overwrite")
    <2>1. /\ disk' \in [Filename -> Users \cup {Default, None}]
          /\ disk'[DefaultName] = Default
        BY <1>2, <1>3, NameFacts, DiskFacts
    <2>2. Shape([requests[r] EXCEPT !.pc = "overwrite"])
        BY <1>1 DEF Shape, Request, Giving, Replacing, Deleting
    <2>. QED
        BY <1>3, <2>1, <2>2, DiskFacts, GotoStep DEF Rename, Giving
<1>4. CASE Finish(r) /\ UNCHANGED disk
    BY <1>4, DiskFacts, FinishStep DEF Rename
<1>. QED
    BY <1>3, <1>4 DEF Rename

\* Overwriting concerns no default picture.
LEMMA OverwriteKeeps ==
    ASSUME IInv, NEW r \in Requests, Overwrite(r), History(r) PROVE IInv'
<1>1. Shape(requests[r]) /\ requests[r].pc = "overwrite"
    BY DEF Overwrite, At, IInv
<1>2. /\ requests[r].target \in Filename /\ requests[r].target # DefaultName
      /\ requests[r].user \in Users
    BY <1>1, NameFacts DEF Shape, Request
<1>3. /\ disk' \in [Filename -> Users \cup {Default, None}]
      /\ disk'[DefaultName] = Default
    BY <1>2, NameFacts, DiskFacts DEF Overwrite
<1>4. Shape([requests[r] EXCEPT !.pc = "readOver"])
    BY <1>1 DEF Shape, Request, Giving, Replacing, Deleting
<1>. QED
    BY <1>3, <1>4, DiskFacts, GotoStep DEF Overwrite, Giving

\* Unlinking concerns no default picture.
LEMMA UnlinkKeeps ==
    ASSUME IInv, NEW r \in Requests, Unlink(r), History(r) PROVE IInv'
<1>1. requests[r].name \in Filename /\ requests[r].name # DefaultName
    BY NameFacts DEF Unlink, At, IInv, Shape, Request, Deleting
<1>2. /\ disk' \in [Filename -> Users \cup {Default, None}]
      /\ disk'[DefaultName] = Default
    BY <1>1, NameFacts, DiskFacts DEF Unlink
<1>. QED
    BY <1>2, DiskFacts, FinishStep DEF Unlink

\* Only a document that is nobody's picture goes on to be deleted.
LEMMA GuardKeeps ==
    ASSUME IInv, NEW r \in Requests, Guard(r), History(r) PROVE IInv'
<1>1. Shape(requests[r]) /\ requests[r].pc = "guard"
    BY DEF Guard, At, IInv
<1>2. Shape([requests[r] EXCEPT !.pc = "erase"])
    BY <1>1 DEF Shape, Request, Giving, Replacing, Deleting
<1>3. CASE \E u \in Users : Live(u) /\ accounts[u].picture = requests[r].picture
    BY <1>3, DiskFacts, FinishStep DEF Guard
<1>4. CASE ~ \E u \in Users : Live(u) /\ accounts[u].picture = requests[r].picture
    BY <1>2, <1>4, DiskFacts, GotoStep DEF Guard, Giving
<1>. QED
    BY <1>3, <1>4
-----------------------------------------------------------------------------
(* Steps that create, rename or delete a document                          *)

\* A document that is created is known to the request that creates it only.
LEMMA CreateFileKeeps ==
    ASSUME IInv, NEW r \in Requests, History(r), NEW name \in Filename, CreateFile(r, name),
           requests[r].pc \in {"createDefault", "document"},
           name = DefaultName \/ name.base \in Times,
           UNCHANGED <<accounts, disk, saves, savers>>
    PROVE  IInv'
<1>1. CASE Finish(r) /\ UNCHANGED files
    BY <1>1, DiskFacts, FinishStep
<1>2. ASSUME NEW f \in FileIds, files[f].state = "unborn",
             files' = [files EXCEPT ![f] = [state |-> "live", name |-> name]],
             Obtained(r, f)
      PROVE  IInv'
    <2> DEFINE q == [requests[r] EXCEPT
                       !.pc = IF requests[r].op = "register" THEN "insert" ELSE "assign",
                       !.file = f]
    <2>1. Shape(requests[r]) /\ Refers(requests[r])
        BY DEF IInv
    <2>2. Shape(q)
        BY <2>1 DEF Shape, Request, Giving, Replacing, Deleting
    <2>3. /\ q.file = f /\ q.pc \in Giving /\ q.picture = requests[r].picture
          /\ q.name = requests[r].name
        BY <2>1 DEF Shape, Request, Giving
    <2>4. Become(r, q)
        BY <1>2 DEF Obtained
    <2> HIDE DEF q
    <2>5. \A p \in Requests : requests'[p] = IF p = r THEN q ELSE requests[p]
        BY <2>4 DEF Become, IInv, Types
    <2>6. \A g \in FileIds : files'[g] = IF g = f THEN [state |-> "live", name |-> name]
                                               ELSE files[g]
        BY <1>2 DEF IInv, Types
    <2>7. /\ \A p \in Requests : requests[p].picture # f
          /\ \A p \in Requests : requests[p].pc \in Giving => requests[p].file # f
          /\ \A u \in Users : Live(u) => accounts[u].picture # f
        BY <1>2 DEF IInv, Refers, Stored, Pictured
    <2>8. Types'
        BY <1>2, <2>2, <2>4, HistoryType DEF IInv, Types, Become, Shape, File, State
    <2>9. (\A p \in Requests : Shape(requests[p]))'
        BY <2>2, <2>5 DEF IInv, Shape
    <2>10. (\A p \in Requests : Refers(requests[p]))'
        <3>1. ASSUME NEW p \in Requests PROVE Refers(requests[p])'
            <4>1. Refers(requests[p]) /\ Shape(requests[p]) /\ requests[p].picture # f
                BY <2>7 DEF IInv
            <4>2. CASE p = r
                BY <4>1, <4>2, <2>3, <2>5, <2>6, <1>2 DEF Refers, Stored
            <4>3. CASE p # r
                BY <4>1, <4>3, <2>5, <2>6, <2>7 DEF Refers, Stored, Shape
            <4>. QED
                BY <4>2, <4>3
        <3>. QED
            BY <3>1
    <2>11. Fresh'
        BY <2>3, <2>5, <2>6, <2>7 DEF IInv, Fresh, Live, Shape
    <2>12. Unused'
        BY <2>3, <2>5 DEF IInv, Unused, Live, Giving
    <2>13. Pictured' /\ Named' /\ DefaultIntact'
        BY <1>2, <2>6 DEF IInv, Pictured, Named, DefaultIntact, Live, Stored
    <2>. QED
        BY <2>8, <2>9, <2>10, <2>11, <2>12, <2>13 DEF IInv
<1>. QED
    BY <1>1, <1>2 DEF CreateFile

\* The document of the default picture is created once.
LEMMA CreateDefaultKeeps ==
    ASSUME IInv, NEW r \in Requests, CreateDefault(r), History(r) PROVE IInv'
<1>1. CASE Finish(r) /\ UNCHANGED files
    BY <1>1, DiskFacts, FinishStep DEF CreateDefault
<1>2. CASE CreateFile(r, DefaultName)
    BY <1>2, NameFacts, CreateFileKeeps DEF CreateDefault, At
<1>. QED
    BY <1>1, <1>2 DEF CreateDefault

\* Every step on a file document keeps the invariant.
LEMMA DocumentKeeps ==
    ASSUME IInv, NEW r \in Requests, Document(r), History(r) PROVE IInv'
<1>1. requests[r].target \in Filename /\ requests[r].target.base \in Times
    BY DEF Document, At, IInv, Shape, Request
<1>. QED
    BY <1>1, CreateFileKeeps DEF Document, At

\* A document that is renamed had a name other than the default one, and gets one.
LEMMA DescribeKeeps ==
    ASSUME IInv, NEW r \in Requests, Describe(r), History(r) PROVE IInv'
<1> DEFINE f == requests[r].picture
           name == requests[r].target
<1>1. Shape(requests[r]) /\ Refers(requests[r]) /\ requests[r].pc = "describe"
    BY DEF Describe, At, IInv
<1>2. f \in FileIds /\ name \in Filename /\ name.base \in Times /\ files[f].name.base \in Times
    BY <1>1 DEF Shape, Refers, Request, Replacing
<1>3. CASE files' = files
    BY <1>3, DiskFacts, FinishStep DEF Describe
<1>4. CASE files' = [files EXCEPT ![f].name = name]
    <2>1. Become(r, Idle) /\ UNCHANGED <<accounts, disk, saves, savers>>
        BY DEF Describe, Finish
    <2>2. \A p \in Requests : requests'[p] = IF p = r THEN Idle ELSE requests[p]
        BY <2>1 DEF Become, IInv, Types
    <2>3. /\ \A g \in FileIds : files'[g].state = files[g].state
          /\ \A g \in FileIds : files'[g].name = IF g = f THEN name ELSE files[g].name
        BY <1>4 DEF IInv, Types, File
    <2>4. files[f].name # DefaultName /\ name # DefaultName
        BY <1>2, NameFacts
    <2>5. Types'
        BY <1>2, <1>4, <2>1, IdleFacts, HistoryType DEF IInv, Types, Become, Shape, File
    <2>6. (\A p \in Requests : Shape(requests[p]))'
        BY <2>2, IdleFacts DEF IInv, Shape
    <2>7. (\A p \in Requests : Refers(requests[p]))'
        <3>1. Idle.picture = None /\ Idle.pc = "idle" /\ Idle.name.base = None
            BY NameFacts DEF Idle
        <3>2. \A p \in Requests : Refers(requests[p]) /\ Shape(requests[p])
            BY DEF IInv
        <3>. QED
            BY <3>1, <3>2, <2>2, <2>3, <1>2, NoneAssumption DEF Refers, Stored, Shape, Giving
    <2>8. Fresh'
        <3>1. Idle.picture = None /\ Idle.pc = "idle"
            BY DEF Idle
        <3>2. \A p \in Requests : Shape(requests[p])
            BY DEF IInv
        <3>. QED
            BY <3>1, <3>2, <2>1, <2>2, <2>3, <2>4, NoneAssumption
            DEF IInv, Fresh, Live, Shape, Giving
    <2>9. Unused'
        BY <2>1, <2>2 DEF IInv, Unused, Live, Idle
    <2>10. Pictured' /\ Named' /\ DefaultIntact'
        BY <1>2, <2>1, <2>3, <2>4 DEF IInv, Pictured, Named, DefaultIntact, Live, Stored
    <2>. QED
        BY <2>5, <2>6, <2>7, <2>8, <2>9, <2>10 DEF IInv
<1>. QED
    BY <1>3, <1>4 DEF Describe
\* A document that is deleted is neither the default one, nor anybody's picture,
\* nor one a request is about to assign.
LEMMA EraseKeeps ==
    ASSUME IInv, NEW r \in Requests, Erase(r), History(r) PROVE IInv'
<1> DEFINE f == requests[r].picture
           q == [requests[r] EXCEPT !.pc = "unlink"]
<1>1. Shape(requests[r]) /\ Refers(requests[r]) /\ requests[r].pc = "erase"
    BY DEF Erase, At, IInv
<1>2. f \in FileIds /\ files[f].name.base \in Times /\ files[f].name # DefaultName
    BY <1>1, NameFacts DEF Shape, Refers, Deleting, IInv, Types, File
<1>3. Shape(q)
    BY <1>1 DEF Shape, Request, Giving, Replacing, Deleting
<1>4. CASE files' = files
    BY <1>3, <1>4, DiskFacts, GotoStep DEF Erase, Giving
<1>5. CASE files' = [files EXCEPT ![f].state = "gone"]
    <2>1. Become(r, q) /\ UNCHANGED <<accounts, disk, saves, savers>>
        BY DEF Erase, Goto
    <2>2. q.pc = "unlink" /\ q.picture = f /\ q.name = requests[r].name
        BY <1>1 DEF Shape, Request
    <2> HIDE DEF q
    <2>3. \A p \in Requests : requests'[p] = IF p = r THEN q ELSE requests[p]
        BY <2>1 DEF Become, IInv, Types
    <2>4. /\ \A g \in FileIds : files'[g].name = files[g].name
          /\ \A g \in FileIds : files'[g].state = IF g = f THEN "gone" ELSE files[g].state
        BY <1>5 DEF IInv, Types, File
    <2>5. /\ \A p \in Requests : requests[p].pc \in Giving => requests[p].file # f
          /\ \A u \in Users : Live(u) => accounts[u].picture # f
        BY <1>1, <1>2 DEF IInv, Fresh, Unused
    <2>6. Types'
        BY <1>2, <1>3, <1>5, <2>1, HistoryType DEF IInv, Types, Become, Shape, File, State
    <2>7. (\A p \in Requests : Shape(requests[p]))'
        BY <1>3, <2>3 DEF IInv, Shape
    <2>8. (\A p \in Requests : Refers(requests[p]))'
        <3>1. \A p \in Requests : Refers(requests[p]) /\ Shape(requests[p])
            BY DEF IInv
        <3>. QED
            BY <3>1, <1>2, <2>2, <2>3, <2>4, <2>5 DEF Refers, Stored, Shape, Giving
    <2>9. Fresh'
        <3>1. \A p \in Requests : Shape(requests[p])
            BY DEF IInv
        <3>. QED
            BY <3>1, <2>1, <2>2, <2>3, <2>4 DEF IInv, Fresh, Live, Shape, Giving
    <2>10. Unused'
        BY <2>1, <2>2, <2>3 DEF IInv, Unused, Live
    <2>11. Pictured' /\ Named' /\ DefaultIntact'
        BY <1>2, <2>1, <2>4, <2>5 DEF IInv, Pictured, Named, DefaultIntact, Live, Stored
    <2>. QED
        BY <2>6, <2>7, <2>8, <2>9, <2>10, <2>11 DEF IInv
<1>. QED
    BY <1>4, <1>5 DEF Erase

-----------------------------------------------------------------------------
(* Steps that change an account                                            *)

\* An account gets a picture only from a request that gives it the document it
\* obtained and then does no more than look whether its old one is in use.
LEMMA AccountStep ==
    ASSUME IInv, NEW r \in Requests, History(r), NEW q, Become(r, q),
           Shape(q), Refers(q), q.picture \in {requests[r].picture, None},
           q.pc \notin Giving, q.pc # "erase",
           accounts' \in [Users -> Account],
           \A u \in Users :
              accounts'[u].state = "live" =>
                 \/ Live(u) /\ accounts'[u].picture = accounts[u].picture
                 \/ requests[r].pc \in Giving /\ accounts'[u].picture = requests[r].file,
           UNCHANGED <<files, disk, saves, savers>>
    PROVE  IInv'
<1>1. \A p \in Requests : requests'[p] = IF p = r THEN q ELSE requests[p]
    BY DEF Become, IInv, Types
<1>2. \A p \in Requests : Shape(requests[p]) /\ Refers(requests[p])
    BY DEF IInv
<1>3. requests[r].pc \in Giving => requests[r].file \in FileIds /\ Stored(requests[r].file)
    BY <1>2 DEF Shape, Refers
<1>4. Types'
    BY HistoryType DEF IInv, Types, Become, Shape
<1>5. (\A p \in Requests : Shape(requests[p]) /\ Refers(requests[p]))'
    BY <1>1, <1>2 DEF Refers, Stored, Shape
<1>6. Fresh'
    BY <1>1, <1>2, NoneAssumption DEF IInv, Fresh, Live, Shape
<1>7. Unused'
    <2>1. ASSUME NEW p \in Requests, requests[p].pc = "erase", p # r, NEW u \in Users,
                 accounts'[u].state = "live"
          PROVE  accounts'[u].picture # requests[p].picture
        <3>1. requests[p].picture \in FileIds /\ files[requests[p].picture].name # DefaultName
            BY <2>1, <1>2, NameFacts DEF Shape, Refers, Deleting, IInv, Types, File
        <3>2. CASE Live(u) /\ accounts'[u].picture = accounts[u].picture
            BY <2>1, <3>2 DEF IInv, Unused
        <3>3. CASE requests[r].pc \in Giving /\ accounts'[u].picture = requests[r].file
            BY <3>1, <3>3 DEF IInv, Fresh
        <3>. QED
            BY <2>1, <3>2, <3>3
    <2>. QED
        BY <1>1, <2>1 DEF Unused, Live
<1>8. Pictured' /\ Named' /\ DefaultIntact'
    BY <1>3 DEF IInv, Pictured, Named, DefaultIntact, Live, Stored
<1>. QED
    BY <1>4, <1>5, <1>6, <1>7, <1>8 DEF IInv

\* An account is inserted with a document that nobody is about to erase.
LEMMA InsertKeeps ==
    ASSUME IInv, NEW r \in Requests, Insert(r), History(r) PROVE IInv'
<1>1. Shape(requests[r]) /\ requests[r].pc = "insert"
    BY DEF Insert, At, IInv
<1>2. CASE UNCHANGED accounts
    BY <1>2, DiskFacts, FinishStep DEF Insert
<1>3. CASE accounts' = [accounts EXCEPT ![requests[r].user] =
                          [state |-> "live", picture |-> requests[r].file]]
    <2>1. requests[r].file \in FileIds /\ requests[r].user \in Users
        BY <1>1 DEF Shape, Giving
    <2>2. accounts' \in [Users -> Account]
        BY <1>3, <2>1 DEF IInv, Types, Account, State
    <2>3. \A u \in Users : accounts'[u].state = "live" =>
             \/ Live(u) /\ accounts'[u].picture = accounts[u].picture
             \/ requests[r].pc \in Giving /\ accounts'[u].picture = requests[r].file
        BY <1>1, <1>3 DEF IInv, Types, Live, Giving
    <2>4. Idle.picture = None /\ Idle.pc = "idle" /\ Become(r, Idle)
        BY DEF Idle, Insert, Finish
    <2>. QED
        BY <2>2, <2>3, <2>4, IdleFacts, AccountStep DEF Insert, Giving
<1>. QED
    BY <1>2, <1>3 DEF Insert

\* A document is assigned that nobody is about to erase.
LEMMA AssignKeeps ==
    ASSUME IInv, NEW r \in Requests, Assign(r), History(r) PROVE IInv'
<1> DEFINE q == [requests[r] EXCEPT !.pc = "guard"]
<1>1. Shape(requests[r]) /\ Refers(requests[r]) /\ requests[r].pc = "assign"
    BY DEF Assign, At, IInv
<1>2. requests[r].file \in FileIds /\ requests[r].user \in Users
    BY <1>1 DEF Shape, Giving
<1>3. accounts' \in [Users -> Account]
    BY <1>2 DEF Assign, IInv, Types, Account
<1>4. \A u \in Users : accounts'[u].state = "live" =>
         \/ Live(u) /\ accounts'[u].picture = accounts[u].picture
         \/ requests[r].pc \in Giving /\ accounts'[u].picture = requests[r].file
    BY <1>1 DEF Assign, IInv, Types, Account, Live, Giving
<1>5. CASE requests[r].op = "deletePicture"
    <2>1. Shape(q)
        BY <1>1, <1>5 DEF Shape, Refers, Request, Giving, Replacing, Deleting
    <2>2. Refers(q) /\ q.pc = "guard" /\ q.picture = requests[r].picture
        BY <1>1 DEF Shape, Refers, Request, Giving
    <2>3. Become(r, q)
        BY <1>5 DEF Assign, Goto
    <2> HIDE DEF q
    <2>. QED
        BY <1>3, <1>4, <2>1, <2>2, <2>3, AccountStep DEF Assign, Giving
<1>6. CASE requests[r].op # "deletePicture"
    <2>1. Idle.picture = None /\ Idle.pc = "idle" /\ Become(r, Idle)
        BY <1>6 DEF Idle, Assign, Finish
    <2>. QED
        BY <1>3, <1>4, <2>1, IdleFacts, AccountStep DEF Assign, Giving
<1>. QED
    BY <1>5, <1>6

\* An account that is removed leaves its document to the request that removed it.
LEMMA RemoveKeeps ==
    ASSUME IInv, NEW r \in Requests, Remove(r), History(r) PROVE IInv'
<1> DEFINE q == [requests[r] EXCEPT !.pc = "guard"]
<1>1. Shape(requests[r]) /\ Refers(requests[r]) /\ requests[r].pc = "remove"
    BY DEF Remove, At, IInv
<1>2. requests[r].user \in Users
    BY <1>1 DEF Shape
<1>3. accounts' \in [Users -> Account]
    BY <1>2 DEF Remove, IInv, Types, Account, State
<1>4. \A u \in Users : accounts'[u].state = "live" =>
         Live(u) /\ accounts'[u].picture = accounts[u].picture
    BY DEF Remove, IInv, Types, Account, Live
<1>5. CASE requests[r].name # DefaultName
    <2>1. Shape(q)
        BY <1>1, <1>5 DEF Shape, Request, Giving, Replacing, Deleting
    <2>2. Refers(q) /\ q.pc = "guard" /\ q.picture = requests[r].picture
        BY <1>1 DEF Shape, Refers, Request, Giving
    <2>3. Become(r, q)
        BY <1>5 DEF Remove, Goto, isDefaultPicture
    <2> HIDE DEF q
    <2>. QED
        BY <1>3, <1>4, <2>1, <2>2, <2>3, AccountStep DEF Remove, Giving
<1>6. CASE requests[r].name = DefaultName
    <2>1. Idle.picture = None /\ Idle.pc = "idle" /\ Become(r, Idle)
        BY <1>6 DEF Idle, Remove, Finish, isDefaultPicture
    <2>. QED
        BY <1>3, <1>4, <2>1, IdleFacts, AccountStep DEF Remove, Giving
<1>. QED
    BY <1>5, <1>6

-----------------------------------------------------------------------------
(* Files stay with the account they were saved for                         *)

\* A slot without a request is entrusted with nothing.
LEMMA IdleOwns == Entrusted(Idle)
BY NameFacts, NoneAssumption DEF Entrusted, Belongs, Idle, Giving

\* Whose a file is depends on the millisecond of its name.
LEMMA BaseDecides ==
    ASSUME NEW name, NEW other, NEW u, Belongs(name, u),
           name.base = other.base
    PROVE  Belongs(other, u)
BY DEF Belongs

\* A request that only goes on is entrusted with what it was.
LEMMA GoOn ==
    ASSUME NEW p, p.pc \notin Giving, NEW q \in Request, Entrusted(q),
           p = [q EXCEPT !.pc = p.pc],
           p.pc \in {"rename", "overwrite", "readOver", "describe"} =>
             q.pc \in {"rename", "overwrite", "readOver", "describe"}
    PROVE  Entrusted(p)
<1>1. /\ p.picture = q.picture /\ p.user = q.user
      /\ p.name = q.name /\ p.target = q.target
    BY DEF Request
<1>. QED
    BY <1>1 DEF Entrusted

\* A step keeps the agreement if it changes no millisecond in the name of a document,
\* puts on disk what belongs there, and gives accounts and the request what is theirs.
LEMMA KeepOwners ==
    ASSUME IInv, Owned, NEW r \in Requests, NEW q, Become(r, q),
           Entrusted(q), q.pc \in Giving => q.file \in FileIds,
           savers' = savers,
           \A g \in FileIds : files'[g].name.base = files[g].name.base,
           \A u \in Users : Live(u)' =>
               /\ accounts'[u].picture \in FileIds
               /\ Belongs(files[accounts'[u].picture].name, u),
           \A n \in Filename : disk'[n] # None => Belongs(n, disk'[n])
    PROVE  Owned'
<1>1. \A n, u : Belongs(n, u)' <=> Belongs(n, u)
    BY DEF Belongs
<1>2. (\A n \in Filename : disk[n] # None => Belongs(n, disk[n]))'
    BY <1>1
<1>3. (\A u \in Users : Live(u) => Belongs(files[accounts[u].picture].name, u))'
    BY DEF Belongs
<1>4. ASSUME NEW p, Entrusted(p), p.pc \in Giving => p.file \in FileIds
      PROVE  Entrusted(p)'
    BY <1>4 DEF Entrusted, Belongs
<1>5. ASSUME NEW p \in Requests PROVE Entrusted(requests[p])'
    <2>1. requests'[p] = IF p = r THEN q ELSE requests[p]
        BY DEF Become, IInv, Types
    <2>2. CASE p = r
        BY <1>4, <2>1, <2>2
    <2>3. CASE p # r
        <3>1. Entrusted(requests[p])
            BY DEF Owned
        <3>2. requests[p].pc \in Giving => requests[p].file \in FileIds
            BY DEF IInv, Shape
        <3>3. Entrusted(requests[p])'
            BY <1>4, <2>1, <2>3, <3>1, <3>2
        <3>. QED
            BY <3>3
    <2>. QED
        BY <2>2, <2>3
<1>. QED
    BY <1>2, <1>3, <1>5 DEF Owned

\* What a step that leaves them alone leaves to the accounts and on disk.
LEMMA OwnersNow ==
    ASSUME IInv, Owned
    PROVE  /\ UNCHANGED accounts =>
                \A u \in Users : Live(u)' =>
                  /\ accounts'[u].picture \in FileIds
                  /\ Belongs(files[accounts'[u].picture].name, u)
           /\ UNCHANGED disk =>
                \A n \in Filename : disk'[n] # None => Belongs(n, disk'[n])
           /\ UNCHANGED files =>
                \A g \in FileIds : files'[g].name.base = files[g].name.base
BY DEF IInv, Owned, Pictured, Live

\* So does the end of a request.
LEMMA FinishOwns ==
    ASSUME IInv, Owned, NEW r \in Requests, Finish(r),
           UNCHANGED <<accounts, files, disk, saves, savers>>
    PROVE  Owned'
<1>1. Become(r, Idle) /\ Idle.pc \notin Giving
    BY DEF Finish, Idle, Giving
<1>. QED
    BY <1>1, IdleOwns, OwnersNow, KeepOwners

\* And a request that goes on without a document to assign.
LEMMA GotoOwns ==
    ASSUME IInv, Owned, NEW r \in Requests, NEW pc, Goto(r, pc),
           UNCHANGED <<accounts, files, disk, saves, savers>>, pc \notin Giving,
           pc \in {"rename", "overwrite", "readOver", "describe"} =>
             requests[r].pc \in {"rename", "overwrite", "readOver", "describe"}
    PROVE  Owned'
<1> DEFINE q == [requests[r] EXCEPT !.pc = pc]
<1>1. requests[r] \in Request /\ Entrusted(requests[r])
    BY DEF IInv, Shape, Owned
<1>2. q.pc = pc /\ q = [requests[r] EXCEPT !.pc = q.pc] /\ Become(r, q)
    BY <1>1 DEF Request, Goto
<1>. HIDE DEF q
<1>3. Entrusted(q)
    BY <1>1, <1>2, GoOn
<1>. QED
    BY <1>2, <1>3, OwnersNow, KeepOwners

\* A request that starts holds nothing.
LEMMA StartOwns ==
    ASSUME IInv, Owned, NEW r \in Requests,
           Register(r) \/ UpdatePicture(r) \/ DeletePicture(r) \/ Delete(r)
    PROVE  Owned'
<1>1. PICK pc \in {"user", "write", "findDefault"}, op \in Op, u \in Users,
           upload \in Extensions \cup {None} :
        Become(r, [Idle EXCEPT !.pc = pc, !.op = op, !.user = u, !.upload = upload])
    BY DEF Register, UpdatePicture, DeletePicture, Delete, Start, Op
<1> DEFINE q == [Idle EXCEPT !.pc = pc, !.op = op, !.user = u, !.upload = upload]
<1>2. q.pc = pc /\ q.picture = None /\ q.name = DefaultName /\ q.target = DefaultName
    BY DEF Idle
<1>. HIDE DEF q
<1>3. Entrusted(q) /\ q.pc \notin Giving
    BY <1>2, NameFacts, NoneAssumption DEF Entrusted, Belongs, Giving
<1>4. UNCHANGED <<accounts, files, disk, saves, savers>>
    BY DEF Register, UpdatePicture, DeletePicture, Delete, Start
<1>5. Become(r, q)
    BY <1>1 DEF q
<1>. QED
    BY <1>3, <1>4, <1>5, OwnersNow, KeepOwners

\* The picture a request reads is that of its account.
LEMMA ReadUserOwns ==
    ASSUME IInv, Owned, NEW r \in Requests, ReadUser(r)
    PROVE  Owned'
<1> DEFINE u == requests[r].user
           q == [requests[r] EXCEPT !.pc = "file", !.picture = accounts[u].picture]
<1>1. requests[r] \in Request /\ Entrusted(requests[r]) /\ requests[r].pc = "user"
    BY DEF IInv, Shape, Owned, ReadUser, At
<1>2. u \in Users /\ requests[r].name = DefaultName
    BY <1>1 DEF IInv, Shape
<1>3. UNCHANGED <<accounts, files, disk, saves, savers>>
    BY DEF ReadUser
<1>4. CASE Live(u)
    <2>1. /\ q.pc = "file" /\ q.picture = accounts[u].picture /\ q.name = DefaultName
          /\ q.user = u /\ q.target = requests[r].target
        BY <1>1, <1>2 DEF Request
    <2>2. Become(r, q)
        BY <1>4 DEF ReadUser
    <2>3. Belongs(files[accounts[u].picture].name, u)
        BY <1>2, <1>4 DEF Owned
    <2>. HIDE DEF q
    <2>4. Entrusted(q) /\ q.pc \notin Giving
        BY <1>1, <2>1, <2>3, NameFacts DEF Entrusted, Giving
    <2>. QED
        BY <1>3, <2>2, <2>4, OwnersNow, KeepOwners
<1>5. CASE ~Live(u)
    BY <1>3, <1>5, FinishOwns DEF ReadUser
<1>. QED
    BY <1>4, <1>5

\* The name a request reads is that of the document of its account.
LEMMA ReadFileOwns ==
    ASSUME IInv, Owned, NEW r \in Requests, ReadFile(r)
    PROVE  Owned'
<1> DEFINE f == requests[r].picture
           next == NextStep(requests[r].op, files[f].name)
           q == [requests[r] EXCEPT !.pc = next, !.name = files[f].name]
<1>1. /\ requests[r] \in Request /\ Entrusted(requests[r])
      /\ requests[r].pc = "file" /\ f \in FileIds
    BY DEF IInv, Shape, Owned, ReadFile, At
<1>2. UNCHANGED <<accounts, files, disk, saves, savers>>
    BY DEF ReadFile
<1>3. CASE Stored(f) /\ next # "idle"
    <2>1. /\ q.pc = next /\ q.picture = f /\ q.name = files[f].name
          /\ q.user = requests[r].user /\ q.target = requests[r].target
        BY <1>1 DEF Request
    <2>2. Become(r, q)
        BY <1>3 DEF ReadFile
    <2>3. requests[r].op \in {"updatePicture", "deletePicture", "delete"}
        BY <1>1 DEF IInv, Shape, Op
    <2>4. next \in {"write", "exists", "idle", "findDefault", "remove"}
        BY <2>3 DEF NextStep
    <2>. HIDE DEF q, next
    <2>5. Entrusted(q) /\ q.pc \notin Giving
        BY <1>1, <2>1, <2>4 DEF Entrusted, Giving
    <2>. QED
        BY <1>2, <2>2, <2>5, OwnersNow, KeepOwners
<1>4. CASE ~(Stored(f) /\ next # "idle")
    BY <1>2, <1>4, FinishOwns DEF ReadFile
<1>. QED
    BY <1>3, <1>4

\* What a request obtains to assign is the default picture or its account's.
LEMMA ObtainedOwns ==
    ASSUME IInv, Owned, NEW r \in Requests, NEW f \in FileIds,
           Obtained(r, f)
    PROVE  \E q :
             /\ Become(r, q) /\ q.pc \in Giving /\ q.file = f
             /\ q.picture = requests[r].picture /\ q.name = requests[r].name
             /\ q.target = requests[r].target /\ q.user = requests[r].user
<1> DEFINE pc == IF requests[r].op = "register" THEN "insert" ELSE "assign"
           q == [requests[r] EXCEPT !.pc = pc, !.file = f]
<1>1. requests[r] \in Request
    BY DEF IInv, Shape
<1>2. pc \in Giving
    BY DEF Giving
<1>3. Become(r, q)
    BY DEF Obtained
<1>. HIDE DEF pc
<1>4. /\ q.pc = pc /\ q.file = f
      /\ q.picture = requests[r].picture /\ q.name = requests[r].name
      /\ q.target = requests[r].target /\ q.user = requests[r].user
    BY <1>1 DEF Request
<1>. QED
    BY <1>2, <1>3, <1>4

\* The default picture is everybody's.
LEMMA FindDefaultOwns ==
    ASSUME IInv, Owned, NEW r \in Requests, FindDefault(r)
    PROVE  Owned'
<1>1. UNCHANGED <<accounts, files, disk, saves, savers>>
    BY DEF FindDefault
<1>2. ASSUME NEW f \in FileIds, isDefaultPicture(files[f].name), Obtained(r, f)
      PROVE  Owned'
    <2>1. PICK q :
             /\ Become(r, q) /\ q.pc \in Giving /\ q.file = f
             /\ q.picture = requests[r].picture /\ q.name = requests[r].name
             /\ q.target = requests[r].target /\ q.user = requests[r].user
        BY <1>2, ObtainedOwns
    <2>2. Entrusted(requests[r])
        BY DEF Owned
    <2>3. Entrusted(q)
        BY <1>2, <2>1, <2>2, NameFacts DEF Entrusted, Giving, Belongs, isDefaultPicture
    <2>. QED
        BY <1>1, <2>1, <2>3, OwnersNow, KeepOwners
<1>3. CASE Goto(r, "createDefault")
    BY <1>1, <1>3, GotoOwns DEF Giving
<1>. QED
    BY <1>2, <1>3 DEF FindDefault

\* A new document is the default one or describes a file of the account.
LEMMA CreateFileOwns ==
    ASSUME IInv, Owned, NEW r \in Requests, NEW name,
           CreateFile(r, name), UNCHANGED <<accounts, disk, saves, savers>>,
           name = DefaultName \/ name = requests[r].target
    PROVE  Owned'
<1>1. CASE Finish(r) /\ UNCHANGED files
    BY <1>1, FinishOwns
<1>2. ASSUME NEW f \in FileIds, files[f].state = "unborn", Obtained(r, f),
             files' = [files EXCEPT ![f] = [state |-> "live", name |-> name]]
      PROVE  Owned'
    <2>1. PICK q :
             /\ Become(r, q) /\ q.pc \in Giving /\ q.file = f
             /\ q.picture = requests[r].picture /\ q.name = requests[r].name
             /\ q.target = requests[r].target /\ q.user = requests[r].user
        BY <1>2, ObtainedOwns
    <2>2. files'[f].name = name /\ \A g \in FileIds \ {f} : files'[g] = files[g]
        BY <1>2 DEF IInv, Types
    <2>3. \A n, u : Belongs(n, u)' <=> Belongs(n, u)
        BY DEF Belongs
    <2>4. (\A n \in Filename : disk[n] # None => Belongs(n, disk[n]))'
        BY <2>3 DEF Owned
    <2>5. (\A u \in Users : Live(u) => Belongs(files[accounts[u].picture].name, u))'
        BY <1>2, <2>2, <2>3 DEF Owned, IInv, Pictured, Live, Stored
    <2>6. ASSUME NEW p \in Requests \ {r} PROVE Entrusted(requests[p])'
        <3>1. requests'[p] = requests[p]
            BY <2>1 DEF Become
        <3>2. Entrusted(requests[p]) /\ Refers(requests[p])
            BY DEF Owned, IInv
        <3>3. /\ requests[p].picture \in FileIds => requests[p].picture # f
              /\ requests[p].pc \in Giving => requests[p].file # f /\ requests[p].file \in FileIds
              /\ requests[p].name.base \in Times => requests[p].picture \in FileIds
            BY <1>2, <3>2 DEF Refers, Stored, IInv, Shape
        <3>. QED
            BY <2>2, <2>3, <3>1, <3>2, <3>3 DEF Entrusted
    <2>7. Entrusted(requests[r])'
        <3>1. requests'[r] = q
            BY <2>1 DEF Become, IInv, Types
        <3>2. Entrusted(requests[r]) /\ Refers(requests[r])
            BY DEF Owned, IInv
        <3>3. /\ q.picture \in FileIds => q.picture # f
              /\ q.name.base \in Times => q.picture \in FileIds
            BY <1>2, <2>1, <3>2 DEF Refers
        <3>4. Belongs(name, q.user)
            BY <2>1, <3>2, NameFacts DEF Belongs, Entrusted
        <3>. QED
            BY <2>1, <2>2, <2>3, <3>1, <3>2, <3>3, <3>4 DEF Entrusted, Giving
    <2>. QED
        BY <2>4, <2>5, <2>6, <2>7 DEF Owned
<1>. QED
    BY <1>1, <1>2 DEF CreateFile

\* Whoever a millisecond is used for once may have its files from then on.
LEMMA WriteOwns ==
    ASSUME IInv, Owned, NEW r \in Requests, Write(r)
    PROVE  Owned'
<1>1. PICK now \in Times :
        /\ savers' = [savers EXCEPT ![now] = @ \cup {requests[r].user}]
        /\ disk' = [disk EXCEPT ![[base |-> now, ext |-> requests[r].upload]] = requests[r].user]
        /\ Become(r, [requests[r] EXCEPT !.pc = "readBack",
                                         !.target = [base |-> now, ext |-> requests[r].upload]])
    BY DEF Write
<1>2. PICK u, name, q :
        /\ u = requests[r].user /\ name = [base |-> now, ext |-> requests[r].upload]
        /\ q = [requests[r] EXCEPT !.pc = "readBack", !.target = name]
    OBVIOUS
<1>3. /\ requests[r] \in Request /\ requests[r].pc = "write" /\ u \in Users
      /\ requests[r].upload \in Extensions /\ UNCHANGED <<accounts, files>>
    BY <1>2 DEF Write, At, IInv, Shape
<1>4. disk' = [disk EXCEPT ![name] = u] /\ Become(r, q)
    BY <1>1, <1>2
<1>5. name \in Filename /\ name.base = now
    BY <1>2, <1>3 DEF Filename
<1>6. u \in savers'[now] /\ \A t \in Times : savers[t] \subseteq savers'[t]
    BY <1>1, <1>2 DEF IInv, Types
<1>7. \A n, v : Belongs(n, v) => Belongs(n, v)'
    BY <1>6 DEF Belongs
<1>8. Belongs(name, u)'
    BY <1>5, <1>6 DEF Belongs
<1>9. (\A n \in Filename : disk[n] # None => Belongs(n, disk[n]))'
    <2>1. \A n \in Filename : disk'[n] = IF n = name THEN u ELSE disk[n]
        BY <1>4 DEF IInv, Types
    <2>. QED
        BY <1>7, <1>8, <2>1 DEF Owned
<1>10. (\A w \in Users : Live(w) => Belongs(files[accounts[w].picture].name, w))'
    BY <1>3, <1>7 DEF Owned, Live
<1>11. ASSUME NEW p, Entrusted(p) PROVE Entrusted(p)'
    BY <1>3, <1>7, <1>11 DEF Entrusted
<1>12. ASSUME NEW p \in Requests \ {r} PROVE Entrusted(requests[p])'
    <2>1. requests'[p] = requests[p] /\ Entrusted(requests[p])
        BY <1>4 DEF Become, Owned
    <2>2. PICK request : request = requests[p]
        OBVIOUS
    <2>3. Entrusted(request)'
        BY <1>11, <2>1, <2>2
    <2>. QED
        BY <2>1, <2>2, <2>3
<1>13. Entrusted(requests[r])'
    <2>1. requests'[r] = q
        BY <1>4 DEF Become, IInv, Types
    <2>2. /\ q.pc = "readBack" /\ q.target = name /\ q.user = u
          /\ q.picture = requests[r].picture /\ q.name = requests[r].name
        BY <1>2, <1>3 DEF Request
    <2>3. Entrusted(requests[r])
        BY DEF Owned
    <2>4. Entrusted(q)'
        BY <1>2, <1>3, <1>7, <1>8, <2>2, <2>3 DEF Entrusted, Giving
    <2>. QED
        BY <2>1, <2>4
<1>. QED
    BY <1>9, <1>10, <1>12, <1>13 DEF Owned

\* A request that finds the file of its account will write under its millisecond.
LEMMA ExistsOwns ==
    ASSUME IInv, Owned, NEW r \in Requests, Exists(r)
    PROVE  Owned'
<1> DEFINE name == requests[r].name
           target == [name EXCEPT !.ext = requests[r].upload]
           pc == IF target = name THEN "overwrite" ELSE "rename"
           q == [requests[r] EXCEPT !.pc = pc, !.target = target]
<1>1. requests[r] \in Request /\ Entrusted(requests[r]) /\ requests[r].pc = "exists"
    BY DEF IInv, Shape, Owned, Exists, At
<1>2. name \in Filename /\ name.base \in Times /\ requests[r].picture \in FileIds
    BY <1>1 DEF IInv, Shape, Request, Replacing
<1>3. UNCHANGED <<accounts, files, disk, saves, savers>>
    BY DEF Exists
<1>4. CASE disk[name] # None
    <2>1. target.base = name.base
        BY <1>2 DEF Filename
    <2>2. Become(r, q)
        BY <1>4 DEF Exists
    <2>3. pc \in {"overwrite", "rename"}
        OBVIOUS
    <2>. HIDE DEF target, pc
    <2>4. /\ q.pc = pc /\ q.target = target /\ q.name = name
          /\ q.picture = requests[r].picture /\ q.user = requests[r].user
        BY <1>1 DEF Request
    <2>. HIDE DEF q
    <2>5. Belongs(target, q.user)
        BY <1>1, <1>2, <2>1, <2>4 DEF Entrusted, Belongs
    <2>6. Entrusted(q) /\ q.pc \notin Giving
        BY <1>1, <2>1, <2>3, <2>4, <2>5 DEF Entrusted, Giving
    <2>. QED
        BY <1>3, <2>2, <2>6, OwnersNow, KeepOwners
<1>5. CASE disk[name] = None
    BY <1>3, <1>5, FinishOwns DEF Exists
<1>. QED
    BY <1>4, <1>5

\* A file is renamed within its millisecond, and overwritten for its account.
LEMMA DiskOwns ==
    ASSUME IInv, Owned, NEW r \in Requests,
           Rename(r) \/ Overwrite(r) \/ Unlink(r)
    PROVE  Owned'
<1> DEFINE name == requests[r].name
           target == requests[r].target
           u == requests[r].user
<1>1. requests[r] \in Request /\ Entrusted(requests[r])
    BY DEF IInv, Shape, Owned
<1>2. UNCHANGED <<accounts, files, saves, savers>>
    BY DEF Rename, Overwrite, Unlink
<1>3. name \in Filename /\ target \in Filename
    BY <1>1 DEF Request
<1>4. \A n \in Filename : disk'[n] # None => Belongs(n, disk'[n])
    <2>1. CASE UNCHANGED disk
        BY <2>1, OwnersNow
    <2>2. CASE /\ requests[r].pc = "rename" /\ disk[name] # None
               /\ disk' = [disk EXCEPT ![target] = disk[name], ![name] = None]
        <3>1. target.base = name.base
            BY <1>1, <2>2 DEF Entrusted
        <3>2. Belongs(name, disk[name])
            BY <1>3, <2>2 DEF Owned
        <3>3. Belongs(target, disk[name])
            BY <3>1, <3>2, BaseDecides
        <3>4. \A n \in Filename :
                \/ disk'[n] \in {None, disk[n]}
                \/ n = target /\ disk'[n] = disk[name]
            BY <2>2, <1>3 DEF IInv, Types
        <3>. QED
            BY <3>3, <3>4 DEF Owned
    <2>3. CASE disk' = [disk EXCEPT ![target] = u]
        <3>1. Belongs(target, u)
            BY <1>1 DEF Entrusted
        <3>. QED
            BY <1>3, <2>3, <3>1 DEF Owned, IInv, Types
    <2>4. CASE disk' = [disk EXCEPT ![name] = None]
        BY <1>3, <2>4 DEF Owned, IInv, Types
    <2>. QED
        BY <2>1, <2>2, <2>3, <2>4 DEF Rename, Overwrite, Unlink, At
<1>5. PICK q : Become(r, q) /\ Entrusted(q) /\ q.pc \notin Giving
    <2>1. CASE Finish(r)
        BY <2>1, IdleOwns DEF Finish, Idle, Giving
    <2>2. ASSUME NEW pc \in {"overwrite", "readOver"}, Goto(r, pc),
                 requests[r].pc \in {"rename", "overwrite"}
          PROVE  \E q : Become(r, q) /\ Entrusted(q) /\ q.pc \notin Giving
        <3> DEFINE q == [requests[r] EXCEPT !.pc = pc]
        <3>1. q.pc = pc /\ q = [requests[r] EXCEPT !.pc = q.pc] /\ Become(r, q)
            BY <1>1, <2>2 DEF Request, Goto
        <3>. HIDE DEF q
        <3>2. Entrusted(q) /\ q.pc \notin Giving
            BY <1>1, <2>2, <3>1, GoOn DEF Giving
        <3>. QED
            BY <3>1, <3>2
    <2>. QED
        BY <2>1, <2>2 DEF Rename, Overwrite, Unlink, At
<1>. QED
    BY <1>2, <1>4, <1>5, OwnersNow, KeepOwners

\* A document keeps the millisecond of its name.
LEMMA DocumentsKeepBase ==
    ASSUME IInv, Owned, NEW r \in Requests, Describe(r) \/ Erase(r)
    PROVE  Owned'
<1> DEFINE f == requests[r].picture
           target == requests[r].target
<1>1. requests[r] \in Request /\ Entrusted(requests[r]) /\ f \in FileIds
    BY DEF IInv, Shape, Owned, Describe, Erase, At, Replacing, Deleting
<1>2. UNCHANGED <<accounts, disk, saves, savers>>
    BY DEF Describe, Erase
<1>3. \A g \in FileIds : files'[g].name.base = files[g].name.base
    <2>1. CASE UNCHANGED files
        BY <2>1
    <2>2. CASE requests[r].pc = "describe" /\ files' = [files EXCEPT ![f].name = target]
        <3>1. requests[r].name.base \in Times
            BY <2>2 DEF IInv, Shape, Replacing
        <3>2. target.base = files[f].name.base
            BY <1>1, <2>2, <3>1 DEF Entrusted
        <3>3. files'[f].name = target /\ \A g \in FileIds \ {f} : files'[g] = files[g]
            BY <1>1, <2>2 DEF IInv, Types, File
        <3>. QED
            BY <3>2, <3>3
    <2>3. CASE files' = [files EXCEPT ![f].state = "gone"]
        <3>1. \A g \in FileIds : files'[g].name = files[g].name
            BY <2>3 DEF IInv, Types, File
        <3>. QED
            BY <3>1
    <2>. QED
        BY <2>1, <2>2, <2>3 DEF Describe, Erase, At
<1>4. PICK q : Become(r, q) /\ Entrusted(q) /\ q.pc \notin Giving
    <2>1. CASE Finish(r)
        BY <2>1, IdleOwns DEF Finish, Idle, Giving
    <2>2. CASE Goto(r, "unlink")
        <3> DEFINE q == [requests[r] EXCEPT !.pc = "unlink"]
        <3>1. q.pc = "unlink" /\ q = [requests[r] EXCEPT !.pc = q.pc] /\ Become(r, q)
            BY <1>1, <2>2 DEF Request, Goto
        <3>. HIDE DEF q
        <3>2. Entrusted(q) /\ q.pc \notin Giving
            BY <1>1, <3>1, GoOn DEF Giving
        <3>. QED
            BY <3>1, <3>2
    <2>. QED
        BY <2>1, <2>2 DEF Describe, Erase
<1>. QED
    BY <1>2, <1>3, <1>4, OwnersNow, KeepOwners

\* An account gets what its request was about to give it.
LEMMA AccountOwns ==
    ASSUME IInv, Owned, NEW r \in Requests,
           Insert(r) \/ Assign(r) \/ Remove(r)
    PROVE  Owned'
<1> DEFINE u == requests[r].user
           f == requests[r].file
<1>1. requests[r] \in Request /\ Entrusted(requests[r])
    BY DEF IInv, Shape, Owned
<1>2. u \in Users /\ (requests[r].pc \in Giving => f \in FileIds)
    BY DEF Insert, Assign, Remove, At, IInv, Shape
<1>3. UNCHANGED <<files, disk, saves, savers>>
    BY DEF Insert, Assign, Remove
<1>4. \A w \in Users : Live(w)' =>
          /\ accounts'[w].picture \in FileIds
          /\ Belongs(files[accounts'[w].picture].name, w)
    <2>1. CASE UNCHANGED accounts
        BY <2>1, OwnersNow
    <2>2. CASE requests[r].pc \in Giving /\
               \/ accounts' = [accounts EXCEPT ![u] = [state |-> "live", picture |-> f]]
               \/ accounts' = [accounts EXCEPT ![u].picture = f]
        <3>1. f \in FileIds /\ Belongs(files[f].name, u)
            BY <1>1, <1>2, <2>2 DEF Entrusted
        <3>2. accounts'[u].picture = f /\ \A w \in Users \ {u} : accounts'[w] = accounts[w]
            BY <1>2, <2>2 DEF IInv, Types, Account
        <3>. QED
            BY <3>1, <3>2 DEF Owned, IInv, Pictured, Live
    <2>3. CASE accounts' = [accounts EXCEPT ![u].state = "gone"]
        <3>1. accounts'[u].state = "gone" /\ \A w \in Users \ {u} : accounts'[w] = accounts[w]
            BY <1>2, <2>3 DEF IInv, Types, Account
        <3>. QED
            BY <3>1 DEF Owned, IInv, Pictured, Live
    <2>. QED
        BY <2>1, <2>2, <2>3 DEF Insert, Assign, Remove, At, Giving
<1>5. PICK q : Become(r, q) /\ Entrusted(q) /\ q.pc \notin Giving
    <2>1. CASE Finish(r)
        BY <2>1, IdleOwns DEF Finish, Idle, Giving
    <2>2. CASE Goto(r, "guard")
        <3> DEFINE q == [requests[r] EXCEPT !.pc = "guard"]
        <3>1. q.pc = "guard" /\ q = [requests[r] EXCEPT !.pc = q.pc] /\ Become(r, q)
            BY <1>1, <2>2 DEF Request, Goto
        <3>. HIDE DEF q
        <3>2. Entrusted(q) /\ q.pc \notin Giving
            BY <1>1, <3>1, GoOn DEF Giving
        <3>. QED
            BY <3>1, <3>2
    <2>. QED
        BY <2>1, <2>2 DEF Insert, Assign, Remove
<1>. QED
    BY <1>3, <1>4, <1>5, OwnersNow, KeepOwners

\* Every step leaves accounts, documents, requests and disk in agreement.
LEMMA OwnedKeeps == IInv /\ Owned /\ [Next]_vars => Owned'
<1>. SUFFICES ASSUME IInv, Owned, [Next]_vars PROVE Owned'
    OBVIOUS
<1>1. ASSUME NEW r \in Requests, Step(r) PROVE Owned'
    <2>1. CASE Register(r) \/ UpdatePicture(r) \/ DeletePicture(r) \/ Delete(r)
        BY <2>1, StartOwns
    <2>2. CASE ReadUser(r) \/ ReadFile(r) \/ FindDefault(r)
        BY <2>2, ReadUserOwns, ReadFileOwns, FindDefaultOwns
    <2>3. CASE CreateDefault(r)
        BY <2>3, FinishOwns, CreateFileOwns DEF CreateDefault
    <2>4. CASE Document(r)
        BY <2>4, CreateFileOwns DEF Document
    <2>5. CASE Write(r)
        BY <2>5, WriteOwns
    <2>6. CASE ReadBack(r)
        BY <2>6, FinishOwns, GotoOwns DEF ReadBack, Giving
    <2>7. CASE ReadOver(r)
        BY <2>7, FinishOwns, GotoOwns DEF ReadOver, At, Giving
    <2>8. CASE Guard(r)
        BY <2>8, FinishOwns, GotoOwns DEF Guard, Giving
    <2>9. CASE Exists(r) \/ Rename(r) \/ Overwrite(r) \/ Unlink(r)
        BY <2>9, ExistsOwns, DiskOwns
    <2>10. CASE Describe(r) \/ Erase(r)
        BY <2>10, DocumentsKeepBase
    <2>11. CASE Insert(r) \/ Assign(r) \/ Remove(r)
        BY <2>11, AccountOwns
    <2>. QED
        BY <1>1, <2>1, <2>2, <2>3, <2>4, <2>5, <2>6, <2>7, <2>8, <2>9, <2>10, <2>11 DEF Step
<1>2. CASE UNCHANGED vars
    BY <1>2 DEF vars, Owned, Entrusted, Belongs, Live
<1>. QED
    BY <1>1, <1>2 DEF Next

-----------------------------------------------------------------------------
(* Requests that follow each other                                         *)

\* What a request fits does not change by itself.
LEMMA Still ==
    ASSUME NEW q, Fits(q), UNCHANGED <<accounts, files, disk, saves, savers>> PROVE Fits(q)'
<1>1. Distinct' /\ Shown(q)' /\ Kept(q)' /\ Documented(q)'
    BY DEF Fits, Distinct, Shown, Kept, Documented, Live, Stored
<1>2. Course(q)' /\ Current(q)' /\ Lasting(q)'
    BY DEF Fits, Course, Current, Lasting, Live, Stored
<1>. QED
    BY <1>1, <1>2 DEF Fits

\* Where everything has its document and its file, any request fits that knows what is so.
LEMMA Plain ==
    ASSUME NEW p, Fits(p), p.pc \notin Exempt,
           NEW q, Course(q), Current(q), Lasting(q)
    PROVE  Fits(q)
<1>1. Shown(q) /\ Kept(q) /\ Documented(q)
    BY DEF Fits, Shown, Kept, Documented, Exempt
<1>. QED
    BY <1>1 DEF Fits

\* A slot without a request knows nothing.
LEMMA IdleKnows == ASSUME NEW q, q.pc = "idle" PROVE Course(q) /\ Current(q) /\ Lasting(q)
BY DEF Course, Current, Lasting, Giving, Replacing, Deleting, Over

\* So a request may end there.
LEMMA MayEnd == ASSUME NEW p, Fits(p), p.pc \notin Exempt PROVE Fits(Idle)
BY Plain, IdleKnows DEF Idle

\* What a slot without a request fits, every such slot fits.
LEMMA Slots == ASSUME NEW p, NEW q, Fits(p)', p.pc = "idle", q.pc = "idle" PROVE Fits(q)'
<1>1. Shown(q)' /\ Kept(q)' /\ Documented(q)'
    BY DEF Fits, Shown, Kept, Documented, Giving, Over
<1>2. Course(q)' /\ Current(q)' /\ Lasting(q)'
    BY DEF Course, Current, Lasting, Giving, Replacing, Deleting, Over
<1>. QED
    BY <1>1, <1>2 DEF Fits

\* A request that starts.
LEMMA StartFits ==
    ASSUME IInv, NEW r \in Requests, Fits(requests[r]),
           Register(r) \/ UpdatePicture(r) \/ DeletePicture(r) \/ Delete(r)
    PROVE  \E q : Become(r, q) /\ Fits(q)'
<1>1. requests[r].pc = "idle" /\ UNCHANGED <<accounts, files, disk, saves, savers>>
    BY DEF Register, UpdatePicture, DeletePicture, Delete, Start, At
<1>2. requests[r].pc \notin Exempt
    BY <1>1 DEF Exempt, Giving, Over
<1>3. CASE Register(r)
    <2>1. PICK u \in Users, upload \in Extensions \cup {None} :
            /\ accounts[u].state = "unborn"
            /\ Become(r, [Idle EXCEPT !.pc = IF upload = None THEN "findDefault" ELSE "write",
                                      !.op = "register", !.user = u, !.upload = upload])
        BY <1>3 DEF Register
    <2> DEFINE q == [Idle EXCEPT !.pc = IF upload = None THEN "findDefault" ELSE "write",
                                 !.op = "register", !.user = u, !.upload = upload]
    <2>2. q.pc \in {"findDefault", "write"} /\ q.op = "register" /\ q.user = u
        BY DEF Idle
    <2>3. Become(r, q)
        BY <2>1
    <2>. HIDE DEF q
    <2>4. Course(q) /\ Current(q) /\ Lasting(q)
        BY <2>1, <2>2
        DEF Course, Current, Lasting, Live, Giving, Replacing, Deleting, Over
    <2>5. Fits(q)'
        BY <1>1, <1>2, <2>4, Plain, Still
    <2>. QED
        BY <2>3, <2>5
<1>4. CASE UpdatePicture(r) \/ DeletePicture(r) \/ Delete(r)
    <2>1. PICK op \in Op \ {"register"}, upload \in Extensions \cup {None} : Start(r, op, upload)
        BY <1>4 DEF UpdatePicture, DeletePicture, Delete, Op
    <2>2. PICK u \in Users :
            Become(r, [Idle EXCEPT !.pc = "user", !.op = op, !.user = u, !.upload = upload])
        BY <2>1 DEF Start
    <2> DEFINE q == [Idle EXCEPT !.pc = "user", !.op = op, !.user = u, !.upload = upload]
    <2>3. q.pc = "user" /\ q.op = op
        BY DEF Idle
    <2>4. Become(r, q)
        BY <2>2
    <2>. HIDE DEF q
    <2>5. Course(q) /\ Current(q) /\ Lasting(q)
        BY <2>1, <2>3 DEF Course, Current, Lasting, Giving, Replacing, Deleting, Over
    <2>6. Fits(q)'
        BY <1>1, <1>2, <2>5, Plain, Still
    <2>. QED
        BY <2>4, <2>6
<1>. QED
    BY <1>3, <1>4

\* A request that reads its account and the document of its picture.
LEMMA ReadFits ==
    ASSUME IInv, NEW r \in Requests, Fits(requests[r]), ReadUser(r) \/ ReadFile(r)
    PROVE  \E q : Become(r, q) /\ Fits(q)'
<1> DEFINE p == requests[r]
<1>1. p \in Request /\ Shape(p) /\ p.pc \in {"user", "file"} /\ p.op # "register"
    BY DEF IInv, Shape, ReadUser, ReadFile, At
<1>2. UNCHANGED <<accounts, files, disk, saves, savers>> /\ p.pc \notin Exempt
    BY <1>1 DEF ReadUser, ReadFile, Exempt, Giving, Over
<1>3. CASE Finish(r)
    BY <1>2, <1>3, MayEnd, Still DEF Finish
<1>4. CASE ReadUser(r) /\ ~Finish(r)
    <2>1. PICK q : q = [p EXCEPT !.pc = "file", !.picture = accounts[p.user].picture]
        OBVIOUS
    <2>2. /\ Live(p.user) /\ Become(r, q)
          /\ q.pc = "file" /\ q.op = p.op /\ q.user = p.user
          /\ q.picture = accounts[p.user].picture
        BY <1>1, <1>4, <2>1 DEF ReadUser, Request
    <2>3. Course(q) /\ Current(q) /\ Lasting(q)
        BY <1>1, <2>2 DEF Course, Current, Lasting, Giving, Replacing, Deleting, Over
    <2>4. Fits(q)'
        BY <1>2, <2>3, Plain, Still
    <2>. QED
        BY <2>2, <2>4
<1>5. CASE ReadFile(r) /\ ~Finish(r)
    <2> DEFINE name == files[p.picture].name
               next == NextStep(p.op, name)
    <2>0. PICK q : q = [p EXCEPT !.pc = next, !.name = name]
        OBVIOUS
    <2>1. Stored(p.picture) /\ Become(r, q) /\ p.pc = "file" /\ next # "idle"
        BY <1>5, <2>0 DEF ReadFile, At
    <2>2. q.pc = next /\ q.op = p.op /\ q.user = p.user /\ q.picture = p.picture /\ q.name = name
        BY <1>1, <2>0 DEF Request
    <2>3. p.op \in {"updatePicture", "deletePicture", "delete"}
        BY <1>1 DEF Shape, Op, Request
    <2>4. \/ p.op = "updatePicture" /\ next = "write" /\ name = DefaultName
          \/ p.op = "updatePicture" /\ next = "exists"
          \/ p.op = "deletePicture" /\ next = "findDefault"
          \/ p.op = "delete" /\ next = "remove"
        BY <2>1, <2>3 DEF NextStep, isDefaultPicture
    <2>5. Live(p.user) /\ accounts[p.user].picture = p.picture
        BY <1>1, <2>1 DEF Fits, Current, Deleting
    <2>. HIDE DEF next, name
    <2>6. Course(q)
        BY <2>2, <2>4 DEF Course, Replacing, Deleting
    <2>7. Current(q)
        BY <2>1, <2>2, <2>4, <2>5 DEF Current, Deleting, name
    <2>8. Lasting(q)
        BY <2>2, <2>4 DEF Lasting, Giving, Over
    <2>9. Fits(q)'
        BY <1>2, <2>6, <2>7, <2>8, Plain, Still
    <2>. QED
        BY <2>1, <2>9
<1>. QED
    BY <1>3, <1>4, <1>5

\* A request that is about to assign a document.
LEMMA Obtains ==
    ASSUME IInv, NEW r \in Requests, NEW f \in FileIds, Obtained(r, f),
           Course(requests[r]), requests[r].pc \in {"findDefault", "createDefault", "document"}
    PROVE  \E q :
             /\ Become(r, q) /\ Course(q) /\ q.pc \in Giving /\ q.file = f
             /\ q.op = requests[r].op /\ q.user = requests[r].user
             /\ q.picture = requests[r].picture /\ q.name = requests[r].name
             /\ q.op = "updatePicture" => requests[r].pc = "document"
<1> DEFINE p == requests[r]
           pc == IF p.op = "register" THEN "insert" ELSE "assign"
<1>1. PICK q : q = [p EXCEPT !.pc = pc, !.file = f]
    OBVIOUS
<1>2. p \in Request
    BY DEF IInv, Shape
<1>3. /\ Become(r, q) /\ q.pc = pc /\ q.file = f
      /\ q.op = p.op /\ q.user = p.user /\ q.picture = p.picture /\ q.name = p.name
    BY <1>1, <1>2 DEF Obtained, Request
<1>4. Course(q) /\ q.pc \in Giving
    BY <1>3 DEF Course, Giving, Replacing, Deleting
<1>5. q.op = "updatePicture" => p.pc = "document"
    BY <1>3 DEF Course
<1>. QED
    BY <1>3, <1>4, <1>5

\* A request that finds the default picture, or learns that there is none.
LEMMA FindDefaultFits ==
    ASSUME IInv, NEW r \in Requests, Fits(requests[r]), FindDefault(r)
    PROVE  \E q : Become(r, q) /\ Fits(q)'
<1> DEFINE p == requests[r]
<1>1. p \in Request /\ p.pc = "findDefault" /\ p.pc \notin Exempt
    BY DEF IInv, Shape, FindDefault, At, Exempt, Giving, Over
<1>2. UNCHANGED <<accounts, files, disk, saves, savers>> /\ Course(p) /\ Current(p)
    BY DEF FindDefault, Fits
<1>3. ASSUME NEW f \in FileIds, isDefaultPicture(files[f].name), Obtained(r, f)
      PROVE  \E q : Become(r, q) /\ Fits(q)'
    <2>1. PICK q :
             /\ Become(r, q) /\ Course(q) /\ q.pc \in Giving /\ q.file = f
             /\ q.op = p.op /\ q.user = p.user /\ q.picture = p.picture /\ q.name = p.name
             /\ q.op = "updatePicture" => p.pc = "document"
        BY <1>1, <1>2, <1>3, Obtains
    <2>2. Current(q)
        BY <1>1, <1>2, <2>1 DEF Current, Giving, Deleting
    <2>3. disk[files[f].name] # None
        BY <1>3, ContentAssumption DEF isDefaultPicture, IInv, DefaultIntact
    <2>4. Lasting(q)
        BY <2>1, <2>3 DEF Lasting, Giving, Over
    <2>5. Fits(q)'
        BY <1>1, <1>2, <2>1, <2>2, <2>4, Plain, Still
    <2>. QED
        BY <2>1, <2>5
<1>4. CASE Goto(r, "createDefault")
    <2>1. PICK q : q = [p EXCEPT !.pc = "createDefault"]
        OBVIOUS
    <2>2. /\ Become(r, q) /\ q.pc = "createDefault"
          /\ q.op = p.op /\ q.user = p.user /\ q.picture = p.picture /\ q.name = p.name
        BY <1>1, <1>4, <2>1 DEF Goto, Request
    <2>3. Course(q) /\ Current(q) /\ Lasting(q)
        BY <1>1, <1>2, <2>2
        DEF Course, Current, Lasting, Giving, Replacing, Deleting, Over
    <2>4. Fits(q)'
        BY <1>1, <1>2, <2>3, Plain, Still
    <2>. QED
        BY <2>2, <2>4
<1>. QED
    BY <1>3, <1>4 DEF FindDefault

\* A document is created for the default picture or for the file just stored.
LEMMA CreateFileFits ==
    ASSUME IInv, NEW r \in Requests, Fits(requests[r]), ~Failing(r),
           NEW name \in Filename, disk[name] # None, CreateFile(r, name),
           UNCHANGED <<accounts, disk, saves, savers>>,
           \/ requests[r].pc = "createDefault" /\ name = DefaultName
           \/ requests[r].pc = "document" /\ name = requests[r].target
    PROVE  \E q : Become(r, q) /\ Fits(q)'
<1> DEFINE p == requests[r]
<1>1. Course(p) /\ Current(p) /\ Lasting(p) /\ Distinct /\ Shape(p)
    BY DEF Fits, IInv
<1>2. CASE Taken(name, None)
    <2>1. p.pc = "createDefault"
        <3>1. p.pc # "idle" => requests'[r].pc = "idle"
            BY <1>2 DEF CreateFile, Finish, Become, Idle, IInv, Types
        <3>. QED
            BY <3>1 DEF Failing
    <2>2. p.pc \notin Exempt /\ Finish(r) /\ UNCHANGED files
        BY <1>2, <2>1 DEF Exempt, Giving, Over, CreateFile
    <2>. QED
        BY <2>2, MayEnd, Still DEF Finish
<1>3. CASE ~Taken(name, None)
    <2>1. PICK f \in FileIds :
            /\ files[f].state = "unborn"
            /\ files' = [files EXCEPT ![f] = [state |-> "live", name |-> name]]
            /\ Obtained(r, f)
        BY <1>3 DEF CreateFile
    <2>2. /\ files'[f].state = "live" /\ files'[f].name = name /\ ~Stored(f) /\ Stored(f)'
          /\ \A g \in FileIds \ {f} :
                files'[g] = files[g] /\ (Stored(g)' <=> Stored(g))
        BY <2>1 DEF IInv, Types, Stored
    <2>3. PICK q :
             /\ Become(r, q) /\ Course(q) /\ q.pc \in Giving /\ q.file = f
             /\ q.op = p.op /\ q.user = p.user /\ q.picture = p.picture /\ q.name = p.name
             /\ q.op = "updatePicture" => p.pc = "document"
        BY <1>1, <2>1, Obtains
    <2>4. p.pc \notin {"guard", "erase", "unlink"} \cup Giving \cup Over
        BY DEF Giving, Over
    <2>5. \A g \in FileIds : Stored(g) /\ g # None => files[g].name # name
        BY <1>3 DEF Taken
    <2>6. Distinct'
        BY <1>1, <2>2, <2>5, NoneAssumption DEF Distinct
    <2>7. Shown(q)'
        <3>1. ASSUME NEW u \in Users, Live(u)
              PROVE  disk[files'[accounts[u].picture].name] # None
            <4>1. accounts[u].picture \in FileIds \ {f}
                BY <2>2, <3>1 DEF IInv, Pictured
            <4>. QED
                BY <2>2, <2>4, <3>1, <4>1 DEF Fits, Shown
        <3>. QED
            BY <3>1 DEF Shown, Live
    <2>8. Kept(q)'
        <3>1. ASSUME NEW g \in FileIds \ {f}, Stored(g), files[g].name.base \in Times
              PROVE  \E u \in Users : Live(u) /\ accounts[u].picture = g
            BY <2>4, <3>1 DEF Fits, Kept
        <3>. QED
            BY <2>2, <2>3, <3>1 DEF Kept, Live
    <2>9. Documented(q)'
        <3>1. ASSUME NEW n \in Filename, disk[n] # None, n # DefaultName, n # name
              PROVE  \E g \in FileIds \ {f} : Stored(g) /\ files[g].name = n
            BY <2>2, <2>4, <3>1 DEF Fits, Documented
        <3>. QED
            BY <2>2, <3>1 DEF Documented
    <2>10. Current(q)'
        <3>1. ~Live(q.user) => ~Live(q.user)'
            BY DEF Live
        <3>2. Live(q.user) /\ accounts[q.user].picture = q.picture =>
                (Live(q.user) /\ accounts[q.user].picture = q.picture)'
            BY DEF Live
        <3>3. CASE q.op = "register"
            BY <1>1, <2>3, <3>1, <3>3 DEF Current
        <3>4. CASE q.op # "register"
            <4>1. /\ Live(q.user) /\ accounts[q.user].picture = q.picture
                  /\ Stored(q.picture) /\ files[q.picture].name = q.name
                BY <1>1, <2>3, <3>4 DEF Current, Deleting
            <4>2. q.user \in Users
                BY <1>1, <2>3 DEF Shape
            <4>3. q.picture \in FileIds \ {f}
                BY <2>2, <4>1, <4>2 DEF IInv, Pictured
            <4>4. (Stored(q.picture) /\ files[q.picture].name = q.name)'
                BY <2>2, <4>1, <4>3
            <4>5. q.op = "updatePicture" => q.name = DefaultName
                BY <1>1, <2>3 DEF Current
            <4>. QED
                BY <2>3, <3>2, <3>4, <4>1, <4>4, <4>5 DEF Current
        <3>. QED
            BY <3>3, <3>4
    <2>11. Lasting(q)'
        BY <2>2, <2>3 DEF Lasting, Giving, Over
    <2>12. Course(q)'
        BY <2>3 DEF Course
    <2>. QED
        BY <2>3, <2>6, <2>7, <2>8, <2>9, <2>10, <2>11, <2>12 DEF Fits
<1>. QED
    BY <1>2, <1>3

\* The default picture is on disk; the stored file is, too.
LEMMA CreateFits ==
    ASSUME IInv, NEW r \in Requests, Fits(requests[r]), ~Failing(r),
           CreateDefault(r) \/ Document(r)
    PROVE  \E q : Become(r, q) /\ Fits(q)'
<1> DEFINE p == requests[r]
<1>1. CASE CreateDefault(r)
    <2>1. disk[DefaultName] # None
        BY ContentAssumption DEF IInv, DefaultIntact
    <2>. QED
        BY <1>1, <2>1, NameFacts, CreateFileFits DEF CreateDefault, At
<1>2. CASE Document(r)
    <2>1. p.target \in Filename /\ p.pc = "document" /\ disk[p.target] # None
        BY <1>2 DEF IInv, Shape, Request, Document, At, Fits, Lasting
    <2>. QED
        BY <1>2, <2>1, CreateFileFits DEF Document
<1>. QED
    BY <1>1, <1>2

\* A file is written, over another one perhaps, which is then still there.
LEMMA WriteFits ==
    ASSUME IInv, NEW r \in Requests, Fits(requests[r]), Write(r)
    PROVE  \E q : Become(r, q) /\ Fits(q)'
<1> DEFINE p == requests[r]
<1>1. PICK now \in Times :
        /\ disk' = [disk EXCEPT ![[base |-> now, ext |-> p.upload]] = p.user]
        /\ Become(r, [p EXCEPT !.pc = "readBack", !.target = [base |-> now, ext |-> p.upload]])
    BY DEF Write
<1>2. PICK name, q : /\ name = [base |-> now, ext |-> p.upload]
                     /\ q = [p EXCEPT !.pc = "readBack", !.target = name]
    OBVIOUS
<1>3. /\ p.pc = "write" /\ disk' = [disk EXCEPT ![name] = p.user]
      /\ Become(r, q) /\ UNCHANGED <<accounts, files>>
    BY <1>1, <1>2 DEF Write, At
<1>4. p \in Request /\ p.upload \in Extensions /\ p.user \in Users
    BY <1>3 DEF IInv, Shape
<1>5. name \in Filename
    BY <1>2, <1>4 DEF Filename
<1>6. /\ q.pc = "readBack" /\ q.target = name
      /\ q.op = p.op /\ q.user = p.user /\ q.picture = p.picture /\ q.name = p.name
    BY <1>2, <1>4 DEF Request
<1>7. disk'[name] # None /\ \A n \in Filename \ {name} : disk'[n] = disk[n]
    BY <1>3, <1>4, <1>5, NoneAssumption DEF IInv, Types
<1>8. Distinct'
    BY <1>3 DEF Fits, Distinct, Stored
<1>9. Shown(q)'
    <2>1. ASSUME NEW u \in Users, Live(u)
          PROVE  disk'[files[accounts[u].picture].name] # None
        <3> DEFINE n == files[accounts[u].picture].name
        <3>1. n \in Filename
            BY <2>1 DEF IInv, Pictured, Types, File
        <3>2. disk[n] # None
            BY <1>3, <2>1 DEF Fits, Shown, Over
        <3>. QED
            BY <1>7, <3>1, <3>2
    <2>. QED
        BY <1>3, <2>1 DEF Shown, Live
<1>10. Kept(q)'
    BY <1>3, <1>6 DEF Fits, Kept, Live, Stored, Giving
<1>11. Documented(q)'
    <2>1. ASSUME NEW n \in Filename, disk[n] # None, n # DefaultName
          PROVE  \E f \in FileIds : Stored(f) /\ files[f].name = n
        BY <1>3, <2>1 DEF Fits, Documented, Over
    <2>. QED
        BY <1>3, <1>6, <1>7, <2>1 DEF Documented, Stored
<1>12. Course(q)' /\ Current(q)'
    BY <1>3, <1>6 DEF Fits, Course, Current, Live, Stored, Replacing, Deleting
<1>13. Lasting(q)'
    BY <1>6, <1>7 DEF Lasting, Giving, Over
<1>. QED
    BY <1>3, <1>8, <1>9, <1>10, <1>11, <1>12, <1>13 DEF Fits

\* A file that was stored is read back.
LEMMA ReadBackFits ==
    ASSUME IInv, NEW r \in Requests, Fits(requests[r]), ~Failing(r), ReadBack(r) \/ ReadOver(r)
    PROVE  \E q : Become(r, q) /\ Fits(q)'
<1> DEFINE p == requests[r]
<1>1. p \in Request /\ p.pc \in {"readBack", "readOver"}
    BY DEF IInv, Shape, ReadBack, ReadOver, At
<1>2. UNCHANGED <<accounts, files, disk, saves, savers>>
    BY DEF ReadBack, ReadOver
<1>3. ~Finish(r)
    BY <1>1 DEF Failing, Finish, Become, Idle, IInv, Types
<1>4. PICK pc : /\ Goto(r, pc)
                /\ \/ p.pc = "readBack" /\ pc = "document"
                   \/ p.pc = "readOver" /\ pc = "describe"
    BY <1>3 DEF ReadBack, ReadOver, At
<1>5. PICK q : q = [p EXCEPT !.pc = pc]
    OBVIOUS
<1>6. /\ Become(r, q) /\ q.pc = pc /\ q.op = p.op /\ q.user = p.user
      /\ q.picture = p.picture /\ q.name = p.name /\ q.target = p.target
    BY <1>1, <1>4, <1>5 DEF Goto, Request
<1>7. Shown(q) /\ Kept(q) /\ Documented(q)
    BY <1>4, <1>6 DEF Fits, Shown, Kept, Documented, Giving, Over
<1>8. Course(q) /\ Current(q)
    BY <1>4, <1>6 DEF Fits, Course, Current, Replacing, Deleting
<1>9. Lasting(q)
    BY <1>4, <1>6 DEF Fits, Lasting, Giving, Over
<1>10. Fits(q)'
    BY <1>2, <1>7, <1>8, <1>9, Still DEF Fits
<1>. QED
    BY <1>6, <1>10

\* A registration gives the account the document it obtained.
LEMMA InsertFits ==
    ASSUME IInv, NEW r \in Requests, Fits(requests[r]), ~Failing(r), Insert(r)
    PROVE  \E q : Become(r, q) /\ Fits(q)'
<1> DEFINE p == requests[r]
<1>0. PICK u, f : u = p.user /\ f = p.file
    OBVIOUS
<1>1. p.pc = "insert" /\ p.op = "register" /\ u \in Users /\ f \in FileIds /\ ~Live(u)
    BY <1>0 DEF Insert, At, IInv, Shape, Giving, Fits, Course, Current
<1>2. /\ accounts' = [accounts EXCEPT ![u] = [state |-> "live", picture |-> f]]
      /\ UNCHANGED <<files, disk, saves, savers>> /\ Become(r, Idle)
    BY <1>0, <1>1 DEF Insert, Failing, At, Finish
<1>3. /\ Live(u)' /\ accounts'[u].picture = f
      /\ \A w \in Users \ {u} : accounts'[w] = accounts[w] /\ (Live(w)' <=> Live(w))
    BY <1>1, <1>2 DEF IInv, Types, Live
<1>4. Shown(Idle)'
    <2>1. disk[files[f].name] # None
        BY <1>0, <1>1 DEF Fits, Lasting, Giving
    <2>2. ASSUME NEW w \in Users \ {u}, Live(w)
          PROVE  disk[files[accounts[w].picture].name] # None
        BY <1>1, <2>2 DEF Fits, Shown, Over
    <2>. QED
        BY <1>2, <1>3, <2>1, <2>2 DEF Shown
<1>5. Kept(Idle)'
    <2>1. ASSUME NEW g \in FileIds \ {f}, Stored(g), files[g].name.base \in Times
          PROVE  \E w \in Users \ {u} : Live(w) /\ accounts[w].picture = g
        BY <1>0, <1>1, <2>1 DEF Fits, Kept
    <2>. QED
        BY <1>1, <1>2, <1>3, <2>1 DEF Kept, Stored
<1>6. Documented(Idle)' /\ Distinct'
    BY <1>1, <1>2 DEF Fits, Documented, Distinct, Stored, Over
<1>7. Course(Idle)' /\ Current(Idle)' /\ Lasting(Idle)'
    BY DEF Idle, Course, Current, Lasting, Giving, Replacing, Deleting, Over
<1>. QED
    BY <1>2, <1>4, <1>5, <1>6, <1>7 DEF Fits

\* An account gets the document its request obtained; the one it had is the default
\* one or about to be deleted.
LEMMA AssignFits ==
    ASSUME IInv, NEW r \in Requests, Fits(requests[r]), Assign(r)
    PROVE  \E q : Become(r, q) /\ Fits(q)'
<1> DEFINE p == requests[r]
<1>0. PICK u, f : u = p.user /\ f = p.file
    OBVIOUS
<1>1. /\ p \in Request /\ p.pc = "assign" /\ u \in Users /\ f \in FileIds
      /\ p.op \in {"updatePicture", "deletePicture"}
    BY <1>0 DEF Assign, At, IInv, Shape, Giving, Fits, Course
<1>2. /\ Live(u) /\ accounts[u].picture = p.picture
      /\ Stored(p.picture) /\ files[p.picture].name = p.name
      /\ p.op = "updatePicture" => p.name = DefaultName
    BY <1>0, <1>1 DEF Fits, Current, Deleting
<1>3. /\ accounts' = [accounts EXCEPT ![u].picture = f] /\ UNCHANGED <<files, disk, saves, savers>>
    BY <1>0, <1>2 DEF Assign
<1>4. /\ Live(u)' /\ accounts'[u].picture = f
      /\ \A w \in Users \ {u} : accounts'[w] = accounts[w] /\ (Live(w)' <=> Live(w))
    BY <1>1, <1>2, <1>3 DEF IInv, Types, Live, Account
<1>5. PICK q :
        /\ Become(r, q) /\ q.pc = IF p.op = "deletePicture" THEN "guard" ELSE "idle"
        /\ q.pc = "guard" => q.op = p.op /\ q.picture = p.picture /\ q.name = p.name
    <2>1. CASE p.op = "deletePicture"
        <3>1. PICK q : q = [p EXCEPT !.pc = "guard"]
            OBVIOUS
        <3>. QED
            BY <1>1, <2>1, <3>1 DEF Assign, Goto, Request
    <2>2. CASE p.op # "deletePicture"
        BY <2>2 DEF Assign, Finish, Idle
    <2>. QED
        BY <2>1, <2>2
<1>6. Shown(q)'
    <2>1. disk[files[f].name] # None
        BY <1>0, <1>1 DEF Fits, Lasting, Giving
    <2>2. ASSUME NEW w \in Users \ {u}, Live(w)
          PROVE  disk[files[accounts[w].picture].name] # None
        BY <1>1, <2>2 DEF Fits, Shown, Over
    <2>. QED
        BY <1>3, <1>4, <2>1, <2>2 DEF Shown
<1>7. Kept(q)'
    <2>1. ASSUME NEW g \in FileIds \ {f, p.picture}, Stored(g), files[g].name.base \in Times
          PROVE  \E w \in Users \ {u} : Live(w) /\ accounts[w].picture = g
        BY <1>0, <1>1, <1>2, <2>1 DEF Fits, Kept
    <2>2. (q.pc = "guard" /\ q.picture = p.picture) \/ files[p.picture].name.base = None
        BY <1>1, <1>2, <1>5, NameFacts
    <2>. QED
        BY NoneAssumption, <1>1, <1>3, <1>4, <2>1, <2>2 DEF Kept, Stored
<1>8. Documented(q)' /\ Distinct'
    BY <1>1, <1>3, <1>5 DEF Fits, Documented, Distinct, Stored, Over
<1>9. Course(q)' /\ Current(q)' /\ Lasting(q)'
    BY <1>2, <1>3, <1>5
    DEF Course, Current, Lasting, Stored, Giving, Replacing, Deleting, Over
<1>. QED
    BY <1>5, <1>6, <1>7, <1>8, <1>9 DEF Fits

\* The one document with the name of the picture being replaced is that of the account.
LEMMA OneDocument ==
    ASSUME IInv, NEW p, Fits(p), Shape(p),
           p.pc \in Replacing \/ p.pc \in {"guard", "erase"}
    PROVE  /\ p.name \in Filename /\ p.name.base \in Times /\ p.picture \in FileIds
           /\ Stored(p.picture) /\ files[p.picture].name = p.name
           /\ \A g \in FileIds : Stored(g) /\ files[g].name = p.name => g = p.picture
<1>1. p \in Request /\ p.name.base \in Times /\ p.picture \in FileIds
    BY DEF Shape, Replacing, Deleting
<1>2. Stored(p.picture) /\ files[p.picture].name = p.name
    BY DEF Fits, Course, Current, Replacing, Deleting
<1>3. \A g \in FileIds : Stored(g) /\ files[g].name = p.name => g = p.picture
    BY <1>1, <1>2 DEF Fits, Distinct
<1>. QED
    BY <1>1, <1>2, <1>3 DEF Request

\* The file is there: it is written over or renamed.
LEMMA ExistsFits ==
    ASSUME IInv, NEW r \in Requests, Fits(requests[r]), Exists(r)
    PROVE  \E q : Become(r, q) /\ Fits(q)'
<1> DEFINE p == requests[r]
<1>1. /\ Shape(p) /\ p \in Request /\ p.pc = "exists" /\ p.pc \notin Exempt
      /\ p.op = "updatePicture" /\ UNCHANGED <<accounts, files, disk, saves, savers>>
    BY DEF Exists, At, IInv, Shape, Exempt, Giving, Over
<1>2. CASE Finish(r)
    BY <1>1, <1>2, MayEnd, Still DEF Finish
<1>3. CASE ~Finish(r)
    <2>1. PICK target : target = [p.name EXCEPT !.ext = p.upload]
        OBVIOUS
    <2>2. PICK q : q = [p EXCEPT !.pc = IF target = p.name THEN "overwrite" ELSE "rename",
                                 !.target = target]
        OBVIOUS
    <2>3. /\ Become(r, q) /\ q.pc \in {"overwrite", "rename"}
          /\ q.pc = "overwrite" <=> target = p.name
          /\ q.op = p.op /\ q.user = p.user /\ q.picture = p.picture /\ q.name = p.name
          /\ q.target = target
        BY <1>1, <1>3, <2>1, <2>2 DEF Exists, Request
    <2>4. target.base = p.name.base
        BY <1>1, <2>1 DEF Request, Filename
    <2>5. Course(q) /\ Lasting(q)
        BY <1>1, <2>3, <2>4 DEF Course, Lasting, Giving, Replacing, Deleting, Over
    <2>6. Current(q)
        BY <1>1, <2>3 DEF Fits, Current, Deleting
    <2>7. Fits(q)'
        BY <1>1, <2>5, <2>6, Plain, Still
    <2>. QED
        BY <2>3, <2>7
<1>. QED
    BY <1>2, <1>3

\* The file gets the new extension before its document does.
LEMMA RenameFits ==
    ASSUME IInv, NEW r \in Requests, Fits(requests[r]), Rename(r)
    PROVE  \E q : Become(r, q) /\ Fits(q)'
<1> DEFINE p == requests[r]
<1>1. /\ Shape(p) /\ p \in Request /\ p.pc = "rename" /\ p.pc \notin Exempt
      /\ UNCHANGED <<accounts, files, saves, savers>>
    BY DEF Rename, At, IInv, Shape, Exempt, Giving, Over
<1>2. CASE disk[p.name] = None
    BY <1>1, <1>2, MayEnd, Still DEF Rename, Finish
<1>3. CASE disk[p.name] # None
    <2>1. PICK q : q = [p EXCEPT !.pc = "overwrite"]
        OBVIOUS
    <2>2. /\ Become(r, q) /\ q.pc = "overwrite" /\ q.op = p.op /\ q.user = p.user
          /\ q.picture = p.picture /\ q.name = p.name /\ q.target = p.target
        BY <1>1, <1>3, <2>1 DEF Rename, Goto, Request
    <2>3. p.target # p.name /\ p.target.base = p.name.base /\ p.target \in Filename
        BY <1>1 DEF Fits, Lasting, Request
    <2>4. /\ p.name \in Filename /\ p.name.base \in Times
          /\ \A g \in FileIds : Stored(g) /\ files[g].name = p.name => g = p.picture
        BY <1>1, OneDocument DEF Replacing
    <2>5. /\ disk'[p.name] = None /\ disk'[p.target] # None
          /\ \A n \in Filename : n # p.name /\ n # p.target => disk'[n] = disk[n]
        BY <1>1, <1>3, <2>3, <2>4 DEF Rename, IInv, Types
    <2>6. ASSUME NEW w \in Users, Live(w), accounts[w].picture # p.picture
          PROVE  disk'[files[accounts[w].picture].name] # None
        <3>1. accounts[w].picture \in FileIds /\ Stored(accounts[w].picture)
            BY <2>6 DEF IInv, Pictured
        <3>2. /\ files[accounts[w].picture].name # p.name
              /\ files[accounts[w].picture].name \in Filename
            BY <2>4, <2>6, <3>1 DEF IInv, Types, File
        <3>3. disk[files[accounts[w].picture].name] # None
            BY <1>1, <2>6 DEF Fits, Shown, Over
        <3>. QED
            BY <2>3, <2>5, <3>2, <3>3
    <2>7. Shown(q)'
        BY <1>1, <2>2, <2>6 DEF Shown, Live, Over
    <2>8. ASSUME NEW n \in Filename, disk'[n] # None, n # DefaultName, n # p.target
          PROVE  \E f \in FileIds : Stored(f) /\ files[f].name = n
        BY <1>1, <2>5, <2>8 DEF Fits, Documented, Over
    <2>9. Documented(q)'
        BY <1>1, <2>2, <2>8 DEF Documented, Stored, Over
    <2>10. Distinct' /\ Kept(q)'
        BY <1>1, <2>2 DEF Fits, Distinct, Kept, Live, Stored, Giving
    <2>11. Course(q)' /\ Current(q)'
        BY <1>1, <2>2 DEF Fits, Course, Current, Live, Stored, Replacing, Deleting
    <2>12. Lasting(q)'
        BY <2>2, <2>3, <2>5 DEF Lasting, Giving, Over
    <2>. QED
        BY <2>2, <2>7, <2>9, <2>10, <2>11, <2>12 DEF Fits
<1>. QED
    BY <1>2, <1>3

\* The file is written under the name the document is to get.
LEMMA OverwriteFits ==
    ASSUME IInv, NEW r \in Requests, Fits(requests[r]), Overwrite(r)
    PROVE  \E q : Become(r, q) /\ Fits(q)'
<1> DEFINE p == requests[r]
<1>1. /\ Shape(p) /\ p \in Request /\ p.pc = "overwrite" /\ p.user \in Users
      /\ UNCHANGED <<accounts, files, saves, savers>>
    BY DEF Overwrite, At, IInv, Shape
<1>2. PICK q : q = [p EXCEPT !.pc = "readOver"]
    OBVIOUS
<1>3. /\ Become(r, q) /\ q.pc = "readOver" /\ q.op = p.op /\ q.user = p.user
      /\ q.picture = p.picture /\ q.name = p.name /\ q.target = p.target
    BY <1>1, <1>2 DEF Overwrite, Goto, Request
<1>4. /\ p.target \in Filename /\ disk'[p.target] # None
      /\ \A n \in Filename : n # p.target => disk'[n] = disk[n]
    BY <1>1, NoneAssumption DEF Overwrite, IInv, Types, Request
<1>5. ASSUME NEW w \in Users, Live(w), accounts[w].picture # p.picture
      PROVE  disk'[files[accounts[w].picture].name] # None
    <2>1. files[accounts[w].picture].name \in Filename
        BY <1>5 DEF IInv, Pictured, Types, File
    <2>2. disk[files[accounts[w].picture].name] # None
        BY <1>1, <1>5 DEF Fits, Shown, Over
    <2>. QED
        BY <1>4, <2>1, <2>2
<1>6. Shown(q)'
    BY <1>1, <1>3, <1>5 DEF Shown, Live, Over
<1>7. ASSUME NEW n \in Filename, disk'[n] # None, n # DefaultName, n # p.target
      PROVE  \E f \in FileIds : Stored(f) /\ files[f].name = n
    BY <1>1, <1>4, <1>7 DEF Fits, Documented, Over
<1>8. Documented(q)'
    BY <1>1, <1>3, <1>7 DEF Documented, Stored, Over
<1>9. Distinct' /\ Kept(q)'
    BY <1>1, <1>3 DEF Fits, Distinct, Kept, Live, Stored, Giving
<1>10. Course(q)' /\ Current(q)'
    BY <1>1, <1>3 DEF Fits, Course, Current, Live, Stored, Replacing, Deleting
<1>11. p.target.base = p.name.base /\ (p.target = p.name \/ disk[p.name] = None)
    BY <1>1 DEF Fits, Lasting, Over
<1>12. p.target = p.name \/ disk'[p.name] = None
    BY <1>1, <1>4, <1>11 DEF Request
<1>13. Lasting(q)'
    BY <1>3, <1>4, <1>11, <1>12 DEF Lasting, Giving, Over
<1>. QED
    BY <1>3, <1>6, <1>8, <1>9, <1>10, <1>13 DEF Fits

\* The document gets the name of its file.
LEMMA DescribeFits ==
    ASSUME IInv, NEW r \in Requests, Fits(requests[r]), ~Failing(r), Describe(r)
    PROVE  \E q : Become(r, q) /\ Fits(q)'
<1> DEFINE p == requests[r]
<1>0. PICK f, target : f = p.picture /\ target = p.target
    OBVIOUS
<1>1. /\ Shape(p) /\ p \in Request /\ p.pc = "describe" /\ p.op = "updatePicture"
      /\ UNCHANGED <<accounts, disk, saves, savers>> /\ Become(r, Idle)
    BY DEF Describe, At, IInv, Shape, Fits, Course, Replacing, Finish
<1>2. /\ p.name \in Filename /\ p.name.base \in Times /\ f \in FileIds
      /\ Stored(f) /\ files[f].name = p.name
      /\ \A g \in FileIds : Stored(g) /\ files[g].name = p.name => g = f
    BY <1>0, <1>1, OneDocument DEF Replacing
<1>3. /\ target.base = p.name.base /\ target \in Filename /\ disk[target] # None
      /\ target = p.name \/ disk[p.name] = None
    BY <1>0, <1>1 DEF Fits, Lasting, Over, Request
<1>4. files' = [files EXCEPT ![f].name = target] /\ ~Taken(target, f)
    BY <1>0, <1>1, <1>2 DEF Describe, Failing, At
<1>5. /\ files'[f].name = target /\ Stored(f)'
      /\ \A g \in FileIds \ {f} : files'[g] = files[g] /\ (Stored(g)' <=> Stored(g))
    BY <1>2, <1>4 DEF IInv, Types, File, Stored
<1>6. Distinct'
    <2>1. \A g \in FileIds \ {f} : Stored(g) => files[g].name # target
        BY <1>4 DEF Taken
    <2>. QED
        BY <1>5, <2>1 DEF Fits, Distinct
<1>7. Shown(Idle)'
    <2>1. ASSUME NEW w \in Users, Live(w)
          PROVE  disk[files'[accounts[w].picture].name] # None
        <3>1. accounts[w].picture \in FileIds
            BY <2>1 DEF IInv, Pictured
        <3>2. CASE accounts[w].picture = f
            BY <1>3, <1>5, <3>2
        <3>3. CASE accounts[w].picture # f
            BY <1>0, <1>5, <2>1, <3>1, <3>3 DEF Fits, Shown
        <3>. QED
            BY <3>2, <3>3
    <2>. QED
        BY <1>1, <2>1 DEF Shown, Live
<1>8. Kept(Idle)'
    <2>1. ASSUME NEW g \in FileIds, Stored(g)', files'[g].name.base \in Times
          PROVE  \E w \in Users : Live(w) /\ accounts[w].picture = g
        <3>1. Stored(g) /\ files[g].name.base \in Times
            BY <1>2, <1>3, <1>5, <2>1
        <3>. QED
            BY <1>1, <3>1 DEF Fits, Kept, Giving
    <2>. QED
        BY <1>1, <2>1 DEF Kept, Live
<1>9. Documented(Idle)'
    <2>1. ASSUME NEW n \in Filename, disk[n] # None, n # DefaultName, n # target
          PROVE  \E g \in FileIds \ {f} : Stored(g) /\ files[g].name = n
        <3>1. n # p.name
            BY <1>3, <2>1
        <3>2. PICK g \in FileIds : Stored(g) /\ files[g].name = n
            BY <1>0, <1>1, <2>1 DEF Fits, Documented
        <3>. QED
            BY <1>2, <3>1, <3>2
    <2>. QED
        BY <1>1, <1>2, <1>5, <2>1 DEF Documented
<1>10. Course(Idle)' /\ Current(Idle)' /\ Lasting(Idle)'
    BY DEF Idle, Course, Current, Lasting, Giving, Replacing, Deleting, Over
<1>. QED
    BY <1>1, <1>6, <1>7, <1>8, <1>9, <1>10 DEF Fits

\* A deleted account leaves the default picture, or one about to be deleted.
LEMMA RemoveFits ==
    ASSUME IInv, NEW r \in Requests, Fits(requests[r]), Remove(r)
    PROVE  \E q : Become(r, q) /\ Fits(q)'
<1> DEFINE p == requests[r]
<1>0. PICK u : u = p.user
    OBVIOUS
<1>1. /\ p \in Request /\ p.pc = "remove" /\ p.op \in {"deletePicture", "delete"}
      /\ u \in Users /\ UNCHANGED <<files, disk, saves, savers>>
    BY <1>0 DEF Remove, At, IInv, Shape, Fits, Course
<1>2. /\ Live(u) /\ accounts[u].picture = p.picture
      /\ Stored(p.picture) /\ files[p.picture].name = p.name
    BY <1>0, <1>1 DEF Fits, Current, Deleting
<1>3. /\ ~Live(u)'
      /\ \A w \in Users \ {u} : accounts'[w] = accounts[w] /\ (Live(w)' <=> Live(w))
    BY <1>0, <1>1, <1>2 DEF Remove, IInv, Types, Live, Account
<1>4. PICK q :
        /\ Become(r, q) /\ q.pc = IF p.name = DefaultName THEN "idle" ELSE "guard"
        /\ q.pc = "guard" => q.op = p.op /\ q.picture = p.picture /\ q.name = p.name
    <2>1. CASE p.name # DefaultName
        <3>1. PICK q : q = [p EXCEPT !.pc = "guard"]
            OBVIOUS
        <3>. QED
            BY <1>1, <2>1, <3>1 DEF Remove, Goto, Request, isDefaultPicture
    <2>2. CASE p.name = DefaultName
        BY <2>2 DEF Remove, Finish, Idle, isDefaultPicture
    <2>. QED
        BY <2>1, <2>2
<1>5. Shown(q)'
    <2>1. ASSUME NEW w \in Users \ {u}, Live(w)
          PROVE  disk[files[accounts[w].picture].name] # None
        BY <1>1, <2>1 DEF Fits, Shown, Over
    <2>. QED
        BY <1>1, <1>3, <2>1 DEF Shown
<1>6. Kept(q)'
    <2>1. ASSUME NEW g \in FileIds \ {p.picture}, Stored(g), files[g].name.base \in Times
          PROVE  \E w \in Users \ {u} : Live(w) /\ accounts[w].picture = g
        BY <1>1, <1>2, <2>1 DEF Fits, Kept, Giving
    <2>2. (q.pc = "guard" /\ q.picture = p.picture) \/ files[p.picture].name.base = None
        BY <1>2, <1>4, NameFacts
    <2>. QED
        BY NoneAssumption, <1>1, <1>3, <2>1, <2>2 DEF Kept, Stored
<1>7. Documented(q)' /\ Distinct'
    BY <1>1, <1>4 DEF Fits, Documented, Distinct, Stored, Over
<1>8. Course(q)' /\ Current(q)' /\ Lasting(q)'
    BY <1>1, <1>2, <1>4
    DEF Course, Current, Lasting, Stored, Giving, Replacing, Deleting, Over
<1>. QED
    BY <1>4, <1>5, <1>6, <1>7, <1>8 DEF Fits

\* A document stays if it is somebody's picture, and else is deleted.
LEMMA GuardFits ==
    ASSUME IInv, NEW r \in Requests, Fits(requests[r]), Guard(r)
    PROVE  \E q : Become(r, q) /\ Fits(q)'
<1> DEFINE p == requests[r]
<1>1. p \in Request /\ p.pc = "guard" /\ UNCHANGED <<accounts, files, disk, saves, savers>>
    BY DEF Guard, At, IInv, Shape
<1>2. CASE Finish(r) /\ \E u \in Users : Live(u) /\ accounts[u].picture = p.picture
    <2>1. Shown(Idle) /\ Kept(Idle) /\ Documented(Idle)
        BY <1>1, <1>2 DEF Fits, Shown, Kept, Documented, Giving, Over
    <2>2. Fits(Idle)
        BY <2>1, IdleKnows DEF Fits, Idle
    <2>. QED
        BY <1>1, <1>2, <2>2, Still DEF Finish
<1>3. CASE Goto(r, "erase")
    <2>1. PICK q : q = [p EXCEPT !.pc = "erase"]
        OBVIOUS
    <2>2. /\ Become(r, q) /\ q.pc = "erase" /\ q.op = p.op /\ q.user = p.user
          /\ q.picture = p.picture /\ q.name = p.name
        BY <1>1, <1>3, <2>1 DEF Goto, Request
    <2>3. Shown(q) /\ Kept(q) /\ Documented(q)
        BY <1>1, <2>2 DEF Fits, Shown, Kept, Documented, Giving, Over
    <2>4. Course(q) /\ Current(q) /\ Lasting(q)
        BY <1>1, <2>2
        DEF Fits, Course, Current, Lasting, Giving, Replacing, Deleting, Over
    <2>5. Fits(q)'
        BY <1>1, <2>3, <2>4, Still DEF Fits
    <2>. QED
        BY <2>2, <2>5
<1>. QED
    BY <1>2, <1>3 DEF Guard

\* A deleted document leaves its file to be deleted, and nobody without a picture.
LEMMA EraseFits ==
    ASSUME IInv, NEW r \in Requests, Fits(requests[r]), Erase(r)
    PROVE  \E q : Become(r, q) /\ Fits(q)'
<1> DEFINE p == requests[r]
<1>0. PICK f : f = p.picture
    OBVIOUS
<1>1. /\ Shape(p) /\ p \in Request /\ p.pc = "erase" /\ p.op \in {"deletePicture", "delete"}
      /\ UNCHANGED <<accounts, disk, saves, savers>>
    BY DEF Erase, At, IInv, Shape, Fits, Course, Deleting
<1>2. /\ p.name.base \in Times /\ f \in FileIds /\ Stored(f) /\ files[f].name = p.name
      /\ \A g \in FileIds : Stored(g) /\ files[g].name = p.name => g = f
    BY <1>0, <1>1, OneDocument
<1>3. /\ ~Stored(f)'
      /\ \A g \in FileIds \ {f} : files'[g] = files[g] /\ (Stored(g)' <=> Stored(g))
    BY <1>0, <1>1, <1>2 DEF Erase, IInv, Types, Stored, File
<1>4. PICK q : q = [p EXCEPT !.pc = "unlink"]
    OBVIOUS
<1>5. /\ Become(r, q) /\ q.pc = "unlink" /\ q.op = p.op /\ q.user = p.user
      /\ q.picture = f /\ q.name = p.name
    BY <1>0, <1>1, <1>4 DEF Erase, Goto, Request
<1>6. Distinct'
    BY <1>1, <1>3 DEF Fits, Distinct
<1>7. Shown(q)'
    <2>1. ASSUME NEW w \in Users, Live(w)
          PROVE  disk[files'[accounts[w].picture].name] # None
        <3>1. accounts[w].picture \in FileIds \ {f}
            BY <1>0, <1>1, <2>1 DEF IInv, Pictured, Unused
        <3>. QED
            BY <1>1, <1>3, <2>1, <3>1 DEF Fits, Shown, Over
    <2>. QED
        BY <1>1, <2>1 DEF Shown, Live
<1>8. Kept(q)'
    <2>1. ASSUME NEW g \in FileIds \ {f}, Stored(g), files[g].name.base \in Times
          PROVE  \E w \in Users : Live(w) /\ accounts[w].picture = g
        BY <1>0, <1>1, <2>1 DEF Fits, Kept, Giving
    <2>. QED
        BY <1>1, <1>3, <2>1 DEF Kept, Live
<1>9. Documented(q)'
    <2>1. ASSUME NEW n \in Filename, disk[n] # None, n # DefaultName, n # p.name
          PROVE  \E g \in FileIds \ {f} : Stored(g) /\ files[g].name = n
        BY <1>1, <1>2, <2>1 DEF Fits, Documented, Over
    <2>. QED
        BY <1>1, <1>3, <1>5, <2>1 DEF Documented
<1>10. Course(q)' /\ Current(q)'
    BY <1>1, <1>5 DEF Course, Current, Replacing, Deleting
<1>11. Lasting(q)'
    <2>1. \A g \in FileIds : Stored(g)' => files'[g].name # p.name
        BY <1>2, <1>3
    <2>. QED
        BY <1>5, <2>1 DEF Lasting, Giving, Over
<1>. QED
    BY <1>5, <1>6, <1>7, <1>8, <1>9, <1>10, <1>11 DEF Fits

\* The file of no document goes.
LEMMA UnlinkFits ==
    ASSUME IInv, NEW r \in Requests, Fits(requests[r]), Unlink(r)
    PROVE  \E q : Become(r, q) /\ Fits(q)'
<1> DEFINE p == requests[r]
<1>1. /\ p \in Request /\ p.pc = "unlink" /\ Become(r, Idle)
      /\ UNCHANGED <<accounts, files, saves, savers>>
    BY DEF Unlink, At, Finish, IInv, Shape
<1>2. /\ p.name \in Filename /\ disk'[p.name] = None
      /\ \A n \in Filename \ {p.name} : disk'[n] = disk[n]
    BY <1>1 DEF Unlink, IInv, Types, Request
<1>3. \A f \in FileIds : Stored(f) => files[f].name # p.name
    BY <1>1 DEF Fits, Lasting
<1>4. Shown(Idle)'
    <2>1. ASSUME NEW w \in Users, Live(w)
          PROVE  disk'[files[accounts[w].picture].name] # None
        <3>1. accounts[w].picture \in FileIds /\ Stored(accounts[w].picture)
            BY <2>1 DEF IInv, Pictured
        <3>2. files[accounts[w].picture].name \in Filename \ {p.name}
            BY <1>3, <3>1 DEF IInv, Types, File
        <3>3. disk[files[accounts[w].picture].name] # None
            BY <1>1, <2>1 DEF Fits, Shown, Over
        <3>. QED
            BY <1>2, <3>2, <3>3
    <2>. QED
        BY <1>1, <2>1 DEF Shown, Live
<1>5. Documented(Idle)'
    <2>1. ASSUME NEW n \in Filename, disk'[n] # None, n # DefaultName
          PROVE  \E g \in FileIds : Stored(g) /\ files[g].name = n
        BY <1>1, <1>2, <2>1 DEF Fits, Documented, Over
    <2>. QED
        BY <1>1, <2>1 DEF Documented, Stored
<1>6. Distinct' /\ Kept(Idle)'
    BY <1>1 DEF Fits, Distinct, Kept, Live, Stored, Giving
<1>7. Course(Idle)' /\ Current(Idle)' /\ Lasting(Idle)'
    BY DEF Idle, Course, Current, Lasting, Giving, Replacing, Deleting, Over
<1>. QED
    BY <1>1, <1>4, <1>5, <1>6, <1>7 DEF Fits

\* A step that does not fail leaves its request fitting.
LEMMA StepFits ==
    ASSUME IInv, NEW r \in Requests, Fits(requests[r]), ~Failing(r), Step(r)
    PROVE  \E q : Become(r, q) /\ Fits(q)'
<1>1. CASE Register(r) \/ UpdatePicture(r) \/ DeletePicture(r) \/ Delete(r)
    BY <1>1, StartFits
<1>2. CASE ReadUser(r) \/ ReadFile(r) \/ FindDefault(r)
    BY <1>2, ReadFits, FindDefaultFits
<1>3. CASE CreateDefault(r) \/ Document(r) \/ Write(r)
    BY <1>3, CreateFits, WriteFits
<1>4. CASE ReadBack(r) \/ ReadOver(r)
    BY <1>4, ReadBackFits
<1>5. CASE Insert(r) \/ Assign(r)
    BY <1>5, InsertFits, AssignFits
<1>6. CASE Exists(r) \/ Rename(r)
    BY <1>6, ExistsFits, RenameFits
<1>7. CASE Overwrite(r) \/ Describe(r)
    BY <1>7, OverwriteFits, DescribeFits
<1>8. CASE Remove(r) \/ Guard(r)
    BY <1>8, RemoveFits, GuardFits
<1>9. CASE Erase(r) \/ Unlink(r)
    BY <1>9, EraseFits, UnlinkFits
<1>. QED
    BY <1>1, <1>2, <1>3, <1>4, <1>5, <1>6, <1>7, <1>8, <1>9 DEF Step

\* Requests that follow each other leave accounts, documents and disk in agreement.
LEMMA OrderlyKeeps == IInv /\ Orderly /\ [Next]_vars => Orderly'
<1>1. ASSUME IInv, Orderly, NEW r \in Requests, Step(r), History(r), clean' PROVE Orderly'
    <2>1. clean /\ ~Failing(r) /\ \A p \in Requests \ {r} : At(p, "idle")
        BY <1>1, HistoryType DEF History
    <2>2. Fits(requests[r])
        BY <1>1, <2>1 DEF Orderly
    <2>3. PICK q : Become(r, q) /\ Fits(q)'
        BY <1>1, <2>1, <2>2, StepFits
    <2>4. \A p \in Requests : requests'[p] = IF p = r THEN q ELSE requests[p]
        BY <1>1, <2>3 DEF Become, IInv, Types
    <2>5. ASSUME NEW p \in Requests, (\A s \in Requests \ {p} : At(s, "idle"))'
          PROVE  Fits(requests[p])'
        <3>1. PICK request : request = requests'[p]
            OBVIOUS
        <3>2. CASE p = r
            BY <2>3, <2>4, <3>2
        <3>3. CASE p # r
            <4>1. q.pc = "idle" /\ request.pc = "idle"
                BY <2>1, <2>4, <2>5, <3>1, <3>3 DEF At
            <4>2. Fits(request)'
                BY <2>3, <4>1, Slots
            <4>. QED
                BY <3>1, <4>2
        <3>. QED
            BY <3>2, <3>3
    <2>6. ASSUME (\A p \in Requests : At(p, "idle"))' PROVE Fits(Idle)'
        <3>1. q.pc = "idle" /\ Idle.pc = "idle"
            BY <2>4, <2>6 DEF At, Idle
        <3>. QED
            BY <2>3, <3>1, Slots
    <2>. QED
        BY <2>5, <2>6 DEF Orderly
<1>2. ASSUME Orderly, UNCHANGED vars PROVE Orderly'
    <2>1. ASSUME NEW q, Fits(q) PROVE Fits(q)'
        BY <1>2, <2>1, Still DEF vars
    <2>2. \A p : At(p, "idle")' <=> At(p, "idle")
        BY <1>2 DEF vars, At
    <2>3. ASSUME NEW p \in Requests, Fits(requests[p]) PROVE Fits(requests[p])'
        <3>1. PICK request : request = requests[p]
            OBVIOUS
        <3>2. request = requests'[p] /\ Fits(request)'
            BY <1>2, <2>1, <2>3, <3>1 DEF vars
        <3>. QED
            BY <3>2
    <2>4. clean' = clean
        BY <1>2 DEF vars
    <2>. QED
        BY <1>2, <2>1, <2>2, <2>3, <2>4 DEF Orderly
<1>. QED
    BY <1>1, <1>2 DEF Next, Orderly

\* Before the first request there is the default picture and nothing else.
LEMMA OrderlyFirst == Init => Orderly
<1>. SUFFICES ASSUME Init PROVE Orderly
    OBVIOUS
<1>1. \A n \in Filename : disk[n] # None => n = DefaultName
    BY DEF Init
<1>2. Distinct /\ Shown(Idle) /\ Kept(Idle) /\ Documented(Idle)
    BY <1>1 DEF Init, Distinct, Shown, Kept, Documented, Live, Stored
<1>3. Fits(Idle)
    BY <1>2, IdleKnows DEF Fits, Idle
<1>. QED
    BY <1>3 DEF Init, Orderly


-----------------------------------------------------------------------------
(* The theorems                                                            *)

\* Every step keeps the invariant.
LEMMA Inductive == IInv /\ [Next]_vars => IInv'
<1>1. ASSUME IInv, NEW r \in Requests, Step(r), History(r) PROVE IInv'
    <2>1. CASE Register(r)
        BY <1>1, <2>1, RegisterKeeps
    <2>2. CASE UpdatePicture(r) \/ DeletePicture(r) \/ Delete(r)
        BY <1>1, <2>2, StartKeeps
    <2>3. CASE ReadUser(r) \/ ReadFile(r)
        BY <1>1, <2>3, ReadUserKeeps, ReadFileKeeps
    <2>4. CASE FindDefault(r) \/ CreateDefault(r)
        BY <1>1, <2>4, FindDefaultKeeps, CreateDefaultKeeps
    <2>5. CASE Write(r) \/ ReadBack(r) \/ Document(r)
        BY <1>1, <2>5, WriteKeeps, ReadBackKeeps, DocumentKeeps
    <2>6. CASE Insert(r) \/ Assign(r)
        BY <1>1, <2>6, InsertKeeps, AssignKeeps
    <2>7. CASE Exists(r) \/ Rename(r)
        BY <1>1, <2>7, ExistsKeeps, RenameKeeps
    <2>8. CASE Overwrite(r) \/ ReadOver(r) \/ Describe(r)
        BY <1>1, <2>8, OverwriteKeeps, ReadOverKeeps, DescribeKeeps
    <2>9. CASE Remove(r) \/ Guard(r)
        BY <1>1, <2>9, RemoveKeeps, GuardKeeps
    <2>10. CASE Erase(r) \/ Unlink(r)
        BY <1>1, <2>10, EraseKeeps, UnlinkKeeps
    <2>. QED
        BY <1>1, <2>1, <2>2, <2>3, <2>4, <2>5, <2>6, <2>7, <2>8, <2>9, <2>10 DEF Step
<1>2. ASSUME IInv, UNCHANGED vars PROVE IInv'
    BY <1>2 DEF vars, IInv, Types, Shape, Refers, Fresh, Unused, Pictured, Named,
                DefaultIntact, Live, Stored
<1>. QED
    BY <1>1, <1>2 DEF Next

\* The invariant holds in every state.
LEMMA Invariant == Spec => []IInv
BY Initially, Inductive, PTL DEF Spec

\* The collections, the disk and the requests keep their shapes, and a request
\* works on no document it has not read or created.
THEOREM TypeCorrect == Spec => []TypeOK
<1>1. IInv => TypeOK
    BY DEF IInv, Types, TypeOK, Shape, Giving, Replacing, Deleting
<1>. QED
    BY <1>1, Invariant, PTL

\* However many requests work on the pictures at the same time, and wherever each
\* of them ends, the document of a live account's picture exists.
THEOREM PicturesExist == Spec => []NoDanglingPicture
<1>1. IInv => NoDanglingPicture
    BY DEF IInv, Pictured, NoDanglingPicture
<1>. QED
    BY <1>1, Invariant, PTL

\* Nobody writes, renames or deletes the default picture or deletes its document.
THEOREM DefaultStays == Spec => []DefaultIntact
<1>1. IInv => DefaultIntact
    BY DEF IInv
<1>. QED
    BY <1>1, Invariant, PTL

\* A picture an account shows is the default one or one that was saved for it, or for an
\* account whose upload got the same millisecond, however many requests rename, overwrite
\* and delete files under names they read before.
THEOREM PicturesStayOwn == Spec => []OwnPicture
<1>1. ASSUME Init PROVE Owned
    <2>1. \A n \in Filename : disk[n] # None => n.base \notin Times
        BY <1>1, NameFacts DEF Init
    <2>. QED
        BY <1>1, <2>1, IdleOwns DEF Init, Owned, Belongs, Live
<1>2. IInv /\ Owned => OwnPicture
    <2>. SUFFICES ASSUME IInv, Owned, NEW u \in Users, Live(u),
                         ~isDefaultPicture(files[accounts[u].picture].name)
                  PROVE  LET name == files[accounts[u].picture].name
                         IN  /\ u \in savers[name.base]
                             /\ disk[name] \in savers[name.base] \cup {None}
        BY DEF OwnPicture
    <2> DEFINE name == files[accounts[u].picture].name
    <2>1. name \in Filename /\ name.base \in Times
        BY DEF IInv, Pictured, Named, Types, File, isDefaultPicture
    <2>2. Belongs(name, u) /\ (disk[name] # None => Belongs(name, disk[name]))
        BY <2>1 DEF Owned
    <2>. QED
        BY <2>1, <2>2 DEF Belongs
<1>. QED
    BY <1>1, <1>2, OwnedKeeps, Invariant, PTL DEF Spec

\* Requests that follow each other and do not fail leave every account with a picture
\* that is on disk, and no document and no file that belongs to nobody.
THEOREM PicturesAgree == Spec => []FilesFollowAccounts
<1>1. IInv /\ Orderly => FilesFollowAccounts
    <2>. SUFFICES ASSUME IInv, Orderly, Settled PROVE FilesFollowAccounts
        BY DEF FilesFollowAccounts
    <2>1. Fits(Idle) /\ Idle.pc = "idle"
        BY DEF Orderly, Settled, Idle
    <2>2. \A u \in Users : Live(u) => disk[files[accounts[u].picture].name] # None
        BY <2>1 DEF Fits, Shown, Over
    <2>3. ASSUME NEW f \in FileIds, Stored(f), ~isDefaultPicture(files[f].name)
          PROVE  \E u \in Users : Live(u) /\ accounts[u].picture = f
        BY <2>1, <2>3 DEF Fits, Kept, Giving, IInv, Named, isDefaultPicture
    <2>4. ASSUME NEW n \in Filename, disk[n] # None, ~isDefaultPicture(n)
          PROVE  \E f \in FileIds : Stored(f) /\ files[f].name = n
        BY <2>1, <2>4 DEF Fits, Documented, Over, isDefaultPicture
    <2>. QED
        BY <2>2, <2>3, <2>4 DEF FilesFollowAccounts
<1>. QED
    BY <1>1, OrderlyFirst, OrderlyKeeps, Invariant, PTL DEF Spec
=============================================================================

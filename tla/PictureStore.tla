---------------------------- MODULE PictureStore ----------------------------
(***************************************************************************)
(* The profile pictures: accounts refer to file documents, file documents  *)
(* name files on disk, and no transaction spans the three.  Every request  *)
(* works through them await by await while other requests do the same.  A  *)
(* crash is a request that goes no further, which any request may be.      *)
(*                                                                         *)
(* Sources: src/services/user.service.ts, src/services/storage.service.ts, *)
(* src/services/file.service.ts, src/plugins/prevent-delete.plugin.ts,     *)
(* src/models/file.model.ts.  MongoDB and the file system are external:    *)
(* each of their calls is one step.                                        *)
(*                                                                         *)
(* A filename is a base, the number of a millisecond or None for           *)
(* "default", and an extension.  Files saved at the same time may get the  *)
(* same millisecond, and so may files saved after the clock was set back:  *)
(* any file may get any.  What a file holds is abstracted to the account   *)
(* it was uploaded for.  Who may do what is the subject of AccessDecision. *)
(***************************************************************************)
EXTENDS Naturals

CONSTANTS Users,           \* the identifiers accounts may get, never used twice
          FileIds,         \* the identifiers file documents may get
          Extensions,      \* the extensions an uploaded file may have
          Requests,        \* slots of requests in flight
          Times,           \* the milliseconds Date.now() may return
          MaxSaves,        \* bound on the files that are saved
          None,            \* no value
          Default          \* the content of the default picture

Op == {"register", "updatePicture", "deletePicture", "delete"}

ASSUME SavesAssumption == MaxSaves \in Nat
ASSUME NoneAssumption == None \notin Users \cup FileIds \cup Extensions \cup Times \cup Op
ASSUME ContentAssumption == Default \notin Users \cup {None}

VARIABLES accounts,  \* the users collection
          files,     \* the files collection
          disk,      \* storage/public/user: what each file holds
          saves,     \* how many files have been saved
          savers,    \* the accounts files were named for in each millisecond
          requests,
          clean      \* requests have followed each other and none has failed

vars == <<accounts, files, disk, saves, savers, requests, clean>>

\* extToMimetype knows the extension.
Readable == {"jpg", "jpeg", "png", "pdf"}

Filename == [base: Times \cup {None}, ext: Extensions \cup {"jpeg"}]
DefaultName == [base |-> None, ext |-> "jpeg"]
isDefaultPicture(name) == name = DefaultName

State == {"unborn", "live", "gone"}
Account == [state: State, picture: FileIds \cup {None}]
File == [state: State, name: Filename]

\* user: the account; upload: the extension of the uploaded file, if any; picture
\* and name: the file document of the account and its filename, as read; file:
\* the document found or created; target: the filename being written.
Request == [pc: {"idle", "user", "file", "findDefault", "createDefault", "write",
                 "readBack", "document", "insert", "assign", "exists", "rename",
                 "overwrite", "readOver", "describe", "remove", "guard", "erase",
                 "unlink"},
            op: Op \cup {None}, user: Users \cup {None},
            upload: Extensions \cup {None}, picture: FileIds \cup {None},
            name: Filename, file: FileIds \cup {None}, target: Filename]

Idle == [pc |-> "idle", op |-> None, user |-> None, upload |-> None,
         picture |-> None, name |-> DefaultName, file |-> None, target |-> DefaultName]

Live(u) == accounts[u].state = "live"
Stored(f) == files[f].state = "live"

\* The unique index on filename: another document has the name.
Taken(name, id) == \E f \in FileIds \ {id} : Stored(f) /\ files[f].name = name

Become(r, request) == requests' = [requests EXCEPT ![r] = request]
Goto(r, pc) == Become(r, [requests[r] EXCEPT !.pc = pc])
Finish(r) == Become(r, Idle)
At(r, pc) == requests[r].pc = pc

Init ==
    /\ accounts = [u \in Users |-> [state |-> "unborn", picture |-> None]]
    /\ files = [f \in FileIds |-> [state |-> "unborn", name |-> DefaultName]]
    /\ disk = [n \in Filename |-> IF n = DefaultName THEN Default ELSE None]
    /\ saves = 0
    /\ savers = [t \in Times |-> {}]
    /\ requests = [r \in Requests |-> Idle]
    /\ clean = TRUE

-----------------------------------------------------------------------------
(* The start of a request                                                  *)

\* register, past the look-up of the unique fields; with a picture or without.
Register(r) ==
    \E u \in Users, upload \in Extensions \cup {None} :
        /\ At(r, "idle")
        /\ accounts[u].state = "unborn" /\ \A q \in Requests : requests[q].user # u
        /\ Become(r, [Idle EXCEPT !.pc = IF upload = None THEN "findDefault" ELSE "write",
                                  !.op = "register", !.user = u, !.upload = upload])
        /\ UNCHANGED <<accounts, files, disk, saves, savers>>

Start(r, op, upload) ==
    \E u \in Users :
        /\ At(r, "idle")
        /\ accounts[u].state # "unborn"
        /\ Become(r, [Idle EXCEPT !.pc = "user", !.op = op, !.user = u, !.upload = upload])
        /\ UNCHANGED <<accounts, files, disk, saves, savers>>

UpdatePicture(r) == \E upload \in Extensions : Start(r, "updatePicture", upload)
DeletePicture(r) == Start(r, "deletePicture", None)
Delete(r) == Start(r, "delete", None)

\* getUserByIdOrThrow.
ReadUser(r) ==
    LET request == requests[r] IN
    /\ At(r, "user")
    /\ IF Live(request.user)
       THEN Become(r, [request EXCEPT !.pc = "file",
                                      !.picture = accounts[request.user].picture])
       ELSE Finish(r)
    /\ UNCHANGED <<accounts, files, disk, saves, savers>>

\* Mutant: updatePicture overwrites the default picture, too.
NextStepOverwriting(op, name) ==
    CASE op = "updatePicture" -> "exists"
      [] op = "deletePicture" -> IF isDefaultPicture(name) THEN "idle" ELSE "findDefault"
      [] op = "delete"        -> "remove"

\* What a request does once it knows the picture of its account.
NextStep(op, name) ==
    CASE op = "updatePicture" -> IF isDefaultPicture(name) THEN "write" ELSE "exists"
      [] op = "deletePicture" -> IF isDefaultPicture(name) THEN "idle" ELSE "findDefault"
      [] op = "delete"        -> "remove"

\* The populated picture; without its document dto() fails.
ReadFile(r) ==
    LET request == requests[r]
        file == files[request.picture]
        next == NextStep(request.op, file.name)
    IN
    /\ At(r, "file")
    /\ IF Stored(request.picture) /\ next # "idle"
       THEN Become(r, [request EXCEPT !.pc = next, !.name = file.name])
       ELSE Finish(r)
    /\ UNCHANGED <<accounts, files, disk, saves, savers>>

-----------------------------------------------------------------------------
(* A picture for an account                                                *)

\* The id of a file document is known: it becomes the picture of the account.
Obtained(r, f) ==
    Become(r, [requests[r] EXCEPT
                 !.pc = IF requests[r].op = "register" THEN "insert" ELSE "assign",
                 !.file = f])

\* Mutant: any document is taken for that of the default picture.
FindAny(r) ==
    /\ At(r, "findDefault")
    /\ \/ \E f \in FileIds : Stored(f) /\ Obtained(r, f)
       \/ /\ ~Taken(DefaultName, None)
          /\ Goto(r, "createDefault")
    /\ UNCHANGED <<accounts, files, disk, saves, savers>>

\* getOrCreateDefaultPictureId: findByFilename.
FindDefault(r) ==
    /\ At(r, "findDefault")
    /\ \/ \E f \in FileIds :
            Stored(f) /\ isDefaultPicture(files[f].name) /\ Obtained(r, f)
       \/ /\ ~Taken(DefaultName, None)
          /\ Goto(r, "createDefault")
    /\ UNCHANGED <<accounts, files, disk, saves, savers>>

\* File.create: the unique index may refuse the document.
CreateFile(r, name) ==
    IF Taken(name, None)
    THEN Finish(r) /\ UNCHANGED files
    ELSE \E f \in FileIds :
           /\ files[f].state = "unborn"
           /\ files' = [files EXCEPT ![f] = [state |-> "live", name |-> name]]
           /\ Obtained(r, f)

\* createDefaultPicture.
CreateDefault(r) ==
    /\ At(r, "createDefault")
    /\ IF disk[DefaultName] = None
       THEN Finish(r) /\ UNCHANGED files
       ELSE CreateFile(r, DefaultName)
    /\ UNCHANGED <<accounts, disk, saves, savers>>

\* StorageService.save: the file is named after the current millisecond and written
\* over whatever is there.
Write(r) ==
    \E now \in Times :
        LET name == [base |-> now, ext |-> requests[r].upload] IN
        /\ At(r, "write")
        /\ saves < MaxSaves
        /\ saves' = saves + 1
        /\ savers' = [savers EXCEPT ![now] = @ \cup {requests[r].user}]
        /\ disk' = [disk EXCEPT ![name] = requests[r].user]
        /\ Become(r, [requests[r] EXCEPT !.pc = "readBack", !.target = name])
        /\ UNCHANGED <<accounts, files>>

CanRead(name) == disk[name] # None /\ name.ext \in Readable

\* The stored file is read back; an unknown extension has no mimetype.
ReadBack(r) ==
    /\ At(r, "readBack")
    /\ IF CanRead(requests[r].target) THEN Goto(r, "document") ELSE Finish(r)
    /\ UNCHANGED <<accounts, files, disk, saves, savers>>

\* resolveUserPictureId: the document of the stored picture.
Document(r) ==
    /\ At(r, "document")
    /\ CreateFile(r, requests[r].target)
    /\ UNCHANGED <<accounts, disk, saves, savers>>

\* User.create; the unique fields of the account may be taken by now.
Insert(r) ==
    LET request == requests[r] IN
    /\ At(r, "insert")
    /\ \/ accounts' = [accounts EXCEPT ![request.user] =
                         [state |-> "live", picture |-> request.file]]
       \/ UNCHANGED accounts
    /\ Finish(r)
    /\ UNCHANGED <<files, disk, saves, savers>>

\* User.updateOne({ _id }, { picture }), whatever the picture is by now.
Assign(r) ==
    LET request == requests[r] IN
    /\ At(r, "assign")
    /\ accounts' = IF Live(request.user)
                   THEN [accounts EXCEPT ![request.user].picture = request.file]
                   ELSE accounts
    /\ IF request.op = "deletePicture" THEN Goto(r, "guard") ELSE Finish(r)
    /\ UNCHANGED <<files, disk, saves, savers>>

-----------------------------------------------------------------------------
(* Overwriting a picture: StorageService.overwrite and FileService.update  *)

Exists(r) ==
    LET request == requests[r]
        target == [request.name EXCEPT !.ext = request.upload]
    IN
    /\ At(r, "exists")
    /\ IF disk[request.name] # None
       THEN Become(r, [request EXCEPT
                         !.pc = IF target = request.name THEN "overwrite" ELSE "rename",
                         !.target = target])
       ELSE Finish(r)
    /\ UNCHANGED <<accounts, files, disk, saves, savers>>

\* Another extension: fs.rename, which fails if the file is gone by now.
Rename(r) ==
    LET request == requests[r] IN
    /\ At(r, "rename")
    /\ IF disk[request.name] # None
       THEN /\ disk' = [disk EXCEPT ![request.target] = disk[request.name],
                                    ![request.name] = None]
            /\ Goto(r, "overwrite")
       ELSE Finish(r) /\ UNCHANGED disk
    /\ UNCHANGED <<accounts, files, saves, savers>>

\* fs.writeFile creates the file if it is gone.
Overwrite(r) ==
    /\ At(r, "overwrite")
    /\ disk' = [disk EXCEPT ![requests[r].target] = requests[r].user]
    /\ Goto(r, "readOver")
    /\ UNCHANGED <<accounts, files, saves, savers>>

ReadOver(r) ==
    /\ At(r, "readOver")
    /\ IF CanRead(requests[r].target) THEN Goto(r, "describe") ELSE Finish(r)
    /\ UNCHANGED <<accounts, files, disk, saves, savers>>

\* Mutant: the document keeps the name it had.
DescribeKeepingName(r) ==
    /\ At(r, "describe")
    /\ Finish(r)
    /\ UNCHANGED <<accounts, files, disk, saves, savers>>

\* File.updateOne({ _id }) with the name of the file now on disk.
Describe(r) ==
    LET request == requests[r] IN
    /\ At(r, "describe")
    /\ files' = IF Stored(request.picture) /\ ~Taken(request.target, request.picture)
                THEN [files EXCEPT ![request.picture].name = request.target]
                ELSE files
    /\ Finish(r)
    /\ UNCHANGED <<accounts, disk, saves, savers>>

-----------------------------------------------------------------------------
(* Deleting a picture                                                      *)

\* Mutant: the default picture is deleted like any other.
RemoveWithPicture(r) ==
    LET request == requests[r] IN
    /\ At(r, "remove")
    /\ accounts' = IF Live(request.user)
                   THEN [accounts EXCEPT ![request.user].state = "gone"] ELSE accounts
    /\ Goto(r, "guard")
    /\ UNCHANGED <<files, disk, saves, savers>>

\* User.deleteOne({ _id }); the picture as it was read is deleted with it, even
\* if another request deleted the account first.
Remove(r) ==
    LET request == requests[r] IN
    /\ At(r, "remove")
    /\ accounts' = IF Live(request.user)
                   THEN [accounts EXCEPT ![request.user].state = "gone"] ELSE accounts
    /\ IF isDefaultPicture(request.name) THEN Finish(r) ELSE Goto(r, "guard")
    /\ UNCHANGED <<files, disk, saves, savers>>

\* preventDelete: a document an account refers to is not deleted.
Guard(r) ==
    /\ At(r, "guard")
    /\ IF \E u \in Users : Live(u) /\ accounts[u].picture = requests[r].picture
       THEN Finish(r)
       ELSE Goto(r, "erase")
    /\ UNCHANGED <<accounts, files, disk, saves, savers>>

\* File.deleteOne({ _id }).
Erase(r) ==
    LET f == requests[r].picture IN
    /\ At(r, "erase")
    /\ files' = IF Stored(f) THEN [files EXCEPT ![f].state = "gone"] ELSE files
    /\ Goto(r, "unlink")
    /\ UNCHANGED <<accounts, disk, saves, savers>>

\* StorageService.delete of the filename that was read, if it is there.
Unlink(r) ==
    /\ At(r, "unlink")
    /\ disk' = [disk EXCEPT ![requests[r].name] = None]
    /\ Finish(r)
    /\ UNCHANGED <<accounts, files, saves, savers>>

-----------------------------------------------------------------------------

Step(r) ==
    \/ Register(r) \/ UpdatePicture(r) \/ DeletePicture(r) \/ Delete(r)
    \/ ReadUser(r) \/ ReadFile(r)
    \/ FindDefault(r) \/ CreateDefault(r)
    \/ Write(r) \/ ReadBack(r) \/ Document(r) \/ Insert(r) \/ Assign(r)
    \/ Exists(r) \/ Rename(r) \/ Overwrite(r) \/ ReadOver(r) \/ Describe(r)
    \/ Remove(r) \/ Guard(r) \/ Erase(r) \/ Unlink(r)

\* A step that fails: a file cannot be read back, or the account or the name of the
\* file is refused.
Failing(r) ==
    \/ At(r, "insert") /\ accounts' = accounts
    \/ requests[r].pc \in {"readBack", "readOver", "document"} /\ requests'[r].pc = "idle"
    \/ At(r, "describe") /\ Taken(requests[r].target, requests[r].picture)

\* What clean records of a step.
History(r) == clean' = (clean /\ ~Failing(r) /\ \A q \in Requests \ {r} : At(q, "idle"))

Next == \E r \in Requests : Step(r) /\ History(r)

Spec == Init /\ [][Next]_vars

-----------------------------------------------------------------------------

\* The collections, the disk and the requests have the declared shapes, and a
\* request never works on a document or a file it has not read or created.
TypeOK ==
    /\ accounts \in [Users -> Account]
    /\ files \in [FileIds -> File]
    /\ disk \in [Filename -> Users \cup {Default, None}]
    /\ saves \in 0..MaxSaves
    /\ savers \in [Times -> SUBSET Users]
    /\ requests \in [Requests -> Request]
    /\ clean \in BOOLEAN
    /\ \A r \in Requests :
         /\ requests[r].pc \in {"file", "exists", "rename", "overwrite", "readOver",
                               "describe", "remove", "guard", "erase", "unlink"} =>
                requests[r].picture \in FileIds
         /\ requests[r].pc \in {"insert", "assign"} => requests[r].file \in FileIds

\* Whatever interleaves and wherever a request ends, the picture of a live
\* account is a document that exists: it is assigned before the one it replaces
\* is deleted, and nobody deletes the one default document other requests are
\* about to assign.
NoDanglingPicture ==
    \A u \in Users : Live(u) => Stored(accounts[u].picture)

\* No request, however stale its copy of the account, ever writes, renames or
\* deletes the default picture all accounts share.
DefaultIntact ==
    /\ disk[DefaultName] = Default
    /\ \A f \in FileIds : files[f].name = DefaultName => files[f].state # "gone"

\* The file an account shows is the default one or one uploaded for it, although
\* files are renamed and overwritten under names read long before: or, when uploads
\* got the same millisecond, one of those uploaded for the accounts that did.
OwnPicture ==
    \A u \in Users : Live(u) =>
        LET name == files[accounts[u].picture].name
        IN  ~isDefaultPicture(name) =>
                /\ u \in savers[name.base]
                /\ disk[name] \in savers[name.base] \cup {None}

Settled == clean /\ \A r \in Requests : At(r, "idle")

\* As long as requests follow each other and none fails, accounts, documents and
\* disk agree: the picture of a live account is on disk under the name its document
\* has, every document but the default one is the picture of a live account, and
\* every file on disk is named by a document or is the default picture.
FilesFollowAccounts ==
    Settled =>
        /\ \A u \in Users : Live(u) => disk[files[accounts[u].picture].name] # None
        /\ \A f \in FileIds : Stored(f) /\ ~isDefaultPicture(files[f].name) =>
              \E u \in Users : Live(u) /\ accounts[u].picture = f
        /\ \A n \in Filename : disk[n] # None /\ ~isDefaultPicture(n) =>
              \E f \in FileIds : Stored(f) /\ files[f].name = n
=============================================================================

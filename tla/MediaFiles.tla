----------------------------- MODULE MediaFiles -----------------------------
(***************************************************************************)
(* The image files on disk against the media table of the store.  The      *)
(* handlers of internal/handlers work in steps: an upload creates the      *)
(* folder, writes a file, registers it and goes on to the next one; a      *)
(* deletion changes the store first and the disk afterwards.  The steps of *)
(* concurrent requests interleave, calls fail, a dump is restored under    *)
(* running requests, and a restart loads an older snapshot than the disk.  *)
(*                                                                         *)
(* A call of the store is one step here: module Store says why it may be,  *)
(* Persistence how a snapshot gets to the disk.                            *)
(***************************************************************************)
EXTENDS Tables

CONSTANTS
    Types,         \* entity types (store.allowedEntityTypes)
    Requests,      \* concurrent requests
    Names,         \* names randomName may draw; 128 random bits: none comes twice
    PidName,       \* what randomName falls back to: the process id
    MaxEntity,     \* bound: entities of a type, ids an upload may name
    MaxFiles,      \* bound: files of an upload
    MaxIncidents   \* bound: failing calls, snapshots saved and dumps downloaded

Entities == Types \X (1..MaxEntity)
NoEntity == <<>>

ASSUME MediaFilesAssumption ==
    /\ PidName \notin Names
    /\ MaxEntity \in Nat /\ MaxFiles \in Nat /\ MaxIncidents \in Nat

VARIABLES
    d,           \* the data in memory: see Data
    saved,       \* the data a restart would load
    dump,        \* the last dump downloaded
    files,       \* the image files on disk, <<entity, name>>
    whole,       \* those of them whose content has been written
    dirs,        \* the entities whose folder exists
    req,         \* the requests: see Idle
    used,        \* history: names drawn so far
    failures,    \* history: calls that failed
    copied,      \* history: snapshots and dumps made
    fellBack,    \* history: a name was the process id
    rolledBack,  \* history: the data went back to an older copy
    abandoned    \* history: a request was cut off by the end of the process

disk == <<files, whole, dirs>>
copies == <<saved, dump, copied>>
history == <<used, failures, fellBack, rolledBack, abandoned>>
vars == <<d, copies, disk, req, history>>

\* What the store knows of entities and pictures: which entities there are,
\* the counter of each type, and the media table.
Data == [live |-> {}, seq |-> [t \in Types |-> 0], media |-> EmptyTable]

Picture(i) == <<d.media.items[i].entity, d.media.items[i].name>>

\* The entity has been deleted.  (An upload may also name one yet to come.)
Dead(e) == e[2] <= d.seq[e[1]] /\ e \notin d.live

\* A request: the step it is at, the entity and the file it works on, the files
\* of its upload that are not registered yet, the names its RemoveAll has read.
Idle == [at |-> "idle", entity |-> NoEntity, name |-> PidName,
         left |-> 0, listed |-> {}]
File(r) == <<req[r].entity, req[r].name>>

At(r, step) == req[r].at = step
Goto(r, step) == req' = [req EXCEPT ![r].at = step]
Finish(r) == req' = [req EXCEPT ![r] = Idle]

\* A call of the operating system fails.
Failure == failures + copied < MaxIncidents /\ failures' = failures + 1

-----------------------------------------------------------------------------
(* UploadMedia *)

\* The form is parsed and the folder made.  Nobody asks if the entity exists.
BeginUpload(r, e) ==
    /\ At(r, "idle")
    /\ dirs' = dirs \cup {e}
    /\ \E n \in 1..MaxFiles :
        req' = [req EXCEPT ![r] = [Idle EXCEPT !.at = "create", !.entity = e, !.left = n]]
    /\ UNCHANGED <<d, copies, files, whole, history>>

\* Mutant: the name may have been given before.
DrawAgain(n) ==
    /\ n \in Names
    /\ UNCHANGED <<failures, fellBack>>

\* randomName.
Draw(n) ==
    \/ n \in Names \ used /\ UNCHANGED <<failures, fellBack>>
    \/ n = PidName /\ Failure /\ fellBack' = TRUE

\* os.Create: the folder must still be there; a file of that name is emptied.
CreateFile(r) ==
    /\ At(r, "create")
    /\ req[r].entity \in dirs
    /\ \E n \in Names \cup {PidName} :
        /\ Draw(n)
        /\ used' = used \cup {n}
        /\ req' = [req EXCEPT ![r].name = n, ![r].at = "copy"]
        /\ files' = files \cup {<<req[r].entity, n>>}
        /\ whole' = whole \ {<<req[r].entity, n>>}
    /\ UNCHANGED <<d, copies, dirs, rolledBack, abandoned>>

\* The next file is of a wrong type, cannot be read or cannot be created: the
\* upload ends with an error, and what it has registered stays.
Refuse(r) ==
    /\ At(r, "create")
    /\ Finish(r)
    /\ UNCHANGED <<d, copies, disk, history>>

\* io.Copy ends; if the file was unlinked meanwhile, nobody sees it.
CopyFile(r) ==
    /\ At(r, "copy")
    /\ whole' = whole \cup ({File(r)} \cap files)
    /\ Goto(r, "add")
    /\ UNCHANGED <<d, copies, files, dirs, history>>

\* io.Copy fails: the half-written file stays, unregistered.
CopyFails(r) ==
    /\ At(r, "copy")
    /\ Failure
    /\ Finish(r)
    /\ UNCHANGED <<d, copies, disk, used, fellBack, rolledBack, abandoned>>

Row(r) == [entity |-> req[r].entity, name |-> req[r].name]

\* Mutant: the file is registered before its content is written.
AddRowEarly(r) ==
    /\ At(r, "copy")
    /\ d' = [d EXCEPT !.media = Insert(@, Row(r))]
    /\ Finish(r)
    /\ UNCHANGED <<copies, disk, history>>

\* Mutant: one round too many.
AddRowAgain(r) ==
    /\ At(r, "add")
    /\ d' = [d EXCEPT !.media = Insert(@, Row(r))]
    /\ req' = [req EXCEPT ![r].left = @ - 1, ![r].at = "create"]
    /\ UNCHANGED <<copies, disk, history>>

\* Store.AddMedia, and the next file or the answer.
AddRow(r) ==
    /\ At(r, "add")
    /\ d' = [d EXCEPT !.media = Insert(@, Row(r))]
    /\ IF req[r].left > 1
       THEN req' = [req EXCEPT ![r].left = @ - 1, ![r].at = "create"]
       ELSE Finish(r)
    /\ UNCHANGED <<copies, disk, history>>

-----------------------------------------------------------------------------
(* DeleteMedia *)

\* Store.DeleteMedia gives the URL of the row it removes ...
DeleteMedia(r, i) ==
    /\ At(r, "idle")
    /\ i \in Ids(d.media)
    /\ d' = [d EXCEPT !.media = Without(@, {i})]
    /\ req' = [req EXCEPT ![r] = [Idle EXCEPT !.at = "remove",
                                  !.entity = d.media.items[i].entity,
                                  !.name = d.media.items[i].name]]
    /\ UNCHANGED <<copies, disk, history>>

\* Mutant: the file is left to the deletion of the entity.
RemoveNothing(r) ==
    /\ At(r, "remove")
    /\ Finish(r)
    /\ UNCHANGED <<d, copies, disk, history>>

\* Mutant: the folder of the entity is removed.
RemoveSiblings(r) ==
    /\ At(r, "remove")
    /\ files' = {f \in files : f[1] # req[r].entity}
    /\ whole' = {f \in whole : f[1] # req[r].entity}
    /\ Finish(r)
    /\ UNCHANGED <<d, copies, dirs, history>>

\* ... and os.Remove deletes its file; an error is ignored.
RemoveFile(r) ==
    /\ At(r, "remove")
    /\ \/ /\ files' = files \ {File(r)}
          /\ whole' = whole \ {File(r)}
          /\ UNCHANGED failures
       \/ Failure /\ UNCHANGED <<files, whole>>
    /\ Finish(r)
    /\ UNCHANGED <<d, copies, dirs, used, fellBack, rolledBack, abandoned>>

-----------------------------------------------------------------------------
(* Entities: the delete handlers, which end in removeEntityFiles *)

\* Store.Create<Entity>.
CreateEntity(t) ==
    /\ d.seq[t] < MaxEntity
    /\ d' = [d EXCEPT !.seq[t] = @ + 1, !.live = @ \cup {<<t, d.seq[t] + 1>>}]
    /\ UNCHANGED <<copies, disk, req, history>>

\* Mutant: the rows are left to be swept later.
DeleteEntityOnly(r, e) ==
    /\ At(r, "idle")
    /\ e \in d.live
    /\ d' = [d EXCEPT !.live = @ \ {e}]
    /\ req' = [req EXCEPT ![r] = [Idle EXCEPT !.at = "list", !.entity = e]]
    /\ UNCHANGED <<copies, disk, history>>

\* Store.Delete<Entity>, which sweeps the rows of the pictures ...
DeleteEntity(r, e) ==
    /\ At(r, "idle")
    /\ e \in d.live
    /\ d' = [d EXCEPT !.live = @ \ {e},
                      !.media = Without(@, Matching(@, [entity |-> e]))]
    /\ req' = [req EXCEPT ![r] = [Idle EXCEPT !.at = "list", !.entity = e]]
    /\ UNCHANGED <<copies, disk, history>>

\* ... and os.RemoveAll, which reads the folder,
ListFolder(r) ==
    /\ At(r, "list")
    /\ req' = [req EXCEPT ![r].at = "unlink",
                  ![r].listed = {f[2] : f \in {g \in files : g[1] = req[r].entity}}]
    /\ UNCHANGED <<d, copies, disk, history>>

\* unlinks what it has read, or a part of it,
Unlink(r) ==
    /\ At(r, "unlink")
    /\ \E gone \in SUBSET req[r].listed :
        /\ files' = files \ ({req[r].entity} \X gone)
        /\ whole' = whole \ ({req[r].entity} \X gone)
        /\ IF gone = req[r].listed THEN UNCHANGED failures ELSE Failure
    /\ Goto(r, "rmdir")
    /\ UNCHANGED <<d, copies, dirs, used, fellBack, rolledBack, abandoned>>

\* and removes the folder, unless a file has appeared in it; an error is
\* logged.
RemoveFolder(r) ==
    /\ At(r, "rmdir")
    /\ dirs' = IF \E f \in files : f[1] = req[r].entity
               THEN dirs ELSE dirs \ {req[r].entity}
    /\ Finish(r)
    /\ UNCHANGED <<d, copies, files, whole, history>>

-----------------------------------------------------------------------------
(* Snapshots, dumps and restarts *)

Save ==
    /\ failures + copied < MaxIncidents /\ copied' = copied + 1
    /\ saved' = d
    /\ UNCHANGED <<d, dump, disk, req, history>>

Backup ==
    /\ failures + copied < MaxIncidents /\ copied' = copied + 1
    /\ dump' = d
    /\ UNCHANGED <<d, saved, disk, req, history>>

\* The data are replaced and saved; requests in progress go on.
Restore ==
    /\ d' = dump
    /\ saved' = dump
    /\ rolledBack' = (rolledBack \/ dump # d)
    /\ UNCHANGED <<dump, copied, disk, req, used, failures, fellBack, abandoned>>

\* The process ends, killed or stopped, and starts again.
Restart ==
    /\ d' = saved
    /\ req' = [r \in Requests |-> Idle]
    /\ rolledBack' = (rolledBack \/ saved # d)
    /\ abandoned' = (abandoned \/ \E r \in Requests : ~At(r, "idle"))
    /\ UNCHANGED <<copies, disk, used, failures, fellBack>>

-----------------------------------------------------------------------------

Init ==
    /\ d = Data /\ saved = Data /\ dump = Data
    /\ files = {} /\ whole = {} /\ dirs = {}
    /\ req = [r \in Requests |-> Idle]
    /\ used = {} /\ failures = 0 /\ copied = 0
    /\ fellBack = FALSE /\ rolledBack = FALSE /\ abandoned = FALSE

UploadStep(r) ==
    \/ \E e \in Entities : BeginUpload(r, e)
    \/ CreateFile(r) \/ Refuse(r) \/ CopyFile(r) \/ CopyFails(r) \/ AddRow(r)

DeleteStep(r) ==
    \/ \E i \in Ids(d.media) : DeleteMedia(r, i)
    \/ RemoveFile(r)
    \/ \E e \in Entities : DeleteEntity(r, e)
    \/ ListFolder(r) \/ Unlink(r) \/ RemoveFolder(r)

Next ==
    \/ \E r \in Requests : UploadStep(r) \/ DeleteStep(r)
    \/ \E t \in Types : CreateEntity(t)
    \/ Save \/ Backup \/ Restore \/ Restart

Spec == Init /\ [][Next]_vars

-----------------------------------------------------------------------------
(* Properties *)

MediaRow == [entity : Entities, name : Names \cup {PidName}]

Request == [at : {"idle", "create", "copy", "add", "remove", "list", "unlink", "rmdir"},
            entity : Entities \cup {NoEntity}, name : Names \cup {PidName},
            left : Nat, listed : SUBSET (Names \cup {PidName})]

DataOK(x) ==
    /\ DOMAIN x = {"live", "seq", "media"}
    /\ x.seq \in [Types -> Nat]
    /\ x.live \subseteq {e \in Entities : e[2] <= x.seq[e[1]]}
    /\ IsTable(x.media, MediaRow)

MediaFilesTypeOK ==
    /\ DataOK(d) /\ DataOK(saved) /\ DataOK(dump)
    /\ files \subseteq Entities \X (Names \cup {PidName})
    /\ whole \subseteq files
    /\ dirs \subseteq Entities
    /\ req \in [Requests -> Request]
    /\ \A r \in Requests : ~At(r, "idle") => req[r].entity \in Entities
    /\ used \subseteq Names \cup {PidName}
    /\ failures \in Nat /\ copied \in Nat
    /\ fellBack \in BOOLEAN /\ rolledBack \in BOOLEAN /\ abandoned \in BOOLEAN

\* While the data have not gone back, a picture of an entity that is not
\* deleted is on disk, complete: no interleaving of uploads and deletions
\* takes away a file that is still shown (media.go:70-85, 119-126, 149).
PicturesServed ==
    ~rolledBack /\ ~fellBack =>
        \A i \in Ids(d.media) : Picture(i) \in whole \/ Dead(d.media.items[i].entity)

\* Restores and restarts may bring back the row of a deleted file, never one
\* of a file that is only half written.
NeverHalf ==
    ~fellBack => \A i \in Ids(d.media) : Picture(i) \in files => Picture(i) \in whole

\* No two rows share a file, which the deletion of one would take from the
\* other: names are never drawn twice, whatever is restored (media.go:68, 119-126).
OwnFiles == ~fellBack => UniqueOn(d.media, {"entity", "name"})

\* Without failing calls, restarts and restores, every file has its row when
\* no request is running: an upload refused half way leaves no stray file, and
\* neither does one that races with the deletion of its entity.
NoOrphans ==
    /\ \A r \in Requests : At(r, "idle")
    /\ failures = 0 /\ ~rolledBack /\ ~abandoned
    => files \subseteq {Picture(i) : i \in Ids(d.media)}

\* The handlers change the data as module Pictures says, which Store
\* implements, or have an older copy of them put back.
Gallery == INSTANCE Pictures WITH
    live <- [t \in Types |-> {n \in 1..MaxEntity : <<t, n>> \in d.live}],
    issued <- d.seq,
    last <- d.media.seq,
    owner <- [i \in Ids(d.media) |-> d.media.items[i].entity]

UsesPictures == [][Gallery!Next \/ d' \in {saved, dump}]_d

=============================================================================

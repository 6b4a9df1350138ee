-------------------------- MODULE MediaFilesProofs --------------------------
(***************************************************************************)
(* The files of the pictures, for any number of requests, entities, files  *)
(* and failures.  A name that is drawn once belongs to one request until   *)
(* it is in the table, and to one row from then on: FreshInv.  As long as  *)
(* the data do not go back, whatever is removed from the disk belongs to   *)
(* no row or to a deleted entity: ServedInv.  As long as nothing fails     *)
(* either, each file has a row or a request that will see to it.           *)
(***************************************************************************)
EXTENDS MediaFiles, TablesProofs

Rows(t) == {t.items[i] : i \in Ids(t)}
Pic(w) == <<w.entity, w.name>>

LEMMA InsertRows ==
    ASSUME NEW R, NEW t, IsTable(t, R), NEW row \in R
    PROVE  Rows(Insert(t, row)) = Rows(t) \cup {row}
<1>1. /\ Ids(Insert(t, row)) = Ids(t) \cup {NextID(t)}
      /\ Insert(t, row).items[NextID(t)] = row
      /\ \A i \in Ids(t) : Insert(t, row).items[i] = t.items[i]
  BY InsertFacts
<1>2. Rows(t) \cup {row} \subseteq Rows(Insert(t, row))
  <2>1. row \in Rows(Insert(t, row)) BY <1>1 DEF Rows
  <2>2. ASSUME NEW i \in Ids(t) PROVE t.items[i] \in Rows(Insert(t, row))
    BY <1>1 DEF Rows
  <2> QED BY <2>1, <2>2 DEF Rows
<1>3. ASSUME NEW i \in Ids(Insert(t, row))
      PROVE  Insert(t, row).items[i] \in Rows(t) \cup {row}
  BY <1>1 DEF Rows
<1> QED BY <1>2, <1>3 DEF Rows

LEMMA WithoutRows ==
    ASSUME NEW R, NEW t, IsTable(t, R), NEW S
    PROVE  Rows(Without(t, S)) \subseteq Rows(t)
  BY WithoutFacts DEF Rows

-----------------------------------------------------------------------------
(* Types *)

AnyName == Names \cup {PidName}

\* What an operation may change of the data, and the types of the result.
LEMMA DataFacts ==
    ASSUME DataOK(d)
    PROVE  /\ \A row \in MediaRow :
                  LET x == [d EXCEPT !.media = Insert(@, row)]
                  IN  /\ DataOK(x) /\ x.live = d.live /\ x.seq = d.seq
                      /\ x.media = Insert(d.media, row)
           /\ \A S :
                  LET x == [d EXCEPT !.media = Without(@, S)]
                  IN  /\ DataOK(x) /\ x.live = d.live /\ x.seq = d.seq
                      /\ x.media = Without(d.media, S)
           /\ \A S, e :
                  LET x == [d EXCEPT !.live = @ \ {e}, !.media = Without(@, S)]
                  IN  /\ DataOK(x) /\ x.live = d.live \ {e} /\ x.seq = d.seq
                      /\ x.media = Without(d.media, S)
           /\ \A t \in Types :
                  LET x == [d EXCEPT !.seq[t] = @ + 1, !.live = @ \cup {<<t, d.seq[t] + 1>>}]
                  IN  d.seq[t] < MaxEntity =>
                      /\ DataOK(x) /\ x.live = d.live \cup {<<t, d.seq[t] + 1>>}
                      /\ x.seq = [d.seq EXCEPT ![t] = @ + 1]
                      /\ x.media = d.media
<1>1. ASSUME NEW row \in MediaRow
      PROVE  LET x == [d EXCEPT !.media = Insert(@, row)]
             IN  /\ DataOK(x) /\ x.live = d.live /\ x.seq = d.seq
                 /\ x.media = Insert(d.media, row)
  <2>1. IsTable(Insert(d.media, row), MediaRow) BY InsertFacts DEF DataOK
  <2> QED BY <2>1 DEF DataOK
<1>2. ASSUME NEW S
      PROVE  LET x == [d EXCEPT !.media = Without(@, S)]
             IN  /\ DataOK(x) /\ x.live = d.live /\ x.seq = d.seq
                 /\ x.media = Without(d.media, S)
  <2>1. IsTable(Without(d.media, S), MediaRow) BY WithoutFacts DEF DataOK
  <2> QED BY <2>1 DEF DataOK
<1>3. ASSUME NEW S, NEW e
      PROVE  LET x == [d EXCEPT !.live = @ \ {e}, !.media = Without(@, S)]
             IN  /\ DataOK(x) /\ x.live = d.live \ {e} /\ x.seq = d.seq
                 /\ x.media = Without(d.media, S)
  <2>1. IsTable(Without(d.media, S), MediaRow) BY WithoutFacts DEF DataOK
  <2> QED BY <2>1 DEF DataOK
<1>4. ASSUME NEW t \in Types, d.seq[t] < MaxEntity
      PROVE  LET x == [d EXCEPT !.seq[t] = @ + 1, !.live = @ \cup {<<t, d.seq[t] + 1>>}]
             IN  /\ DataOK(x) /\ x.live = d.live \cup {<<t, d.seq[t] + 1>>}
                 /\ x.seq = [d.seq EXCEPT ![t] = @ + 1]
                 /\ x.media = d.media
  <2> DEFINE x == [d EXCEPT !.seq[t] = @ + 1, !.live = @ \cup {<<t, d.seq[t] + 1>>}]
  <2>1. /\ DOMAIN x = {"live", "seq", "media"} /\ x.media = d.media
        /\ x.live = d.live \cup {<<t, d.seq[t] + 1>>}
        /\ x.seq = [d.seq EXCEPT ![t] = @ + 1]
    BY DEF DataOK
  <2>2. x.seq \in [Types -> Nat] /\ \A s \in Types : d.seq[s] <= x.seq[s]
    BY <2>1 DEF DataOK
  <2>3. <<t, d.seq[t] + 1>> \in Entities /\ d.seq[t] + 1 <= x.seq[t]
    BY <1>4, <2>1, MediaFilesAssumption DEF DataOK, Entities
  <2>4. ASSUME NEW e \in d.live PROVE e \in Entities /\ e[2] <= x.seq[e[1]]
    <3>1. e \in Entities /\ e[2] <= d.seq[e[1]] BY <2>4 DEF DataOK
    <3>2. e[1] \in Types /\ e[2] \in Nat BY <3>1, MediaFilesAssumption DEF Entities
    <3> QED BY <2>2, <3>1, <3>2 DEF DataOK
  <2>5. x.live \subseteq {e \in Entities : e[2] <= x.seq[e[1]]}
    BY <2>1, <2>3, <2>4
  <2> HIDE DEF x
  <2>6. DataOK(x) BY <2>1, <2>2, <2>5 DEF DataOK
  <2> QED BY <2>1, <2>6 DEF x
<1> QED BY <1>1, <1>2, <1>3, <1>4

\* A step changes one request.
LEMMA RequestFacts ==
    ASSUME MediaFilesTypeOK, NEW r \in Requests, NEW q \in Request,
           q.at # "idle" => q.entity \in Entities, req' = [req EXCEPT ![r] = q]
    PROVE  /\ req' \in [Requests -> Request]
           /\ \A s \in Requests : req'[s].at # "idle" => req'[s].entity \in Entities
           /\ req'[r] = q
           /\ \A s \in Requests : s # r => req'[s] = req[s]
  BY DEF MediaFilesTypeOK, At

LEMMA IdleFacts == Idle \in Request /\ Idle.at = "idle"
  BY DEF Idle, Request

\* The requests each step leaves, and their files.
LEMMA RequestSteps ==
    ASSUME MediaFilesTypeOK, NEW r \in Requests
    PROVE  /\ \A e \in Entities : BeginUpload(r, e) =>
                 \E q \in Request : /\ req' = [req EXCEPT ![r] = q]
                                    /\ q.at = "create" /\ q.entity = e
           /\ CreateFile(r) =>
                 \E q \in Request : /\ req' = [req EXCEPT ![r] = q] /\ q.at = "copy"
                                    /\ q.entity = req[r].entity
           /\ CopyFile(r) =>
                 \E q \in Request : /\ req' = [req EXCEPT ![r] = q] /\ q.at = "add"
                                    /\ q.entity = req[r].entity /\ q.name = req[r].name
           /\ AddRow(r) =>
                 \E q \in Request : /\ req' = [req EXCEPT ![r] = q]
                                    /\ \/ q = Idle
                                       \/ q.at = "create" /\ q.entity = req[r].entity
           /\ \A i \in Ids(d.media) : DeleteMedia(r, i) =>
                 \E q \in Request : /\ req' = [req EXCEPT ![r] = q] /\ q.at = "remove"
                                    /\ q.entity = d.media.items[i].entity
                                    /\ q.name = d.media.items[i].name
                                    /\ q.entity \in Entities
           /\ \A e \in Entities : DeleteEntity(r, e) =>
                 \E q \in Request : /\ req' = [req EXCEPT ![r] = q]
                                    /\ q.at = "list" /\ q.entity = e
           /\ ListFolder(r) =>
                 \E q \in Request : /\ req' = [req EXCEPT ![r] = q]
                                    /\ q.at = "unlink" /\ q.entity = req[r].entity
                                    /\ q.listed = {f[2] : f \in {g \in files : g[1] = req[r].entity}}
           /\ Unlink(r) =>
                 \E q \in Request : /\ req' = [req EXCEPT ![r] = q]
                                    /\ q.at = "rmdir" /\ q.entity = req[r].entity
<1>0. req \in [Requests -> Request] /\ req[r] \in Request BY DEF MediaFilesTypeOK
<1>1. ASSUME NEW e \in Entities, BeginUpload(r, e)
      PROVE  \E q \in Request : /\ req' = [req EXCEPT ![r] = q]
                                /\ q.at = "create" /\ q.entity = e
  <2>1. PICK n \in 1..MaxFiles :
            req' = [req EXCEPT ![r] = [Idle EXCEPT !.at = "create", !.entity = e, !.left = n]]
    BY <1>1 DEF BeginUpload
  <2>2. n \in Nat BY MediaFilesAssumption
  <2> DEFINE q == [Idle EXCEPT !.at = "create", !.entity = e, !.left = n]
  <2>3. q \in Request /\ q.at = "create" /\ q.entity = e BY <2>2 DEF Idle, Request
  <2> QED BY <2>1, <2>3
<1>2. ASSUME CreateFile(r)
      PROVE  \E q \in Request : /\ req' = [req EXCEPT ![r] = q] /\ q.at = "copy"
                                /\ q.entity = req[r].entity
  <2>1. PICK n \in Names \cup {PidName} : req' = [req EXCEPT ![r].name = n, ![r].at = "copy"]
    BY <1>2 DEF CreateFile
  <2> DEFINE q == [req[r] EXCEPT !.name = n, !.at = "copy"]
  <2>2. req' = [req EXCEPT ![r] = q] BY <1>0, <2>1
  <2>3. q \in Request /\ q.at = "copy" /\ q.entity = req[r].entity BY <1>0 DEF Request
  <2> QED BY <2>2, <2>3
<1>3. ASSUME CopyFile(r)
      PROVE  \E q \in Request : /\ req' = [req EXCEPT ![r] = q] /\ q.at = "add"
                                /\ q.entity = req[r].entity /\ q.name = req[r].name
  <2> DEFINE q == [req[r] EXCEPT !.at = "add"]
  <2>1. req' = [req EXCEPT ![r] = q] BY <1>0, <1>3 DEF CopyFile, Goto
  <2>2. q \in Request /\ q.at = "add" /\ q.entity = req[r].entity /\ q.name = req[r].name
    BY <1>0 DEF Request
  <2> QED BY <2>1, <2>2
<1>4. ASSUME AddRow(r)
      PROVE  \E q \in Request : /\ req' = [req EXCEPT ![r] = q]
                                /\ \/ q = Idle
                                   \/ q.at = "create" /\ q.entity = req[r].entity
  <2>1. CASE req[r].left > 1
    <3> DEFINE q == [req[r] EXCEPT !.left = @ - 1, !.at = "create"]
    <3>1. req' = [req EXCEPT ![r] = q] BY <1>0, <1>4, <2>1 DEF AddRow
    <3>2. req[r].left - 1 \in Nat BY <1>0, <2>1 DEF Request
    <3>3. q \in Request /\ q.at = "create" /\ q.entity = req[r].entity
      BY <1>0, <3>2 DEF Request
    <3> QED BY <3>1, <3>3
  <2>2. CASE ~(req[r].left > 1)
    BY <1>4, <2>2, IdleFacts DEF AddRow, Finish
  <2> QED BY <2>1, <2>2
<1>5. ASSUME NEW i \in Ids(d.media), DeleteMedia(r, i)
      PROVE  \E q \in Request : /\ req' = [req EXCEPT ![r] = q] /\ q.at = "remove"
                                /\ q.entity = d.media.items[i].entity
                                /\ q.name = d.media.items[i].name
                                /\ q.entity \in Entities
  <2>1. d.media.items[i] \in MediaRow BY DEF MediaFilesTypeOK, DataOK, IsTable
  <2> DEFINE q == [Idle EXCEPT !.at = "remove", !.entity = d.media.items[i].entity,
                               !.name = d.media.items[i].name]
  <2>2. q \in Request /\ q.at = "remove" /\ q.entity = d.media.items[i].entity
        /\ q.name = d.media.items[i].name /\ q.entity \in Entities
    BY <2>1 DEF MediaRow, Idle, Request
  <2> QED BY <1>5, <2>2 DEF DeleteMedia
<1>6. ASSUME NEW e \in Entities, DeleteEntity(r, e)
      PROVE  \E q \in Request : /\ req' = [req EXCEPT ![r] = q]
                                /\ q.at = "list" /\ q.entity = e
  <2> DEFINE q == [Idle EXCEPT !.at = "list", !.entity = e]
  <2>1. q \in Request /\ q.at = "list" /\ q.entity = e BY DEF Idle, Request
  <2> QED BY <1>6, <2>1 DEF DeleteEntity
<1>7. ASSUME ListFolder(r)
      PROVE  \E q \in Request : /\ req' = [req EXCEPT ![r] = q]
                                /\ q.at = "unlink" /\ q.entity = req[r].entity
                                /\ q.listed = {f[2] : f \in {g \in files : g[1] = req[r].entity}}
  <2> DEFINE names == {f[2] : f \in {g \in files : g[1] = req[r].entity}}
             q == [req[r] EXCEPT !.at = "unlink", !.listed = names]
  <2>1. names \subseteq AnyName
    <3>1. \A f \in files : f[2] \in AnyName BY DEF MediaFilesTypeOK, AnyName
    <3> QED BY <3>1
  <2>2. req' = [req EXCEPT ![r] = q] BY <1>0, <1>7 DEF ListFolder
  <2> HIDE DEF names
  <2>3. q \in Request /\ q.at = "unlink" /\ q.entity = req[r].entity /\ q.listed = names
    BY <1>0, <2>1 DEF Request, AnyName
  <2> QED BY <2>2, <2>3 DEF names
<1>8. ASSUME Unlink(r)
      PROVE  \E q \in Request : /\ req' = [req EXCEPT ![r] = q]
                                /\ q.at = "rmdir" /\ q.entity = req[r].entity
  <2> DEFINE q == [req[r] EXCEPT !.at = "rmdir"]
  <2>1. req' = [req EXCEPT ![r] = q] BY <1>0, <1>8 DEF Unlink, Goto
  <2>2. q \in Request /\ q.at = "rmdir" /\ q.entity = req[r].entity BY <1>0 DEF Request
  <2> QED BY <2>1, <2>2
<1> QED BY <1>1, <1>2, <1>3, <1>4, <1>5, <1>6, <1>7, <1>8

\* The request a step leaves is well typed, and the other requests stay.
LEMMA OneRequest ==
    ASSUME MediaFilesTypeOK, NEW r \in Requests, UploadStep(r) \/ DeleteStep(r)
    PROVE  /\ req' \in [Requests -> Request]
           /\ \A s \in Requests : req'[s].at # "idle" => req'[s].entity \in Entities
           /\ \A s \in Requests : s # r => req'[s] = req[s]
<1> SUFFICES \E q \in Request : /\ req' = [req EXCEPT ![r] = q]
                                /\ q.at # "idle" => q.entity \in Entities
  BY RequestFacts
<1>1. ~At(r, "idle") => req[r].entity \in Entities BY DEF MediaFilesTypeOK
<1>2. ASSUME NEW e \in Entities, BeginUpload(r, e) \/ DeleteEntity(r, e)
      PROVE  \E q \in Request : req' = [req EXCEPT ![r] = q]
                                /\ (q.at # "idle" => q.entity \in Entities)
  BY <1>2, RequestSteps
<1>3. CASE CreateFile(r) \/ CopyFile(r) \/ AddRow(r) \/ ListFolder(r) \/ Unlink(r)
  <2>1. req[r].entity \in Entities
    BY <1>1, <1>3 DEF CreateFile, CopyFile, AddRow, ListFolder, Unlink, At
  <2> QED BY <1>3, <2>1, RequestSteps, IdleFacts
<1>4. CASE Refuse(r) \/ CopyFails(r) \/ RemoveFile(r) \/ RemoveFolder(r)
  BY <1>4, IdleFacts DEF Refuse, CopyFails, RemoveFile, RemoveFolder, Finish
<1>5. ASSUME NEW i \in Ids(d.media), DeleteMedia(r, i)
      PROVE  \E q \in Request : req' = [req EXCEPT ![r] = q]
                                /\ (q.at # "idle" => q.entity \in Entities)
  BY <1>5, RequestSteps
<1> QED BY <1>2, <1>3, <1>4, <1>5 DEF UploadStep, DeleteStep

\* What a step does to the data.
LEMMA DataSteps ==
    ASSUME MediaFilesTypeOK, NEW r \in Requests, UploadStep(r) \/ DeleteStep(r)
    PROVE  /\ DataOK(d') /\ UNCHANGED <<saved, dump, copied, rolledBack, abandoned>>
           /\ d'.seq = d.seq /\ d'.live \subseteq d.live
           /\ AddRow(r) => Row(r) \in MediaRow /\ d'.media = Insert(d.media, Row(r))
           /\ ~AddRow(r) => d'.media = d.media \/ \E S : d'.media = Without(d.media, S)
<1>1. ASSUME AddRow(r)
      PROVE  /\ DataOK(d') /\ d'.seq = d.seq /\ d'.live = d.live
             /\ Row(r) \in MediaRow /\ d'.media = Insert(d.media, Row(r))
  <2>1. Row(r) \in MediaRow
    BY <1>1 DEF MediaFilesTypeOK, AddRow, At, Row, Request, MediaRow
  <2> QED BY <1>1, <2>1, DataFacts DEF AddRow, MediaFilesTypeOK
<1>2. ASSUME NEW i \in Ids(d.media), DeleteMedia(r, i)
      PROVE  /\ DataOK(d') /\ d'.seq = d.seq /\ d'.live = d.live
             /\ \E S : d'.media = Without(d.media, S)
  BY <1>2, DataFacts DEF DeleteMedia, MediaFilesTypeOK
<1>3. ASSUME NEW e \in Entities, DeleteEntity(r, e)
      PROVE  /\ DataOK(d') /\ d'.seq = d.seq /\ d'.live \subseteq d.live
             /\ \E S : d'.media = Without(d.media, S)
  <2> DEFINE S == Matching(d.media, [entity |-> e])
  <2>1. d' = [d EXCEPT !.live = @ \ {e}, !.media = Without(@, S)] BY <1>3 DEF DeleteEntity
  <2> HIDE DEF S
  <2>2. DataOK(d') /\ d'.live = d.live \ {e} /\ d'.seq = d.seq /\ d'.media = Without(d.media, S)
    BY <2>1, DataFacts DEF MediaFilesTypeOK
  <2> QED BY <2>2
<1>4. ASSUME UNCHANGED d
      PROVE  DataOK(d') /\ d'.seq = d.seq /\ d'.live = d.live /\ d'.media = d.media
  BY <1>4 DEF MediaFilesTypeOK
<1>5. UNCHANGED <<saved, dump, copied, rolledBack, abandoned>>
  BY DEF UploadStep, DeleteStep, BeginUpload, CreateFile, Refuse, CopyFile, CopyFails, AddRow,
         DeleteMedia, RemoveFile, DeleteEntity, ListFolder, Unlink, RemoveFolder,
         copies, history
<1>6. \/ UNCHANGED d \/ AddRow(r) \/ \E i \in Ids(d.media) : DeleteMedia(r, i)
      \/ \E e \in Entities : DeleteEntity(r, e)
  BY DEF UploadStep, DeleteStep, BeginUpload, CreateFile, Refuse, CopyFile, CopyFails,
         RemoveFile, ListFolder, Unlink, RemoveFolder
<1>7. AddRow(r) => /\ ~\E i \in Ids(d.media) : DeleteMedia(r, i)
                   /\ ~\E e \in Entities : DeleteEntity(r, e)
  BY DEF AddRow, DeleteMedia, DeleteEntity, At
<1> QED BY <1>1, <1>2, <1>3, <1>4, <1>5, <1>6

DiskOK ==
    /\ files \subseteq Entities \X AnyName /\ whole \subseteq files
    /\ dirs \subseteq Entities /\ used \subseteq AnyName
    /\ failures \in Nat /\ fellBack \in BOOLEAN

LEMMA RequestTypes ==
    ASSUME MediaFilesTypeOK, NEW r \in Requests, UploadStep(r) \/ DeleteStep(r)
    PROVE  MediaFilesTypeOK'
<1>1. DataOK(d') /\ DataOK(saved') /\ DataOK(dump')
  BY DataSteps DEF MediaFilesTypeOK
<1>2. /\ req' \in [Requests -> Request]
      /\ \A s \in Requests : ~(At(s, "idle")') => req'[s].entity \in Entities
  BY OneRequest DEF At
<1>3. DiskOK'
  <2> USE DEF MediaFilesTypeOK, AnyName, DiskOK
  <2>1. ASSUME NEW e \in Entities, BeginUpload(r, e) PROVE DiskOK'
    BY <2>1 DEF BeginUpload, history
  <2>2. CASE CreateFile(r)
    <3>1. req[r].entity \in Entities BY <2>2 DEF CreateFile, At
    <3>2. PICK n \in Names \cup {PidName} :
              /\ Draw(n) /\ used' = used \cup {n}
              /\ files' = files \cup {<<req[r].entity, n>>}
              /\ whole' = whole \ {<<req[r].entity, n>>}
      BY <2>2 DEF CreateFile
    <3>3. failures' \in Nat /\ fellBack' \in BOOLEAN
      <4>1. CASE UNCHANGED <<failures, fellBack>> BY <4>1
      <4>2. CASE Failure /\ fellBack' = TRUE BY <4>2 DEF Failure
      <4> QED BY <3>2, <4>1, <4>2 DEF Draw
    <3>4. dirs' = dirs BY <2>2 DEF CreateFile
    <3> QED BY <3>1, <3>2, <3>3, <3>4
  <2>3. CASE CopyFile(r) BY <2>3 DEF CopyFile, history
  <2>4. CASE CopyFails(r) BY <2>4 DEF CopyFails, Failure, disk
  <2>5. CASE Refuse(r) \/ AddRow(r) \/ ListFolder(r) BY <2>5 DEF Refuse, AddRow, ListFolder, disk, history
  <2>6. ASSUME (\E i \in Ids(d.media) : DeleteMedia(r, i)) \/ \E e \in Entities : DeleteEntity(r, e)
        PROVE  DiskOK'
    BY <2>6 DEF DeleteMedia, DeleteEntity, disk, history
  <2>7. CASE RemoveFile(r) BY <2>7 DEF RemoveFile, Failure
  <2>8. CASE Unlink(r)
    <3>1. PICK gone \in SUBSET req[r].listed :
              /\ files' = files \ ({req[r].entity} \X gone)
              /\ whole' = whole \ ({req[r].entity} \X gone)
              /\ IF gone = req[r].listed THEN UNCHANGED failures ELSE Failure
      BY <2>8 DEF Unlink
    <3>2. failures' \in Nat BY <3>1 DEF Failure
    <3>3. UNCHANGED <<dirs, used, fellBack>> BY <2>8 DEF Unlink
    <3> QED BY <3>1, <3>2, <3>3
  <2>9. CASE RemoveFolder(r) BY <2>9 DEF RemoveFolder, history
  <2> QED BY <2>1, <2>2, <2>3, <2>4, <2>5, <2>6, <2>7, <2>8, <2>9 DEF UploadStep, DeleteStep
<1>4. UNCHANGED <<copied, rolledBack, abandoned>> BY DataSteps
<1> QED BY <1>1, <1>2, <1>3, <1>4 DEF MediaFilesTypeOK, AnyName, DiskOK

LEMMA OtherTypes ==
    ASSUME MediaFilesTypeOK,
           (\E t \in Types : CreateEntity(t)) \/ Save \/ Backup \/ Restore \/ Restart \/ UNCHANGED vars
    PROVE  MediaFilesTypeOK'
<1> USE DEF MediaFilesTypeOK
<1>1. ASSUME NEW t \in Types, CreateEntity(t) PROVE MediaFilesTypeOK'
  <2>1. DataOK(d') BY <1>1, DataFacts DEF CreateEntity
  <2> QED BY <1>1, <2>1 DEF CreateEntity, copies, disk, history, At
<1>2. CASE Save BY <1>2 DEF Save, disk, history, At
<1>3. CASE Backup BY <1>3 DEF Backup, disk, history, At
<1>4. CASE Restore BY <1>4 DEF Restore, disk, At
<1>5. CASE Restart BY <1>5, IdleFacts DEF Restart, copies, disk, At
<1>6. CASE UNCHANGED vars BY <1>6 DEF vars, copies, disk, history, At
<1> QED BY <1>1, <1>2, <1>3, <1>4, <1>5, <1>6

LEMMA InitTypes == Init => MediaFilesTypeOK
<1> SUFFICES ASSUME Init PROVE MediaFilesTypeOK OBVIOUS
<1>1. DataOK(Data)
  BY DEF Data, DataOK, IsTable, EmptyTable, Ids
<1> QED BY <1>1, IdleFacts DEF Init, MediaFilesTypeOK, At

LEMMA TypesStep == MediaFilesTypeOK /\ [Next]_vars => MediaFilesTypeOK'
  BY RequestTypes, OtherTypes DEF Next

\* Every field has its type, and every request that runs an entity.
THEOREM MediaTypes == Spec => []MediaFilesTypeOK
  BY InitTypes, TypesStep, PTL DEF Spec

-----------------------------------------------------------------------------
(* Names are drawn once *)

Working(r) == req[r].at \in {"copy", "add"}

\* In memory, in the snapshot and in the dump every row has a name of its own,
\* and no file that is only half written.
RowsDrawn ==
    \A x \in {d, saved, dump} :
        /\ UniqueOn(x.media, {"name"})
        /\ \A w \in Rows(x.media) : w.name \in used /\ (Pic(w) \in files => Pic(w) \in whole)

\* The name an upload works on is in no row and in no other upload.
NamesDrawn ==
    \A r \in Requests : Working(r) =>
        /\ req[r].name \in used
        /\ \A x \in {d, saved, dump} : \A w \in Rows(x.media) : w.name # req[r].name
        /\ \A q \in Requests : q # r /\ Working(q) => req[q].name # req[r].name
        /\ At(r, "add") /\ File(r) \in files => File(r) \in whole

FreshInv == ~fellBack => RowsDrawn /\ NamesDrawn

\* Steps that take rows, files and uploads away.
LEMMA QuietFresh ==
    ASSUME RowsDrawn, NamesDrawn,
           used' = used, files' \subseteq files, files' \cap whole \subseteq whole',
           \A x \in {d', saved', dump'} :
               /\ UniqueOn(x.media, {"name"})
               /\ \E y \in {d, saved, dump} : Rows(x.media) \subseteq Rows(y.media),
           \A r \in Requests : Working(r)' => req'[r] = req[r]
    PROVE  RowsDrawn' /\ NamesDrawn'
<1>1. RowsDrawn'
  <2> SUFFICES ASSUME NEW x \in {d', saved', dump'}, NEW w \in Rows(x.media)
               PROVE  w.name \in used' /\ (Pic(w) \in files' => Pic(w) \in whole')
    BY DEF RowsDrawn, Rows, Pic
  <2>1. PICK y \in {d, saved, dump} : w \in Rows(y.media) OBVIOUS
  <2>2. w.name \in used /\ (Pic(w) \in files => Pic(w) \in whole) BY <2>1 DEF RowsDrawn
  <2> QED BY <2>2
<1>2. NamesDrawn'
  <2> SUFFICES ASSUME NEW r \in Requests, Working(r)'
               PROVE  /\ req'[r].name \in used'
                      /\ \A x \in {d', saved', dump'} : \A w \in Rows(x.media) : w.name # req'[r].name
                      /\ \A q \in Requests : q # r /\ Working(q)' => req'[q].name # req'[r].name
                      /\ At(r, "add")' /\ File(r)' \in files' => File(r)' \in whole'
    BY DEF NamesDrawn, Rows
  <2>1. req'[r] = req[r] /\ Working(r) BY DEF Working
  <2>2. /\ req[r].name \in used
        /\ \A x \in {d, saved, dump} : \A w \in Rows(x.media) : w.name # req[r].name
        /\ \A q \in Requests : q # r /\ Working(q) => req[q].name # req[r].name
        /\ At(r, "add") /\ File(r) \in files => File(r) \in whole
    BY <2>1 DEF NamesDrawn
  <2>3. ASSUME NEW x \in {d', saved', dump'}, NEW w \in Rows(x.media)
        PROVE  w.name # req'[r].name
    BY <2>1, <2>2
  <2>4. ASSUME NEW q \in Requests, q # r, Working(q)' PROVE req'[q].name # req'[r].name
    <3>1. req'[q] = req[q] /\ Working(q) BY <2>4 DEF Working
    <3> QED BY <2>1, <2>2, <2>4, <3>1
  <2>5. At(r, "add")' /\ File(r)' \in files' => File(r)' \in whole'
    BY <2>1, <2>2 DEF At, File
  <2> QED BY <2>1, <2>2, <2>3, <2>4, <2>5
<1> QED BY <1>1, <1>2

\* The rows an operation other than AddMedia leaves.
LEMMA FewerRows ==
    ASSUME MediaFilesTypeOK, RowsDrawn, UNCHANGED <<saved, dump>>,
           d'.media = d.media \/ \E S : d'.media = Without(d.media, S)
    PROVE  /\ Rows(d'.media) \subseteq Rows(d.media)
           /\ \A x \in {d', saved', dump'} :
                  /\ UniqueOn(x.media, {"name"})
                  /\ \E y \in {d, saved, dump} : Rows(x.media) \subseteq Rows(y.media)
<1>1. IsTable(d.media, MediaRow) BY DEF MediaFilesTypeOK, DataOK
<1>2. \A x \in {d, saved, dump} : UniqueOn(x.media, {"name"}) BY DEF RowsDrawn
<1>3. Rows(d'.media) \subseteq Rows(d.media) /\ UniqueOn(d'.media, {"name"})
  BY <1>1, <1>2, WithoutRows, WithoutUnique
<1> QED BY <1>2, <1>3

\* The other steps of a request: what they remove and what they leave alone.
Special(r) == CreateFile(r) \/ CopyFile(r) \/ AddRow(r)

LEMMA OtherSteps ==
    ASSUME MediaFilesTypeOK, NEW r \in Requests, UploadStep(r) \/ DeleteStep(r), ~Special(r)
    PROVE  /\ UNCHANGED <<used, fellBack>>
           /\ files' \subseteq files /\ files' \cap whole \subseteq whole'
           /\ req'[r].at \notin {"copy", "add"}
<1> DEFINE Goal == /\ UNCHANGED <<used, fellBack>>
                   /\ files' \subseteq files /\ files' \cap whole \subseteq whole'
                   /\ req'[r].at \notin {"copy", "add"}
<1>0. req \in [Requests -> Request] BY DEF MediaFilesTypeOK
<1>1. ASSUME NEW e \in Entities, BeginUpload(r, e) \/ DeleteEntity(r, e) PROVE Goal
  <2>1. req'[r].at \in {"create", "list"} BY <1>0, <1>1, RequestSteps
  <2> QED BY <1>1, <2>1 DEF BeginUpload, DeleteEntity, disk, history
<1>2. CASE Refuse(r) \/ CopyFails(r) \/ RemoveFile(r) \/ RemoveFolder(r)
  <2>1. req'[r].at = "idle"
    BY <1>0, <1>2, IdleFacts DEF Refuse, CopyFails, RemoveFile, RemoveFolder, Finish
  <2> QED BY <1>2, <2>1 DEF Refuse, CopyFails, RemoveFile, RemoveFolder, disk, history
<1>3. ASSUME NEW i \in Ids(d.media), DeleteMedia(r, i) PROVE Goal
  <2>1. req'[r].at = "remove" BY <1>0, <1>3, RequestSteps
  <2> QED BY <1>3, <2>1 DEF DeleteMedia, disk, history
<1>4. CASE ListFolder(r)
  <2>1. req'[r].at = "unlink" BY <1>0, <1>4, RequestSteps
  <2> QED BY <1>4, <2>1 DEF ListFolder, disk, history
<1>5. CASE Unlink(r)
  <2>1. req'[r].at = "rmdir" BY <1>0, <1>5, RequestSteps
  <2> QED BY <1>5, <2>1 DEF Unlink
<1> QED BY <1>1, <1>2, <1>3, <1>4, <1>5 DEF UploadStep, DeleteStep, Special

\* The facts of a fresh name.
LEMMA CreateFacts ==
    ASSUME MediaFilesTypeOK, NEW r \in Requests, CreateFile(r), ~fellBack'
    PROVE  \E n \in Names \ used :
               /\ used' = used \cup {n} /\ UNCHANGED <<d, saved, dump, failures, fellBack>>
               /\ req'[r].at = "copy" /\ req'[r].name = n /\ req'[r].entity = req[r].entity
               /\ files' = files \cup {<<req[r].entity, n>>}
               /\ whole' = whole \ {<<req[r].entity, n>>}
<1>1. PICK n \in Names \cup {PidName} :
          /\ Draw(n) /\ used' = used \cup {n}
          /\ req' = [req EXCEPT ![r].name = n, ![r].at = "copy"]
          /\ files' = files \cup {<<req[r].entity, n>>}
          /\ whole' = whole \ {<<req[r].entity, n>>}
  BY DEF CreateFile
<1>2. n \in Names \ used /\ UNCHANGED <<failures, fellBack>> BY <1>1 DEF Draw
<1>3. req'[r].at = "copy" /\ req'[r].name = n /\ req'[r].entity = req[r].entity
  BY <1>1 DEF MediaFilesTypeOK, Request
<1>4. UNCHANGED <<d, saved, dump>> BY DEF CreateFile, copies
<1> QED BY <1>1, <1>2, <1>3, <1>4

LEMMA CreateFresh ==
    ASSUME MediaFilesTypeOK, RowsDrawn, NamesDrawn, NEW r \in Requests, CreateFile(r), ~fellBack'
    PROVE  RowsDrawn' /\ NamesDrawn'
<1>1. PICK n \in Names \ used :
          /\ used' = used \cup {n} /\ UNCHANGED <<d, saved, dump>>
          /\ req'[r].at = "copy" /\ req'[r].name = n /\ req'[r].entity = req[r].entity
          /\ files' = files \cup {<<req[r].entity, n>>}
          /\ whole' = whole \ {<<req[r].entity, n>>}
  BY CreateFacts
<1>2. \A s \in Requests : s # r => req'[s] = req[s]
  BY OneRequest DEF UploadStep
<1>3. RowsDrawn' BY <1>1 DEF RowsDrawn, Rows, Pic
<1>4. \A x \in {d, saved, dump} : \A w \in Rows(x.media) : w.name \in used
  BY DEF RowsDrawn
<1>5. \A q \in Requests : Working(q) => req[q].name \in used BY DEF NamesDrawn
<1>6. NamesDrawn'
  <2> SUFFICES ASSUME NEW s \in Requests, Working(s)'
               PROVE  /\ req'[s].name \in used'
                      /\ \A x \in {d, saved, dump} : \A w \in Rows(x.media) : w.name # req'[s].name
                      /\ \A q \in Requests : q # s /\ Working(q)' => req'[q].name # req'[s].name
                      /\ At(s, "add")' /\ File(s)' \in files' => File(s)' \in whole'
    BY <1>1 DEF NamesDrawn, Rows
  <2>1. CASE s = r
    BY <1>1, <1>2, <1>4, <1>5, <2>1 DEF Working, At
  <2>2. CASE s # r
    <3>1. req'[s] = req[s] /\ Working(s) BY <1>2, <2>2 DEF Working
    <3>2. /\ req[s].name \in used
          /\ \A x \in {d, saved, dump} : \A w \in Rows(x.media) : w.name # req[s].name
          /\ \A q \in Requests : q # s /\ Working(q) => req[q].name # req[s].name
          /\ At(s, "add") /\ File(s) \in files => File(s) \in whole
      BY <3>1 DEF NamesDrawn
    <3>3. \A q \in Requests : q # s /\ Working(q)' => req'[q].name # req'[s].name
      BY <1>1, <1>2, <3>1, <3>2 DEF Working
    <3>4. At(s, "add")' /\ File(s)' \in files' => File(s)' \in whole'
      BY <1>1, <3>1, <3>2 DEF At, File
    <3> QED BY <1>1, <3>1, <3>2, <3>3, <3>4
  <2> QED BY <2>1, <2>2
<1> QED BY <1>3, <1>6

LEMMA CopyFacts ==
    ASSUME MediaFilesTypeOK, NEW r \in Requests, CopyFile(r)
    PROVE  /\ UNCHANGED <<d, saved, dump, copied, files, used, failures, fellBack, rolledBack, abandoned>>
           /\ whole' = whole \cup ({File(r)} \cap files)
           /\ req'[r].at = "add" /\ req'[r].entity = req[r].entity /\ req'[r].name = req[r].name
           /\ At(r, "copy")
           /\ \A s \in Requests : s # r => req'[s] = req[s]
<1>1. req \in [Requests -> Request] BY DEF MediaFilesTypeOK
<1>2. req'[r].at = "add" /\ req'[r].entity = req[r].entity /\ req'[r].name = req[r].name
  BY <1>1, RequestSteps
<1>3. \A s \in Requests : s # r => req'[s] = req[s] BY OneRequest DEF UploadStep
<1> QED BY <1>2, <1>3 DEF CopyFile, copies, history

LEMMA CopyFresh ==
    ASSUME MediaFilesTypeOK, RowsDrawn, NamesDrawn, NEW r \in Requests, CopyFile(r)
    PROVE  RowsDrawn' /\ NamesDrawn'
<1>1. /\ UNCHANGED <<d, saved, dump, files, used>>
      /\ whole' = whole \cup ({File(r)} \cap files)
      /\ req'[r].at = "add" /\ req'[r].entity = req[r].entity /\ req'[r].name = req[r].name
      /\ At(r, "copy")
      /\ \A s \in Requests : s # r => req'[s] = req[s]
  BY CopyFacts
<1>2. RowsDrawn' BY <1>1 DEF RowsDrawn, Rows, Pic
<1>3. \A s \in Requests : Working(s)' <=> Working(s) BY <1>1 DEF Working, At
<1>4. \A s \in Requests : req'[s].name = req[s].name /\ req'[s].entity = req[s].entity BY <1>1
<1>5. \A s \in Requests : At(s, "add")' /\ File(s)' \in files' /\ Working(s) => File(s)' \in whole'
  BY <1>1, <1>4 DEF NamesDrawn, At, File
<1>6. NamesDrawn' BY <1>1, <1>3, <1>4, <1>5 DEF NamesDrawn, Rows
<1> QED BY <1>2, <1>6

LEMMA AddFacts ==
    ASSUME MediaFilesTypeOK, NEW r \in Requests, AddRow(r)
    PROVE  /\ UNCHANGED <<saved, dump, copied, files, whole, used, failures, fellBack, rolledBack, abandoned>>
           /\ d'.live = d.live /\ d'.seq = d.seq
           /\ IsTable(d.media, MediaRow) /\ Row(r) \in MediaRow
           /\ d'.media = Insert(d.media, Row(r))
           /\ Rows(d'.media) = Rows(d.media) \cup {Row(r)}
           /\ Row(r).name = req[r].name /\ Row(r).entity = req[r].entity /\ Pic(Row(r)) = File(r)
           /\ At(r, "add") /\ req'[r].at \in {"idle", "create"}
           /\ \A s \in Requests : s # r => req'[s] = req[s]
<1>1. Row(r) \in MediaRow /\ d'.media = Insert(d.media, Row(r)) /\ d'.seq = d.seq
  BY DataSteps DEF UploadStep
<1>2. IsTable(d.media, MediaRow) BY DEF MediaFilesTypeOK, DataOK
<1>3. Rows(d'.media) = Rows(d.media) \cup {Row(r)} BY <1>1, <1>2, InsertRows
<1>4. \A s \in Requests : s # r => req'[s] = req[s] BY OneRequest DEF UploadStep
<1>5. req'[r].at \in {"idle", "create"}
  BY RequestSteps, IdleFacts DEF MediaFilesTypeOK
<1>6. d'.live = d.live BY DEF AddRow, MediaFilesTypeOK, DataOK
<1>7. UNCHANGED <<saved, dump, copied, files, whole, used, failures, fellBack, rolledBack, abandoned>>
      /\ At(r, "add")
  BY DEF AddRow, copies, disk, history
<1>8. Row(r).name = req[r].name /\ Row(r).entity = req[r].entity /\ Pic(Row(r)) = File(r)
  BY DEF Row, Pic, File
<1> QED BY <1>1, <1>2, <1>3, <1>4, <1>5, <1>6, <1>7, <1>8

LEMMA AddFresh ==
    ASSUME MediaFilesTypeOK, RowsDrawn, NamesDrawn, NEW r \in Requests, AddRow(r)
    PROVE  RowsDrawn' /\ NamesDrawn'
<1>1. /\ UNCHANGED <<saved, dump, files, whole, used>>
      /\ IsTable(d.media, MediaRow) /\ Row(r) \in MediaRow
      /\ d'.media = Insert(d.media, Row(r))
      /\ Rows(d'.media) = Rows(d.media) \cup {Row(r)}
      /\ Row(r).name = req[r].name /\ Pic(Row(r)) = File(r)
      /\ At(r, "add") /\ req'[r].at \in {"idle", "create"}
      /\ \A s \in Requests : s # r => req'[s] = req[s]
  BY AddFacts
<1>2. Working(r) BY <1>1 DEF Working, At
<1>3. /\ req[r].name \in used
      /\ \A w \in Rows(d.media) : w.name # req[r].name
      /\ \A q \in Requests : q # r /\ Working(q) => req[q].name # req[r].name
      /\ File(r) \in files => File(r) \in whole
  BY <1>1, <1>2 DEF NamesDrawn
<1>4. UniqueOn(d'.media, {"name"})
  <2>1. \A i \in Ids(d.media) : \E f \in {"name"} : d.media.items[i][f] # Row(r)[f]
    BY <1>1, <1>3 DEF Rows
  <2>2. UniqueOn(d.media, {"name"}) BY DEF RowsDrawn
  <2> QED BY <1>1, <2>1, <2>2, InsertUnique
<1>5. RowsDrawn'
  <2>1. \A w \in Rows(d'.media) : w.name \in used /\ (Pic(w) \in files => Pic(w) \in whole)
    BY <1>1, <1>3 DEF RowsDrawn
  <2>2. \A x \in {saved, dump} :
            /\ UniqueOn(x.media, {"name"})
            /\ \A w \in Rows(x.media) : w.name \in used /\ (Pic(w) \in files => Pic(w) \in whole)
    BY DEF RowsDrawn
  <2> QED BY <1>1, <1>4, <2>1, <2>2 DEF RowsDrawn, Rows, Pic
<1>6. NamesDrawn'
  <2> SUFFICES ASSUME NEW s \in Requests, Working(s)'
               PROVE  /\ req'[s].name \in used'
                      /\ \A x \in {d', saved', dump'} : \A w \in Rows(x.media) : w.name # req'[s].name
                      /\ \A q \in Requests : q # s /\ Working(q)' => req'[q].name # req'[s].name
                      /\ At(s, "add")' /\ File(s)' \in files' => File(s)' \in whole'
    BY DEF NamesDrawn, Rows
  <2>1. s # r /\ req'[s] = req[s] /\ Working(s) BY <1>1 DEF Working
  <2>2. /\ req[s].name \in used
        /\ \A x \in {d, saved, dump} : \A w \in Rows(x.media) : w.name # req[s].name
        /\ \A q \in Requests : q # s /\ Working(q) => req[q].name # req[s].name
        /\ At(s, "add") /\ File(s) \in files => File(s) \in whole
    BY <2>1 DEF NamesDrawn
  <2>3. \A w \in Rows(d'.media) : w.name # req[s].name BY <1>1, <1>2, <2>1, <2>2
  <2>4. \A q \in Requests : q # s /\ Working(q)' => req'[q].name # req'[s].name
    BY <1>1, <2>1, <2>2 DEF Working
  <2>5. At(s, "add")' /\ File(s)' \in files' => File(s)' \in whole'
    BY <1>1, <2>1, <2>2 DEF At, File
  <2> QED BY <1>1, <2>1, <2>2, <2>3, <2>4, <2>5
<1> QED BY <1>5, <1>6

LEMMA RequestFresh ==
    ASSUME MediaFilesTypeOK, FreshInv, NEW r \in Requests, UploadStep(r) \/ DeleteStep(r)
    PROVE  FreshInv'
<1> SUFFICES ASSUME ~fellBack' PROVE RowsDrawn' /\ NamesDrawn'
  BY DEF FreshInv
<1>1. CASE CreateFile(r)
  <2>1. ~fellBack BY <1>1, CreateFacts
  <2> QED BY <1>1, <2>1, CreateFresh DEF FreshInv
<1>2. CASE CopyFile(r)
  <2>1. ~fellBack BY <1>2, CopyFacts
  <2> QED BY <1>2, <2>1, CopyFresh DEF FreshInv
<1>3. CASE AddRow(r)
  <2>1. ~fellBack BY <1>3, AddFacts
  <2> QED BY <1>3, <2>1, AddFresh DEF FreshInv
<1>4. CASE ~Special(r)
  <2>1. /\ UNCHANGED <<used, fellBack>>
        /\ files' \subseteq files /\ files' \cap whole \subseteq whole'
        /\ req'[r].at \notin {"copy", "add"}
    BY <1>4, OtherSteps
  <2>2. RowsDrawn /\ NamesDrawn BY <2>1 DEF FreshInv
  <2>3. \A x \in {d', saved', dump'} :
            /\ UniqueOn(x.media, {"name"})
            /\ \E y \in {d, saved, dump} : Rows(x.media) \subseteq Rows(y.media)
    BY <1>4, <2>2, DataSteps, FewerRows DEF Special
  <2>4. \A s \in Requests : Working(s)' => req'[s] = req[s]
    BY <2>1, OneRequest DEF Working
  <2> QED BY <2>1, <2>2, <2>3, <2>4, QuietFresh
<1> QED BY <1>1, <1>2, <1>3, <1>4 DEF Special

LEMMA OtherFresh ==
    ASSUME MediaFilesTypeOK, FreshInv,
           (\E t \in Types : CreateEntity(t)) \/ Save \/ Backup \/ Restore \/ Restart \/ UNCHANGED vars
    PROVE  FreshInv'
<1>1. /\ UNCHANGED <<files, whole, used, fellBack>>
      /\ \A s \in Requests : Working(s)' => req'[s] = req[s]
  BY IdleFacts
  DEF CreateEntity, Save, Backup, Restore, Restart, vars, disk, history, Working
<1>2. \A x \in {d', saved', dump'} : \E y \in {d, saved, dump} : x.media = y.media
  <2>1. ASSUME NEW t \in Types, CreateEntity(t)
        PROVE  d'.media = d.media /\ saved' = saved /\ dump' = dump
    BY <2>1, DataFacts DEF CreateEntity, copies, MediaFilesTypeOK
  <2>2. CASE Save \/ Backup \/ Restore \/ Restart \/ UNCHANGED vars
    BY <2>2 DEF Save, Backup, Restore, Restart, vars, copies
  <2> QED BY <2>1, <2>2
<1>3. ASSUME ~fellBack' PROVE RowsDrawn' /\ NamesDrawn'
  <2>1. RowsDrawn /\ NamesDrawn BY <1>1, <1>3 DEF FreshInv
  <2>2. \A x \in {d', saved', dump'} :
            /\ UniqueOn(x.media, {"name"})
            /\ \E y \in {d, saved, dump} : Rows(x.media) \subseteq Rows(y.media)
    BY <1>2, <2>1 DEF RowsDrawn
  <2> QED BY <1>1, <2>1, <2>2, QuietFresh
<1> QED BY <1>3 DEF FreshInv

LEMMA FreshStep == MediaFilesTypeOK /\ FreshInv /\ [Next]_vars => FreshInv'
  BY RequestFresh, OtherFresh DEF Next

LEMMA NoRows == Rows(Data.media) = {} /\ Ids(Data.media) = {}
  BY DEF Rows, Data, EmptyTable, Ids

LEMMA FreshInit == Init => FreshInv
  BY NoRows, IdleFacts DEF Init, FreshInv, RowsDrawn, NamesDrawn, UniqueOn, Working

\* A name belongs to one upload and then to one row, in every copy of the data.
THEOREM FreshInvariant == Spec => []FreshInv
  BY MediaTypes, FreshInit, FreshStep, PTL DEF Spec

\* The deletion of a picture never takes the file of another one, whatever is
\* restored (media.go:68, 119-126).
THEOREM FilesOwned == Spec => []OwnFiles
<1>1. FreshInv => OwnFiles BY DEF FreshInv, RowsDrawn, OwnFiles, UniqueOn
<1> QED BY <1>1, FreshInvariant, PTL

\* A picture in the table is whole or not there at all (media.go:70-85).
THEOREM WholePictures == Spec => []NeverHalf
<1>1. FreshInv => NeverHalf BY DEF FreshInv, RowsDrawn, NeverHalf, Rows, Pic, Picture
<1> QED BY <1>1, FreshInvariant, PTL

-----------------------------------------------------------------------------
(* Whatever is removed belongs to no row or to a deleted entity *)

\* The entity has been deleted: Dead, of the data x.
DeadIn(x, e) == e[2] <= x.seq[e[1]] /\ e \notin x.live

Deleting(r) == req[r].at \in {"list", "unlink", "rmdir"}

Served ==
    /\ \A w \in Rows(d.media) : Pic(w) \in whole \/ DeadIn(d, w.entity)
    /\ \A r \in Requests :
           /\ At(r, "copy") => File(r) \in files \/ DeadIn(d, req[r].entity)
           /\ At(r, "add") => File(r) \in whole \/ DeadIn(d, req[r].entity)
           /\ Deleting(r) => DeadIn(d, req[r].entity)

\* The name whose file is being removed is in no row and in no upload.
Discarded ==
    \A r \in Requests : At(r, "remove") =>
        /\ req[r].name \in used
        /\ \A w \in Rows(d.media) : w.name # req[r].name
        /\ \A q \in Requests : Working(q) => req[q].name # req[r].name

ServedInv == ~rolledBack /\ ~fellBack => Served /\ Discarded

\* Entities stay dead, and those that are deleted die.
LEMMA DeadStays ==
    ASSUME MediaFilesTypeOK, NEW r \in Requests, UploadStep(r) \/ DeleteStep(r), NEW e, DeadIn(d, e)
    PROVE  DeadIn(d', e)
  BY DataSteps DEF DeadIn

LEMMA DeletedDies ==
    ASSUME MediaFilesTypeOK, NEW r \in Requests, NEW e \in Entities, DeleteEntity(r, e)
    PROVE  DeadIn(d', e)
<1> DEFINE S == Matching(d.media, [entity |-> e])
<1>1. d' = [d EXCEPT !.live = @ \ {e}, !.media = Without(@, S)] /\ e \in d.live
  BY DEF DeleteEntity
<1> HIDE DEF S
<1>2. d'.live = d.live \ {e} /\ d'.seq = d.seq
  BY <1>1, DataFacts DEF MediaFilesTypeOK
<1>3. e[2] <= d.seq[e[1]] BY <1>1 DEF MediaFilesTypeOK, DataOK
<1> QED BY <1>2, <1>3 DEF DeadIn

\* Steps that take nothing away but from dead entities.
LEMMA QuietServed ==
    ASSUME MediaFilesTypeOK, Served, Discarded,
           used' = used,
           Rows(d'.media) \subseteq Rows(d.media),
           \A e \in Entities : DeadIn(d, e) => DeadIn(d', e),
           \A f \in files : f \in files' \/ DeadIn(d', f[1]),
           \A f \in whole : f \in whole' \/ DeadIn(d', f[1]),
           \A r \in Requests :
               /\ Working(r)' \/ At(r, "remove")' => req'[r] = req[r]
               /\ Deleting(r)' => DeadIn(d', req'[r].entity)
    PROVE  Served' /\ Discarded'
<1>1. ASSUME NEW w \in Rows(d'.media) PROVE Pic(w) \in whole' \/ DeadIn(d', w.entity)
  <2>1. Pic(w) \in whole \/ DeadIn(d, w.entity) BY DEF Served
  <2>2. Pic(w)[1] = w.entity BY DEF Pic
  <2>3. \A i \in Ids(d.media) : d.media.items[i] \in MediaRow
    BY DEF MediaFilesTypeOK, DataOK, IsTable
  <2>4. w \in MediaRow BY <2>3 DEF Rows
  <2>5. w.entity \in Entities BY <2>4 DEF MediaRow
  <2> QED BY <2>1, <2>2, <2>5
<1>2. ASSUME NEW r \in Requests, At(r, "copy")'
      PROVE  File(r)' \in files' \/ DeadIn(d', req'[r].entity)
  <2>1. req'[r] = req[r] /\ At(r, "copy") BY <1>2 DEF Working, At
  <2>2. File(r)' = File(r) /\ File(r)[1] = req[r].entity BY <2>1 DEF File
  <2>3. File(r) \in files \/ DeadIn(d, req[r].entity) BY <2>1 DEF Served
  <2>4. req[r].entity \in Entities BY <2>1 DEF MediaFilesTypeOK, At
  <2> QED BY <2>1, <2>2, <2>3, <2>4
<1>3. ASSUME NEW r \in Requests, At(r, "add")'
      PROVE  File(r)' \in whole' \/ DeadIn(d', req'[r].entity)
  <2>1. req'[r] = req[r] /\ At(r, "add") BY <1>3 DEF Working, At
  <2>2. File(r)' = File(r) /\ File(r)[1] = req[r].entity BY <2>1 DEF File
  <2>3. File(r) \in whole \/ DeadIn(d, req[r].entity) BY <2>1 DEF Served
  <2>4. req[r].entity \in Entities BY <2>1 DEF MediaFilesTypeOK, At
  <2> QED BY <2>1, <2>2, <2>3, <2>4
<1>4. Served' BY <1>1, <1>2, <1>3 DEF Served, Rows, Pic
<1>5. ASSUME NEW r \in Requests, At(r, "remove")'
      PROVE  /\ req'[r].name \in used'
             /\ \A w \in Rows(d'.media) : w.name # req'[r].name
             /\ \A q \in Requests : Working(q)' => req'[q].name # req'[r].name
  <2>1. req'[r] = req[r] /\ At(r, "remove") BY <1>5 DEF At
  <2>2. /\ req[r].name \in used /\ \A w \in Rows(d.media) : w.name # req[r].name
        /\ \A q \in Requests : Working(q) => req[q].name # req[r].name
    BY <2>1 DEF Discarded
  <2>3. \A q \in Requests : Working(q)' => req'[q] = req[q] /\ Working(q) BY DEF Working
  <2> QED BY <2>1, <2>2, <2>3
<1>6. Discarded' BY <1>5 DEF Discarded, Rows
<1> QED BY <1>4, <1>6

LEMMA CreateServed ==
    ASSUME MediaFilesTypeOK, RowsDrawn, NamesDrawn, Served, Discarded,
           NEW r \in Requests, CreateFile(r), ~fellBack'
    PROVE  Served' /\ Discarded'
<1>1. PICK n \in Names \ used :
          /\ used' = used \cup {n} /\ UNCHANGED <<d, saved, dump>>
          /\ req'[r].at = "copy" /\ req'[r].name = n /\ req'[r].entity = req[r].entity
          /\ files' = files \cup {<<req[r].entity, n>>}
          /\ whole' = whole \ {<<req[r].entity, n>>}
  BY CreateFacts
<1>2. \A s \in Requests : s # r => req'[s] = req[s]
  BY OneRequest DEF UploadStep
<1>3. \A e : DeadIn(d', e) <=> DeadIn(d, e) BY <1>1 DEF DeadIn
<1>4. \A w \in Rows(d.media) : w.name \in used BY DEF RowsDrawn
<1>5. \A w \in Rows(d.media) : Pic(w) \in whole' \/ DeadIn(d', w.entity)
  <2> SUFFICES ASSUME NEW w \in Rows(d.media) PROVE Pic(w) \in whole' \/ DeadIn(d', w.entity)
    OBVIOUS
  <2>1. Pic(w) # <<req[r].entity, n>> BY <1>4 DEF Pic
  <2>2. Pic(w) \in whole \/ DeadIn(d, w.entity) BY DEF Served
  <2> QED BY <1>1, <1>3, <2>1, <2>2
<1>6. ASSUME NEW s \in Requests
      PROVE  /\ At(s, "copy")' => File(s)' \in files' \/ DeadIn(d', req'[s].entity)
             /\ At(s, "add")' => File(s)' \in whole' \/ DeadIn(d', req'[s].entity)
             /\ Deleting(s)' => DeadIn(d', req'[s].entity)
  <2>1. CASE s = r BY <1>1, <2>1 DEF At, File, Deleting
  <2>2. CASE s # r
    <3>1. req'[s] = req[s] BY <1>2, <2>2
    <3>2. /\ At(s, "copy") => File(s) \in files \/ DeadIn(d, req[s].entity)
          /\ At(s, "add") => File(s) \in whole \/ DeadIn(d, req[s].entity)
          /\ Deleting(s) => DeadIn(d, req[s].entity)
      BY DEF Served
    <3>3. At(s, "add") => File(s) # <<req[r].entity, n>>
      BY DEF NamesDrawn, Working, At, File
    <3> QED BY <1>1, <1>3, <3>1, <3>2, <3>3 DEF At, File, Deleting
  <2> QED BY <2>1, <2>2
<1>7. Served' BY <1>1, <1>5, <1>6 DEF Served, Rows, Pic
<1>8. ASSUME NEW s \in Requests, At(s, "remove")'
      PROVE  /\ req'[s].name \in used'
             /\ \A w \in Rows(d.media) : w.name # req'[s].name
             /\ \A q \in Requests : Working(q)' => req'[q].name # req'[s].name
  <2>1. s # r /\ req'[s] = req[s] /\ At(s, "remove") BY <1>1, <1>2, <1>8 DEF At
  <2>2. /\ req[s].name \in used /\ \A w \in Rows(d.media) : w.name # req[s].name
        /\ \A q \in Requests : Working(q) => req[q].name # req[s].name
    BY <2>1 DEF Discarded
  <2>3. \A q \in Requests : q # r /\ Working(q)' => req'[q] = req[q] /\ Working(q)
    BY <1>2 DEF Working
  <2> QED BY <1>1, <2>1, <2>2, <2>3
<1>9. Discarded' BY <1>1, <1>8 DEF Discarded, Rows
<1> QED BY <1>7, <1>9

LEMMA CopyServed ==
    ASSUME MediaFilesTypeOK, Served, Discarded, NEW r \in Requests, CopyFile(r)
    PROVE  Served' /\ Discarded'
<1>1. /\ UNCHANGED <<d, saved, dump, files, used>>
      /\ whole' = whole \cup ({File(r)} \cap files)
      /\ req'[r].at = "add" /\ req'[r].entity = req[r].entity /\ req'[r].name = req[r].name
      /\ At(r, "copy")
      /\ \A s \in Requests : s # r => req'[s] = req[s]
  BY CopyFacts
<1>2. \A e : DeadIn(d', e) <=> DeadIn(d, e) BY <1>1 DEF DeadIn
<1>3. \A s \in Requests : req'[s].name = req[s].name /\ req'[s].entity = req[s].entity BY <1>1
<1>4. ASSUME NEW s \in Requests
      PROVE  /\ At(s, "copy")' => File(s)' \in files' \/ DeadIn(d', req'[s].entity)
             /\ At(s, "add")' => File(s)' \in whole' \/ DeadIn(d', req'[s].entity)
             /\ Deleting(s)' => DeadIn(d', req'[s].entity)
  <2>1. /\ At(s, "copy") => File(s) \in files \/ DeadIn(d, req[s].entity)
        /\ At(s, "add") => File(s) \in whole \/ DeadIn(d, req[s].entity)
        /\ Deleting(s) => DeadIn(d, req[s].entity)
    BY DEF Served
  <2>2. File(s)' = File(s) BY <1>3 DEF File
  <2>3. CASE s = r BY <1>1, <1>2, <2>1, <2>2, <2>3 DEF At, Deleting
  <2>4. CASE s # r BY <1>1, <1>2, <2>1, <2>2, <2>4 DEF At, Deleting
  <2> QED BY <2>3, <2>4
<1>5. Served'
  <2>1. \A w \in Rows(d.media) : Pic(w) \in whole' \/ DeadIn(d', w.entity) BY <1>1, <1>2 DEF Served
  <2> QED BY <1>1, <1>4, <2>1 DEF Served, Rows, Pic
<1>6. \A s \in Requests : (Working(s)' <=> Working(s)) /\ (At(s, "remove")' => At(s, "remove"))
  BY <1>1 DEF Working, At
<1>7. Discarded' BY <1>1, <1>3, <1>6 DEF Discarded, Rows
<1> QED BY <1>5, <1>7

LEMMA AddServed ==
    ASSUME MediaFilesTypeOK, Served, Discarded, NEW r \in Requests, AddRow(r)
    PROVE  Served' /\ Discarded'
<1>1. /\ UNCHANGED <<files, whole, used>> /\ d'.live = d.live /\ d'.seq = d.seq
      /\ Rows(d'.media) = Rows(d.media) \cup {Row(r)}
      /\ Row(r).name = req[r].name /\ Row(r).entity = req[r].entity /\ Pic(Row(r)) = File(r)
      /\ At(r, "add") /\ req'[r].at \in {"idle", "create"}
      /\ \A s \in Requests : s # r => req'[s] = req[s]
  BY AddFacts
<1>2. \A e : DeadIn(d', e) <=> DeadIn(d, e) BY <1>1 DEF DeadIn
<1>3. \A w \in Rows(d'.media) : Pic(w) \in whole' \/ DeadIn(d', w.entity) BY <1>1, <1>2 DEF Served
<1>4. ASSUME NEW s \in Requests
      PROVE  /\ At(s, "copy")' => File(s)' \in files' \/ DeadIn(d', req'[s].entity)
             /\ At(s, "add")' => File(s)' \in whole' \/ DeadIn(d', req'[s].entity)
             /\ Deleting(s)' => DeadIn(d', req'[s].entity)
  <2>1. CASE s = r BY <1>1, <2>1 DEF At, Deleting
  <2>2. CASE s # r
    <3>1. /\ At(s, "copy") => File(s) \in files \/ DeadIn(d, req[s].entity)
          /\ At(s, "add") => File(s) \in whole \/ DeadIn(d, req[s].entity)
          /\ Deleting(s) => DeadIn(d, req[s].entity)
      BY DEF Served
    <3> QED BY <1>1, <1>2, <2>2, <3>1 DEF At, Deleting, File
  <2> QED BY <2>1, <2>2
<1>5. Served' BY <1>3, <1>4 DEF Served, Rows, Pic
<1>6. ASSUME NEW s \in Requests, At(s, "remove")'
      PROVE  /\ req'[s].name \in used'
             /\ \A w \in Rows(d'.media) : w.name # req'[s].name
             /\ \A q \in Requests : Working(q)' => req'[q].name # req'[s].name
  <2>1. s # r /\ req'[s] = req[s] /\ At(s, "remove") BY <1>1, <1>6 DEF At
  <2>2. /\ req[s].name \in used /\ \A w \in Rows(d.media) : w.name # req[s].name
        /\ \A q \in Requests : Working(q) => req[q].name # req[s].name
    BY <2>1 DEF Discarded
  <2>3. Working(r) BY <1>1 DEF Working, At
  <2>4. \A q \in Requests : Working(q)' => req'[q] = req[q] /\ Working(q)
    BY <1>1 DEF Working
  <2> QED BY <1>1, <2>1, <2>2, <2>3, <2>4
<1>7. Discarded' BY <1>6 DEF Discarded, Rows
<1> QED BY <1>5, <1>7

\* The name of a picture that is deleted is in no other row and in no upload.
LEMMA DeleteMediaServed ==
    ASSUME MediaFilesTypeOK, RowsDrawn, NamesDrawn, Served, Discarded,
           NEW r \in Requests, NEW i \in Ids(d.media), DeleteMedia(r, i)
    PROVE  Served' /\ Discarded'
<1> DEFINE name == d.media.items[i].name
<1>1. IsTable(d.media, MediaRow) /\ d.media.items[i] \in Rows(d.media)
  BY DEF MediaFilesTypeOK, DataOK, Rows
<1>2. d'.media = Without(d.media, {i}) /\ d'.live = d.live /\ d'.seq = d.seq
  BY DataFacts DEF DeleteMedia, MediaFilesTypeOK
<1>3. UNCHANGED <<files, whole, used>> BY DEF DeleteMedia, disk, history
<1>4. req'[r].at = "remove" /\ req'[r].name = name
  BY RequestSteps DEF MediaFilesTypeOK
<1>5. \A s \in Requests : s # r => req'[s] = req[s] BY OneRequest DEF DeleteStep
<1>6. \A e : DeadIn(d', e) <=> DeadIn(d, e) BY <1>2 DEF DeadIn
<1>7. Rows(d'.media) \subseteq Rows(d.media) BY <1>1, <1>2, WithoutRows
<1>8. \A w \in Rows(d'.media) : w.name # name
  <2>1. /\ Ids(d'.media) = Ids(d.media) \ {i}
        /\ \A j \in Ids(d.media) \ {i} : d'.media.items[j] = d.media.items[j]
    BY <1>1, <1>2, WithoutFacts
  <2>2. \A j \in Ids(d.media) \ {i} : d.media.items[j].name # name
    <3>1. UniqueOn(d.media, {"name"}) BY DEF RowsDrawn
    <3> QED BY <3>1 DEF UniqueOn
  <2> QED BY <2>1, <2>2 DEF Rows
<1>9. name \in used /\ \A q \in Requests : Working(q) => req[q].name # name
  BY <1>1 DEF RowsDrawn, NamesDrawn
<1> HIDE DEF name
<1>10. Served'
  <2>1. \A w \in Rows(d'.media) : Pic(w) \in whole' \/ DeadIn(d', w.entity)
    BY <1>3, <1>6, <1>7 DEF Served
  <2>2. ASSUME NEW s \in Requests
        PROVE  /\ At(s, "copy")' => File(s)' \in files' \/ DeadIn(d', req'[s].entity)
               /\ At(s, "add")' => File(s)' \in whole' \/ DeadIn(d', req'[s].entity)
               /\ Deleting(s)' => DeadIn(d', req'[s].entity)
    <3>1. CASE s = r BY <1>4, <3>1 DEF At, Deleting
    <3>2. CASE s # r
      <4>1. /\ At(s, "copy") => File(s) \in files \/ DeadIn(d, req[s].entity)
            /\ At(s, "add") => File(s) \in whole \/ DeadIn(d, req[s].entity)
            /\ Deleting(s) => DeadIn(d, req[s].entity)
        BY DEF Served
      <4> QED BY <1>3, <1>5, <1>6, <3>2, <4>1 DEF At, Deleting, File
    <3> QED BY <3>1, <3>2
  <2> QED BY <2>1, <2>2 DEF Served, Rows, Pic
<1>11. Discarded'
  <2> SUFFICES ASSUME NEW s \in Requests, At(s, "remove")'
               PROVE  /\ req'[s].name \in used'
                      /\ \A w \in Rows(d'.media) : w.name # req'[s].name
                      /\ \A q \in Requests : Working(q)' => req'[q].name # req'[s].name
    BY DEF Discarded, Rows
  <2>1. \A q \in Requests : Working(q)' => req'[q] = req[q] /\ Working(q)
    BY <1>4, <1>5 DEF Working
  <2>2. CASE s = r BY <1>3, <1>4, <1>8, <1>9, <2>1, <2>2
  <2>3. CASE s # r
    <3>1. req'[s] = req[s] /\ At(s, "remove") BY <1>5, <2>3 DEF At
    <3>2. /\ req[s].name \in used /\ \A w \in Rows(d.media) : w.name # req[s].name
          /\ \A q \in Requests : Working(q) => req[q].name # req[s].name
      BY <3>1 DEF Discarded
    <3> QED BY <1>3, <1>7, <2>1, <3>1, <3>2
  <2> QED BY <2>2, <2>3
<1> QED BY <1>10, <1>11

LEMMA RemoveFileServed ==
    ASSUME MediaFilesTypeOK, RowsDrawn, NamesDrawn, Served, Discarded,
           NEW r \in Requests, RemoveFile(r)
    PROVE  Served' /\ Discarded'
<1>1. /\ UNCHANGED <<d, used>> /\ At(r, "remove") /\ req' = [req EXCEPT ![r] = Idle]
      /\ \/ files' = files \ {File(r)} /\ whole' = whole \ {File(r)}
         \/ UNCHANGED <<files, whole>>
  BY DEF RemoveFile, Finish
<1>2. /\ \A w \in Rows(d.media) : w.name # req[r].name
      /\ \A q \in Requests : Working(q) => req[q].name # req[r].name
  BY <1>1 DEF Discarded
<1>3. req'[r].at = "idle" /\ \A s \in Requests : s # r => req'[s] = req[s]
  BY <1>1, IdleFacts DEF MediaFilesTypeOK
<1>4. \A e : DeadIn(d', e) <=> DeadIn(d, e) BY <1>1 DEF DeadIn
<1>5. \A f \in files : f[2] # req[r].name => f \in files' BY <1>1 DEF File
<1>6. \A f \in whole : f[2] # req[r].name => f \in whole' BY <1>1 DEF File
<1>7. \A w \in Rows(d.media) : Pic(w) \in whole' \/ DeadIn(d', w.entity)
  <2> SUFFICES ASSUME NEW w \in Rows(d.media) PROVE Pic(w) \in whole' \/ DeadIn(d', w.entity)
    OBVIOUS
  <2>1. Pic(w)[2] # req[r].name BY <1>2 DEF Pic
  <2>2. Pic(w) \in whole \/ DeadIn(d, w.entity) BY DEF Served
  <2> QED BY <1>4, <1>6, <2>1, <2>2
<1>8. ASSUME NEW s \in Requests
      PROVE  /\ At(s, "copy")' => File(s)' \in files' \/ DeadIn(d', req'[s].entity)
             /\ At(s, "add")' => File(s)' \in whole' \/ DeadIn(d', req'[s].entity)
             /\ Deleting(s)' => DeadIn(d', req'[s].entity)
  <2>1. CASE s = r BY <1>3, <2>1 DEF At, Deleting
  <2>2. CASE s # r
    <3>1. /\ At(s, "copy") => File(s) \in files \/ DeadIn(d, req[s].entity)
          /\ At(s, "add") => File(s) \in whole \/ DeadIn(d, req[s].entity)
          /\ Deleting(s) => DeadIn(d, req[s].entity)
      BY DEF Served
    <3>2. At(s, "copy") \/ At(s, "add") => File(s)[2] # req[r].name
      BY <1>2 DEF Working, At, File
    <3>3. req'[s] = req[s] BY <1>3, <2>2
    <3>4. File(s)' = File(s) BY <3>3 DEF File
    <3> QED BY <1>4, <1>5, <1>6, <3>1, <3>2, <3>3, <3>4 DEF At, Deleting
  <2> QED BY <2>1, <2>2
<1>9. Served' BY <1>1, <1>7, <1>8 DEF Served, Rows, Pic
<1>10. \A s \in Requests : Working(s)' \/ At(s, "remove")' => req'[s] = req[s]
  BY <1>3 DEF Working, At
<1>11. Discarded' BY <1>1, <1>10 DEF Discarded, Working, At, Rows
<1> QED BY <1>9, <1>11

\* Deletions of entities, and uploads that begin or end.
LEMMA DyingServed ==
    ASSUME MediaFilesTypeOK, RowsDrawn, Served, Discarded, NEW r \in Requests,
           \/ \E e \in Entities : BeginUpload(r, e) \/ DeleteEntity(r, e)
           \/ Refuse(r) \/ CopyFails(r) \/ ListFolder(r) \/ Unlink(r) \/ RemoveFolder(r)
    PROVE  Served' /\ Discarded'
<1>0. (UploadStep(r) \/ DeleteStep(r)) /\ ~Special(r)
  <2>1. UploadStep(r) \/ DeleteStep(r) BY DEF UploadStep, DeleteStep
  <2>2. CASE \E e \in Entities : BeginUpload(r, e) \/ DeleteEntity(r, e)
    BY <2>1, <2>2 DEF Special, BeginUpload, DeleteEntity, CreateFile, CopyFile, AddRow, At
  <2>3. CASE Refuse(r) \/ CopyFails(r)
    <3>1. req'[r].at = "idle"
      BY <2>3, IdleFacts DEF MediaFilesTypeOK, Refuse, CopyFails, Finish
    <3>2. ~AddRow(r)
      BY <2>3 DEF AddRow, Refuse, CopyFails, At
    <3>3. ~CreateFile(r) /\ ~CopyFile(r)
      BY <3>1, RequestSteps DEF MediaFilesTypeOK
    <3> QED BY <2>1, <3>2, <3>3 DEF Special
  <2>4. CASE ListFolder(r) \/ Unlink(r) \/ RemoveFolder(r)
    BY <2>1, <2>4 DEF Special, ListFolder, Unlink, RemoveFolder, CreateFile, CopyFile, AddRow, At
  <2> QED BY <2>2, <2>3, <2>4
<1>1. UNCHANGED used /\ req'[r].at \notin {"copy", "add"} BY <1>0, OtherSteps
<1>2. Rows(d'.media) \subseteq Rows(d.media) BY <1>0, DataSteps, FewerRows DEF Special
<1>3. \A e : DeadIn(d, e) => DeadIn(d', e) BY <1>0, DeadStays
<1>4. \A s \in Requests : s # r => req'[s] = req[s] BY <1>0, OneRequest
<1>5. req'[r].at # "remove" /\ (Deleting(r)' => DeadIn(d', req'[r].entity))
  <2>0. req \in [Requests -> Request] BY DEF MediaFilesTypeOK
  <2>1. ASSUME NEW e \in Entities, BeginUpload(r, e) PROVE <1>5
    <3>1. req'[r].at = "create" BY <2>0, <2>1, RequestSteps
    <3> QED BY <3>1 DEF Deleting
  <2>2. ASSUME NEW e \in Entities, DeleteEntity(r, e) PROVE <1>5
    BY <2>0, <2>2, RequestSteps, DeletedDies
  <2>3. CASE Refuse(r) \/ CopyFails(r) \/ RemoveFolder(r)
    <3>1. req'[r].at = "idle"
      BY <2>0, <2>3, IdleFacts DEF Refuse, CopyFails, RemoveFolder, Finish
    <3> QED BY <3>1 DEF Deleting
  <2>4. CASE ListFolder(r) \/ Unlink(r)
    <3>1. req'[r].at \in {"unlink", "rmdir"} /\ req'[r].entity = req[r].entity
      BY <2>0, <2>4, RequestSteps
    <3>2. DeadIn(d, req[r].entity) BY <2>4 DEF ListFolder, Unlink, At, Served, Deleting
    <3> QED BY <1>3, <3>1, <3>2
  <2> QED BY <2>1, <2>2, <2>3, <2>4
<1>6. /\ \A f \in files : f \in files' \/ DeadIn(d', f[1])
      /\ \A f \in whole : f \in whole' \/ DeadIn(d', f[1])
  <2>1. CASE Unlink(r)
    <3>1. PICK gone \in SUBSET req[r].listed :
              /\ files' = files \ ({req[r].entity} \X gone)
              /\ whole' = whole \ ({req[r].entity} \X gone)
      BY <2>1 DEF Unlink
    <3>2. DeadIn(d, req[r].entity) BY <2>1 DEF Unlink, At, Served, Deleting
    <3> QED BY <1>3, <3>1, <3>2
  <2>2. CASE ~Unlink(r)
    BY <2>2 DEF BeginUpload, DeleteEntity, Refuse, CopyFails, ListFolder, RemoveFolder, disk
  <2> QED BY <2>1, <2>2
<1>7. \A s \in Requests :
          /\ Working(s)' \/ At(s, "remove")' => req'[s] = req[s]
          /\ Deleting(s)' => DeadIn(d', req'[s].entity)
  <2> SUFFICES ASSUME NEW s \in Requests
               PROVE  /\ Working(s)' \/ At(s, "remove")' => req'[s] = req[s]
                      /\ Deleting(s)' => DeadIn(d', req'[s].entity)
    OBVIOUS
  <2>1. CASE s = r BY <1>1, <1>5, <2>1 DEF Working, At
  <2>2. CASE s # r
    <3>1. req'[s] = req[s] /\ (Deleting(s) => DeadIn(d, req[s].entity)) BY <1>4, <2>2 DEF Served
    <3> QED BY <1>3, <3>1 DEF Deleting
  <2> QED BY <2>1, <2>2
<1> QED BY <1>1, <1>2, <1>3, <1>6, <1>7, QuietServed

LEMMA RequestServed ==
    ASSUME MediaFilesTypeOK, FreshInv, ServedInv, NEW r \in Requests, UploadStep(r) \/ DeleteStep(r)
    PROVE  ServedInv'
<1> SUFFICES ASSUME ~rolledBack', ~fellBack' PROVE Served' /\ Discarded'
  BY DEF ServedInv
<1>1. ~rolledBack BY DataSteps
<1>2. ~fellBack
  <2>1. CASE CreateFile(r) BY <2>1, CreateFacts
  <2>2. CASE CopyFile(r) BY <2>2, CopyFacts
  <2>3. CASE AddRow(r) BY <2>3, AddFacts
  <2>4. CASE ~Special(r) BY <2>4, OtherSteps
  <2> QED BY <2>1, <2>2, <2>3, <2>4 DEF Special
<1>3. RowsDrawn /\ NamesDrawn /\ Served /\ Discarded BY <1>1, <1>2 DEF FreshInv, ServedInv
<1> QED
  BY <1>3, CreateServed, CopyServed, AddServed, DeleteMediaServed, RemoveFileServed, DyingServed
  DEF UploadStep, DeleteStep

LEMMA OtherServed ==
    ASSUME MediaFilesTypeOK, ServedInv,
           (\E t \in Types : CreateEntity(t)) \/ Save \/ Backup \/ Restore \/ Restart \/ UNCHANGED vars
    PROVE  ServedInv'
<1> SUFFICES ASSUME ~rolledBack', ~fellBack' PROVE Served' /\ Discarded'
  BY DEF ServedInv
<1>1. UNCHANGED <<files, whole, used, fellBack>>
  BY DEF CreateEntity, Save, Backup, Restore, Restart, vars, disk, history
<1>2. ~rolledBack /\ (Save \/ Backup \/ Restore \/ Restart \/ UNCHANGED vars => d' = d)
  <2>1. CASE Restore BY <2>1 DEF Restore
  <2>2. CASE Restart BY <2>2 DEF Restart
  <2>3. CASE ~Restore /\ ~Restart
    <3>1. UNCHANGED rolledBack BY <2>3 DEF CreateEntity, Save, Backup, vars, history
    <3>2. Save \/ Backup \/ UNCHANGED vars => d' = d BY DEF Save, Backup, vars
    <3> QED BY <2>3, <3>1, <3>2
  <2> QED BY <2>1, <2>2, <2>3
<1>3. \A s \in Requests : Working(s)' \/ At(s, "remove")' \/ Deleting(s)' => req'[s] = req[s]
  <2>1. CASE Restart BY <2>1, IdleFacts DEF Restart, Working, At, Deleting
  <2>2. CASE ~Restart
    BY <2>2 DEF CreateEntity, Save, Backup, Restore, vars
  <2> QED BY <2>1, <2>2
<1>4. Served /\ Discarded BY <1>1, <1>2 DEF ServedInv
<1>5. d'.media = d.media /\ \A e \in Entities : DeadIn(d, e) => DeadIn(d', e)
  <2>1. ASSUME NEW t \in Types, CreateEntity(t) PROVE <1>5
    <3>1. /\ d'.live = d.live \cup {<<t, d.seq[t] + 1>>} /\ d'.media = d.media
          /\ d'.seq = [d.seq EXCEPT ![t] = @ + 1]
      BY <2>1, DataFacts DEF CreateEntity, MediaFilesTypeOK
    <3>2. d.seq \in [Types -> Nat] BY DEF MediaFilesTypeOK, DataOK
    <3>3. ASSUME NEW e \in Entities, DeadIn(d, e) PROVE DeadIn(d', e)
      <4>1. e[1] \in Types /\ e[2] \in Nat BY MediaFilesAssumption DEF Entities
      <4>2. e[2] <= d.seq[e[1]] /\ e \notin d.live BY <3>3 DEF DeadIn
      <4>3. d'.seq[e[1]] \in Nat /\ d.seq[e[1]] <= d'.seq[e[1]] BY <3>1, <3>2, <4>1
      <4>4. e # <<t, d.seq[t] + 1>> BY <3>2, <4>1, <4>2
      <4> QED BY <3>1, <3>2, <4>1, <4>2, <4>3, <4>4 DEF DeadIn
    <3> QED BY <3>1, <3>3
  <2>2. CASE Save \/ Backup \/ Restore \/ Restart \/ UNCHANGED vars
    BY <1>2, <2>2
  <2> QED BY <2>1, <2>2
<1>6. \A s \in Requests : Deleting(s)' => DeadIn(d', req'[s].entity)
  <2> SUFFICES ASSUME NEW s \in Requests, Deleting(s)' PROVE DeadIn(d', req'[s].entity)
    OBVIOUS
  <2>1. req'[s] = req[s] /\ Deleting(s) BY <1>3 DEF Deleting
  <2>2. req[s].entity \in Entities BY <2>1 DEF MediaFilesTypeOK, At, Deleting
  <2> QED BY <1>4, <1>5, <2>1, <2>2 DEF Served
<1> QED BY <1>1, <1>3, <1>4, <1>5, <1>6, QuietServed

LEMMA ServedStep == MediaFilesTypeOK /\ FreshInv /\ ServedInv /\ [Next]_vars => ServedInv'
  BY RequestServed, OtherServed DEF Next

LEMMA ServedInit == Init => ServedInv
  BY NoRows, IdleFacts DEF Init, ServedInv, Served, Discarded, Working, Deleting, At

\* What is removed from the disk is shown to nobody.
THEOREM ServedInvariant == Spec => []ServedInv
  BY MediaTypes, FreshInvariant, ServedInit, ServedStep, PTL DEF Spec

\* Until the data go back, the pictures of every entity that is not deleted are
\* on disk, complete (media.go:70-85, 119-126, 149).
THEOREM PicturesKept == Spec => []PicturesServed
<1>1. ServedInv => PicturesServed
  BY DEF ServedInv, Served, PicturesServed, Rows, Pic, Picture, Dead, DeadIn
<1> QED BY <1>1, ServedInvariant, PTL

-----------------------------------------------------------------------------
(* Every file is in the table or somebody still works on it *)

Covers(r, f) ==
    \/ req[r].at \in {"copy", "add", "remove"} /\ f = File(r)
    \/ At(r, "list") /\ f[1] = req[r].entity
    \/ At(r, "unlink") /\ f[1] = req[r].entity /\ f[2] \in req[r].listed

Registered(t) == {Pic(w) : w \in Rows(t)}

Accounted == \A f \in files : f \in Registered(d.media) \/ \E r \in Requests : Covers(r, f)

AccountedInv == failures = 0 /\ ~rolledBack /\ ~abandoned => Accounted

\* It is enough to look at the files of the one request that moves.
LEMMA OneAccounted ==
    ASSUME Accounted, NEW r \in Requests,
           \A s \in Requests : s # r => req'[s] = req[s],
           \A f \in files' : f \in files \/ Covers(r, f)',
           \A f \in files' :
               f \in Registered(d.media) \/ Covers(r, f) =>
                   f \in Registered(d'.media) \/ Covers(r, f)'
    PROVE  Accounted'
<1> SUFFICES ASSUME NEW f \in files'
             PROVE  f \in Registered(d'.media) \/ \E s \in Requests : Covers(s, f)'
  BY DEF Accounted, Registered, Rows, Pic
<1>1. CASE f \notin files BY <1>1
<1>2. CASE f \in files
  <2>1. CASE f \in Registered(d.media) \/ Covers(r, f) BY <2>1
  <2>2. ASSUME NEW s \in Requests, s # r, Covers(s, f)
        PROVE  Covers(s, f)'
    <3>1. req'[s] = req[s] BY <2>2
    <3> QED BY <2>2, <3>1 DEF Covers, At, File
  <2> QED BY <1>2, <2>1, <2>2 DEF Accounted
<1> QED BY <1>1, <1>2

LEMMA UploadAccounted ==
    ASSUME MediaFilesTypeOK, Accounted, NEW r \in Requests, UploadStep(r),
           failures' = 0, failures = 0
    PROVE  Accounted'
<1>0. req \in [Requests -> Request] BY DEF MediaFilesTypeOK
<1>1. \A s \in Requests : s # r => req'[s] = req[s] BY OneRequest
<1>2. CASE (\E e \in Entities : BeginUpload(r, e)) \/ Refuse(r)
  <2>1. UNCHANGED <<d, files>> /\ req[r].at \in {"idle", "create"}
    BY <1>2 DEF BeginUpload, Refuse, disk, At
  <2>2. \A f : ~Covers(r, f) BY <2>1 DEF Covers, At
  <2> QED BY <1>1, <2>1, <2>2, OneAccounted
<1>3. CASE CreateFile(r)
  <2>1. PICK n \in Names \cup {PidName} :
            /\ req' = [req EXCEPT ![r].name = n, ![r].at = "copy"]
            /\ files' = files \cup {<<req[r].entity, n>>}
    BY <1>3 DEF CreateFile
  <2>2. req'[r].at = "copy" /\ req'[r].name = n /\ req'[r].entity = req[r].entity
    BY <1>0, <2>1 DEF Request
  <2>3. \A f : f = <<req[r].entity, n>> => Covers(r, f)' BY <2>2 DEF Covers, File
  <2>4. \A f : ~Covers(r, f) BY <1>3 DEF CreateFile, Covers, At
  <2>5. d' = d BY <1>3 DEF CreateFile
  <2> QED BY <1>1, <2>1, <2>3, <2>4, <2>5, OneAccounted
<1>4. CASE CopyFile(r)
  <2>1. /\ UNCHANGED <<d, files>> /\ At(r, "copy") /\ req'[r].at = "add"
        /\ req'[r].entity = req[r].entity /\ req'[r].name = req[r].name
    BY <1>4, CopyFacts
  <2>2. \A f : Covers(r, f) => Covers(r, f)' BY <2>1 DEF Covers, At, File
  <2> QED BY <1>1, <2>1, <2>2, OneAccounted
<1>5. CASE CopyFails(r)
  BY <1>5 DEF CopyFails, Failure, MediaFilesTypeOK
<1>6. CASE AddRow(r)
  <2>1. /\ files' = files /\ Rows(d'.media) = Rows(d.media) \cup {Row(r)}
        /\ Pic(Row(r)) = File(r) /\ At(r, "add")
    BY <1>6, AddFacts
  <2>2. Registered(d'.media) = Registered(d.media) \cup {File(r)} BY <2>1 DEF Registered
  <2>3. \A f : Covers(r, f) => f = File(r) BY <2>1 DEF Covers, At
  <2> QED BY <1>1, <2>1, <2>2, <2>3, OneAccounted
<1> QED BY <1>2, <1>3, <1>4, <1>5, <1>6 DEF UploadStep

LEMMA DeleteAccounted ==
    ASSUME MediaFilesTypeOK, Accounted, NEW r \in Requests, DeleteStep(r),
           failures' = 0, failures = 0
    PROVE  Accounted'
<1>0. req \in [Requests -> Request] /\ IsTable(d.media, MediaRow)
  BY DEF MediaFilesTypeOK, DataOK
<1>1. \A s \in Requests : s # r => req'[s] = req[s] BY OneRequest
<1>2. ASSUME NEW i \in Ids(d.media), DeleteMedia(r, i) PROVE Accounted'
  <2>1. files' = files /\ At(r, "idle") /\ d'.media = Without(d.media, {i})
    BY <1>2, DataFacts DEF DeleteMedia, disk, MediaFilesTypeOK
  <2>2. /\ req'[r].at = "remove" /\ req'[r].entity = d.media.items[i].entity
        /\ req'[r].name = d.media.items[i].name
    BY <1>0, <1>2, RequestSteps
  <2>3. \A f : Covers(r, f)' <=> f = Pic(d.media.items[i]) BY <2>2 DEF Covers, At, File, Pic
  <2>4. /\ Ids(d'.media) = Ids(d.media) \ {i}
        /\ \A j \in Ids(d.media) \ {i} : d'.media.items[j] = d.media.items[j]
    BY <1>0, <2>1, WithoutFacts
  <2>5. \A w \in Rows(d.media) : w = d.media.items[i] \/ w \in Rows(d'.media)
    BY <2>4 DEF Rows
  <2>6. \A f \in Registered(d.media) : f \in Registered(d'.media) \/ Covers(r, f)'
    BY <2>3, <2>5 DEF Registered
  <2>7. \A f : ~Covers(r, f) BY <2>1 DEF Covers, At
  <2> QED BY <1>1, <2>1, <2>6, <2>7, OneAccounted
<1>3. CASE RemoveFile(r)
  <2>1. d' = d /\ At(r, "remove") /\ files' = files \ {File(r)}
    BY <1>3 DEF RemoveFile, Failure, MediaFilesTypeOK
  <2>2. \A f : Covers(r, f) => f = File(r) BY <2>1 DEF Covers, At
  <2> QED BY <1>1, <2>1, <2>2, OneAccounted
<1>4. ASSUME NEW e \in Entities, DeleteEntity(r, e) PROVE Accounted'
  <2> DEFINE S == Matching(d.media, [entity |-> e])
  <2>1. files' = files /\ At(r, "idle") /\ d' = [d EXCEPT !.live = @ \ {e}, !.media = Without(@, S)]
    BY <1>4 DEF DeleteEntity, disk
  <2>2. req'[r].at = "list" /\ req'[r].entity = e BY <1>0, <1>4, RequestSteps
  <2>3. \A i \in S : d.media.items[i].entity = e BY DEF Matching
  <2> HIDE DEF S
  <2>4. d'.media = Without(d.media, S) BY <2>1, DataFacts DEF MediaFilesTypeOK
  <2>5. /\ Ids(d'.media) = Ids(d.media) \ S
        /\ \A j \in Ids(d.media) \ S : d'.media.items[j] = d.media.items[j]
    BY <1>0, <2>4, WithoutFacts
  <2>6. \A w \in Rows(d.media) : w.entity = e \/ w \in Rows(d'.media)
    BY <2>3, <2>5 DEF Rows
  <2>7. \A w : w.entity = e => Covers(r, Pic(w))' BY <2>2 DEF Covers, At, Pic
  <2>8. \A f \in Registered(d.media) : f \in Registered(d'.media) \/ Covers(r, f)'
    BY <2>6, <2>7 DEF Registered
  <2>9. \A f : ~Covers(r, f) BY <2>1 DEF Covers, At
  <2> QED BY <1>1, <2>1, <2>8, <2>9, OneAccounted
<1>5. CASE ListFolder(r)
  <2>1. UNCHANGED <<d, files>> /\ At(r, "list") BY <1>5 DEF ListFolder, disk
  <2>2. /\ req'[r].at = "unlink" /\ req'[r].entity = req[r].entity
        /\ req'[r].listed = {f[2] : f \in {g \in files : g[1] = req[r].entity}}
    BY <1>0, <1>5, RequestSteps
  <2>3. \A f \in files : Covers(r, f) => Covers(r, f)' BY <2>1, <2>2 DEF Covers, At
  <2> QED BY <1>1, <2>1, <2>3, OneAccounted
<1>6. CASE Unlink(r)
  <2>1. d' = d /\ At(r, "unlink") /\ files' = files \ ({req[r].entity} \X req[r].listed)
    BY <1>6 DEF Unlink, Failure, MediaFilesTypeOK
  <2>2. \A f \in files' : ~Covers(r, f)
    <3> SUFFICES ASSUME NEW f \in files', Covers(r, f) PROVE FALSE OBVIOUS
    <3>1. f[1] = req[r].entity /\ f[2] \in req[r].listed BY <2>1 DEF Covers, At
    <3>2. f = <<f[1], f[2]>> BY <2>1 DEF MediaFilesTypeOK
    <3> QED BY <2>1, <3>1, <3>2
  <2> QED BY <1>1, <2>1, <2>2, OneAccounted
<1>7. CASE RemoveFolder(r)
  <2>1. UNCHANGED <<d, files>> /\ At(r, "rmdir") BY <1>7 DEF RemoveFolder
  <2>2. \A f : ~Covers(r, f) BY <2>1 DEF Covers, At
  <2> QED BY <1>1, <2>1, <2>2, OneAccounted
<1> QED BY <1>2, <1>3, <1>4, <1>5, <1>6, <1>7 DEF DeleteStep

\* Failures are counted and never forgotten.
LEMMA FailuresGrow ==
    ASSUME MediaFilesTypeOK, NEW r \in Requests, UploadStep(r) \/ DeleteStep(r), failures' = 0
    PROVE  failures = 0
<1>1. CASE CreateFile(r)
  <2>1. PICK n \in Names \cup {PidName} : Draw(n) BY <1>1 DEF CreateFile
  <2> QED BY <2>1 DEF Draw, Failure, MediaFilesTypeOK
<1>2. CASE CopyFails(r) \/ RemoveFile(r) \/ Unlink(r)
  BY <1>2 DEF CopyFails, RemoveFile, Unlink, Failure, MediaFilesTypeOK
<1>3. CASE ~(CreateFile(r) \/ CopyFails(r) \/ RemoveFile(r) \/ Unlink(r))
  BY <1>3 DEF UploadStep, DeleteStep, BeginUpload, Refuse, CopyFile, AddRow, DeleteMedia,
              DeleteEntity, ListFolder, RemoveFolder, history
<1> QED BY <1>1, <1>2, <1>3

LEMMA RequestAccounted ==
    ASSUME MediaFilesTypeOK, AccountedInv, NEW r \in Requests, UploadStep(r) \/ DeleteStep(r)
    PROVE  AccountedInv'
<1> SUFFICES ASSUME failures' = 0, ~rolledBack', ~abandoned' PROVE Accounted'
  BY DEF AccountedInv
<1>1. failures = 0 BY FailuresGrow
<1>2. ~rolledBack /\ ~abandoned BY DataSteps
<1>3. Accounted BY <1>1, <1>2 DEF AccountedInv
<1> QED BY <1>1, <1>3, UploadAccounted, DeleteAccounted

LEMMA OtherAccounted ==
    ASSUME MediaFilesTypeOK, AccountedInv,
           (\E t \in Types : CreateEntity(t)) \/ Save \/ Backup \/ Restore \/ Restart \/ UNCHANGED vars
    PROVE  AccountedInv'
<1> SUFFICES ASSUME failures' = 0, ~rolledBack', ~abandoned' PROVE Accounted'
  BY DEF AccountedInv
<1>1. failures' = failures /\ files' = files
  BY DEF CreateEntity, Save, Backup, Restore, Restart, vars, disk, history
<1>2. CASE Restart
  <2>1. ~rolledBack /\ d' = d BY <1>2 DEF Restart
  <2>2. ~abandoned /\ \A r \in Requests : At(r, "idle") BY <1>2 DEF Restart
  <2>3. \A r \in Requests : \A f : ~Covers(r, f) BY <2>2 DEF Covers, At
  <2>4. Accounted BY <1>1, <2>1, <2>2 DEF AccountedInv
  <2>5. files \subseteq Registered(d.media) BY <2>3, <2>4 DEF Accounted
  <2> QED BY <1>1, <2>1, <2>5 DEF Accounted, Registered, Rows, Pic
<1>3. CASE ~Restart
  <2>1. UNCHANGED <<req, abandoned>>
    BY <1>3 DEF CreateEntity, Save, Backup, Restore, vars, history
  <2>2. ~rolledBack /\ d'.media = d.media
    <3>1. CASE Restore BY <3>1 DEF Restore
    <3>2. ASSUME NEW t \in Types, CreateEntity(t) PROVE <2>2
      BY <3>2, DataFacts DEF CreateEntity, history, MediaFilesTypeOK
    <3>3. CASE Save \/ Backup \/ UNCHANGED vars
      <4>1. UNCHANGED <<d, rolledBack>> BY <3>3 DEF Save, Backup, vars, history
      <4> QED BY <4>1
    <3> QED BY <1>3, <3>1, <3>2, <3>3
  <2>3. Accounted BY <1>1, <2>1, <2>2 DEF AccountedInv
  <2> QED BY <1>1, <2>1, <2>2, <2>3 DEF Accounted, Covers, At, File, Registered, Rows, Pic
<1> QED BY <1>2, <1>3

LEMMA AccountedStep == MediaFilesTypeOK /\ AccountedInv /\ [Next]_vars => AccountedInv'
  BY RequestAccounted, OtherAccounted DEF Next

\* Without failing calls, restarts and restores the disk holds nothing but the
\* pictures of the table when no request is running (media.go:57-93, 149).
THEOREM NothingStray == Spec => []NoOrphans
<1>1. Init => AccountedInv BY DEF Init, AccountedInv, Accounted
<1>2. AccountedInv => NoOrphans
  <2> SUFFICES ASSUME Accounted, \A r \in Requests : At(r, "idle")
               PROVE  files \subseteq {Picture(i) : i \in Ids(d.media)}
    BY DEF AccountedInv, NoOrphans
  <2>1. \A r \in Requests : \A f : ~Covers(r, f) BY DEF Covers, At
  <2> QED BY <2>1 DEF Accounted, Registered, Rows, Pic, Picture
<1> QED BY <1>1, <1>2, MediaTypes, AccountedStep, PTL DEF Spec

-----------------------------------------------------------------------------
(* The promise of the store *)

\* A picture is registered.
LEMMA GalleryAddRow ==
    ASSUME MediaFilesTypeOK, NEW r \in Requests, AddRow(r)
    PROVE  Gallery!Next
<1> DEFINE new == NextID(d.media)
<1>1. Row(r) \in MediaRow
  BY DEF MediaFilesTypeOK, AddRow, At, Row, Request, MediaRow
<1>2. IsTable(d.media, MediaRow) BY DEF MediaFilesTypeOK, DataOK
<1>3. d'.live = d.live /\ d'.seq = d.seq /\ d'.media = Insert(d.media, Row(r))
  BY <1>1, DataFacts DEF AddRow, MediaFilesTypeOK
<1>4. /\ Ids(d'.media) = Ids(d.media) \cup {new} /\ d'.media.seq = new
      /\ new \notin Ids(d.media) /\ d'.media.items[new] = Row(r)
      /\ \A i \in Ids(d.media) : d'.media.items[i] = d.media.items[i]
  BY <1>1, <1>2, <1>3, InsertFacts
<1>5. Row(r).entity \in Types \X Nat
  BY <1>1, MediaFilesAssumption DEF MediaRow, Entities
<1>6. Gallery!AddPicture BY <1>3, <1>4, <1>5 DEF Gallery!AddPicture, NextID
<1> QED BY <1>6 DEF Gallery!Next

\* A picture goes.
LEMMA GalleryDeleteMedia ==
    ASSUME MediaFilesTypeOK, NEW r \in Requests, NEW id \in Ids(d.media), DeleteMedia(r, id)
    PROVE  Gallery!Next
<1>1. IsTable(d.media, MediaRow) BY DEF MediaFilesTypeOK, DataOK
<1>2. d'.live = d.live /\ d'.seq = d.seq /\ d'.media = Without(d.media, {id})
  BY DataFacts DEF DeleteMedia, MediaFilesTypeOK
<1>3. /\ Ids(d'.media) = Ids(d.media) \ {id} /\ d'.media.seq = d.media.seq
      /\ \A i \in Ids(d'.media) : d'.media.items[i] = d.media.items[i]
  BY <1>1, <1>2, WithoutFacts
<1>4. Gallery!DeletePicture(id) BY <1>2, <1>3 DEF Gallery!DeletePicture
<1> QED BY <1>4 DEF Gallery!Next

\* An entity is created.
LEMMA GalleryCreateEntity ==
    ASSUME MediaFilesTypeOK, NEW t \in Types, CreateEntity(t)
    PROVE  Gallery!Next
<1> DEFINE new == d.seq[t] + 1
<1>1. /\ d'.live = d.live \cup {<<t, new>>} /\ d'.media = d.media
      /\ d'.seq = [d.seq EXCEPT ![t] = @ + 1]
  BY DataFacts DEF CreateEntity, MediaFilesTypeOK
<1>2. new \in 1..MaxEntity /\ d.seq \in [Types -> Nat]
  BY MediaFilesAssumption DEF CreateEntity, MediaFilesTypeOK, DataOK
<1>3. d'.seq[t] = new BY <1>1, <1>2
<1>4. {n \in 1..MaxEntity : <<t, n>> \in d'.live}
        = {n \in 1..MaxEntity : <<t, n>> \in d.live} \cup {new}
  BY <1>1, <1>2
<1>5. \A u \in Types \ {t} : {n \in 1..MaxEntity : <<u, n>> \in d'.live}
                               = {n \in 1..MaxEntity : <<u, n>> \in d.live}
  BY <1>1
<1>6. [u \in Types |-> {n \in 1..MaxEntity : <<u, n>> \in d'.live}]
        = [[u \in Types |-> {n \in 1..MaxEntity : <<u, n>> \in d.live}]
              EXCEPT ![t] = @ \cup {d'.seq[t]}]
  BY <1>3, <1>4, <1>5
<1>7. Gallery!Create(t) BY <1>1, <1>6 DEF Gallery!Create
<1> QED BY <1>7 DEF Gallery!Next

\* An entity goes, with its pictures and with no other one.
LEMMA GalleryDeleteEntity ==
    ASSUME MediaFilesTypeOK, NEW r \in Requests, NEW t \in Types, NEW n \in 1..MaxEntity,
           DeleteEntity(r, <<t, n>>)
    PROVE  Gallery!Next
<1> DEFINE e == <<t, n>>
           mine == Matching(d.media, [entity |-> e])
           own == [i \in Ids(d.media) |-> d.media.items[i].entity]
           own2 == [i \in Ids(d'.media) |-> d'.media.items[i].entity]
<1>1. IsTable(d.media, MediaRow) BY DEF MediaFilesTypeOK, DataOK
<1>2. \A S : LET x == [d EXCEPT !.live = @ \ {e}, !.media = Without(@, S)]
             IN  x.live = d.live \ {e} /\ x.seq = d.seq /\ x.media = Without(d.media, S)
  BY DataFacts DEF MediaFilesTypeOK
<1>3. d' = [d EXCEPT !.live = @ \ {e}, !.media = Without(@, mine)] BY DEF DeleteEntity
<1>4. mine = {i \in Ids(d.media) : d.media.items[i].entity = e} BY DEF Matching
<1> HIDE DEF mine
<1>5. d'.live = d.live \ {e} /\ d'.seq = d.seq /\ d'.media = Without(d.media, mine)
  BY <1>2, <1>3
<1>6. /\ Ids(d'.media) = Ids(d.media) \ mine /\ d'.media.seq = d.media.seq
      /\ \A i \in Ids(d'.media) : d'.media.items[i] = d.media.items[i]
  BY <1>1, <1>5, WithoutFacts
<1>7. own2 = [i \in {j \in DOMAIN own : own[j] # e} |-> own[i]]
  <2>1. Ids(d'.media) = {j \in DOMAIN own : own[j] # e} BY <1>4, <1>6
  <2>2. \A i \in Ids(d'.media) : i \in Ids(d.media) /\ own2[i] = own[i] BY <1>6
  <2> QED BY <2>1, <2>2
<1>8. n \in {k \in 1..MaxEntity : <<t, k>> \in d.live} BY DEF DeleteEntity
<1>9. {k \in 1..MaxEntity : <<t, k>> \in d'.live}
        = {k \in 1..MaxEntity : <<t, k>> \in d.live} \ {n}
  BY <1>5
<1>10. \A u \in Types \ {t} : {k \in 1..MaxEntity : <<u, k>> \in d'.live}
                                = {k \in 1..MaxEntity : <<u, k>> \in d.live}
  BY <1>5
<1>11. [u \in Types |-> {k \in 1..MaxEntity : <<u, k>> \in d'.live}]
         = [[u \in Types |-> {k \in 1..MaxEntity : <<u, k>> \in d.live}] EXCEPT ![t] = @ \ {n}]
  BY <1>9, <1>10
<1>12. Gallery!Delete(t, n) BY <1>5, <1>6, <1>7, <1>8, <1>11 DEF Gallery!Delete
<1> QED BY <1>8, <1>12 DEF Gallery!Next

\* Between restores and restarts the handlers do to the data what Pictures
\* allows, so what Store proves of its operations is what they rely on
\* (media.go:85, 119, the calls of the delete handlers).
THEOREM DataAsPromised == Spec => UsesPictures
<1>1. ASSUME MediaFilesTypeOK, [Next]_vars
      PROVE  [Gallery!Next \/ d' \in {saved, dump}]_d
  <2>1. ASSUME NEW r \in Requests, UploadStep(r) \/ DeleteStep(r)
        PROVE  Gallery!Next \/ UNCHANGED d
    <3>1. ASSUME NEW e \in Entities, DeleteEntity(r, e) PROVE Gallery!Next
      <4>1. PICK t \in Types, n \in 1..MaxEntity : e = <<t, n>> BY DEF Entities
      <4> QED BY <1>1, <3>1, <4>1, GalleryDeleteEntity
    <3>2. \/ UNCHANGED d \/ AddRow(r) \/ \E i \in Ids(d.media) : DeleteMedia(r, i)
          \/ \E e \in Entities : DeleteEntity(r, e)
      BY <2>1 DEF UploadStep, DeleteStep, BeginUpload, CreateFile, Refuse, CopyFile,
                  CopyFails, RemoveFile, ListFolder, Unlink, RemoveFolder
    <3> QED BY <1>1, <3>1, <3>2, GalleryAddRow, GalleryDeleteMedia
  <2>2. ASSUME NEW t \in Types, CreateEntity(t) PROVE Gallery!Next
    BY <1>1, <2>2, GalleryCreateEntity
  <2>3. CASE Restore \/ Restart BY <2>3 DEF Restore, Restart
  <2>4. CASE Save \/ Backup \/ UNCHANGED vars BY <2>4 DEF Save, Backup, vars
  <2> QED BY <1>1, <2>1, <2>2, <2>3, <2>4 DEF Next
<1> QED BY <1>1, MediaTypes, PTL DEF Spec, UsesPictures

=============================================================================

# A TLA+ verification of SolarMax

SolarMax is the backend of a solar energy company's website: one Go binary that
keeps a catalogue in memory, saves it to one JSON file, stores uploaded images
next to it and serves an HTTP API with an admin login. These modules specify
the store and the way it reaches the disk, the image files, the admin login and
the pinger that keeps the host awake; TLC checks them on small instances and
TLAPS proves every invariant and action property for every instance.
Source references are `file:line` under `src/internal/store` unless a longer
path is given.

## 1. The system

| Part | State | Operations | Talks to |
|---|---|---|---|
| **Store, tables** (`store.go`, `categories.go`, `products.go`, `content.go`, `characteristics.go`, `media.go`) | eleven tables, each a counter `Seq` and rows by id, guarded by `mu`; `dirty`, guarded by `dirtyMu` | create, update, set status, delete for six slugged tables; characteristics, their values, the values of products; pictures; admins | called by every handler; holds the data the next two parts save |
| **Store, backup and restart** (`backup.go`, `New`, `EnsureAdmin`) | the snapshot file, dumps in the hands of administrators | `Snapshot`, `Restore`, `New`, `EnsureAdmin` | `main` at the start; `/api/admin/backup`, `/api/admin/restore` |
| **Persistence** (`Save`, `StartAutosave`, `cmd/api/main.go`) | the snapshot `path` and the temporary `path.tmp`; the autosave goroutine; the shutdown sequence | tick, save, stop signal, `srv.Shutdown`, final save | the file system; `Restore` saves too, in the goroutine of its request |
| **Media handlers** (`handlers/media.go`, the delete handlers) | image files by entity | upload (file, then row), delete (row, then file), removal of an entity's folder | store, file system |
| **Authentication** (`handlers/auth.go`, `authutil/jwt.go`, `password.go`) | the JWT secret; tokens held by clients | login, token check, password change (check, then set) | `PasswordHash`, `SetPasswordHash` |
| **Keepalive** (`keepalive/keepalive.go`) | the published `Status` | background loop, manual `Run` | the network |
| **Catalogue handlers, router, middleware** (`handlers/`) | none | decode, call the store, encode | store |
| **Slugs, responses, configuration, models** | none | pure functions and types | |

What is hard here:

* `Save` is called by three kinds of goroutines that exclude each other from
  nothing: the autosave loop, every `Restore` request and `main` at the end. They
  share one temporary file. All three orders of their file operations matter.
* The dirty flag is taken before the save that it asks for, so a change during
  a save, a failed save and a `Restore` that marks outside the lock all depend
  on who looks at the flag when.
* The process may stop between any two steps; a restart takes the file as it is.
* The rules between tables (references, unique keys, cascades, one main picture)
  are kept by thirty operations written by hand, with no schema under them.
* Uploads, deletions and password changes read and write the store in several
  steps, each under its own lock, and the disk under none; a dump may be restored
  between any two of them.
* The pinger mixes a timer, a ticker that drops ticks, a stop signal and runs
  that requests start by hand.

What makes each part correct:

* tables: no dangling reference, no duplicate key, a product's values belong to
  their characteristics, one main picture per entity, no picture outlives the
  deletion of its entity; each change is marked;
* backup and restart: whatever is loaded satisfies the same rules, there is
  always exactly one login, what memory has and the file lacks is in somebody's hands,
  and no id that the snapshot file knows as issued is issued again (a restored dump
  takes the counters back with the rows, and once it is in the file that is the reference);
* persistence: the snapshot is always whole, only moves forward, loses nothing
  on a clean exit, and every change reaches it;
* media: a picture that is shown is on disk and complete, no two rows share a
  file, and without failures no file stays behind without a row;
* authentication: whoever is let through presented a password that was right
  while the request ran; somebody always knows the password in effect; a token
  lives for the configured hours, through restarts with the same `JWT_SECRET`, and
  under no other secret;
* keepalive: background pings are never further apart than an interval and a run,
  the status is older than the newest run by a wait for the lock at most, the announced
  next run is wrong by known bounds, and the loop ends at the signal.

`PROJECT.json` lists under `hazards` each place where one of these could go
wrong, with the properties that would notice.

## 2. The modules

| Module | Models | Extends |
|---|---|---|
| `Tables` | the generic `table[T]`: counter, insertion, replacement, deletion, look-up by key | |
| `Store` | every operation of the store, one action each | `Tables` |
| `Lifecycle` | saves and restores in their steps, which fail and overlap, backups, crashes and restarts over the data of `Store` | `Store` |
| `Persistence` | `Save` in file operations, its callers, failures, crashes, shutdown; data are version numbers | |
| `DurableStore` | what a store with a snapshot promises, abstractly | |
| `Pictures` | what the store promises to the handlers of the image files, abstractly | |
| `Login` | what the store, its file and its saves promise about the login, abstractly | |
| `MediaFiles` | the handlers that touch image files, in steps, against the media table; restores and restarts | `Tables` |
| `Auth` | login, tokens, password changes in steps; late and missing saves, restores and restarts | |
| `Keepalive` | the loop, manual runs and the published times | |
| `MCStore`, `MCLifecycle`, `MCPersistence`, `MCMediaFiles`, `MCAuth`, `MCKeepalive` | constants for TLC | |
| `TablesProofs`, `StoreProofs`, `LifecycleProofs`, `PersistenceProofs`, `MediaFilesProofs`, `AuthProofs`, `KeepaliveProofs` | the theorems and their proofs | the module they are named after |
| `DurableProofs` | the proof that `Persistence` implements `DurableStore` | `PersistenceProofs` |

### Store

`d` is `s.d`, a record of tables, and `dirty` is `s.dirty`. Every operation
takes the write lock first and releases it last, so each is one action; a guard
is the negation of an early return, and an operation that returns an error is
the action being disabled. `Commit` is the assignment to the tables together
with `markDirty`, which the operations call under the lock. Services, object
types and advantages are three copies of one piece of code: `CreateEntry`,
`UpdateEntry`, `SetEntryStatus` and `DeleteEntry` take the table as a parameter.

A row keeps the fields that the properties tell apart: slugs, parents, statuses,
names of characteristics, values, links, `is_main`, logins. Names, prices,
translations, sort orders, URLs and times are left out. Slugs come from a set:
whether the client sent the slug or `Slugify` made it does not matter to the
rules. `SetProductCharacteristic` and `SetPasswordHash` stop at the first match
in Go's random map order, which is a `\E` over the matches. `AddMedia` does not
check that its entity exists, and neither does the action.

`MaxSeq` bounds how many ids each table issues and `MaxEntityID` the ids an
upload names; a table with bound 0 is switched off in that run.

### Lifecycle

`disk` is the data a start would load and `dumps` what `Snapshot` has handed out. The loop,
`main` and each restore request are savers. A tick takes the dirty flag (`Autosave`,
`store.go:249`); then, or without it, a save copies the data under the lock (`Marshal`, `217-220`),
and ends without the lock by replacing the file or by failing (`Rename`, `Fail`, `221-230`). A
`Restore` swaps the data under the lock (`RestoreSwap`, `backup.go:27-29`), marks them later without it
(`RestoreMark`, `31`) and then saves like the others. Operations, ticks, crashes and other saves come
between any two of these. Saves that overlap share one temporary file: `copies` are the copies
marshalled since nobody was writing, and once two of them are being written at a time (`mixed`)
a rename may put either, or an empty file, in place, and a failing one may have done so already. The
file operations behind that are `Persistence`'s; a torn file, which no start accepts, is left out here,
since no behaviour of the program continues from it.

The signal is left out: the last saves of the loop and of `main` (`FinalSave`) may begin at any time,
and the process may end or not, which allows more than the program does. A dump may come back at any
later time, to a program that has moved
on or restarted since: that is its purpose (`backup.go:8-10`). `Restart` stands for a crash or an
orderly stop followed by `New` and `EnsureAdmin` with any configured login
(the environment may have changed). Only dumps the program made are restored:
`Restore` accepts any JSON, and nothing could be said of hand-made ones. Until
the file exists `disk` is `EmptyData`, which is what `New` makes of it.

Three history variables say when a promise is suspended, as the code has it. `lost`: a save has failed or
overlapped another and the data have not been marked since, so nobody asks for another save
(`store.go:249-252`); `UnsavedIsDirty` excepts it. `behind`: a restore has not got into the file yet, in a
save that read the restored data and was alone (`stale` are the savers that read older ones); until
then memory counts from the dump and a crash goes back to the file, so that `NoIdReissued`
says nothing. If the save of the restore fails, `behind` stays true until another save succeeds.

### Persistence

Each goroutine that saves (`autosave`, `main`, one per restore request) has a
program counter through `Save`: marshal (`store.go:217-220`), open with
truncation, write block by block, rename (`226-229`). A file is the sequence of
its blocks labelled with the version each was written from. A descriptor follows
its file through a rename, so a late write of one saver lands in the snapshot
another has already moved into place. A rename fails when the file has been moved
away. Any step may fail (`Fail`), and any step may be the last before a `Crash`.

`Change` stands for all the operations of `Store`. The change and its
`markDirty` happen under the write lock and `Marshal` needs the read lock, so no
save can see one without the other and a single step is exact. A tick between
the two could take the flag before the lock is released, but its save would
then wait for that lock and marshal the change. `Restore` marks after unlocking
(`backup.go:31`) and gets two steps.

`phase` follows `main`: serving, the signal, `srv.Shutdown` returning because the
requests are done (`drained`) or because ten seconds passed (`timedout`), the
final save, the return. The autosave loop sees the same signal and makes a last
save of its own. `Restart` parses the file: nothing or an empty file is a fresh
start, anything that is not a whole snapshot is `log.Fatalf` (`RestartRefused`).
A mixture of two snapshots is counted as not whole even if it should happen to parse.

Left out: `fsync` and power loss (the code calls no `fsync`; the model's file
system keeps what was written), failures of the disk that lie about success,
and the race on `SavedAt`, which both `Save` and `Snapshot` write under a read
lock.

### DurableStore

One version in memory, one durable. A write advances memory, a flush moves the
durable version forward to at most memory's, a stop loses memory, a start
resumes from the durable version. `Persistence` implements it with
`durable <- Saved`, the version a restart would load, until two saves overlap:
then the promise is `void`, and the violation runs show that it has to be.

### Pictures and Login

`MediaFiles` opens requests into steps, and could not carry the full data of `Store`
along; it keeps the few variables of the store its handlers see.
That those behave like the real store is not left to the eye: an abstract specification
stands between the two, which the detailed store implements and the reduced one keeps.
`Login` is such a specification of the administrator's login in memory, in the file and in the
saves under way: requests may change its password, a start takes the saved one,
and only a restore brings in another name. A save writes what it read when it began.

| Promise | Implemented by | Relied on by |
|---|---|---|
| `Pictures`: ids of entities and pictures are issued once; a deletion takes exactly the entity's own pictures | `Store` (`ImplementsPictures`: every operation is one step of it or none) | `MediaFiles` (`UsesPictures`: its data take such a step, or an older copy is put back) |
| `Login`: one login, whose name stays while its password changes; a start takes the saved one if there is one, whatever is configured; the saved one is one that memory held when a save began | `Lifecycle` (`ImplementsLogin`) | the steps of the store in `Auth`, by construction |

The two properties of `Pictures` are about different mappings of the same variables: the tables
of `Store` on the left, the reduced state on the right. The reduced one could still be
narrower than the promise, so the actions of `MediaFiles` are checked against the
code like the others; what cannot happen is that a result about the handlers rests
on something the store never does. `Auth` keeps `past`, every login the process has had in
memory, and lets a save write any of them at any time, or nothing: that is more than
`Login` allows.

### MediaFiles

A request of `handlers/media.go` or of a delete handler is a small machine. An upload
makes the folder, then for each file draws a name and creates it (`CreateFile`), copies
the content (`CopyFile`) and registers it (`AddRow`); any file may be refused and end the
upload (`Refuse`), and a failing copy leaves its half (`CopyFails`). Deleting a picture
takes the row, then the file. Deleting an entity takes the rows, then
`os.RemoveAll` lists the folder, unlinks what it has listed and removes the folder,
three steps between which another upload may create a file. `Save`, `Backup`,
`Restore` and `Restart` copy and replace the data as in `Lifecycle`; a `Restore`
happens under running requests, a `Restart` cuts them off.

The store is reduced to what these handlers see: which entities live, the counter of each
type, and the media rows with the file they name. Creating or deleting an entity stands for
each of the operations `Store` details. `randomName` takes 128 random bits, so a name is
drawn once; if the random source fails it takes the process id (`media.go:119-126`),
which may well be in use, and the properties exclude that with `fellBack`. `MaxIncidents`
bounds together the failing system calls and the copies made of the data.

### Auth

Time passes in half seconds while a token's expiry is in whole ones (`Unix`), so the cut
is in the model; `Duration` wraps around as the 64-bit product of `auth.go:62` does. A
login or a change reads the hash, checks it without any lock, and then issues a token or
sets the new hash; saves, restores, restarts and other requests come between. A restore changes
the login in memory only; the file gets it with a later `Save`, which writes any login
the process has had in memory, or never. A hash is
known by the password it was made from. `Secret` is the `JWT_SECRET` of the environment or
a random one made at each start; a start may change the whole configuration, and with it to
another `JWT_SECRET` or none.
`known` records the passwords that were configured, printed or chosen, and a request's
`window` the hashes its login had since the request began.

There is one login in memory, as `OneLoginEverywhere` shows for whatever the program
produces; a restored dump carries one login with a hash in this program's format.
Hand-made dumps, with no login, several, or another hash format, are left out, as in
`Lifecycle`. The wording of errors, the encoding of tokens and PBKDF2 itself are abstracted.

### Keepalive

The loop waits for its timer, then for ticks; `slot` is the ticker's channel of one, which
drops a tick that finds it full. `Run` is two steps, because it takes its time stamp before
the lock (`keepalive.go:113-120`): two runs may publish in the other order. A
run pings for up to `MaxRun`, which the timeouts of `ping` enforce (`keepalive.go:126-152`,
`Overdue`). It then waits for `p.mu`, where the code has no timeout: that it waits for
no longer than `MaxWait` is an assumption of its own (`Waited`), on the scheduler alone, since
nobody holds `p.mu` over a call. That `Tick` does not let time pass over
something the loop can receive is the same kind of assumption. The answers of the addresses are left out; they reach nothing but the
status text.

## 3. The runs

| Run | Question | Distinct states |
|---|---|---|
| `store_catalog` | types, references and slugs of categories, subcategories, products and an advantage | 86 thousand |
| `store_characteristics` | references, keys and fitting values through cascades and upserts | 199 thousand |
| `store_media` | one main picture; no picture survives the deletion of its entity; `Pictures` implemented | 74 thousand |
| `life_persist` | between the steps of saves and of a restore, which fail, overlap and are cut off: all copies consistent, one login, every unsaved change in somebody's hands, no id issued that the file knows; `Login` implemented | 231 thousand |
| `persist_overlap` | with a failure and crashes anywhere, until saves overlap: whole snapshots, nothing forgotten, nothing lost on a clean exit, `DurableStore` implemented, and a restore or the end of the process behind every overlap; without a failure every change is saved; main returns after a signal | 179 thousand |
| `media_files` | two requests upload and delete at once: shown pictures on disk and whole, files not shared, no orphans; data as `Pictures` promises | 315 thousand |
| `auth` | two requests log in and change passwords across saves, a restore, a restart with another configuration and an expiry | 1.9 million |
| `keepalive` | the loop and two manual runs: background pings often enough, no drift, a fresh status, the next run announced within bounds, the loop ends | 188 thousand |
| `persist_torn` | *violated*: "a whole file is left on disk" (`store.go:210`) | |
| `persist_exit` | *violated*: "so as not to lose the last changes" (`cmd/api/main.go:112`) | |
| `persist_retry` | *violated*: "saved every 3 seconds when something changed" (`README.md:13`) | |
| `keepalive_status` | *violated*: "when the last background ping was and when the next one will be" (`handlers/system.go:37`) | |

Bounds. Two ids per table give a row, another row to conflict with and an id
that is free again after a deletion; three values of two characteristics give a
value of the wrong characteristic next to two of the right one. One entity of each of five
types (the advantage, a third copy of the same code, is in `store_catalog`) and two pictures are enough for a main flag to move, and an entity id is
named before the entity exists, while it does and after it is gone. One dump
suffices to bring an older state back after any number of changes and restarts.
In `life_persist` the copies multiply every state, so the data are one characteristic with one
value and two logins with two hashes; at most two saves or restores are under way
(`MaxUnderWay`), which is an overlap, a tick during a restore, or a copy from before a restore
that arrives after it; and `Bounded` lets the tables grow only while all copies have the same login, so
that the states of the tables and those of the login are not multiplied. Saves, restores and
restarts happen on both sides of that bound.
Two versions let a change come before, during or after a save; version 2 is
shorter, so a shorter snapshot may be written over a longer one. That no larger
number of versions, requests or failures matters to the safety properties is proved (section 4).
One restore request beside the loop and `main` gives every pair of savers.
One failure is enough, as a failed save only leaves a temporary file behind.
`EventuallySaved` speaks of runs without a failing call: a failed save is not retried, as
`persist_retry` shows.

In `media_files` two requests are what it takes for an upload to meet a deletion, of its
picture's neighbour or of its entity, or another upload; uploads of two files let the
second one fail after the first is registered; with one incident a call fails, a
snapshot is saved or a dump is taken. Before the first of these a restart or a restore goes
back to the empty store under the files of a full one. In `auth` one token, alive for two
half seconds, is issued at an even or an odd half second, and expires and is
refused before the time ends; three passwords are in play (one chosen, one generated at
each start). Two processes and two values of `JWT_SECRET`, or none, give every pair of
secrets: the same, another, one made up before or after. What the last process would save is
left out, as nobody loads it. In `keepalive` the longest run is shorter than the interval, as it must
be for `OnSchedule` to speak; two manual runs overlap each other and the loop's, and time
covers the timer and three intervals. Each bound that `AwakeWithin`, `StatusFresh` and
`NextRunAbout` state is reached: with one unit less, TLC finds a violation.

The four violations are real disagreements between comments and code:

* `persist_torn`: a tick of the loop while a restore is saving. The second
  `WriteFile` empties the temporary file, the first renames the empty or half-written
  file over the good snapshot, and a crash before the second finishes leaves a
  snapshot the next start refuses (or, empty, takes for a first start).
* `persist_exit`: no request is needed. `main` saves while the loop does, be it for a tick
  that has not finished (the trace TLC shows) or for its own last save after the signal, and
  `main` returns with the loop's older or half-written file in place.
* `persist_retry`: the save of a tick fails; the flag is already clear, so later
  ticks do nothing until something else changes (or the process stops cleanly).
  The counterexample is a fair behaviour: the loop runs on and saves nothing.
* `keepalive_status`: the comment promises the last *background* ping and the next one.
  `Run` writes both times whoever calls it (`keepalive.go:113-120`), so a manual
  ping replaces the time of the background ping and announces a run an interval after
  itself, while the ticker keeps its schedule. `StatusFresh` and `NextRunAbout` state
  what does hold.

Deadlock is checked in the store, lifecycle, media and login runs. It is off for
`Persistence`, where a program that has refused its snapshot stops for good, and for
`Keepalive`, whose time is bounded and whose loop ends.

Fairness (`Keepalive!Fairness`). Weak fairness for the steps of the loop's goroutine, and
strong fairness for its receiving the closed `ctx.Done`: `select` chooses at random among the
ready cases, so it does not pass one over for ever. Manual requests and the signal are not fair.

Fairness (`Persistence!Fairness`). Weak fairness for each goroutine inside
`Save` and between the two halves of `Restore`: they block on nothing but locks held
for one step. Weak fairness for the tick (the ticker fires every three seconds)
and for the loop's last save (its `select` sees the closed channel). Weak fairness for
`srv.Shutdown` returning, one way or the other, which its ten-second context
enforces, and for `main` going on. Requests, signals, crashes, failures and
restarts are not fair: they may never come.

Every property of a passing run has a mutant in `PROJECT.json`, a plausible slip
in the code that the run detects: a dropped check, a missing cascade, a missing
mark, a counter that is not saved, a file written in place, a last save
left out.

## 4. The proofs

Every invariant, every action property and every refinement that a passing run checks is a theorem.
Only model-checked are the three liveness properties, `EventuallySaved`, `ShutdownEnds`
and `LoopEnds`: fairness and `ENABLED` are beyond the proof system.

`TablesProofs` states what inserting, replacing and deleting rows do to a table
and to the uniqueness of a key. `StoreProofs` proves, for all sets of slugs,
names, values and logins and all bounds,

    THEOREM StoreConsistent == StoreSpec => []Consistent(d)

and from it `StoreTypes`, `StoreReferences`, `StoreKeys`, `StoreValuesMatch` and
`StoreMainPictures`, one for each invariant the runs check. `Consistent` is inductive
because it holds all the rules at once: the cascade of a characteristic keeps
references only because a link's value belongs to its characteristic
(`ValuesFit`), and types are needed everywhere to know that a new id is unused
and that 0 excepts nothing in a slug check. The proof has a lemma per operation.
Operations on slugged tables go through `SluggedInsert`, `SluggedPut` and
`SluggedDelete`; the others through a frame lemma that reduces the data to the
tables they touch (`CharacteristicsFrame`, `LinksFrame`, `MediaFrame`,
`PicturesFrame`). `PicturesGoWithEntity` proves the action property
`MediaGoneWithEntity`: a step that deletes no entity has nothing to show (`NothingDeleted`), and
each deletion sweeps the pictures of exactly what it deletes (`DeletionSweeps`).
`GalleryImplemented` proves that `Store` implements `Pictures`, again by operation: the ones on
slugged tables create or delete one entity or leave the gallery alone, the media operations
change the owners, and the rest stutter. It needs the types, for a new id must be the one after
the highest issued. The only assumption is `BoundsAssumption`: the bounds are natural numbers and there
is some login to configure.

`LifecycleProofs` builds on two of its lemmas, `StoreStep` (a step keeps the data
consistent) and `StepMarksDirty` (a step marks them). `LifeInv` is inductive. It has the consistency of
memory, file, every dump and every copy on its way: each is a copy of data that were in memory, and
`EnsureAdmin` keeps them consistent (`EnsureAdminFacts`). `SavesInv` says what the savers do, and
that without an overlap only one of them writes, and one copy. `UnsavedIsDirty` alone is not
preserved by a rename, which may write an older copy; `WritesLatest` adds that the copy being written
is of the data in memory, or that these are marked or about to be marked or marshalled (`Tended`). `CopiesConsistent`
(types included) and `UnsavedMarked` follow, with and without a snapshot file, for any number of
restores under way.

`CarryInv` adds what no step takes back: unless a restore is yet to be saved (`behind`), memory is ahead of
the file and of the copies on their way to it (`Ordered`, by `Grows(x, d)`: counters are not
lower, and rows the copy does not have carry ids it had not issued); a writer that did not
start before a restore writes a copy that memory is ahead of (`WritesOrdered`), which is why a restore
is over when such a writer renames; and no copy has more than one login. `OneLogin` and `IdsIssuedOnce` follow.
`NoIdReissued` alone would not be inductive: what a restart loads is the file, and what a rename puts there
is a copy, so both must be related to memory.
`LoginImplemented` proves `Login` from `CarryInv` and `OneLogin`: the table of logins of any copy is one
row or none, so as a set of logins it is `Single` or empty; only `SetPasswordHash`, `RestoreSwap` and
`Restart` change it in memory, a save takes and writes it, and a start takes the configured login only
where the file has none.

`PersistenceProofs` proves `PersistTypes` and `SnapshotsWhole` for any number of
restore requests, versions, blocks per version and failing calls.
`WholeUnlessOverlap` alone is not inductive: that a rename is safe depends on what the temporary file
holds. `LoneInv` adds it: while no saves have overlapped at most one saver is in
`Save` (`Alone`), and the temporary file holds exactly the blocks that one has
written (`OwnsTmp`). `Descriptors` carries what remains true when saves do overlap: an
open descriptor belongs to a file that exists. `OverlapsHaveCause` proves `OverlapsExplained`: the loop
is in one save at a time and `main` saves only after its server is shut down (`MainLast`), so a second
saver is a restore, or `main` is ending. Hence `LoopAloneIsWhole`: without restores and before the stop
signal, what the comment of `Save` says holds with no condition, through any failures and crashes.
`persist_torn` and `persist_exit` thus show the two only ways to break it. The assumptions are those of
`PersistenceAssumption`: bounds are natural numbers, every snapshot has a block, and
requests are not named like the two other savers.

`DurableProofs` proves that `Persistence` implements `DurableStore` (`DurableRefined`).
A rename moves the durable version forward only if the saver did not marshal an
older one than the file already holds, so the proof needs `VersionsOrdered`: until
saves overlap, saved version <= marshalled version <= version in memory. A file holds one
version at most (`SavedIs`), so what a restart loads is determined. `QuietStep` then maps
each step: a rename is `Flush` (or `Stop`, when main renames the version already
there and returns), a change is `Write`, a crash is `Stop`, a restart is `Start`, a step that
makes saves overlap is `Void`, and the rest change nothing the promise speaks of.
On the same order rest `ChangesCovered` (`NothingForgotten`: while no call has failed, the
last change is marked dirty, or in the hands of a saver, or in the file) and `ExitSavesAll`
(`CleanExitSaved`: once the last handler is done, what `main` has marshalled stays the version
in memory, and its rename puts it into the file, `RenameSaves`). `LoopAloneForgetsNothing` joins the first
with `LoopAlone`: a program that only autosaves, on a disk that does not fail, never loses track of a change.

`MediaFilesProofs` proves all of the invariants of `MediaFiles` for any number of
requests, names, entities, files and failures. `FreshInv`: a name that is in a row of memory,
snapshot or dump, or in the hands of an upload, has been drawn, and is in no other row of
that copy and in no other upload; whatever is restored, that stays so, because copies only
ever hold names that have been drawn. `OwnFiles` and `NeverHalf` follow. `ServedInv` adds the running requests: an
upload's file is on disk unless its entity is dead, whoever removes a folder works for a dead
entity, and a file being removed belongs to no row and no upload; `PicturesServed` follows.
`AccountedInv`: without failures each file is in the table or some request still has
it in hand (`Covers`); `NoOrphans` is that statement when no request runs. `DataAsPromised` proves `UsesPictures`
for any number of types, requests and files.

`AuthProofs` rests on three independent invariants. `RequestsEarned`: a request's window
holds the hash in effect and the one the request has read. `TokensSigned`: what a token's
secret and expiry were made from; with it `SecretsCompared` shows that a token is signed with
the secret in use exactly if this process issued it or both have the same `JWT_SECRET`.
`LoginsKnown`: somebody knows every password this process has had in memory, which a save
may write, and the one in the file, so that a restart cannot bring an unknown one back.
`LifetimesKept` assumes that the configured lifetime fits a `time.Duration`
(`-HalfRange <= Hours * Hour < HalfRange`) and does not end before 1970, an expiry of zero or less being
read as none (`jwt.go:85`). Configuration checks neither, and from 2562048 hours on the property is false; the
assumptions are part of the theorem. `LifetimesWrap` says what holds there instead: the product wraps
around, and a token lives for what it has become, to the second.

`KeepaliveProofs` relates distances between times: a run takes its stamp within `MaxRun` of
its start and publishes within `MaxWait` of its stamp, the ticker fires within an interval, and while
its channel is empty the next tick is
near the last run (`RunsTimed`, `LoopRuns`, `TimerSet`, `TickerSet`, `StatusTimed`).
`OnSchedule` and the second half of `NextRunAbout` need one more invariant, `Scheduled`: when runs are
shorter than the interval the ticker has fired once for each multiple of it, each tick is received when
it fires, no other comes before the run it starts is over, and what that run announces is late
by no more than its pings took. All of it holds for every `MaxRun` and `MaxWait`; that there
are such bounds is the assumption on the timeouts and on the scheduler.

## 5. Plan

1. *(done)* `Tables`, `Store`, `Lifecycle`, `Persistence`, `DurableStore`; proofs of the
   invariants of `Store`, of the consistency of all copies, of whole snapshots and of the refinement.
2. *(done)* `MediaFiles`, `Auth`, `Keepalive` with their runs and proofs.
3. *(done)* Proofs of what was only model-checked: `MediaGoneWithEntity`, `OneLoginEverywhere`,
   `NoIdReissued`, `NothingForgotten`, `CleanExitSaved`.
4. *(done)* `Pictures` and `Login`, the promises between the detailed and the reduced store, with the
   proofs; why saves overlap; what holds of a program that only autosaves; the lifetimes
   that wrap around.
5. *(done)* `Lifecycle` with the steps of saves and restores, which fail, overlap and are cut off.
6. Next: the order in which `Save`, `Backup` and `Restore` of `MediaFiles` bring data back together with the files, and
   what an older dump can at most show of pictures that are gone; the pure function `Slugify` and the order of `mediaFor` against
   reference definitions.

Not modelled, on purpose: PBKDF2 and the signature of tokens (pure cryptographic functions),
`Slugify`, routing, middleware, logging, encoding of requests and responses, configuration,
listings and counters (they only read, under the read lock); hand-made dumps; the race on
`SavedAt`; and tokens whose expiry falls before 1970, which `Auth` accepts for ever as the
code does but no property describes.

Noticed in passing, without a run: the example in the comment of `Slugify`
(`internal/utils/slug.go:21-22`) ends in `osveshenie`, while its table turns the Cyrillic shcha
into `sch` (line 14), so the function gives `vnutrennee-osveschenie`.

# Rabbit Storage Explorer: a TLA+ verification project

Rabbit Storage Explorer is a GTK client for S3, SFTP, SMB and NFS storage with
optional end-to-end encryption. All work on the network is done by a worker: a
multi-threaded tokio runtime that takes commands from the user interface over
one channel and sends events back over another. This directory models the
commands from the click to the backend: the parts in which tasks share state, in
which something can fail half way, and in which arithmetic has to agree in
several places.

Paths below are relative to the repository, whose Rust code is in `src/src/`.

## The system

| component | code | state | operations |
|---|---|---|---|
| manifest buffer | `manifest_store.rs` | per directory: manifest, written fingerprint, time of change, dirty flag; one mutex | `load`, `edit`, `take_entry`, `insert_entry`, `flush`, `forget`, `set_interval` |
| transfer hub | `worker.rs` 877-1014, 1151-1272, 1457-1598 | the live batch (open, outstanding, totals, semaphores, token), tokens per file | `admit`, `register_file`, `cancel_file`, `cancel_all`, `unregister_file`, `task_done` |
| progress bar | `ui/browser_page.rs` 878-968 | bar revealed, rows, totals | `transfer_started`, `transfer_extended`, `transfer_progress`, `transfer_finished` |
| connection | `worker.rs` 195-294, retry loops 1292-1340 and 1544-1580 | backend, generation, reconnect lock | `backend`, `wait_until_healthy`, `force_reconnect`, `rebuild` |
| rate limiter | `ratelimit.rs` | rate, tokens, last refill | `acquire`, `set_rate` |
| chunk format | `crypto.rs` 30-233 | counter and nonce prefix of a file | sealing, opening, sizes and layout |
| download | `worker.rs` 1688-1863 | `.rse-part` file, stream, decryptor | `download_one` |
| upload | `worker.rs` 1274-1455 | multipart upload and its parts | `upload_one`, `upload_small`, `upload_multipart` |
| directory operations | `worker.rs` 1886-2245 | objects and manifests of two directories | create, delete, move, rename, sizes |
| manifest, listing | `manifest.rs`, `dir_view.rs` | entries of a directory | `upsert_*`, `rename_entry`, `build_listing` |
| session, dispatch | `worker.rs` 318-659 | the session, its flush timer, settings | `Connect`, `Disconnect`, `SetSettings`, ... |
| progress accounting | `worker.rs` 724-875 | bytes and speed per file | `file_start`, `tick`, `file_done` |
| backends | `storage/*.rs` | client sessions, `known_dirs`, `dir_cache`, `uploads` | the trait `StorageBackend` |
| vault and names | `crypto.rs` | the vault file of a storage | `create_vault`, `open_vault`, sealing, name hashes |
| settings | `settings.rs` | `profiles.json`, `known_hosts.json`, the keychain | `load_all`, `upsert`, `remove`, secrets |
| browser page | `ui/browser_page.rs` | breadcrumb path, pending request, rows | `request_list`, `set_listing`, `listing_failed`, the dialogs |
| connection page, window | `ui/connection_page.rs`, `ui/window.rs` | list or form, busy, the profile being edited; the event loop | connect, edit, delete a profile |

How they interact. The dispatcher runs each command in a task of its own, with a
clone of the session (connection, keys, manifest buffer). `run_upload` and
`run_download` admit their files to the one live batch of the hub and spawn a task
per file; such a task moves bytes over the session's connection, repairs the
connection when that fails, charges the rate limiter, records an uploaded file
in the manifest buffer and tells the hub when it is through. The hub and the
progress counters send events, which the UI handles one at a time.

What is hard about it: the lock of the manifest buffer is not held across
requests, so loads, edits and flushes interleave; events are sent after the
hub's lock is released; many tasks detect one dead connection at the same time;
requests fail, also after they took effect; the program may end at any point,
and the part file and the manifests on the backend are what it finds the next
time; a transfer is retried, resumed, cancelled and timed out; a command is tried
a second time although the first try may have taken effect; answers come in
another order than the requests, and after the user has gone elsewhere. `PROJECT.json`
lists these hazards at their lines, with the properties that cover them.

## Modules

`X.tla` is the model, `XProofs.tla` its proofs, `MCX.tla` with a `.cfg` an
instance for TLC. Operators marked `Fault:` in a model are the plausible bugs
that each property is tested against: with the fault in the place of the
definition after it, TLC finds the property violated.

**ManifestRegister** is the abstract specification: each directory has a logical
content on which edits act atomically, and a stored one, which is only
overwritten with contents the directory has had. A crash falls back to the
stored one.

**ManifestStore** is `manifest_store.rs`. A step is one critical section or one
request: the two sections of `load` with the fetch between them (`LoadHit`,
`LoadMiss`, `LoadFetch`, `LoadInsert`), the section of `edit` and `take_entry`
(`EditApply`), the three phases of `flush` (`FlushSnapshot`, `FlushPut`,
`FlushRecord`). A request may fail without or with its effect. Time is reduced to
whether a directory has been quiet for the interval (`Elapse`, `SetInterval`). A
manifest is the set of its names, and its fingerprint is its content.
`insert_entry` and the upserts are the edit "upsert", removal and the
`take_entry` of a move are "remove" and "take". `forget` is in DirOps, with its
callers.

**TransferHub** is the hub with its jobs (a drop or a download request) and file
tasks. The transfer itself is one step with two outcomes. `batch` numbers the
batches and stands for everything that is made anew per batch.

**TransferBar** composes the hub with the bar of the UI: the handlers of the three
events, applied in the order of the channel.

**Connection** is `rebuild` with its generation and lock, the probe, and the
retry loops around an operation of a file (limited retries, every second stall
in a row forces a reconnect) or of a command (one retry). The installation of a
connection and the increment of the generation are two steps, as in the code.

**RateLimiter** is the token bucket and the tasks that draw on it, with discrete
time.

**ChunkFormat** has the four computations of sizes as operators; **Download**
extends it with the attempts of a download. A byte is a pair of the version of
the object it comes from and its place, so that a repeated, skipped or foreign
byte is visible. A chunk opens when its version, number, length and last flag are
those it was sealed with, which is what the authenticated encryption provides.
`write_all` can be cut after every byte, and the program may end at every step.
Bytes that were handed to `write_all` are in the file, or lost, before the next
attempt looks at its length: at least 800 ms lie between.

**Manifest** has the entries of a directory and their operations, the mapping of
names to on-disk segments, and `build_listing`. A hash is a pair of its form and
the name it stands for: different names have different hashes, no hash is a name.

**RemoteTree** extends it with what the four backends do to the tree of keys.
S3 has keys and marker objects and deletes in one request; the others have
directories that must exist, a rename of folders by copy and delete
(`StorageBackend::rename`), a deletion that walks down a folder for its files and then
removes its directories one by one, and a cache of directories they hold for existing:
`known_dirs` of SFTP and SMB, which `prepare_parents` fills, and `dir_cache` of NFS, which
`resolve_dir` also fills with every directory that is listed. `s3_delete` may leave out keys
without an error, as the per-key errors of a DeleteObjects answer are not read.

**DirOps** composes it with the buffer as the commands see it: create, delete,
move, rename, size and upload, each a task whose steps are its requests to the
server, the updates of the cache and the calls of the store, with the flush at its end, the second try of
`dispatch`, the flush timer, the readers that fill the buffer (expansion of a
folder for a download, the info dialog) and the end of the program. The inputs
are entries of a listing made by `build_listing`, as in the dialogs.
`call` is where a task is inside a backend method: `Prepare` makes one directory of the way at a
time and skips those that are known by then, `Rmdir` removes one directory at a time, and what
an answer adds to or takes from the cache is noted by a step of its own (`Note`), as in
`smb.rs` 287-304 and 416-425 and `nfs.rs` 511-541 and 628-630. A request that ends in an error, with
or without its effect, notes nothing. The copies of one rename are one step, which may end after any of
them. Load, edit
and flush are atomic here: that a store whose steps interleave behaves like this
is ManifestStore's refinement.

**Upload** is one file on its way: the loop of `upload_one`, the upload in one piece,
the upload in parts with its abort, `guard_stall`, and the writing half of the
backends. A chunk is a pair of the attempt that sealed it and its index, so that an
object put together from two attempts is visible. A hung request is a fault of its own;
only SFTP has timeouts for it, else the watchdog must end it.

**App** is what surrounds all this: connection page, browser page and event loop on
one side, `dispatch`, `connect` and the sessions with their tasks and timers on
the other, two channels between them, and the profiles, keychain, known hosts and
vault files that outlive a session. A command is a task that ends with one event;
what it does in detail is DirOps' and the transfer modules'. Modal dialogs are part
of the click that opens them, since they hold up every other click. There is a vault file
per place: one for each storage and, on an SSH server, the global location, where
a connection looks that got an error for `canonicalize(".")` (`sftp.rs` 176-188). `Patient` says
in which phases of a Connect nothing ends the wait for an answer: the handshakes of S3 and SSH, the session
setup of SMB, and the requests for the vault on S3, SMB and NFS. Only there may the server stay
silent for ever (`ServerSilent`); SFTP reads and writes the vault under `with_timeout`, NFS mounts
and SMB connects within 20 s. A flush that fails makes a new folder or a rename fail and is
ignored by the other commands (`worker.rs` 1947, 2002, 2149), so `FlushTask` may end in both ways.

## Runs

| run | checks | result |
|---|---|---|
| `store` | types; `NothingStranded`; refinement of ManifestRegister; `EventuallyWritten` | pass |
| `store_overlap` | `NextFlushPicksItUp`, the comment in `flush` | violated |
| `transfers` | types; `NoDrainRace`; `ParallelismBound`; `FinishedReport`; `BarHiddenAtRest`; `EveryBatchFinishes` | pass |
| `connection` | types; `HealedIsNewer`; `EveryOperationEnds` | pass |
| `limiter_stuck` | `AcquireReturns`, the comment in `acquire` | violated |
| `download` | types; `EveryByteInPlace`; `OutIsWhole`; `ChunksAreWhole`; `GivesUpForCause`; `SizesAgree`; `EveryDownloadEnds` | pass |
| `part_stale` | `FinalizedIsComplete`, the comment on a complete part | violated |
| `dirops` | types; `NothingLost`; `NamesKept`; `NamesDurable`; `KnownDirsExist`; `SuccessMeansDone` | pass |
| `names_lost` | `NamesFollowFolder`, the comments on `forget` | violated |
| `upload` | types; `SuccessIsWhole`; `S3NeverTorn`; `AbortCleansUp`; `CreditExact`; `EveryUploadEnds` | pass |
| `app` | types; `PageAgrees`; `ListingSettles`; `EditsSaved`; `VaultKept`; `HostTrusted`; `ProfilesAgree`; `EveryConnectSettles` | pass |
| `move_lost` | `NothingLost` where a folder is in one of its own name, the comment in `run_move` | violated |

The five violated runs are disagreements between a comment and the code:

- Two flushes of one directory overlap and the older blob lands last, while the
  newer fingerprint is recorded last. Memory, fingerprint and dirty flag agree, the object is
  behind, and no flush repairs it until the directory changes again.
- An encrypted download charges 1 MiB + 16 bytes, more than the bucket holds at
  any rate up to 1 MiB/s. `acquire` then never returns and only the stall
  watchdog ends the attempt.
- A part file is taken for a complete download because it is long enough. A part
  left by a program that ended, of an object that has been replaced or whose
  listed length was stale, becomes the file.
- `forget` never removes anything, because its callers trim the '/' that the keys
  of the buffer end with. A folder that takes the name of a deleted one inherits
  its buffered manifest, and its files are listed without names.
- `run_move` skips a folder that would go into itself, but not one that goes next to
  a folder above it of its own name. The folder a/a moved to the root has the
  destination a, which it is in: a/a/a/f is copied to a/a/f, and the removal of a/a
  takes the copy along. The move reports success and the file is gone. (It was found
  as the case in which the proof of `NothingEverLost` did not go through.)

### Exceptions

A passing property that does not hold of every state names the states it leaves
out, by history variables that are set where the code goes astray and nothing else:

- `overlapped`, `unacked` (ManifestStore): two flushes had the directory in hand; a
  put took effect and reported an error, so that an edit back to the recorded
  content looks written. `raced` (Connection): a task read the generation between
  installation and increment. A batch that was cancelled as a whole need not count
  its queued files (`FinishedReport`).
- `strayed` (DirOps): a file was put into a folder that another task's rename or move had
  already listed, and went with it when the folder was removed; two opposite moves of one file
  do the same. `parted`: a folder went to another prefix, and that does not show the
  manifests the old one showed (a buffered one stayed behind, one of an earlier folder is
  in the buffer, or one was saved between the listing of the folder and the copy), or its
  manifest was copied over that of another folder.
  `muddled`: two commands on the same keys overlapped, a command gave up half-way,
  was given a folder that has no name in its manifest,
  a manifest could not be read, or the program ended before the flush. Files are
  then listed without names or names without files; `NothingLost` holds all the same.
  `KnownDirsExist` is not claimed then either: a directory may be removed by one command between the
  request of another that made or found it and its insertion into the cache.
  `refused`: S3 answered a deletion with Ok and kept some keys; `SuccessMeansDone` leaves out these
  keys, and the names are not looked at any more. `unheard`: SMB or NFS removed a directory and the
  answer was an error, so that the cache keeps it. `KnownDirsExist` leaves out that directory, and
  `SuccessMeansDone` its creation, which skips it and reports success.
  `NamesDurable` leaves out a directory of which the buffer records a manifest as written
  that is not the one on the backend (`InStep`): its folder was moved away or deleted, and
  the buffer did not forget it.
  `KnownDirsExist` and the "create" of `SuccessMeansDone` leave out SFTP, whose
  `known_dirs` keeps deleted directories: a folder created anew under such a name
  is reported and not made.
- `leak` (Upload): nobody was there to abort: the watchdog dropped the operation, the
  program ended, the abort itself failed, the creation failed after its effect, or SMB or NFS
  had lost its entry in `uploads` by a failed write. `toggled`: the cap was set or removed between the
  two looks that `upload_part` and `throttled_bytestream` take at it. `rebooted`:
  an NFS server lost writes that were not committed. `EveryUploadEnds` leaves out a
  request that hangs when every byte is already credited, which the watchdog takes for the end.
- `lost` (App): the last flush of a session failed, or a command that outlived its
  session failed to save its edits. `missed`: the last listing failed, and the rows of the
  folder before stay under the new breadcrumbs. `crossed`: the last listing was requested while
  another one was under way (on the channel, at work or answered), maybe one of the session before;
  `ListingSettles` then says that the rows are of the folder in the breadcrumbs, and not of which
  request and session. `stray`: the keychain refused to
  delete a secret. `unsaved`: `known_hosts.json` could not be written. `hung`: the server stays silent
  in a phase of a Connect that has no timeout.

### Bounds

- `store`: two workers and the timer, two directories, so that one failed put drops the
  other directory from its flush, one name, two calls of `load` or `edit`, one failed request or crash, one
  change of the interval. That more names, calls and faults change nothing for
  `NothingStranded` and the refinement is proved.
- `transfers`: two jobs with two and one files and different settings, among
  them a parallelism of 0 that becomes 1; two cancels, so that a file and a batch
  can be cancelled in one run. Two jobs suffice for every order of a drain and a merge.
- `connection`: a file with three retries (two stalls and the attempt that
  follows the forced reconnect) and a command; two breaks and one outage, so that the
  repaired connection breaks again.
- `download`: chunks of two bytes, tags of one, sizes 0 to 5: the empty file, less than a
  chunk, exactly one and two chunks, and a rest. Two runs, one retry, two
  failures, one crash, one overwrite: a resumption after a failure, after a
  crash, and of another version.
- `limiter_stuck`: a chunk of four units, a tag of one and a burst floor of four stand for 1 MiB, 16
  bytes and 1 MiB. With the tag inside the floor the property holds.

- `dirops`: all four backends, with and without encryption; folders a, b and b/a, one file name, two
  tasks, one fault (a failed request, a refusal of S3 or a crash), two commands (`MaxCommands`), or three where one task runs them all and
  nothing fails (`MaxAlone`). Two commands are enough for every pair of commands
  to follow each other or to overlap, three for a folder that is filled, moved and met by another
  one, b/a for a subtree that moves with its manifests.
  `NamesKept` and `NamesDurable`, which are not proved, were also checked once with
  larger bounds than the run has time for: six commands of one task on S3, five on SFTP and NFS,
  four with a fault on S3 and SFTP, three with two faults, and on S3 two tasks with four
  commands, or with three and a fault.
  `names_lost` needs four commands in a row and no concurrency, `move_lost` an upload, a
  move and three folders a in each other; with one file the order of the copies, which are
  one step here, makes no difference.
- `upload`: bodies of one and of three chunks, a threshold of one and parts of two: one
  piece, and a full part before one that is not. One retry, two faults, so that a retried upload fails
  again or a failed one cannot be cleaned up; one change of the cap.
- `app`: two names, two passwords, an SFTP and an NFS profile (the one with a host key and a
  secret, the other without either) besides the S3 profile of an older version,
  one folder. A behaviour gets one of four budgets of Connects, clicks on the
  connection page, other clicks and faults (`Scenarios`): the product of their maxima is out of reach, and
  these four cover a connection that is repeated after a failure, the profiles alone, two
  sessions in a row, and one session in depth. The one fault of a behaviour may be the home that is not found, the known
  host that is not saved or the silent server, in every phase there is for it.

All counters that only bound the exploration are named `Max...` or, in App, `left`. Deadlock is not
checked: every one of these systems may rest when the user does nothing.

### Fairness

Weak fairness of the steps of a task: tokio polls a task that can run. Time
passes: `Elapse` and `Tick`. The flush timer is an endless loop. The UI's main
loop takes what is in the channel. For the hub, a transfer ends with one of its
outcomes; that the attempts do end is what `EveryOperationEnds` and
`EveryDownloadEnds` check, the latter not counting a stuck rate limiter, which the
stall watchdog turns into an error (unless the user sets its timeout to zero).
In Upload a watchdog that is armed while the file
stays still fires. In App the GTK main loop, the dispatch loop and the spawned tasks run.
Strong fairness only of `Lock` in Connection: a tokio mutex is first come, first
served. Nothing is assumed of the user, of failures, of crashes or of the
server, except that `EveryOperationEnds` speaks of a server that stays up from
some time on.

## Proofs

For every value of the constants (any number of tasks, files, directories, names,
retries, faults and crashes, any chunk size):

- `ManifestStoreProofs`: `StoreTypeCorrect`, `NoUpdateStranded`,
  `StoreImplementsRegister`. The inductive invariant `StoreInv` says that every
  blob in flight and every stored object is a content the directory had, that a
  fetched manifest whose directory is still absent from the map is the stored
  one, and how memory, fingerprint, dirty flag and object are related for a directory
  with and without a flush in hand. Neither property is inductive without it:
  that a late `LoadInsert` is harmless depends on nobody having written the object
  since the fetch, and this on nobody having buffered the directory.
- `TransferHubProofs`: `HubTypeCorrect`, `MergeNeverRacesDrain`,
  `ParallelismKept`, `ReportsAlwaysExact`. The invariant ties the jobs' progress to that of their
  files and the semaphores of every admission to those of the job that opened the batch.
  For the reports, `ReportInv` adds that a file whose transfer is over is counted once
  unless its batch was cancelled, and that the task about to send the report is the last
  of its batch and the first to send one.
  `BarAlwaysHiddenAtRest` is about the composition with TransferBar: `BarWatches` shows that
  the bar adds nothing to what the hub may do, and the invariant says that the last event
  sent is a Finished unless one is still to come, and that the bar is down whenever the last
  event it handled is one.
- `ConnectionProofs`: `ConnTypeCorrect`, `RebuildGivesNewer`. The invariant says
  that the generation lags behind the installed connection exactly while a task
  is about to increment it, and what a generation that was read says of the
  connection that was probed before.
- `ChunkFormatProofs`: `WireLenIsEncryptedSize`, `LayoutOfEncryptedSize`,
  `PlaintextOfEncryptedSize`, from two lemmas that characterise division
  rounded up.
- `DownloadProofs`: `DownloadTypeCorrect`, `BytesInPlace`, `SizesAlwaysAgree`,
  `OutAlwaysWhole`, `ChunksAlwaysWhole`, `AlwaysGivesUpForCause`.
  The invariant adds that the stream (of a plain file) or the chunk number (of an
  encrypted one) stands where the part file will end once the buffer is written. On
  top of it, three more: what the part and the buffer will amount to when the last
  chunk is read (`OutAlwaysWhole`); that no chunk of the part mixes versions, the one being
  written with what is left of it in the buffer included (`ChunksAlwaysWhole`); and that, while the object
  stays the same, the next chunk is one that opens (`AlwaysGivesUpForCause`).
- `UploadProofs`: `UploadSucceedsWhole`, `S3ReaderNeverTorn`, `UploadTypeCorrect`,
  `CreditAlwaysExact`, `AbortAlwaysCleansUp`, for any body length, threshold, part size, retries and faults. The invariant `UploadInv` says which
  phases there are on which kind of backend, how much of the body has gone out, and
  that a file system has exactly that prefix of this attempt's chunks; the object at
  the end is then the prefix of full length. One lemma per call of a backend says what
  it does to the object, and one per action that the invariant is kept. `MeterInv` says how
  much of the file is credited in every phase, relative to the chunks that are sent and to the
  high-water mark of a paced body; the clean-up has an invariant of its own on what a backend
  holds of an upload that nobody has aborted yet.
- `AppProofs`: `AppTypes`, `PagesAlwaysAgree`, `ListingAlwaysSettles`, `EditsAlwaysSaved`,
  `VaultAlwaysKept`, `HostAlwaysTrusted`, `ProfilesAlwaysAgree`, for any names, passwords,
  folders and budgets. `Types` is the base of the others. `Handshake` says that of a Connect
  there is at most one on its way, at work or answered, and that the page is busy exactly then;
  `PageInv` and `RateInv` say what the page and the rates will be when both channels are
  drained. A listing settles because (`ListInv`) the folder of the breadcrumbs is on display or a
  command, a task or an event that brings it, or reports a failure, is somewhere. That the rows are
  those of the last request rests on `FreshInv`: unless the last request is crossed, every list command,
  task and answer there is carries its number, tasks and answers are of the session in use, and the browser waits for
  the answer, shows it, or was told of an error. The vault
  is kept because (`VaultInv`) a `put` of a new one is only under way while its place has none.
- `DirOpsProofs`: `DirTypes`, `KnownDirsAlwaysExist`, `NothingEverLost`, `SuccessIsDone`, for all four
  backends. The first lemmas are about keys as sequences (what replacing a prefix does to a key, its
  parent and its leaf), the next about what each operation of a backend makes of a tree.
  `DirInv` says of a task in each phase that what it works on is an entry of the bounded tree,
  that its destination is another one there is room for, and that the keys it has listed
  are below the entry. `LostInv` is what makes `NothingLost` inductive: every acknowledged content is
  at a key that no rename is about to remove (`Sheltered`), and a file that came into a folder
  after its listing is one that strayed (`LateComers`). The copying half of a rename
  keeps it because each key it dooms has a copy outside of the doomed folder.
  That is where `NothingEverLost` needs its hypothesis `NoneNested`, that no folder is in one of its
  own name: a rename stays in its directory and a move into the folder itself is skipped, so
  source and destination can overlap in this way only. `move_lost` shows that the hypothesis
  cannot be dropped.
  `SuccessIsDone` and `KnownDirsAlwaysExist` rest on `DoneInv`: as long as nothing is muddled, every object and
  directory of a file system is in a directory that exists (`Rooted`), no two running commands clash (`Apart`),
  what is known exists, is about to be forgotten or is unheard (`KnownDirs`), and each task holds what its
  phase stands for (`Holds`). That is two things. `Progress`: in every phase of a delete or move the items that are
  no longer to do are cleared or stay on purpose, and on S3, which removes what it listed, nothing has come below the item
  since the listing. `CallDone`: what a call is about to note is so, the directories it is about to remove or forget
  are beneath what its command is about, and the way it has walked is there. A directory that was made and not
  yet noted must stay: this is where the two depend on each other, and why neither is
  inductive alone. A step is taken apart in two (`StepDone`, and `TaskDone` puts it together). Its own task makes progress or answers with the
  effect (`Own`, `GoesOn`), and what it does to the tree lies beneath the keys it is about (`Reach`); since the
  other tasks are about other keys, what they hold is `Undisturbed`. A second try starts
  from any intermediate tree, which is why `Progress` in the phase "start" says no more than that everything
  is to be done. `NoneNested` is needed again: where a folder goes next to a folder above it of its name,
  the copies land where the source must be clear.

The assumptions are the named `ASSUME`s of the models: constants have their
types, a chunk and a tag are not empty, the files are finitely many, the directories of
DirOps are closed under parents, names of files are no names of folders, and the name
of the manifest is neither. TLC evaluates them in the passing runs.

Only model-checked: the liveness properties (the prover does not handle
fairness), `NamesKept` and `NamesDurable` of DirOps. These two need an
invariant that says, for every phase of every command, which files have no entry yet and which
entries no file, in the buffer and on the backend, together with what a folder that is being copied
shows at both prefixes. What was done for them is to find their exact exceptions with the larger
bounds above: a state that the run with two commands does not reach refuted the earlier, weaker
definition of `parted`.

## What was observed and has no run

Facts of the code that the models show and no run is about:

- `TransferStarted`, `TransferExtended` and `TransferFinished` are sent after the hub's lock is
  released (`worker.rs` 1198): they can swap, and then the bar misses the rows of an
  extension or is hidden over a live batch until that ends.
- `rebuild` reads the generation after the probe failed (`worker.rs` 240); if another task has
  reconnected in between, the new connection is replaced although it is alive.
- A put in one piece, and an S3 part without a cap, report bytes only at their end; on a slow
  link the watchdog takes them for wedged.
- A folder renamed or moved on SFTP, SMB or NFS loses its empty subfolders: the default
  `rename` copies files.
- An unencrypted rename or move writes over what has the name.
- Answers to listings are told apart by their prefix only, and `list_generation`
  (`browser_page.rs` 33: "lets slow/stale responses be told apart") only delays the spinner: a
  late answer to an earlier request for the same folder, or of an earlier session,
  replaces the latest on display. This contradicts the comment. `ListingSettles` without `~ui.crossed` is violated
  by two clicks on Refresh, whose answers come in the other order, and by a Disconnect and a
  Connect while the root is being read, where the root of one storage is then shown for the other.
- The per-key errors of a DeleteObjects answer are not read (`s3.rs` 438-450): a delete reports success, and a
  move or rename leaves the source beside the copy.
- An SSH server that fails to answer `canonicalize(".")` once (`sftp.rs` 183) is taken for one where the
  account has no home: at the global location a second vault is made with a key of its own, and what the
  session seals with it is unreadable in the next.
- The requests for the vault have no timeout on S3, SMB and NFS (the 20 s of `nfs.rs` 62-65 are for the mount): an
  encrypted Connect to a server that falls silent after the mount stays busy, and with it the dispatch loop.
- A write of `known_hosts.json` that fails is not noticed (`settings.rs` 141-147, 223-227): the next
  connection has no key to compare with and trusts the one it meets.
- On SMB and NFS a directory whose removal took effect and reported an error stays in the cache. The second
  try does not find it and so does not take it out, and a folder made there later is
  reported and not made until the connection is replaced.
- A folder moved to where another one has its name is merged with it (`worker.rs` 1956-1978 looks for
  no collision), and with encryption its manifest takes the place of the other's: the files that were there
  are listed without names.
- A manifest that the timer or another command saves after a folder to be renamed or moved was listed
  can stay behind: the new prefix has the one before, or none.
- `run_delete` (`worker.rs` 1933) and `run_move` (1984-1990) use the entry for `encrypt_name(name)` without
  looking at `encrypted`: of a plain file in an encrypted folder that has the name of an encrypted
  one they take the entry of the other.
- A folder without a name in its manifest can be opened and uploaded into; what is in it has names, the way to
  it has none.
- A rename whose flush failed is tried again by `dispatch` and reports that the name exists.
- An unsaved manifest of a deleted folder makes every later flush fail on a file system, and
  brings the folder back on S3.
- A new session's flush interval is 10 s whatever the settings say, until they are saved again
  (`worker.rs` 646).
- The end of the program flushes nothing, although `worker.rs` 316 and `manifest_store.rs` 14
  list it among the triggers; what that loses is what a crash loses.
- A put of the vault that failed half-way on a file system leaves a file that no password opens.

## Not modelled, and the plan

1. Proofs: `NamesKept` and `NamesDurable` of DirOps.
2. The sums and snapshots of `Progress` with the rows of the UI: they concern what is painted
   until the next snapshot.
3. The composition of DirOps with the steps of ManifestStore, where the two flushes of
   `store_overlap` meet a rename.

Out of scope: the ciphers, key derivation and encodings (cryptography; the models say when a
chunk, a name and a vault open), the client libraries of the four protocols, widgets, layout,
sorting and selection, the settings dialog, and the JSON files but for the failed write of
`known_hosts.json` (a corrupt one is read as empty, and a save is not atomic).

# File Fridge in TLA+

File Fridge moves files that have not been used for a while from a monitored
("hot") directory tree to cold storage, and back when they are used again.  It is
a FastAPI application with a scheduler, thread pools, an SQLite database and, to
other instances, an HTTP protocol for sending files.  This directory holds TLA+
models of it, TLC configurations that check them on small instances, and
proofs that TLAPS checks for every instance.

    tlc -workers 2 -config FileMover_jobs.cfg MCFileMover.tla    # one run
    tlapm FileMoverProofs.tla                                    # one proof module

`PROJECT.json` says, definition by definition, which source lines are modelled,
and for each property which plausible bug (a `...Unchecked`, `...Silently` variant
beside the definition) makes it fail.

## The system

| Part | State it keeps | Operations | Modelled in |
|---|---|---|---|
| File mover (`services/file_mover.py`, `checksum_verifier.py`) | the files and symlinks themselves | move, copy, move and symlink, verify, roll back | `FileMover` |
| Scan progress manager (`services/scan_progress.py`) | scans by id and by path, one lock | start, count, finish, clean up | `ScanProgress` |
| Scan workflow (`services/file_workflow_service.py`, `file_cleanup.py`, `file_reconciliation.py`) | `file_inventory`, `file_records`, `pinned_files` | clean up, walk, update the inventory, thaw, freeze, reconcile links | `FileLifecycle`, `ScanProgress` |
| Manual requests (`routers/api/files.py`, `file_freezer.py`, `file_thawer.py`) | the same rows | freeze, thaw, pin, relocate | `FileLifecycle`, `RelocationManager` |
| Relocation manager (`services/relocation_manager.py`) | task table, per-file entry, queue, worker thread | create, run, clean up | `RelocationManager` |
| Remote transfers (`services/remote_transfer_service.py`, `routers/api/remote.py`, `utils/retry_strategy.py`) | `remote_transfer_jobs`; at the receiver a `.fftmp` and a final file | create, run, cancel, retry, delete; status, receive, verify | `RemoteTransfer` |
| Clean-up (`services/stats_cleanup.py`) | - | zombie transfers, orphaned temporary files, old records | `RemoteTransfer` (the first two) |
| Remote connections (`services/remote_connection_service.py`, `utils/remote_auth.py`) | a row of `remote_connections` on each side, a connection code | connect, trust, reject, change the mode, delete, accept to serve | `RemoteTrust` |
| Signed calls (`utils/remote_signature.py`) | `request_nonces` | check time, nonce, sender and body; forget old nonces | `SignedRequests`, `RemoteTrust` |
| Storage locations and encryption (`routers/api/storage.py`, `encryption_service.py`, the two jobs in `scheduler.py`) | `cold_storage_locations`, the files in them, queued jobs | toggle encryption, encrypt, decrypt, delete | `ColdStorage` |
| Deletion and undoing of paths (`routers/api/paths.py`, `path_reverser.py`) | `monitored_paths` with its rows | undo, delete | `ColdStorage` |
| Criteria, storage routing (`criteria_matcher.py`, `storage_routing_service.py`) | `criteria`; reads the file's times and the disks | is a file active, where does it go | `Decisions` |
| Tags and tag rules (`tag_rule_service.py`, `routers/api/tags.py`, `tag_rules.py`) | `tags`, `file_tags`, `tag_rules` | edit, evaluate, apply to all or to new files | `Tagging` |
| Users and authentication (`security.py`, `routers/api/auth.py`, `users.py`) | `users`, tokens | setup, login, roles, delete, permit | `Access` |
| Login limiter (`utils/rate_limiter.py`) | time stamps by address, no lock | allow, clean up | `LoginLimit` |
| Circuit breaker, request signer, path migration, `check_rate_limit` | - | called by nothing | no |
| Notifications, statistics, audit, browsing, settings, keys, front end, scripts | rows and reports | mail, listings, single-row writes | no |

How the parts meet.  The scheduler's interval job and request threads call
`process_path`, which asks the scan progress manager for the path, and then walks,
updates rows and moves files with thread pools.  Requests change the same rows and
files at the same time: `with_for_update()` locks nothing in SQLite, so the steps
between two commits interleave freely.  The relocation worker is one more thread
on the same rows.  All of them use the file mover.  The transfer service runs
coroutines on the scheduler's thread and on the request loop, and talks to the
other instance's endpoints.  The encryption jobs are threads of the scheduler on the
rows and files that scans, freezes and thaws use.  A call of the other instance is
signed, checked against the nonce table and the trust, and then handled.  Tags,
accounts and the limiter meet the rest only in single rows.

What is hard here: moves of several system calls that may fail or be interrupted
while the user writes to the file; status fields in the database that describe
what threads in memory are doing; entries found by path or by file where they
should be found by scan or by task; HTTP calls whose answer is lost although the
call was handled; and a process that may restart between any two steps.  A job that reads its rows once
and their paths later; commits that come after the file was unlinked; two sides of a
connection that must agree without a common clock; batches of which one row fails;
and state shared by threads without a lock.

## The modules

**FileMover** has one file, three places (hot path, cold path, and a file elsewhere
that a symlink at the hot path leads to) and the system calls of `move_file`,
`move_with_rollback` and the inline move of a scan's thaw, one action each: `Rename`,
`CopyOpen`, `CopyLoop`, `CopyStat`, `UnlinkSource`, `UnlinkLink`, `MakeLink`,
`Restore`, `Verify`, `Rollback`.  A call may fail (`Faults`), the user may save or
remove the file between any two calls, and the process may be killed there.
Contents are model values; a copy that was cut short or raced a save is `Torn`.
The ghosts `latest`, `sound`, `calm` and `unread` say what the user last saved,
whether the job's source held it, whether nobody has disturbed the job, and whether
the job has failed to read its destination to verify it.

**ScanProgress** has the threads that run `process_path` and the manager's two maps.
Each method is one step, since it holds the one lock throughout; only
`start_file_operation` calls `start_scan` while it holds the lock, which is not
reentrant (`StartOperationUntracked`: the thread then waits for itself).  `Age` and
`CleanupOldScans` are the clean-up, which every 300 seconds drops the scans that ended
more than 300 seconds ago; commits may raise, and the pool's threads take and complete
files in any order.  A scan's total counts the files to thaw and to freeze (`Loads`);
only the freezes are ever counted as processed.  The ghost `intact` becomes false when
a running scan loses its entry, its thread, or its status to another thread.

**FileLifecycle** has one file of a path over its whole life: the disk (hot path,
storage locations, symlink), its inventory rows, records and pins, a scan with one
action per phase, one request at a time and the user.  A move is one step, success
or one of the failures `FileMover` ends in; that only one scan of a path runs is
what `ScanProgress` shows.  A thaw request looks at the hot path, moves, verifies
and commits in steps of its own.  A row's `last_seen` is one of three ages: since
the scan began, within the minute before it (which the scan spares), or earlier; any
row that was updated since the scan before may be of the middle one.  `calm` says that
nobody but the scan has acted since it began, and `clash` that the user has got in the
way of a thaw: saved to a hot path that is free while the file is in cold storage, saved
while a copy is about to be thawed, or deleted the original between a request's look
and its deletion of the copy.  Two simplifications: the record and the row of a freeze or
thaw are committed in one step, and the criteria's answer is a free choice.

**RelocationManager** has the handler of a relocation request (its three database
steps around `create_task`), the task table, the queue, the worker step by step, the
clean-up, thaws and scans that act on the same row, and restarts, which lose
everything but the row and the disk.

**RemoteTransfer** has the jobs of one file, the scheduler's batch, runs
(`scheduled` by the minute job, `served` for a job the other instance asked for),
HTTP calls as records in a pool, and the receiver's two files.  A call is sent,
handled in one or more steps, and answered; it may be lost before or after, or be
handled after its sender has given it up (a call whose `run` is `None`).  Content
is a sequence of units, each an offset and the version of the source it was read
from, so that a repeated, missing or mixed part shows.  A first chunk replaces the
temporary file and a later one is appended, as in the code.  `calm` says that
runs have not overlapped, that no call was handled after its sender had given
it up, and that no job without a checksum was confirmed.  A job has none when its file
could not be hashed (`Sums`); the receiver then renames and confirms what it has.

**Delivery** is what a transfer promises: a job is done only when the destination
holds the file, and the source goes only then.  `RemoteTransfer` implements it
(`Delivers`), with the destination's whole version for `dst`.

**RemoteTrust** has the row each of two instances keeps for the other and the calls
between them as records (`request`, `sync`, `serve`, `terminate`).  A handler has no
`await` between its reads and its commit, so it is one step; a call may be lost, its
answer may be lost, and it may be handled after its sender has given up.  The ghost
`decision` is what a user has last decided, and `known` says that no word of an
instance's mode was lost, refused, unsent, overtaken or ignored since neither had a row.
`ServeTransfer` ends with the acceptance of the request: the job it makes is
`RemoteTransfer`'s, which looks at trust and mode no more.

**SignedRequests** has the nonce table, handlers that check the time, look the nonce up
and store it, and the clean-up, with the receiver's clock.  A handler is assumed to
take at most `Lag`, which is at most the minute that the clean-up adds.

**ColdStorage** has one file at the places its name can lead to (hot, cold, and with
the suffix `.ffenc`, also when that is added twice or to the hot file), what its content
is (`clear`, `cipher`, `double`, `torn`), its row, records and location, the two jobs step
by step, one request of the user step by step, a scan's part in one step each, and
crashes.  `Has(h)` says that the row a session has read is still there: a commit
over a deleted row fails.  A job selects its rows once and reads each path when the file's
turn comes (`Switched`); when the row has changed since, the job has gone `astray`, and when
it was deleted a failure makes the job's own handler raise, so that it ends without a status
(`AfterFailure`).  The ghosts `calm`, `undone` and `astray` mark what the properties leave out (below).

**Tagging** has tags, rules, marks and runs of the rules, a file at a time and a commit
per batch.  A session sees its own marks only after a commit (autoflush is off) and
reads rules and files again after each.  The ghosts of a run are `owed`, the marks it must
have set when it ends, and `skipped`, the files for which a scan has failed because some
rule was deleted.

**Access** has accounts, tokens and the requests that change accounts, each a read and a
commit; **LoginLimit** has the limiter's `is_allowed` in three steps, as threads can
interleave in it, with the list of an address as a set of attempts (its order tells
nothing); **Decisions** has a file's times, the criteria and the locations' room,
with `Active` for the criteria matcher and `Best` for the routing, a scan that walks and
then moves, and a user who uses and changes the file between.  The walk ends with the
inventory's update, which reads the content of a file that has no row yet or whose row
lacks an extension or a type (`Reads`); the access time may be renewed by that.

**Services** puts these seven side by side: an execution is one of one part, chosen in
the initial state (`part`).  They share no variable, so that loses nothing; what
they share with the first five modules is named at each of them.  **Absent** declares
the value that stands for a missing row.

The `MC...` modules extend these with symmetry sets and the definitions that
configurations need; the `...Proofs` modules extend them with theorems.

## The runs

| Run | Question | Instance |
|---|---|---|
| `FileMover_jobs` | does a job keep the user's content, whichever call fails? | 4 contents, 3 jobs, 3 writes of the user, all faults |
| `FileMover_rollback` | *violation*: a save during a verified move loses the file | 1 job, no fault |
| `ScanProgress_scans` | is one thread at a time scanning a path, is its entry its own, does every scan end? | 2 threads, 1 path, 3 scans, up to 2 files to freeze and 1 to thaw, 2 pool threads, fair |
| `ScanProgress_overlap` | *violation*: two threads scan one path | 2 threads, 1 path |
| `FileLifecycle_requests` | do rows, files, pins and links agree, and is content kept, while scans, requests and the user race? | 1 location, 2 contents, 3 row ids, each operation type, new files, 1 crash |
| `FileLifecycle_scans` | is no row left MIGRATING by a crash, a failed move, or a scan and a request that meet? | 1 location, move and symlink, freeze and thaw requests, failing moves, 1 crash, fair |
| `FileLifecycle_rows` | *violation*: a scan drops the row of a file that is there | 2 locations |
| `RelocationManager_tasks` | has a file one unfinished task, does every task end, does no file stay MIGRATING? | 2 task ids, 2 handlers, failing moves and commits, 1 crash, fair |
| `RemoteTransfer_delivery` | is a job done only when the file is there, and does it end? | 1 MOVE job, 2 chunks, 2 attempts, 1 edit, 1 restart, an older file at the destination, a checksum that may be missing, fair |
| `RemoteTransfer_double` | *violation*: two runs of one job lose the file | 1 pulled MOVE job, 2 calls at a time |
| `Services` | do the seven parts beside them keep what they promise? | see below |
| `ColdStorage_thawed` | *violation*: an encryption job takes a file out of hot storage | 1 location, no fault, 1 toggle, 3 requests |

Why these bounds are enough.  In `FileMover` three jobs let the second and third
start from whatever the first has left, and four contents give each of the
user's three saves a new one.  In `ScanProgress` three scans are what the clean-up needs to
meet an old scan, a running one and a new one of the same path; two files and two
pool threads let results arrive out of order.  One path is enough, since paths share
only the lock and the maps' keys (`GuardInvariant` is proved for any number of them).
In `FileLifecycle` three row ids are one more than the two rows a path can gain in a race
(a request is served only while two ids are free, `Room`), and two contents are the file and
what the user makes of it.  `FileLifecycle_rows` has two locations, the first (which is
walked) and any other; the others have one, since nothing but its loss is claimed of a
second one.  Pins are toggled for one operation type (they matter to what a scan moves,
and multiply the states most).  The symmetry of contents and row ids is used where no
liveness is checked.  `FileLifecycle_scans` has no rows of the last minute (`MaxLate = 0`): spared
rows would use up the ids before a scan that is to heal them.  In `RelocationManager` two tasks are an old
one and the one that replaced it.  In `RemoteTransfer` two chunks give a first one (which makes a new file) and a later one (which is appended), two
attempts give one retry, and `MaxTmp` lets the temporary file grow beyond the source,
so that a chunk that is appended twice shows.  The safety properties also hold with
chunks of two units, so that a chunk can be cut in its middle, for two jobs, and for
a job that was pulled (0.4 to 3.5 million states, cut where `calm` ends, which
all of them assume); those instances are not kept because the liveness check on
them takes minutes.

Deadlock is checked for `FileLifecycle`, which never stops.  The others stop when
their bounds (jobs, scans, tasks, versions) are used up, and say
`CHECK_DEADLOCK FALSE`.  That `ScanProgress` can stop while threads wait for the
manager's lock is no accident of the bounds: see below.

`Services` has in each part the smallest instance in which its hazards meet.  Two
calls between the instances let handshakes cross and an answer be overtaken, and four
acts of the users are a handshake, a trust, a change and a deletion.  Two copies of two
signed calls with two handlers meet the nonce table and its clean-up; the clock
runs past the end of tolerance and buffer.  `ColdStorage` has two toggles (encrypt and
decrypt at once), three requests (freeze, thaw, freeze), failing calls and commits, and a
crash.  Three files in batches of two give a full batch and a rest, with two runs at a
time, two tags and two rules.  Two admins with two sessions are all it takes to lock
out.  Two threads with a limit of two attempts in two ticks pass through a full window
three times.  In `Decisions` the clock has three quarters of a minute, which is an age on either
side of each criterion's; the criteria are one set of each kind (ages, size, names,
types, a switched-off one), and the locations include one that the file just
fails to fit and one it just fits.

### Fairness

* `ScanProgress`: a thread in `process_path` goes on.  Nothing in it waits except for
  the manager's lock, and for that the fairness is weak: a thread whose lock
  is never free is not helped by it.  `ScanEnds` is claimed while `intact`.
* `FileLifecycle`: the interval job comes back for ever and a scan that runs goes on;
  so does a request.  Nothing is assumed of the user, of moves succeeding, or of
  the order of a scan and a request.  `MigratingHeals` says that an active row of the
  path comes back, not that each row does: a race can leave a path with two rows, of
  which a scan updates one.
* `RelocationManager`: the worker thread, handlers and thaws go on.  `MigratingEnds` leaves
  out a file whose task a restart has lost, which the next scan that meets it repairs
  (`MigratingHeals`), and one whose commit fails and whose reset fails as well
  (`NotTakenBack`): that row stays MIGRATING.  `EveryTaskEnds` has no such proviso: a
  restart ends a task by forgetting it.
* `RemoteTransfer`: the minute job comes back, a run goes on because every call has a
  timeout, a call is handled or lost, and the daily zombie detection comes back.
  `TransferEnds` leaves out a job whose sender was killed after it had noted 100
  percent and before it had noted the end; the zombie detection skips it.

## What the checks show

* While nobody else touches the file, a job of the mover never loses its content,
  wherever it is killed and whichever calls fail but one: the reading of the destination
  that verifies it (below).  A copy never loses it, whoever writes.  With the same
  exception a failed move leaves the source as it was, and a success delivers all of it.
* `start_scan` keeps two threads from scanning one path, and `finish_scan` by path
  finishes the caller's own scan, until the clean-up drops a running scan's entry.
* After a scan that nobody disturbed, each file it has walked has exactly one active
  row and no row names a file that is gone, from every state that races, failed
  moves and crashes can leave; rows of the minute before the scan, which it spares,
  are not counted.  Rows are dropped only for missing files when there
  is one location.  Pins of hot and cold paths hold, and links are restored.  Scans, freeze
  and thaw requests, new files, deletions and crashes in any order lose no content the user
  has not given up, until the user gets in the way of a thaw.
* A scan and a request that freeze or thaw one file at a time put back the status each
  has read, which may be the other's MIGRATING, and a crash leaves it too; no file
  stays MIGRATING for good.
* A file has one relocation task at a time until the clean-up forgets the file.
* An instance trusts the other only by its own user's last decision, whatever arrives;
  and each has the other's mode once nothing about it is under way, unless word of it
  was lost.  (What is done under a trust that was given is not followed: see below.)
* No signed call is accepted twice, however often it is delivered.
* A location that is encrypted and decrypted under freezes, thaws and crashes keeps the
  file whole somewhere, the row's flag tells what the file is, and a thaw puts
  back what can be read - except where a running job's file is moved under it or its
  commit fails.
* A run of the tag rules that reports success has tagged every file, but for those that a
  scan skips after a rule was deleted; the admins cannot
  lock everybody out one change at a time; the limiter holds its window while its
  threads take turns.
* What a scan has frozen under criteria that ask for a young file, no later scan thaws
  by itself, unless the criteria go by atime and the scan's own reading of the content has
  renewed it; a file never goes to a location when another has more room and fewer files.
* A calm transfer, however often it is retried, cancelled, deleted and made again,
  removes the source only when the destination has it, in the version its checksum
  names, and never resumes with a gap or a repetition.  A job without a checksum is
  not calm any more once it is confirmed.

### Disagreements with the code's own words

Five runs show a documented promise broken (`PROJECT.json`, "findings"):

1. `file_mover.py:237`: after a MOVE whose checksums differ, the rollback deletes the
   destination although the source is gone.
2. `scan_progress.py:128`: the clean-up of an old scan drops whatever scan the path has.
3. `file_workflow_service.py:902`: only the first location of a path is walked, and
   rows of files in the others are deleted as missing.
4. `remote.py:1122`: a pulled job is run twice, and the runs spoil each other's file.
5. `scheduler.py:556`: an encryption job reads a row's path again after the file was
   thawed, and encrypts the hot file.

Others met while modelling, without a run of their own:

* `relocation_manager.py:153` has the pattern of 2: the clean-up of an old task
  forgets the file although it names a new task, and a second one is accepted
  (`OneTaskPerFile` without `intact` fails).
* `scan_progress.py:200`: when the entry is gone, `start_file_operation` calls
  `start_scan` under the lock it holds and waits for itself; every user of the
  manager then waits too.
* `file_workflow_service.py:84`: a commit outside the try block may raise and leave
  the scan "running" without a thread.  Line 236: when the last commit raises, the path's
  scan is finished a second time, and may be another thread's by then.
* `file_mover.py:228-237`: a destination that cannot be read has checksum None, which counts
  as a mismatch; after a MOVE the only copy is deleted, though nobody has touched it.
* `file_thawer.py:117`: what the user saves between the look at the hot path and the rename
  is overwritten; the rename of a moved or linked file looks at nothing.
* `file_workflow_service.py:894-903` spares rows of the last minute, so that a row of a file that
  is gone may survive one scan; one that a request has made cold while it still has the hot path
  (`file_freezer.py`, symlinks) makes `file_reconciliation.py:107` raise, and the links after
  it are not made in that scan.
* `files.py:854`: a refused relocation sets the row ACTIVE while the accepted one is
  waiting; `relocation_manager.py:254`: a thaw between the worker's move and its
  commit is overwritten.
* `models.py:727-733` lists ways to handle an existing file at the destination; nothing
  reads them.  `remote.py:967` reports the existing file's size as progress, so the
  sender resumes past its end and the job fails.
* A verification whose answer is lost ends the job FAILED although the file was
  delivered: the retry finds no temporary file (404).
* Cancelling a job that is between its last chunk and the end has no effect; its
  status becomes COMPLETED.
* `remote.py:943-944`: a job whose file could not be hashed has no checksum
  (`remote_transfer_service.py:123-128`), and what the receiver has is renamed and confirmed
  unchecked.  Cancelled in the middle, such a MOVE is completed with part of the file, and the
  source is removed.
* `remote_transfer_service.py:578`: an edit of the source after its last chunk was read is
  removed with it.
* `remote_transfer_service.py:406-487`: a job that was accepted is run later, by the minute job, a
  retry or after a restart, and sends the file without looking at the trust or the modes, also
  after a rejection.  A batch that meets a deleted job (line 180) leaves the jobs before
  it IN_PROGRESS until the zombie detection.
* The pin of a symlinked file's cold path does not keep a scan from thawing it
  (`files.py:1371-1377` promises it for all files), so `PinnedStays` leaves symlinks out.
* Links are restored only for the first location.
* A scan and a freeze request that freeze one file: the second to read the row finds
  MIGRATING, takes that for the status to go back to, and restores it when its move fails
  (`file_workflow_service.py:494`, `file_freezer.py`).  The row stays MIGRATING without a crash,
  until the next scan.
* `scheduler.py:566-588`: an encryption job unlinks the source before it commits.  When the
  commit fails, or the row was deleted meanwhile, it removes the output as well, and
  the content is gone (`CommitFile`; `calm` becomes false there).  A thaw, a
  scan's freeze or an undo that moves a running job's input or output can cost it too.
* `scheduler.py:556-559`: the selection of 5 by `is_encrypted` is as old: a file that was thawed
  and frozen with encryption since is encrypted a second time (`twice`), while its row says
  once.  What such a job does is left out by `astray`.
* `scheduler.py:587, 673`: the handler of a failed file logs `file.id`; when the row was deleted,
  that raises too, and the job ends without a status and without the other files.
* The jobs do not update `file_records.cold_storage_path`: an encrypted file cannot be
  thawed any more by request (`ThawFile` finds no record).  After a job the
  location's status is "encrypted" or "none" whatever became of the files, and after a
  crash it stays "pending" for ever.
* `path_reverser.py:99`: undoing a MOVE replaces what the user has put at the hot path, and
  puts an encrypted file back without decrypting it.
* `remote_connection_service.py:337-343`: a termination is signed over an empty body and
  sent with `{}`, so it is always refused and the other side keeps its row.
* `remote_connection_service.py:171-179`: a wrong connection code is answered 400, and the
  rollback waits for 401 or 403: the row stays TRUSTED.  Line 167: the mode in the answer is
  compared with the mode as the session has it, so that a change that came in during the
  call is not overwritten (`Skipped`).
* `tag_rule_service.py:196`: two rules with one tag add it twice to a file, and the unique
  index refuses the batch: `apply` always fails, and a scan's inventory update breaks
  off.  When a rule is deleted during a scan, each later file raises
  (`file_workflow_service.py:1070-1088`) and goes without the other rules' marks, and the scan
  reports success.
  Ids of deleted tags and rules are used again, and marks of rows that a scan has
  dropped stay.
* `auth.py:62`: two setups at a time make two admins; two admins who demote or
  delete each other at a time leave none.  A token names a user: it is good for a new
  account of that name.
* `rate_limiter.py:36`: without a lock, two threads can forget each other's attempts, and
  the clean-up can find the table changed under it.
* `storage_routing_service.py:144-155`: `not FileTransactionHistory.success` is a constant, so
  the recent errors are always 0.  Scores of locations with more than 10 GB free tie in
  that part.
* `file_workflow_service.py:1009-1015, 1040-1045`: a scan reads the content of a new file, and at each
  scan that of a file whose name has no extension or no known type.  Where the file system
  keeps access times that renews a frozen file's atime, and under atime criteria the next scan
  thaws it, against "files only age in one direction" (`criteria_matcher.py:168-169`).
* Criteria: `ctime` is renewed by the freeze itself and `type` = link is made true by a
  symlink, so such files move back and forth; `type` = file never matches a file that was
  moved to cold storage, and on macOS `atime` then never thaws it.

### Limits of what is claimed

* `KeepsContent` is claimed until `clash`, for moves that do not fail half way (a failed move
  is `FileMover`'s matter) and one location for copies.  A user who makes a new file at a hot
  path whose old file is still in cold storage loses one of the two when a scan freezes the new
  one under the same name or thaws the old one; and what is saved to the original while a copy
  is about to be thawed is overwritten.
* `InventorySynced` does not count rows of the last minute, and `LinksRestored` leaves out a scan
  that meets such a row of the hot path with the cold tier.  `DropsOnlyMissing`, `LinksRestored`
  and `MigratingHeals` are claimed for one location: a file in another one that is left
  MIGRATING is not walked and stays so.  `MigratingHeals` is checked with no rows of the last
  minute, without pins and without copies.
* `ProcessedWithinTotal`, like all of `ScanProgress` but `RunningScanIsKept` and `EntryIsNewest`, is
  claimed while `intact`.  `ScanEnds` leaves the thread that waits for itself out in this way.
* `CalmJobKeepsContent` and `FailedJobKeepsSource` leave out a job that could not read its
  destination (`unread`).
* `ConfirmedIsDelivered`, `TmpIsPrefix` and `Delivers` are claimed while `calm`, which a job that is confirmed
  without a checksum ends.
* `RemoteTrust` follows a request to serve a file up to its acceptance.
* `ContentKept` is claimed while `calm` and until a job has gone astray: no job has lost its
  row or its output, nobody moved a running job's files, no undo went over a file that was
  there, and the location was not deleted by force.  `FlagTellsForm` and `ThawIsReadable`
  leave out a path whose operations were undone and what a job astray has written.
* `ModesAgree` is claimed while `known`, which a mode that changes while a call with the old one is
  in flight ends; `AdminRemains` while changes of accounts do not
  overlap; `WindowLimit` while the limiter's threads take turns; `StaysFrozen` for
  criteria that only age (`Ages`) and, when they go by atime, for a file whose content no scan has
  read since the walk that let it be frozen (`Renewed`); `AppliedToAll` of the files that were not
  `skipped`.
* `Decisions` takes a scan's decision and its move as two steps, so a decision can be stale.
  It leaves out the test whether the file system keeps access times (a reading may or
  may not renew them).  `GoesWhereItFitsBest` counts a location as
  better when it leads by 5 megabytes or by 4 files, since scores are in hundredths here.
* `Tagging` has a scan's new files; updated ones go through the same step.
* `TmpIsPrefix` leaves out a temporary file whose first chunk was cut short: the sender
  resumes inside the first chunk, and index 0 makes the receiver start a new file.
  The checksum catches it (`ConfirmedIsDelivered` holds there).

## The proofs

TLAPS proves these for all values of the constants, under the `ASSUME`s of the
modules (distinct special values, naturals where numbers are meant, exactly two
instances in `RemoteTrust`); where a theorem assumes more of them, its statement
says so and the list below does.  Every safety invariant and action property that a
run checks without a violation is stated by a theorem; each module has
a theorem for its types, on which all others rest.

The properties are not inductive by themselves.  The invariants they were strengthened to were
checked by TLC on the instances of the runs before they were proved.  Proofs have
one lemma or step per action and under it one per conjunct that it can disturb; steps
that leave everything a conjunct reads alone are settled together by a lemma on frames.

* `FileMoverProofs`: `MoverInv`, and from it `CalmJobKeepsContent` (`ContentSafety`),
  `CopyKeepsContent`, `FailedJobKeepsSource` and `SuccessDelivers`.  A state at
  `unlinkSource` satisfies these whether or not the copy is whole.  `MoverInv` adds
  `ContentAt`, which says for each call where the content is while the job is calm, sound and
  not `unread`, and `CopyInv`, which says the same of a copy that is disturbed.
* `ScanProgressProofs`: `GuardInv`, and from it `IntactOneScanPerPath`, `EntryIsOwnScan`,
  `ProcessedWithinTotal` and the action property `RunningScanIsKept`.  That two threads are
  on different paths is inductive only with `OwnScan` (a scanning thread's path points to
  its scan, which is running) and `Counted` (done, under way and to do add up to at most
  the total).  `intact` only goes from true to false (`IntactBefore`), and `Guarded` is proved
  for the steps that leave it true.  `EntryIsNewest` needs no proviso, only that
  an entry is a tracked scan with an id that was given out (`EntryInv`).
  `SkipsOnlyForAScan` rests on `RunningIsScanned`: an entry that says "running" has a thread.
* `FileLifecycleProofs`: six theorems, on the types and these invariants.
  - `InventorySynced` and `DropsOnlyMissing` rest on `WalkInv`, which follows an undisturbed
    scan from phase to phase: no row is seen before the walk is written down, the walk has found
    what is there, each tier that has been written has one seen row if its file is there, and
    only those stay active, apart from those that are spared.  It assumes nothing of the rows the scan starts from.
    `InventorySynced` holds for any constants; `DropsOnlyMissing` assumes `Locs = {First}`, and
    `FileLifecycle_rows` shows that it needs to.
  - `LinksRestored` adds `LinkInv`: active rows have the tier of their path, and a cold file
    can be reached or has a cold row, from which its link is restored.  One location too: of
    the others nothing is restored.
  - `PinnedStays`, for any constants, rests on `PinInv`: what the scan has decided to
    move was not pinned when it read the pins.
  - `KeepsContent` rests on `MoveInv` (until a clash, a file that is moved or linked is at one
    place, which is not so of copies) and `CopyInv` (until a clash, the original of a copy has the
    content, or the copy has it when there is no original, and a thaw that lies ahead has
    nothing else to overwrite).  It assumes `WholeMoves`: moves do not fail half way, and copies
    have one location, as in the instance that is checked.  All kinds of requests, new
    files, deletions and crashes are in it.
* `RelocationManagerProofs`: `TypeOK /\ TaskInv`, and from it `IntactOneTaskPerFile`.  It
  rests on `Noted` (an unfinished task is the one noted for its file), `Queued` (the queue
  holds each pending task once) and `Running` (the worker's task is the running one).
* `RemoteTransferProofs`: four theorems, for any jobs, chunks, attempts and calls.
  `CallInv` says of a call whose answer is awaited that it is of the kind its run waits for,
  carries its job's checksum, and is the run's only one.  `DeliveryInv` (while `calm`) adds that one run is
  active, the source is there while it is, and a verification that has been
  answered "ok" has left the file at the destination; `ConfirmedIsDelivered`
  follows.  `PrefixInv` (while `calm`) says of the chunk to be read, of the chunk under way and of the
  reported size that they start where the partial file ends; `TmpIsPrefix` follows, and
  neither is inductive without the other two.  `TransferKeepsPromise` is the
  refinement: `Init` is an initial state of `Delivery`, and each calm step changes what the
  destination has (`Put`, while the source is there), completes or forgets a job, removes the source, or
  stutters; that the last is a step of `Delivery` is where `ConfirmedIsDelivered` is used.
* `RemoteTrustProofs`: `TrustFollowsUser` is inductive with the types: a row becomes TRUSTED
  only in a step of its user, and goes with its decision.  `ModesAgree` rests on
  `InformedInv`: while an instance is `known`, no call in flight tells an old mode of
  it, and the other's row has its mode or a call that may bring it is under way.
* `ColdStorageProofs`: `FitInv` (a row's path, flag and storage type go together, and so do what a job
  is at and what a request has read), `FormInv` (each place has its form) and from
  them `FlagTellsForm` and `ThawIsReadable`; `StaleInv` (who holds a row that is gone) and
  `KeepInv`, from which `ContentKept`.  `KeepInv` says of a job which of its two files is
  whole at each of its steps, of a freeze that it has the hot file until it is done, and of a
  thaw that no job has come near; the interference of the two jobs, the request, the scan and the
  crash is one lemma each.
* `ServicesProofs` has the theorems of the other parts and of the composition:
  - `AcceptedOnce`, for any tolerance and buffer and any `Lag` up to the buffer.  It rests on
    `Kept` (the nonce of an accepted call is there as long as time allows another copy to be
    looked up) and `InTime` (a handler's reading of the clock is at most `Lag` old and was
    within the tolerance).
  - `AdminRemains`: a change in flight carries what its request has read, so `AccessInv` says
    of it that, alone, it leaves an admin.
  - `WindowLimit`, for any limit and window: `LimitInv` says that as long as threads take
    turns, an admitted attempt is in the list as long as it counts, and that the thread inside
    has found all of those.
  - `StaysFrozen`: under criteria that only age, what is frozen or on its way is not active, and
    neither time nor the freeze changes that (`StaysInactive`), nor a walk that does not read the
    content or that goes by other times than atime.  `GoesWhereItFitsBest`: both
    parts of the score are monotone, by the margins at least (`SpaceTells`, `LoadTells`).  The
    square root is a `CHOOSE`; that there is one is proved from the least number whose
    square is too large (`Least`, `RootExists`).
  - `AppliedToAll`: `TagInv` says of each mark a run owes that its rule is still as the run
    holds it and matches, and that the file is still to be read, was skipped or has its mark.
  - `PartsAreImplemented`: an execution of `Services` is one of each part's specification, so
    that what is proved of a part holds of what the run checks; from it
    `ServicesTypes`.

Only model-checked: the five liveness properties (`ScanEnds`, `MigratingHeals`,
`EveryTaskEnds`, `MigratingEnds`, `TransferEnds`).  They need fairness, whose meaning rests on
ENABLED, which the prover does not treat.  The violations are TLC's too: each is
one behaviour, and shows that the proviso of the theorem beside it (`calm`, `intact`,
`astray`, one location) is needed.

## What is not modelled, and why

Encryption of chunks, compression, what metadata says, notifications, audit and statistics leave
the control that is modelled unchanged: where they can fail, the models let the step
fail.  Settings and keys are single-row reads and writes, and cryptography is taken as
what it promises.  Nothing calls the circuit breaker, the request signer, the limiter
for remote calls or the migration of paths.  The front end calls the API and keeps
nothing.  Creating and renaming paths and locations validates and inserts a row.

## Plan

1. `FileMover`, `ScanProgress`, `FileLifecycle`, `RelocationManager`, `RemoteTransfer` with
   `Delivery`: done, and proved.
2. `RemoteTrust`, `SignedRequests`, `ColdStorage`, `Tagging`, `Access`, `LoginLimit` and
   `Decisions`, composed in `Services`: done, and proved.
3. Proofs still worth having: `KeepsContent` for copies in several locations and for moves that
   fail half way; an
   abstract specification for the relocation manager (a queue of tasks by file) and its
   refinement; what the criteria matcher computes, against a definition by kinds.
4. Models still worth having: the notifications' queue and cooldown, the batch endpoints,
   and the compositions of `ColdStorage` and of `RelocationManager` with the full scan of
   `FileLifecycle`, and of `RemoteTrust` with `RemoteTransfer`.

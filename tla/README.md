# A verification project for DL-MYT ("蚂蚁通")

DL-MYT is an iOS application in Objective-C: chat over the RongCloud SDK, red
packets, a wallet, red packets on a map, moments, and paid promotions. The
repository has no tests and no prose documentation; what it says of itself is in
its comments, its alerts and its header files. The application's own code is
under `src/Dlt/Dlt`; the frameworks, Masonry and the assets are third-party, and
so are the pods under `src/Dlt/Pods`. One of these is modelled with the
application: LevelDB, whose whole source is in the repository and on which the
application's bucket, and so its sessions and caches, rest.

The application keeps no logic on a server that can be seen here: the server is
an external party, modelled as one that answers, refuses, answers late, or does
what was asked and loses the reply.

## 1. Inventory

| Component | Source (under `src/Dlt/Dlt`) | State | Operations |
|---|---|---|---|
| Key-value bucket | `Src/Main/Found/Controls/ZWBucket.m`, over the pod `Objective-LevelDB` | a LevelDB database; blocks on a global queue | set, get, remove, clean, close |
| Session | `DLTUserCenter.m`, `AppDelegate.m`, `LoginViewController.m`, `RegisterPersonDataViewController.m`, `MySetupViewController.m` | profile, token and login flag in the bucket; passwords in the keychain; the root screen; the chat connection | launch, login, auto login, relogin, profile save, sign-out, being kicked |
| Request layer | `Src/DLTools/BANetManager(网络类)/BANetManager.m` | registry of tasks; reachability | get, post (with relogin on code -1), put, delete, upload, download, cancel |
| Server requests | `Src/DLTools/RCHttpTools/RCHttpTools.m` | none | one method for each request |
| Contact database | `Src/DLTools/RCHttpTools/RCDataBaseManager.m` | one SQLite file | insert and read users and groups, clear |
| Conversation | `Src/Main/Message/ConversationViewController.m`, `DLRedpacketMessage.m` | the chat; a tap guard | send and open red packets, cards |
| Sending a red packet | `DLPrivateRedPacketViewController.m`, `DLGroupRedpacketViewController.m`, `DLPayTypeView.m`, `DLPasswordInputView.m` | the form and its sheets | type, confirm, pay, password, retry |
| Opening a red packet | `DLOpenRedpacketView.m`, `ConversationViewController.m` | the packet's state as of the tap | open, details |
| Conversation list | `Src/Main/Message/MessageChateViewController.m` | list, badge, news filter | message received, kicked offline |
| Wallet | `Src/Main/Personal/Wallet/*` | the dialogue of one order | transfer, withdraw, recharge |
| Payment password | `SetupPassword…`, `Setupagainpassword…`, `Newsetup…`, `Changepay…`, `DLFindPayPwd…` | entry, second entry | set, confirm, change, find |
| Registration | `RegisteredViewController.m`, `RegisterInput…`, `Retrievepassword…` | countdown timer, codes | ask for a code, register |
| Red-packet map | `Src/Main/RedMoney/MapViewController.m` and views | nearby packets and users, the open packet | locate, search, open, pay |
| Cached lists | moments, groups, recommendations, great-god | one page each in the bucket | load, replace |
| LevelDB engine | `Pods/leveldb-library/{db,table,util}` | memtables, logs, tables, manifest, versions, caches, the lock file | open, write, read, iterate, flush, compact, recover, destroy |
| `ZYNetWorking`, `JKDBModel` | `Src/DLTools` | caches | unused by the application |
| Views, pickers, effects | the rest | layout | — |

How they interact: every screen reads the profile and the token through
`DLTUserCenter`, which reads them from the bucket each time; every request goes
through `BANetManager`, which on code -1 calls back into `DLTUserCenter`; the
conversation list signs the session out when the chat SDK reports a kick; the
red-packet forms call the conversation as their delegate, which sends the request
and then the chat message. Screens change through main-queue blocks.

What is hard, and what would make it correct:

* *Concurrency without barriers.* The bucket hands its writes to a global queue
  with `dispatch_barrier_async`, which is an ordinary asynchronous call there.
  Correct: a key used by one call at a time behaves as a table.
* *Sessions in parts.* A login is three writes and a keychain entry; a sign-out is
  three writes. Replies arrive after a sign-out; the process dies in between.
  Correct: no session is made of two accounts as long as nothing overlapped, and
  a signed-out session loses its screen whatever overlapped.
* *Money in single precision.* Correct: the amount asked for is the one shown, to
  within a stated error.
* *Dialogues over asynchronous requests.* A HUD blocks touches for 15 seconds; a
  reply may take longer; handlers read the form again. Correct: what is paid is
  what was confirmed.
* *Lost replies.* Correct: the chat announces packets that exist, once.
* *Liveness of the launch.* The first screen is blank until an auto login is
  answered. Correct: it does not stay.
* *A storage engine below.* Writers, readers and one background thread share
  memtables, logs, tables and versions, with an unlock in the middle of nearly
  everything; any file may end anywhere. Correct: what was acknowledged is found
  again, reads and iterators see one state, nothing in use is deleted, nothing
  unused is kept, and one process has the directory.
* *Server state on the screen.* The map's answers are late, repeated and out of
  order. Correct: button, saved state and server agree when nothing is under way.

The list of hazards, each with its line and the properties for it, is in
`PROJECT.json`.

## 2. Modules

| Module | What it is |
|---|---|
| `BucketStore` | the bucket as others see it: the database, the blocks handed over, reads |
| `AsyncHashTable` | abstract specification: what a caller of the bucket may rely on |
| `ZWBucket` (extends `BucketStore`) | all operations of the bucket, and the refinement of `AsyncHashTable` |
| `UserCenter` (extends `BucketStore`) | the session: `DLTUserCenter`, launch, login screen, sign-outs, relogin |
| `MoneyConversion` | the amount conversions as pure operators |
| `RedPacketSend` (extends `MoneyConversion`) | sending a red packet, private and group |
| `RedPacketOpen` | opening red packets from a chat |
| `AntMode` | the map page: visibility, nearby packets, claiming one |
| `DurableLog` | abstract specification: what LevelDB promises of its disk |
| `LevelDBWrite` | writers, group commit, logs, flushes, manifest, crashes, recovery; refines `DurableLog` |
| `LevelDBCompaction` | levels, compactions, snapshots, reads |
| `TableFiles` | the life of table files: versions, pending outputs, manifest, cache, readers |
| `TableIndex` | what is in a table: blocks, shortened index keys, the two-level iterator |
| `DBIterator` | `DBIter` over `MergingIterator` |
| `LogFormat` | log writer and reader over torn and damaged files |
| `SkipList` | the memtable, link by link |
| `FileLock` | the lock file, system call by system call |
| `ZWBucketProofs`, `UserCenterProofs`, `LevelDBWriteProofs`, `LevelDBCompactionProofs`, `TableFilesProofs` | theorems, each about the module of its name |
| `AppPartsProofs` | theorems about money, sending and opening red packets, the map, and `MCAppParts` |
| `LevelDBPartsProofs` | theorems about the directory lock, the memtable, the log, and `MCLevelDBParts` |
| `LevelDBTablesProofs` | theorems about the inside of a table, the iterators, and `MCLevelDBTables` |
| `MCUserCenter`, `MCLevelDBWrite`, `MCLevelDBCompaction` | constants, symmetry and bounds of one module for TLC |
| `MCLiveness` | a session of `UserCenter`, then the writers of `LevelDBWrite`, under the fairness of both |
| `MCAppParts`, `MCLevelDBParts`, `MCLevelDBTables` | several modules that share no state, one behaviour for each in one run |

### ZWBucket

`ldb` is the database, `pending[<<k, v>>]` counts the blocks that write `v` under
`k` and have not run (removing is writing `NoValue`). `SetItem` and `RemoveItem`
only hand a block over, as `setItem:forKey:` and `removeItemForKey:` do;
`RunWrite` is the queue running any one of them, in no order. `cleanBuckets` is
one block that is a loop: `CleanStart` fixes the keys of LevelDB's iterator,
`CleanDelete` deletes them one by one, `CleanEnd` ends. `Close` deletes the
files on the caller's thread. `Relaunch` is the death of the process, by the
system or by LevelDB's assertion on a closed database: blocks are lost, the
database stays. `last`, `raced` and `lost` are history variables.

* `CalmReads`: when nothing that touches a key is on its way, its latest call ran
  alone and the process did not die under it, a read gives what it asked for.
* `ImplementsTable`: only values asked for under a key surface there.
* `LastWriteWins` (violated): the hash table that `ZWBucket.h:13` speaks of. The
  list caches remove and then set the same key; the set may run first.

### UserCenter

The main thread runs one handler at a time; the queue runs writes between the
steps of a handler, so a handler that hands over a write and then reads the bucket
is split there (`main.at`): `LoginAnswered` hands over the profile and the token,
`StorePassword` does the rest of the reply, `ReadUser` and `RefreshToken` are the
two reads of `toRefreshToken`. `EditAnswered` is what every page that edits the profile
does when the server agrees (name and signature, birthday, photos): read the stored
profile, change a field, store it. `net` holds the requests in flight, answered in any
order; `tasks` is the main queue, first in, first out.

Abstractions: a profile, a token and a password are known by the account they
belong to, and the profile's phone (which the relogin uses) is the account. The
fields a user types are never empty and the agreement has been accepted. The
chat SDK is connected in the step that has its token; connected already, it
stays as it is. The signal that tells screens of a new profile changes no state
of the session and is left out. Code -1 does not answer a login. Uploading an avatar
and modifying the profile store nothing by themselves and are left out, and so is
`requestUpdateUserInfo`, which would fetch the profile and store it: its only call is
commented out (`DLTPersonalProfileViewController.m:360`).

* `CalmSession`: as long as no write, reply, main-queue block or death overlapped
  another, the stored profile, token, password and chat connection are those of the
  account signed in last (`sess`), the login flag is set exactly if a login was granted
  and since then none was refused, no relogin failed and nobody signed out (`loggedIn`),
  and nothing is left after a sign-out. The root screen is the business of the next
  property but one.
* `ReadsOwnLogin`: a calm login's handler reads its own profile and token once the
  queue has run the writes. (Before that it may read nil and crash: `NilCrash`.)
* `SignedOutLeavesMain`: with no assumption of calm, a signed-out session that
  shows the main screen has a block in the main queue that takes it away.
* `LaunchResolves`: under fairness, the blank launch screen goes away, unless the
  auto login is answered with code 2 or without data, for which `AppDelegate`
  does nothing. The exception is in the property because it is in the code.
* `LoggedCanAutoLogin` (violated): a death between the writes.

### MoneyConversion

A single-precision number is a pair `<<m, s>>`, m / 2^s with a mantissa of 24
bits; multiplication by 100 rounds to 24 bits again. `SentFen` is the truncation
of red packets and transfers, `WalletFen` the `%.0f` of withdrawals and recharges,
`LabelFen` the `%.2f` of labels. All intermediate values fit 31 bits.

* `AmountsKept`: what is sent may lose a fen and never gains one; withdrawals and
  recharges are exact below 65,536.00 yuan and a fen off at most above; labels show
  what was typed.

The red-packet amounts of 0.53 and 400.00 yuan in the next module are chosen from
these: 0.53 is one of the amounts that keep their fen, 400.00 is above the limit
of one packet and at the limit of a draw of two.

### RedPacketSend

`form` is the form on screen, `sheet` what covers it (payment sheet, password,
alert), `net` the requests in flight and the one-second timer before another try
(those of a form that is gone are `Stale`: their replies still put up a password sheet
or an alert, which nobody answers, `StaleReply`),
`packets` what the server has created and `chat` the announcements. Fields may be
touched while a reply is awaited, because the HUD hides itself after 15 seconds;
`patient` records that this did not happen. The texts are classes: a number, an
invalid text (which leaves the label as it was), none; above 100,000 yuan the text
becomes the label (`TypeTooMuch`).

* `ConfirmedAmount`: for a patient user and a number, the packet holds the amount
  the password sheet showed, a fen less at most.
* `WithinLimit`: private packets and lucky draws respect their limits.
* `AnnouncedOnce`: an announcement with an id names a created packet, once.
* `OwnPacketOpens` (violated): see the findings.

"Number" is a real precondition: the group form checks the label and sends the
text, so an invalid text after a valid one is checked by the amount before it.

Abstractions: the user agreement is accepted, a typed count is not zero, the
remark is left out, one sheet at a time. The half second in which a dismissed form
is still alive is left out.

### RedPacketOpen

`calls` are the requests in flight (served and answered in any order, lost on
either way), `sheets` the opening sheets over each other, each with the packet's
state of when its answer left the server, `stock` what the server has.
`DetailAnswered` and `ClaimReturned` are the handlers of `didTapMessageCell:` and of
the two `openRedpacketView:…` methods; `TouchPacketSeal` and `TouchDetail` the two
buttons of the sheet, which both hand the sheet's old state to the delegate.
`details` and `notices` are counted up to two.

* `NoticeIsTrue`: the group is told of a packet once at the most, and only if this
  user was given it, whatever sheets lie over each other.

### AntMode

`antNet` are the requests (one of a kind and content is in flight at a time),
`timers` the three `dispatch_after` blocks. `saved`, `button` and `visible` are the
three places that know whether the user is shown to others: `NSUserDefaults`, the
button, the server. The server is taken to understand `status` as the state to be
left, since the application saves the opposite when it agrees. The history
`settled` says that the page has learned the server's flag, that no question
overlapped a change and that no answer to a change was lost.

* `VisibilityAgrees`: then the three agree whenever no change is under way.
* `PageTellsTruth`: the page after a claim says "got" exactly if the server gave
  the packet, as long as one claim was sent for it.

`mapped` are the packets that show on the map: a zoom hides them all or shows the last
nearby answer's again, taken or not (`Zoom`). The opened packet may be closed while its
seal turns; each turn that is under way then ends at once and sends its claim, whose
answer finds no view (`Leave`, `Orphaned`).

### LevelDBWrite and DurableLog

`queue`, `pc` and `req` are the writers; one action is what a thread does between
two unlocks or waits (the leader logs, syncs and inserts without the mutex). `mem`
and `imm` hold the entries of the two memtables, `logs` the records of each log,
how many of them are out of the page cache, and which are readable after a failed
append; `manifest` names the log from which a recovery replays, and the entries
that are in tables. `Faults` and `Crashes` choose what fails.

A flush that fails inside a compaction leaves the error and lets the compaction go on:
it is tried again, and the compaction's results are installed (`BGFlushInside`,
`FlushFails`, `BGInstall`). A manifest record that fails is there, or not, or (the fault
`"tear"`) in part; another record behind a part makes the file `Unreadable`, and the
database cannot be opened. An opening is three steps: replay and the new log
(`Recover`), the manifest with the tables that the replay built (`OpenInstall`), and the
deletion of what is obsolete (`Open`).

Abstractions: `l0` counts the files of level 0, and the compactions are those of level 0;
which entries are in which table is `LevelDBCompaction`'s business, and the numbers of
tables are `TableFiles`'s. An opening that fails is the death of the process.

* `AckedSurvive`, `SyncedSurvive`: what was told OK is found by the next opening
  after the process died; what was synced also after a power cut. Both assume that no
  write to a file stops halfway; without that, `AckedSurvive` is violated
  (`leveldb_torn_append`).
* `WriteAhead`, `AckedReadable`: memtables show nothing that recovery would not
  find, and the switch of memtables, the flush and its commit leave no gap.
* `CallOrder`: sequence numbers follow the calls across groups, failures, recoveries.
* `ImplementsDurableLog`: the disk refines a log that only grows, by newer entries.
* `WritesReturn`: every call returns.

### LevelDBCompaction

A file is the set of its entries; level 0 is a sequence, deeper levels are sets.
Whether something is "too big" is free in a big database and never so in a small
one. A compaction is split at its unlocks, with writes, snapshots and flushes
between. `latest` and `frozen` are what plain tables would hold.

* `LevelsDisjoint`: `MaybeAddFile`'s assertion (violated in `leveldb_manual_gap`: the
  inputs of a manual compaction may have a gap, into which a flush in its middle falls).
* `NewerAbove`: newer entries of a key lie above older ones (violated in
  `leveldb_split_key`, where sizes may cut an output anywhere and no neighbour is
  added; in `leveldb_parts` sizes are free too, with a second key, where the flush
  may go one level deeper and fewer snapshots are kept).
* `ReadsRight`: reads of the latest state and of every snapshot.

### TableFiles

`disk` is the directory: a table is its number and the life of the process that
wrote it, since numbers are used again after a crash. `versions` is the list with
reference counts, `pendingOutputs` the set of that name, `manifests` what a
reopening may find (more than one after a failed write), `lru` and `handles` the
cache of open tables. `flushing` and `merging` are the two jobs of the background
thread, the first possibly inside the second. A flush that fails may leave its file,
delete it (with it goes an older file of the same number), or, as the database is being
closed, leave a good table that nothing names (`BuildTableFails`).

* `TablesFound`: the tables of every version in use are there, as written, and a
  reader's handle is alive and of the right table.
* `RecoverableFiles`: the tables of whatever a reopening may find are there.
* `NothingLeaks`: at rest only the current version, no pending output and a cache
  without deleted or doubled tables are left.

### TableIndex

Strings are sequences of small numbers, `MaxByte` stands for 0xff. Every cut of the
entries into blocks is explored. `it` is a `TwoLevelIterator` with the block iterator
it keeps, `place` where a plain cursor would be.

* `GetFindsEntry`: with shortened index keys a lookup finds what it should.
* `TableIsACursor`: so does the iterator after any sequence of calls.

### DBIterator, LogFormat, SkipList, FileLock

* `IteratorIsACursor`: over deletions and hidden versions, in both directions, with
  writes between the turns of its loops and, where a child changes its direction, between
  its `Seek` and its `Prev` (`BackTurnBeside`), the iterator shows what a cursor over the
  snapshot would.
* `OnlyTrueRecords`, `LossIsLocal`: a reader returns whole records in order, whatever
  is torn or damaged, and loses no record outside a damaged block. A byte is a cell
  that knows its physical record; a record is complete if it has a fragment of type
  full or last (`Complete`), and a result is right if it lists all the fragments of one
  record (`Lists`). At most one append of a file leaves bytes out; any may fail with all
  its bytes there. A read of the file may fail and ends the reading (`ReadFails`), so
  `LossIsLocal` speaks of files read to their end.
* `ReadersMissNothing`: lock-free readers of the memtable miss no inserted key and
  never follow an unset link; `max_height_` may be read as any value it ever had.
* `OnePerProcess`, `Exclusive`, `NoStaleLock`: the directory lock among threads
  (table of names) and processes (record lock), with the precondition `apart` that
  the code needs: see the findings.

## 3. Runs

| Run | Constants | Shows | States |
|---|---|---|---|
| `bucket_last_write` | 1 key | `LastWriteWins` is violated | |
| `session` | 2 accounts (symmetric), 2 requests, 2 main-queue blocks, at most 3 writes outstanding | `TypeOK`, `CalmSession`, `ReadsOwnLogin`, `SignedOutLeavesMain` | 2,060,177 |
| `session_crash` | 1 account | `LoggedCanAutoLogin` is violated | |
| `app_parts` | 7 stretches of 30,000 amounts up to 100,199.99 yuan; sending: 0.53 and 400.00 yuan, limit 200.00, 2 members, 2 requests, 2 packets; opening: a private and a group packet, 2 sheets, 2 calls; map: 1 packet, 2 requests; bucket: 2 keys, 2 values, at most 1 equal block outstanding | `TypeOK`, `ConfirmedAmount`, `WithinLimit`, `AnnouncedOnce`, `AmountsKept`, `NoticeIsTrue`, `VisibilityAgrees`, `PageTellsTruth`, `CalmReads`, `IInv`, `ImplementsTable` | 1,442,781 |
| `red_packet_phantom` | as sending, 1 packet | `OwnPacketOpens` is violated | |
| `leveldb_write` | 3 writers (symmetric), 4 batches, memtables of 1, groups of 2, failing syncs, logs, tables, compactions, manifest records, both crashes | `WriteAhead`, `CallOrder`, `AckedSurvive`, `AckedReadable`, `SyncedSurvive`, `ImplementsDurableLog` | 1,619,351 |
| `leveldb_torn_append` | 2 writers, 3 batches, failing appends | `AckedSurvive` is violated | |
| `liveness` | session: 1 account, 1 request, 1 main-queue block; writes: 2 writers that also force flushes, 3 batches, memtables of 1, level 0 full with 1 file, failing appends, tables, manifest records, also halfway | `LaunchResolves`, `WritesReturn` | 93,740 |
| `leveldb_parts` | levels: 2 keys, 4 writes, 3 levels; lock: 2 processes, 3 threads, 3 lock files; log: 3 records of 1 or 5 bytes in blocks of 5, 1 damaged byte; memtable: 3 keys, height 2 | `TypesOK`, `LevelsDisjoint`, `NewerAbove`, `ReadsRight`, `OnePerProcess`, `Exclusive`, `NoStaleLock`, `OnlyTrueRecords`, `LossIsLocal`, `ReadersMissNothing` | 2,007,988 |
| `leveldb_tables` | files: 2 readers (symmetric), cache of 1, 3 numbers, 2 lives; index: 6 strings, numbers below 3, 4 entries, restart interval 2; iterator: 3 keys, 3 stored entries, 2 children, 1 write | `StorageTypesOK`, `TablesFound`, `RecoverableFiles`, `NothingLeaks`, `GetFindsEntry`, `TableIsACursor`, `IteratorIsACursor` | 1,525,286 |
| `leveldb_split_key` | 1 key, 3 writes, 3 levels | `NewerAbove` is violated | |
| `leveldb_manual_gap` | 3 keys, 5 writes, 3 levels | `LevelsDisjoint` is violated | |

Parts that share no state are checked in one run: the variable `part` says which of
them a behaviour is about, and the others stand still in their initial state. This is
a run for each of them under one name.

Why the bounds are enough. Two keys let a cleaning loop and a write meet on
different keys; two values tell an old write from a new one; an equal block more
changes nothing that a different one does not (the proofs need no bound at all).
Two accounts are the least that can be mixed up, and two requests the least that can
overlap; the three outstanding writes of `MCFewWrites` are those of one login.
Two main-queue blocks are needed for a late login against a sign-out. The stretches
of amounts cover every binade in which the rounding error is near half a fen, and
both sides of 65,536 yuan. Two packets are the least whose replies can be swapped;
the second is explored beside a plain first one (`MCPlainSecond`), because what is
typed matters to the amounts and not to the announcements. Two sheets and two calls
are the least that race for one packet, and a question and a change are two requests; once a
packet of the map has been claimed, the flag is left alone (`MCFlagFirst`): the two meet
only in the city and in the bound on requests.
Three writers give a leader, a follower and one who queues while they write; four
batches fill both memtables while a log is switched. A flush that failed inside a
compaction is tried again while level 0 is within its limit, which lets it fail twice and
succeed behind a failure. Two keys make ranges overlap or
not, and four writes reach the deepest of three levels with a snapshot between; between
two keys there is no room for a third, which is what a manual compaction needs to go
wrong (`leveldb_manual_gap`; without manual compactions `LevelsDisjoint` holds for three
keys and five writes as well). The
lock needs two threads of one process and one of another. Blocks of five bytes with
headers of two make records that fit, that fragment, and a trailer too short for a
header. Three keys with two heights let a reader be before, at and behind a node that
is linked at one level.

Deadlock is not checked in the passing runs, because all of them may stop. A session
whose launch is answered with code 2 stays on its blank screen, and the bounds on
requests may stop `UserCenter`; sending ends when `MaxPackets` packets have been asked
for, the walk of amounts at the end of its stretch, and the LevelDB modules when their
bounded counters (batches, logs, writes, numbers, records) are used up. The bucket alone
never stops.

## 4. Fairness

`FairSpec` of `UserCenter`: the main thread goes on with its handler, its queue is
served, a block handed to the global queue runs, and a request is answered, if only by
the 60-second timeout of `NSURLSession`. Users, deaths and kicks are not fair.
`LaunchResolves` asks in addition that the process stops dying at some point.

`FairSpec` of `LevelDBWrite`: a thread that can go on does, and so does the background
thread: both run on a scheduler and wait only on condition variables that the model
has as guards (`awake`, `bg`). Callers, faults and crashes are not fair.

`LiveSpec` of `MCLiveness` has both. A behaviour is about the session until `TakeOver`,
which it can take from the idle login screen of a fresh installation only (or never), and
about the writes from then on. The part that stands still has no fair step that it could
take, so the fairness of one asks nothing of the other.

## 5. Proofs

`ZWBucketProofs`, for every set of keys and values and every bound:

* `BucketInvariant`: `Spec => []IInv`. `CalmReads` is not inductive: it says
  nothing of the blocks on their way. `IInv` adds, for a key whose latest call ran
  alone (`LoneWrite`), that at most one block is left, which carries the value
  asked for, that no write is outstanding while a cleaning is, and that a running
  cleaning still has the key before it or has deleted it; and that a closed
  database is empty. `BucketTypes` and `BucketCalmReads` follow.
* `BucketImplementsTable`: the mapping takes `ldb` to `val` and the values that
  blocks (or a cleaning) may still write to `may`. A call is `Ask`, a block that
  runs is `Surface`, the start of a cleaning a stutter, its end and the death of the
  process are `Fade`, `close` is `Wipe`. The invariant is needed for the types only.

`UserCenterProofs`, for every set of accounts, any number of requests and any
length of the main queue:

* `SessionLeavesMain`: `Spec => []SignedOutLeavesMain`. The property says nothing of
  the blocks still in the queue, so a step that shows the main screen may break it.
  `SInv` adds that behind every block that shows the main screen of a signed-out
  session waits one that takes it away (`Behind(tasks)`), and that a login's handler,
  from its answer to the block it posts, works for a session that is not signed out:
  a sign-out after it posts its own block later, and the queue is served in order.
* `SessionTypes`: `Spec => []TypeOK`. What a handler reads from the bucket it sends,
  so `TInv` says of every key what may be stored or due under it (`KeyTypes`), that
  the handler that stores a reply has that of a login (`StoresLogin`), and that the
  requests in flight are a finite set, which a step that counts them needs. A profile
  edit stores what it reads, and a bucket reads only what belongs under the key.
* `SessionCalm`, `SessionReadsOwnLogin`: `Spec => []CalmSession` and
  `Spec => []ReadsOwnLogin`. Both speak of moments when nothing is outstanding.
  `CInv` says what holds in between: all that is due under the profile and the token is
  the session's, and the session's value is stored or due (`Follows`); the login flag
  likewise follows `loggedIn` (`Marks`); and what a calm session has in flight, in the main queue and in the
  hands of a handler is its own (`Bound`).

`AppPartsProofs`, for any amounts up to 100,000.99 yuan (what the field accepts,
`MostTyped`; nothing larger can be typed), any members, packets, requests and sheets:

* `AmountsAreKept`: `AppSpec => []AmountsKept`, for any stretch of amounts up to
  131,071.99 yuan, so for each that the runs leave out. `Float` finds the binary places
  that `Places` chooses, for there are some with which the quotient is a 24-bit mantissa
  (`PowersOfTwo`, `EnoughPlaces`), and bounds what rounding to half a step changes
  (`HalfAStep`); times 100, that is less than the cut or the rounding turns into more
  than one fen (`WithinAStep`, `Conversions`).
* `SendTypes`, `PaysWhatWasShown`, `PaysWithinLimit`: `Spec => []TypeOK`,
  `Spec => []ConfirmedAmount` and `Spec => []WithinLimit`. The properties speak of the
  packets ordered. `Promise` says of a patient user's sheets and requests on the way
  there that they hold the amount of the label, which was checked against the limit; a
  form that is gone has no reply to wait for (`NobodyWaits`), so a late reply finds no
  other form. `Conversions` gives what the amount becomes in the order.
* `PacketsAnnouncedOnce`: `Spec => []AnnouncedOnce`. `AInv` adds the orders in flight:
  their ids are pairwise distinct, none is larger than the number handed out, and the
  chat has seen none of them; the answer that announces a packet takes its order out
  of flight. It also keeps the kind of the form on screen, which an order copies.
* `OpenNoticeIsTrue`: `OpenSpec => []NoticeIsTrue`. Notices are counted when an answer
  comes back, so the answers on their way matter: `GivenOnce` says that at most one of
  them gives a packet, since the server gives only what is not got, and `GivenUntold`
  that the group has not been told of it yet.
* `AntVisibilityAgrees`: `AntSpec => []VisibilityAgrees`. The button is disabled while a
  change is in flight, so there is one (`OneChange`); the answer to a question that no
  change was beside is what the server still has (`AloneIsRight`); while everything
  agrees, a change asks for the opposite of what is saved (`ChangeTurnsRound`), so that
  turning round what is saved is right.
* `AntPageTellsTruth`: `AntSpec => []PageTellsTruth`. Of a packet that was claimed once,
  the claim is in flight or a page shows, and an answer on its way says what the server
  has (`OneClaim`). A view that is closed sends the claims of its turns at once: that is
  one claim, if there was none and one turn, and no page will show it.
* `AppPartsAreParts`: a behaviour of the composition `MCAppParts` is a behaviour of
  sending, of opening, of the map and of the bucket, so what is proved of a part holds
  of what the run `app_parts` checks.

`LevelDBPartsProofs`. The lock, for any processes, threads and number of lock files:

* `LockTypes`: `LockSpec => []LockTypeOK`; a thread has a descriptor of the lock file
  exactly between its open and its close.
* `LockOnePerProcess`: `LockSpec => []OnePerProcess`. The property speaks of holders
  only; `OneInside` and `Named` speak of everybody between `Insert` and `Remove` of the
  name: its process is in the table, and it is the only one of its process there.
* `LockExclusive`: `LockSpec => []Exclusive`. While opens are apart, a process has one
  thread in `LockFile` or `UnlockFile` (`Alone`), nobody deletes the file
  (`NobodyDestroys`), every descriptor is of the one lock file (`OneFile`), and a
  holder's process owns its record lock (`HeldOwns`): a close that took it away would be
  another thread of that process. Two holders then own one lock.
* `LockNotStale`: `LockSpec => []NoStaleLock`, since the owner of a lock has a
  descriptor of its file (`Used`).

The memtable, for any keys and heights:

* `ListTypes`: `ListSpec => []ListTypeOK`; no reader stands at a level that does not
  exist.
* `MemTableMissesNothing`: `ListSpec => []ReadersMissNothing`. At every level the linked
  nodes are sorted without a gap (`Sorted`), a node linked at a level is linked below it
  (`Towers`), what `Insert` found in `prev` is still the place of the new node since it is
  the only writer (`Adding`), and a reader is at a linked node before its target
  (`Reading`).

The log, for any sizes of block and header, any records, a crash, a failed append and
any damage:

* `ReaderReturnsRecords`: `LogSpec => []OnlyTrueRecords`. `Writer` says what a file can
  be: the physical records are in the order of their records, one that is not a first
  follows, whole, the one before it (`RecordsInOrder`), and a byte knows its place
  (`CellsKnown`). `Reader` says what the reader has in hand: the fragments it collects
  are one record from its first on, and between the last of them and the buffer there
  is no room for another (`Collected`), so nothing is left out between two fragments
  that are put together.
* `LossStaysInItsBlocks`: `LogSpec => []LossIsLocal`. While no append has left bytes out, the
  physical records lie behind each other, none of them over the edge of a block
  (`Tiled`); the buffer begins where one may begin (`BufferIs`); an undamaged record
  that has been read is returned, and one that is read in part is being put together
  (`NoneLost`); at the end everything in the file has been passed (`AllPassed`), if no
  read failed before.

The composition: a behaviour of `MCLevelDBParts` is one of each of its parts
(`PartsAreParts`), and `PartsTypes` is `Spec => []TypesOK`.

`LevelDBTablesProofs`. The inside of a table, for any strings, any cut into blocks and
any restart interval. `TableInv` is the invariant: entries are in order, a block has an
entry (`BlockEnds`), the key of a block in the index is not before the block, before
the next one, and if it was cut, before every entry of the next user key (`IndexKeys`);
the two iterators stand at places that belong together (`CursorPlace`).

* `LookupsFindEntries`: `TableSpec => []GetFindsEntry`. The binary search among the
  restart points is a recursive function. It is shown by a solution of its equation that
  there is one (`SearchExists`), and by the least interval that would break it that the
  first entry not before the key lies behind the restart point found (`SearchFinds`).
* `TableShowsEntries`: `TableSpec => []TableIsACursor`.

The iterators, for any keys, children and numbers. `IInv` is about the loops as well as
about the moments between calls:

* Between the entry of the merging iterator and the positions of the other children
  there is nothing that the snapshot shows, in either direction (`Merged`); numbers are
  given once, and what is written beside the iterator is not in its snapshot (`Numbered`).
* Each loop of `DBIter` knows where it will end: forward, at the first key that is not
  before the entry and not hidden (`InNext`); backward, at the last one before the key it
  comes from (`InBack`), whose newest entry is the saved one or still to come (`InPrev`).
  While it goes back, the entry may be one that was written beside it (`Returning`), as
  nothing between it and the key it left is in the snapshot.

`IteratorShowsSnapshot` is `IterSpec => []IteratorIsACursor`, `IteratorTypes` the types
of this part. `TablesAreParts` and `StorageTypes` are about the composition: a behaviour
of `MCLevelDBTables` is one of the table files, of the index and of the iterators, and
`Spec => []StorageTypesOK`.

`LevelDBWriteProofs`, for any threads, bounds, thresholds, crashes and faults without
`"append"` and `"tear"`, which is the hypothesis `WholeWrites` of each theorem. Behind a
torn record of the log a later one may be unreadable and told OK all the same; behind a
torn record of the manifest another makes the database unreadable: `AckedSurvive` is
false with either: `leveldb_torn_append` shows it for the first.

* `WritesSurvive`, `SyncedWritesSurvive`, `LogIsAhead`, `WritesReadable`: `AckedSurvive`,
  `SyncedSurvive`, `WriteAhead` and `AckedReadable` from one invariant. `QInv` is about
  the queue: only its head leads, its group is a prefix that nobody changes until it is
  taken off, and a member syncs only if the leader does. `DInv` is about the places of an
  entry: a group past its append is in the current log, a group past its sync in the
  synced part (`Logged`); the memtable is in the current log, which the manifest has not
  passed; the immutable one is in some live log or, from the manifest's edit on, in the
  tables (`Places`, `Immutable`). The log number of the current version, with which a
  compaction writes the manifest, is not above the one on disk, and no log from there on
  has been deleted, so a compaction that writes it back after a failed flush loses
  nothing. A log number that is used again after a crash is no
  live log's.
* `DiskIsDurable`: `Spec => ImplementsDurableLog`. The append of a record is `Append`;
  a sync, the manifest's edit and the opening are `Harden`; the machine's crash is
  `PowerCut`; every other step stutters. `RInv` adds what the other theorems do not need:
  the live logs hold nothing beyond the tables but what is in a memtable or pending of
  the group that is being written, unless an error stands (`LogsInMemory`), so a flush
  makes nothing new recoverable; and the numbers in use are at most `lastSeq`, but for
  the pending group (`Numbered`), whose entries get as many numbers as it has batches
  (`GroupNumbers`), so an append never writes under an old number.
* `CallsInOrder`: `Spec => []CallOrder`. `OInv` adds the calls that wait: they queue in
  the order in which they were made (`QueueOrder`), and what a reopening would find is
  of earlier calls, or of the group that is being written, the head of the queue
  (`Called`).

`TableFilesProofs`, for any readers, capacity of the cache, file numbers and lives of
the process. The invariant `FInv` has these parts:

* References are exact, not only positive. A version has as many as there are holders of
  it among `current_`, the flush, the compaction and the readers (`VersionsOK`, by way of
  `Counted`); a handle as many as there are readers who use it, and one if it is listed
  (`HandlesOK`, by way of `CacheOK`). With less, no step that gives one up could be shown
  to leave what others hold, and nothing could be said at rest.
* A needed table (of a version, of what the manifest may describe, of the outputs) is in
  the directory, and its number is below the next one and not the flush's (`Safe`), so
  that no file that is yet to be written truncates it; a cached one likewise
  (`CachedSafe`).
* While no error stands, whatever the manifest may describe is the current version
  (`ManifestsOK`); once one stands, nothing is collected.
* Pending outputs are the tables that are being written and no others (`PendingOK`).

From it follow

* `FilesTypes`: `FilesSpec => []FilesTypeOK`;
* `TablesAreFound`, `ManifestsAreRecoverable`, `NothingIsLeaked`: `TablesFound`,
  `RecoverableFiles` and `NothingLeaks`. The lemmas about the cache (`Delists`,
  `Releases`, `Touches`, `Shrinks`, `Inserts`, `Verifies`) and about the list of versions
  (`RefCounts`, `UnrefCounts`, `AppendCounts`) hold for any cache and list.

`LevelDBCompactionProofs`, for any number of keys, writes, levels and levels to which a
flush may go.

* `CompactionTypes`: `CompactionSpec => []CompactionTypeOK`, with manual compactions too.
  That no file is empty is the part which is not plain: an output is cut between two
  entries, and the outputs have entries because a number is given once, in the database
  and in the compaction that runs (`TypesInv`), so that both sides of a cut are told apart.

The other theorems have the hypothesis `~Manual`: the run `leveldb_manual_gap` shows that
the statements are false without it. `LInv` is the invariant of the levels:

* The inputs of a compaction leave no key between them without a file (`Spans`), and no
  other file of the levels they are from meets them (`InputsStay`). A flush goes below
  level 0 only where it meets no file on its way, so it cannot fall among the inputs
  while the compaction is unlocked (`OutsideSpan`). `PicksAre` derives this from the
  code that chooses inputs: a range that grows until no file of level 0 sticks out, the
  overlapping files of the next level, and more of the first for as many of the next
  (`OverlappingInputs`, `InputsAre`).
* Numbers are given once, the memtable has the latest ones, and level 0 is in their
  order (`Numbered`), which a compaction keeps when it takes files out (`WithoutIs`).

From it follows `LevelsStayDisjoint`: `CompactionSpec => []LevelsDisjoint`, with any
number of snapshots and outputs cut anywhere.

`RInv` adds `NewerAbove` and `Remembers`: for every key and every reader, the newest
entry that it may see is still somewhere, or it is a deletion and nothing older is. Its
hypothesis `NeverSplits` says that no output is cut between two versions of a key
(sizes never matter, or no snapshots are taken where they do): `leveldb_split_key` shows
that `NewerAbove` is false without it.

* `NewestIsAbove`: `CompactionSpec => []NewerAbove`. What lies above the inputs or beside
  them is newer (`InputsAreOlder`).
* `ReadsStayRight`: `CompactionSpec => []ReadsRight`. A newest entry disappears only as a
  deletion, and then every older one of its key was among the inputs and is gone with it
  (`NothingOlderIsLeft`): the levels below were searched for the key when the compaction
  began, and no flush has brought it there since. `GetReads` is about the read: memtable,
  files of level 0 from the newest, one file of each deeper level, and the first hit is
  the newest entry there is.

The theorems rest on the assumptions about constants that the modules name
(`LogAssumption`, `IndexAssumption`, `IteratorAssumption` and so on), which TLC evaluates
in the runs. Every invariant that a passing run checks, and both refinements, are stated
by a theorem. Only model-checked are

* liveness, `LaunchResolves` and `WritesReturn`, which needs ENABLED;
* `LevelsDisjoint`, `NewerAbove` and `ReadsRight` with manual compactions, for two keys,
  between which there can be no gap.

## 6. Findings

With a run:

1. `ZWBucket.h:13` against the concurrent queue (`bucket_last_write`).
2. `DLTUserCenter.h:89` against a death between two writes (`session_crash`).
3. `ConversationViewController.m:389` against a private packet that failed
   (`red_packet_phantom`).
4. `version_set.cc:337` against an output cut between two versions of one key
   (`leveldb_split_key`).
5. `version_set.cc:756` against a memtable flushed into the gap between the inputs of a
   manual compaction (`leveldb_manual_gap`). The wrapper that the app uses never calls
   `CompactRange`.
6. `options.h:175-177` ("no writes will be lost even if sync==false", if just the process
   crashes) against an append that stops halfway: `DBImpl::Write` takes a failed sync for
   a background error, but not a failed append, and goes on behind the torn record
   (`leveldb_torn_append`).

Seen while modelling, as preconditions of properties or guards of the models, without a
run of their own:

* The alert of `DLGroupRedpacketViewController.m:123` speaks of 200 yuan for one packet;
  the check allows a group packet of equal parts any amount for which the label, and
  not the product with the count, is within the limit.
* A private packet that is refused hands the detail page no model, and the page asks
  with a nil id, which its dictionary literal does not survive
  (`ConversationViewController.m:345`, `DLRedpackerDetailTableViewVC.m:76`): `crashed`
  in `RedPacketOpen`. The details button of an expired group packet sends a claim.
* Several sheets for one packet send several claims; the second one is refused, with an
  alert over the page of the first.
* `antInfoSet` turns round what is saved when the answer comes. With an answer of
  `antInfoGet` in between, the alert says that the user is hidden while the server shows
  him, or the other way round: the precondition `settled` of `VisibilityAgrees`.
  Without a city the button stays disabled (`MapViewController.m:506-511`).
* Two touches of the seal send two claims, and the page of the second says "too slow" of
  a packet that was got: the precondition of `PageTellsTruth`. An older nearby answer
  replaces a newer one. Closing the packet while its seal turns claims it all the same.
* The reply to a payment form that was dismissed puts up a password sheet whose delegate
  is gone (`DLPrivateRedPacketViewController.m:156-163`, `204-210`): `StaleReply`.
* The reply to a profile edit stores the profile read back then
  (`SingerViewController.m:132-140`); while the removal of a sign-out waits in the queue,
  it brings the signed-out account back: outside `calm` in `CalmSession`.
* Against `options.h:175-177` stands also a manifest record that stops halfway in a flush
  inside a compaction: the compaction goes on and writes another record behind it
  (`db_impl.cc:1004-1005`), which `VersionSet::Recover` refuses to read
  (`version_set.cc:897-901`). That is the fault `"tear"` of `LevelDBWrite`, which
  `AckedSurvive` assumes away.
* `PosixEnv::LockFile` opens the file before it asks the table of names; the close after
  "already held by process" gives up the process's lock (`env_posix.cc:421-424` against
  `env.h:97`), and so does a close during another open. `DestroyDB` unlocks before it
  deletes the name, so a third process may lock a new file beside the holder of the old
  one. Both are outside `apart` in `Exclusive`.
* LevelDB's group commit: a failed sync that leaves the log readable may bring back a
  write that was told an error (`options.h` leaves it open); a NULL batch waits behind
  writers for room; the filler's own result is ignored (`log_writer.cc:44`), so a reader
  may lose later records of that block: the precondition `torn` of `LossIsLocal`.
* A flush inside a compaction is tried again although it failed before, and its table is
  no pending output any more when `LogAndApply` unlocks; nothing else collects files at
  that time, so `TablesFound` holds.

## 7. Not modelled

* The contact database: inserts replace by primary key, reads follow, and nothing
  depends on an order; its one file for all accounts shows one account's contacts to the
  next until they are replaced.
* Registration and payment-password pages: one timer, or one request with what was
  typed. The wallet's dialogues have the shape of `RedPacketSend` with one request;
  their amounts are in `MoneyConversion`.
* The version request of `AppDelegate`, repeated every three seconds without a bound,
  one chain for each return to the foreground; the registry of tasks in `BANetManager`.
  Neither keeps state that anything reads.
* Paying for ant mode, user cards, the search line, cached lists (the pattern of
  `bucket_last_write`), publishing, group and friend management: one request for each
  tap, without state of their own.
* Of LevelDB: checksums and compression as bytes, filters and the block cache, repair,
  the rest of the POSIX environment (its background thread is `BGNext` in
  `LevelDBWrite`), and statistics. Sizes are free or counted in entries.
* Views, pickers, photo browsers and animations (layout and drawing), `ZYNetWorking`
  and `JKDBModel` (no caller), and the other pods and frameworks (third-party, without
  a part in the application's logic).

# ConfFriends in TLA+

ConfFriends (`src/App/WWDC Family`) is an iOS app that puts the attendees of a
conference on a shared map. Each user signs in with Twitter, and the app writes
the device's location to `users/<uid>` in a Firebase database that every
instance observes. What makes it hard to get right is privacy: the user may
disable sharing, draw a zone in which nothing is shared, have locations fuzzed,
sign out or delete the account, while locations arrive through subscriptions,
blocks of the main queue and answers of a server that were started before the
decision.

`AppDelegate` opens the database with persistence (`AppDelegate.m:36`): what the
app reads and writes goes through the store that the repository vendors for it,
`Pods/leveldb-library`. That store is the concurrent part of the program, and
the second half of this project.

## Inventory

| component | state | operations | talks to |
|---|---|---|---|
| `AppDelegate` | two subscription handles, the time of the last write | launch, become active, resign active, subscribe, stop, `storeLocation` | `INTULocationManager` (subscribes, is called back), `NSUserDefaults`, Firebase |
| `INTULocationManager` (Pod) | live requests, last location, error flag, what CoreLocation runs | add, cancel, complete, process requests; CoreLocation's delegate calls | CoreLocation, the main queue |
| `AuthViewController` | the stage of the sign-in | Twitter's credentials, Firebase's completion, the question about sharing | `FCTwitterAuthorization`, FIRAuth, `AppDelegate` |
| `MapViewController` | annotations by user, the switch | the switch; Firebase's child events; selecting a user | Firebase, `AppDelegate`, `UsersViewController` |
| `SettingsViewController` | none of its own | accuracy, sign-out, deletion, Twitter filter, name | `AppDelegate`, FIRAuth, Firebase |
| `PrivacyZoneViewController`, `NSUserDefaults+MKMapRect` | the zone in the defaults | save (with an asynchronous check of the stored location), delete | Firebase |
| `FuzzingViewController` | switch, radius, distance in the defaults | one handler per control | `storeLocation` reads what it writes |
| `CountryViewController` | none | writes the country of the user | Firebase |
| `UsersViewController`, `UserCellNode` | arrays of users and of rows, the search, progress indicators | load by scope, search, select | Firebase |
| `FCTwitterAuthorization` (Pod) | the global current instance; each attempt's session and completion | authorize, cancel, callback URL, two requests and a page, finish | Twitter, AuthViewController |
| `DDFUser` (Plank, generated) | a user's fields and which are set | parse, build, merge, compare, encode | every reader of `users/` |
| `DBImpl`, `VersionSet` (leveldb) | memtables, queue of writers, current version, files | write, switch of memtables, background compaction, recovery | log files, tables, MANIFEST, CURRENT |
| `Version`, `Compaction` (leveldb) | files by level | place a table, pick and expand a compaction, drop entries, get | tables, snapshots |
| `DBIter`, `MergingIterator` (leveldb) | positions, direction | seek, next, previous | iterators over memtables and tables |
| `SkipList` (leveldb) | nodes and links | insert, lock-free reads | memtable |
| `TableCache`, `LRUCache` (leveldb) | open tables, reference counts, two lists | look up, insert, release, evict | tables |
| `log::Writer`, `log::Reader` (leveldb) | bytes of a file, block offset | add a record, sync, read records | file system |
| `TableBuilder`, `Table`, `Block`, `TwoLevelIterator` (leveldb) | blocks, index | add, finish; seek, next, previous, get | file system |

The app's own code runs on the main thread; its interleavings are those of
run-loop events, except for `FCTwitterAuthorization`, whose requests end on the
queues of their sessions. The store runs in Firebase's threads and one of its
own. The hazards, each at its line, are under `hazards` in `PROJECT.json`; the
main ones are

* a block dispatched to the main queue runs after its subscription is cancelled,
  after sharing is disabled, after another user signs in;
* handles on subscriptions are overwritten, so a subscription may outlive every
  way to cancel it;
* answers of Firebase carry a state of the past, and are lost when the process
  ends, while the defaults, the sign-in and the records persist; loads of the
  list and downloads of the map overlap;
* the registration for significant changes belongs to iOS and outlives the process;
* settings use 0 as "unset" where 0 is a value (the bearing of fuzzing);
* one global stands for the current authorization, while several may be alive;
* the store's process or machine may end between any two steps on its files;
  its background thread deletes files that readers and compactions use;
* writers wait for each other, for room and for the background thread;
* levels, iterators, the skip list and the cache are read while they change.

What makes each component correct: the location manager runs CoreLocation
exactly for its live requests; the publication path never shows a user who
disabled sharing and never writes somebody else's record; settings take effect;
sharing that is enabled reaches the map; the map follows the records of those
the filter lets in; the list shows each user once, under the selected scope;
one authorization ends in one completion; an acknowledged write survives, and
every read finds the last write before its snapshot.

## Modules

| module | models |
|---|---|
| `LocationManager` | `INTULocationManager` and the main queue: operators on a record `loc`, no state |
| `LocationSharing` | everything that decides what is in the user's record |
| `MCLocationSharing` | its instances for TLC: zones, geometry |
| `Publication` | abstract: what the users of one device decide, and where others see them |
| `MapAnnotations` | the pins of the map: observers, downloads, annotations, the filter |
| `UsersList` | the list of users |
| `TwitterAuthorization` | attempts to sign in with Twitter, on two kinds of threads |
| `KVStore` | abstract: what leveldb promises about writes and crashes |
| `LevelDB` | `DBImpl` and `VersionSet`: threads, files, crashes, recovery |
| `LevelsState`, `Levels` | where entries are, where reads look and what is right of both; what compactions move and drop |
| `Iterators` | `DBIter` on `MergingIterator` while the memtable grows |
| `SkipList` | the memtable's list, one writer and lock-free readers |
| `TableCacheState`, `TableCache` | the cache of open tables on one shard of the LRU cache: its state and properties, its operations |
| `LogFile` | writer, crash and reader of a log file |
| `TableFile` | building and reading a table file |
| `MCStoreParts` | one instance of each of the last six, chosen at the start |
| `LocationSharingProofs`, `MapAnnotationsProofs`, `UsersListProofs`, `TwitterAuthorizationProofs`, `WritePathProofs`, `TableCacheProofs`, `LevelDBProofs`, `LevelsProofs` | theorems and their proofs |

Some definitions are marked *Mutant*: plausible errors in the definition that
follows, used to see that each property can fail. No specification uses them.

### LocationManager

The manager is only called on the main thread, so each of its methods is a
function from one manager record to the next. `requests` is the array of live
requests: its order only orders blocks that are equal. `updating`, `monitoring`
and `desired` are what CoreLocation does (`isUpdatingLocation`,
`isMonitoringSignificantLocationChanges`, `desiredAccuracy`). `mainQueue` holds
the blocks passed to `dispatch_async` on the main queue; a block carries the
location and the status computed when it was dispatched, and cancelling its
request does not remove it, as in `processRecurringRequest:`. The app uses
subscriptions and significant changes only: single requests, their timeouts and
headings are never started and are left out, as is the achieved accuracy, which
the app's blocks ignore.

### LocationSharing and Publication

| variables | in the code |
|---|---|
| `disabled`, `zone`, `accuracy`, `fuzz` | `NSUserDefaults` keys `DDFLocationDisabled`, `DDFPrivacyZone`, `DDFAccuracy`, `DDFLocationFuzzing*` |
| `currentUser` | `[FIRAuth auth].currentUser`, kept across restarts |
| `records`, `deleted` | `users/<uid>` in Firebase; accounts the server has deleted |
| `app` | state of the process |
| `screen` | what is in front: the map (or a page over it), the settings, something over the settings, the settings on their way out, or a stage of `AuthViewController` |
| `asker` | whether the `SettingsViewController` that asked for a deletion is still presented |
| `deletion`, `zoneReads` | the Firebase calls in flight |
| `locationRequestID`, `significantRequestID`, `recent` | `AppDelegate`'s properties; `recent` is "less than a minute since `lastLocationUpdateTime`" |
| `loc`, `permission` | the manager and the main queue; iOS's permission |
| `decider` | history: while `disabled` is set, who was signed in when it was |
| `orphaned` | history: the account in use was deleted, and nobody has signed in since |

One action per event: `DidFinishLaunching`, `ApplicationDidBecomeActive`,
`ApplicationWillResignActive`, `Killed`; CoreLocation's three delegate calls;
the two kinds of blocks; the stages of the sign-in and the two answers; every
control of the map and of the settings; what opens and closes the settings and
what lies over them; the server's deletion of an account and the two ways its
completion runs.
`StoreLocation` reads the defaults and the user when the block runs, not when it
is dispatched. `saveZone`'s check is split where the code is: the read is
answered with the record of that moment (`ZoneReadAnswered`), the block looks at
it later (`RunZoneCheckBlock`), with the zone and the user of that later moment;
with no user, `child:nil` raises and the process dies. The other handlers that
address `users/<uid>` do the same, after what they had already saved
(`RaiseWithoutUser`).

Signing out is two steps, as in the code: `SignOutUser` clears the user and starts
an animated dismissal, `SettingsDismissed` is its completion, which presents
`AuthViewController`. A deletion is four: `DeleteUser` removes the record,
`AccountDeleted` is the server, `DeletionSucceeded` the completion block, and
`SettingsDismissed`. Meanwhile the settings may be closed, opened anew, covered by
an alert or a page, or left by signing out; so the block's
`dismissViewControllerAnimated:` dismisses the settings, or only what covers them,
or nothing (`AfterDeletion`). Where UIKit does not document whether the completion
of a dismissal that has nothing to dismiss runs, both outcomes are allowed. The
map and the settings may then be in use without a user: `MapHasUser` says that this
is the only way there, `DeleteUser`, `DisableLocation` and `SaveZone` raise in it,
and the run follows what happens next.

`Publication` knows a device, its user, one decision and what others see:
nothing is published while sharing is disabled, disabling hides the signed-in
user in the same step, and only that user is ever shown or hidden. Without a user
the decision belongs to whoever holds the device, and there is nobody to hide. `LocationSharing`
implements it with `user <- currentUser`, `enabled <- ~disabled` and `shown`
the locations of the records; subscriptions, queues, answers and crashes are
stutters, or one of its steps.

Abstractions:

* a location is a spot, a zone a set of spots, and the geometry two constant
  functions, `FromVenue` (distance from the conference) and `Displace`
  (`locationWithBearing:`), about which nothing but their types is assumed;
* a record is whether it has a profile and which location it shows;
  latitude and longitude are written and removed together everywhere;
* Firebase's writes are visible to its reads at once, as its local cache makes
  them, and none is lost: the database is opened with persistence;
* desired accuracy matters only while updates run;
* a user who is deleted and signs up again is another user;
* every page and alert over the settings is the one screen `covered`, and any of
  their controls may be used there; one set of credentials comes at a time
  (`TwitterAuthorization` shows when two attempts may be answered).

### MapAnnotations

The reader's side of `users/`, on one device; it shares only the records with
`LocationSharing`, so the two are separate modules.

| variables | in the code |
|---|---|
| `records` | `users/` as Firebase has told this instance |
| `filter`, `friends` | `DDFTwitterFriendFilter`; `DDFTwitterFriends` and `twitterFriends` (read again whenever the filter changes) |
| `observers` | the observers of new children: `fetchUsers` adds one, none is removed |
| `mainQueue` | Firebase's events and the blocks of finished downloads |
| `downloads` | images on their way, by user and by the location they were asked for |
| `tracked` | `userAnnotations`, with each annotation's coordinate |
| `stray` | annotations on the map that `userAnnotations` has lost |
| `late` | history: who was on the map or being downloaded when the filter last changed |

`RecordWritten` and `RecordRemoved` are the other devices; they may write any
record, the same one included (another field has changed). An event carries
the record of its own time. `ChildChanged`, `ChildAdded` and `ChildRemoved` are
the observers, `AddUserMarker` what two of them share, `MarkerReady` the block
at the end of a download. A filter that is set up has at least one friend,
maybe a `Stranger` to the app.

### UsersList

A load (`FilterControlValueChanged`) empties the two arrays at once and sends a
read; `Answer` appends to whatever they hold by then; `HideHUD` is the block the
answer dispatches. `allUsers` and `filteredUsers` count how often each user is
in them: the order is that of the names at all times. `here` is the users whose
country is one's own. `late`, `merged` and `empty` are histories of the loads
since the last selection.

### TwitterAuthorization

`stage` is how far an attempt is on either way: through the Twitter app
(`opening`, `app`) or through the requests (`token`, `starting`, `page`,
`access`). `finishWithCredentials` is three steps of a thread, because nothing
locks it: `ReadCompletion` (and the cancelling of the session), `CallCompletion`,
`UnsetCurrent`. A tap while an attempt is current cancels that one first, and
only then begins (`Authorize`, `AuthorizeNext`). The reads and writes of the
global and of the completion block are taken as atomic; a torn pointer is left
out. `displaced` and `raced` are histories that say what went wrong in the two
ways the properties except.

### LevelDB and KVStore

`LevelDB` has the directory (`logs`, `tables`, `manifests`, `current`), which
outlives the process; the members of `DBImpl` and `VersionSet`, which do not;
and the threads. A hold of `mutex_`, or a step with it released, is an action:
a writer queues, the first one makes room (delays, switches memtables, waits),
builds a group, writes the record, perhaps syncs it, applies it, and wakes the
others; the background thread writes the memtable or compacts level 0 into 1,
stops in the middle for a new memtable, logs its edit, installs the version and
deletes the obsolete files; `Open` reads the descriptor (`Recover`), then each
log file into a table (`RecoverLogFile`), makes a log (`OpenLog`), writes a
descriptor of its own, names it in CURRENT and cleans up, and a crash may come
between any two of these. `imm` and `reader` are the empty set for NULL. `Fault`s are failed appends, syncs and
file creations, the end of the process, and the end of the machine, which
loses some unsynced tail of every file.

A log is its records, how many of them are sound, and how many are synced. A
failed append tears its record, and `log::Writer` goes on behind it with a
`block_offset_` that may be ahead of the file (`log_writer.cc:107`); only a failed
sync becomes a background error (`db_impl.cc:1236-1242`), so writes go on and are
acknowledged. From the first torn record on, a log is not sound: the end of the
process or of the machine leaves any of the records behind it unreadable
(`LogLeft`), the reader's choice depending on bytes that `LogFile` has and
`LevelDB` has not. `torn` says that the log in use has such a record, `doubtful`
which acknowledged writes are behind one and in no table yet. Both are histories:
no guard reads them.

`KVStore` is what `db.h` promises and as much of `options.h` as the code keeps: a
write is applied whole, in the order of the answers; success survives the process,
and with `sync` the machine. `options.h:193-196` says that no write is lost when
only the process ends; after a failed append that is not so, and `KVStore` says how
far: what a crash may take of the acknowledged writes are those acknowledged
between a failed write and the next log, and these only until a table has them.
(With `torn` never set, TLC finds a write with sync that was acknowledged behind a
torn record and is gone after the process has ended.) The mapping takes `up` to "phase is open", `status` to what the caller
knows, and `store` to the batches, in the order of their sequence numbers, that a
`Get` would look through (`Visible`), or, while the database is down, that an
`Open` would recover (`Recoverable`); `torn` and `doubtful` are themselves.

### Levels, Iterators, SkipList, TableCache, LogFile, TableFile

The parts that `LevelDB` takes as one step or leaves out, each by itself.

* `Levels`: an entry is its sequence number. Writes, deletions, snapshots, the
  flush of a memtable to the level `PickLevelForMemTableOutput` chooses, the
  start, the steps and the end of a compaction with the memtable compaction
  nested in it. Which file a compaction starts from and where it ends an output
  file are left open. `LevelsState` has the two kinds of reads: `Get` looks into
  the memtables, into level 0, newest file first, and into the first other level
  whose file has the key; `Merged` is what an iterator stops at. A `Recover`
  makes a level-0 table of each memtable's log.
* `Iterators`: an action is what `DBIter` does between two calls of the merging
  iterator; entries are inserted in between, also while the merging iterator
  turns round. `expected` is a history: the key the caller should see, computed
  from all entries up to the snapshot.
* `SkipList`: `Insert` finds the places and stores one link per step; readers
  follow one link per step, from a `maxHeight` that may be old.
* `TableCache`: a thread stands for a holder of one handle, so an iterator over
  several files is several of them; look-up, opening and inserting are separate
  holds of the mutex,
  so two threads open one table, or it is evicted meanwhile; handles are used again
  after they are freed.
* `LogFile`: fragments, blocks and trailers, appends that fail halfway, a crash
  that cuts the unsynced end, and the reader from the beginning of the file.
* `TableFile`: blocks with shared prefixes and restart points, an index of
  shortened keys, and the iterator over both, with blocks that cannot be read.

`MCStoreParts` checks them in one run: a behaviour is a behaviour of one part.

## Runs

| run | instance | shows |
|---|---|---|
| `accounts` | 2 users (symmetric), 1 spot that is also the only zone, 2 live requests, queue of 2 | `TypeOK`, `DisabledHidesDecider`, `MapHasUser`, `NoPublishWhileDisabled`, `OnlyOwnRecordWritten`, `ImplementsPublication` |
| `hardware` | 1 user, 1 spot away from the venue, 3 live requests, an accuracy, fuzzing with a bearing of 90, errors, all permissions | `FuzzingDisplaces`, `SignificantIsTracked`, `HardwareFollowsRequests` |
| `liveness` | 1 user, 1 zone, queue of 2, `FairSpec` | `SharingReachesTheMap`, `ZoneCheckHides` |
| `consent` | 1 user | refutes `NothingSharedWhileAsking` |
| `deletion` | 1 user | refutes `DeletedAccountHasNoRecord` |
| `map_pins` | 1 user, 2 spots, queue of 2, 2 downloads for each spot, 1 change of the filter, `FairSpec` | `TypeOK`, `FilterHolds`, `SharedUsersAreTracked`, `HiddenUsersAreDropped` |
| `ghost` | the same, without fairness | refutes `HiddenUsersAreNotShown` |
| `users_list` | 3 users, 4 indicators, `FairSpec` | `TypeOK`, `RowsAreOfArray`, `ListIsExact`, `IndicatorsAreAccounted`, `IndicatorsGo` |
| `twitter` | 3 attempts, `FairSpec` | `TypeOK`, `NoAttemptForgotten`, `CalledOnce`, `OneIsSafe`, `AttemptsEnd` |
| `leveldb` | 2 batches, one of them synced, 1 forced flush, memtables of 1 entry, triggers 1, 1 and 2, 2 faults, `FairSpec` | `TypeOK`, `FilesAreThere`, `ImplementsKVStore`, `WritersReturn` |
| `split` | as `Levels` in `store_parts` | refutes `GetsAreRight` |
| `store_parts` | below | `TypesOK`, `SearchesAreRight`, `ReadsAreRight`, `LevelsAreDisjoint`, `IteratorIsRight`, `EntriesAreAccounted`, `OpenTablesAreBounded`, `RecordsAreWhole`, `LogIsRead`, `TablesAreRead` |

Deadlock is checked where the system goes on for ever. In `twitter`, `leveldb`,
`store_parts` and `split` the attempts, writes, entries or faults are bounded
and a behaviour ends when they are used up; there `WritersReturn` and
`AttemptsEnd` say that nobody is left waiting.

Four runs refute what the texts of the code say; `findings` in `PROJECT.json`
quotes each text.

* **consent.** `applicationDidBecomeActive` subscribes without looking at who is
  signed in, and FIRAuth has a current user before the question is asked. A
  location that arrives while the alert is up is published.
* **deletion.** Launch or activation subscribes, "Share My Location" subscribes
  again over the same handle. `stopLocationUpdates` cancels one of the two; the
  other writes a location under the record just removed.
* **ghost.** A user hides while the image is downloaded; the block at the end of
  the download shows the user all the same, where the user was. It stays until
  the record changes again: `HiddenUsersAreDropped` shows that the next change
  of another field drops it, if it is still the one in `userAnnotations`; a
  stray annotation stays until the filter changes or the app ends.
* **split.** A snapshot keeps two entries of a user key; the output of a
  compaction is cut between them, so two files of a level share the key. The
  next compaction may take only the file with the newer entry: that entry is
  then below the older one, and `Get`, which stops at the first level that has
  the key, returns the older value. `ReadsAreRight` shows that this cut is the
  only way: `keySplit`, a history, is the exception.

`HardwareFollowsRequests` and `SignificantIsTracked` delimit the leak: it is
confined to standard subscriptions, and the location manager itself is right.

### Bounds

`LocationSharing`: `RequestIDs` bounds the live requests; identifiers grow for
ever in the code, here one is reused when no request and no handle holds it, so
that a stale handle never names a new request. Two live requests allow the
overwritten handle; three (in `hardware`) allow a leaked one next to one of each
kind. `MaxQueue` bounds the blocks waiting; two allow a location block ahead of
the zone check and the reverse. One deletion is in flight at a time;
signing out, closing the settings, opening them again, disabling and everything
else may happen meanwhile. The accounts are symmetric: no definition tells one
from another, and the run checks safety properties only. Reads of one user's record in flight at the same
time are answered together. A second error before any location adds nothing and
is not repeated. Permissions change only while the app is not the active one,
as iOS does it. With no `Distances` an instance never fuzzes. One spot is
enough for the runs that compare records with nil or with the zone; two users
are enough to tell "current" from "any other".

`MapAnnotations`: users meet only in the queue, so one is enough; two spots make
a download stale, two downloads for one spot overlap, and with one change of the
filter there are two observers (`MaxObservers`).

`UsersList`: with four indicators (`MaxHUDs`) up to four loads, answered or not,
overlap. `TwitterAuthorization`: a third attempt is
the first that can begin while two others are still alive.

`LevelDB`: with a memtable of one entry and a trigger of one file each write
reaches the tables and both kinds of compaction; two batches and a forced flush
make groups, of which one member wants a sync; two faults allow a crash during
the recovery from a crash, and a torn log followed by a crash.

`store_parts`. Skip list: keys 1 to 3, height 2, one reader. Levels: 2 keys, 3
levels, 4 writes with 1 deletion, 1 snapshot. Iterators: 2 user keys, 3
children, 3 entries and 1 insertion, in every distribution. Cache: 4 tables, 2
threads, capacity 1, 5 handles, so that both threads hold one table, one rests,
and others are still evicted. Log: blocks of 4 bytes with headers of 2, records of
0 and 3, so that a record has one or two fragments, which fill a block or leave a
trailer of 1 byte or room for an empty fragment; 3 records. The reader meets a
last fragment without its first one only after two failed appends, so
`MaxFailures` is 2. Table: 3 user keys, chosen so that index keys are shortened,
and cannot be because one is a prefix, because no shorter one is between, or
because the last byte is reached; 2 entries each, restart points every 2
entries, 3 entries cut into blocks in every way.

### Fairness

* `LocationSharing.FairSpec` (`liveness`). While the app is active the main
  queue is served, Firebase answers a read, and CoreLocation, while it runs
  updates, reports a location now and then; a minute passes. iOS may suspend an
  app that is not active and never resume it, so nothing is assumed then, and
  `ZoneCheckHides` says so. The first three are strongly fair, because the app
  may be left and opened again, and because the bound on the queue, which the
  program does not have, disables reports and answers now and then. No fairness
  on the user, on sign-in, or on launching. `SharingReachesTheMap` therefore
  assumes that from some point on the app stays open with sharing enabled,
  permitted, without a zone, and with a profile: a failed deletion leaves a
  signed-in user without one.
* `MapAnnotations.FairSpec`. The main queue is served and a download that is
  asked for again and again succeeds at last, strongly because the bound on the
  queue disables it at times. Nothing is assumed of the other devices or of the
  filter; the two properties are about a record that settles and is written
  again and again, as a device that shares its location does every minute.
* `UsersList.FairSpec`. Firebase answers each read and the main queue is served.
* `TwitterAuthorization.FairSpec`. Threads run, requests are answered, if only
  by an error, `openURL` answers, and the page is closed at last. Nothing is
  assumed of the Twitter app.
* `LevelDB.FairSpec`. Threads run, and a database that is down is opened again.
  Weak fairness is enough: a condition variable's waiter is an action that stays
  enabled once it is signalled. Nothing is assumed of writes or of faults.

## Proofs

Eight modules hold theorems, each about a specification for all values of its
constants, under the named `ASSUME`s of the module. The argument is always the
same: `Init => IInv`, one lemma per action or group of actions for
`IInv /\ [Next]_vars => IInv'`, and what the runs check as a consequence of
`IInv`.

**`LocationSharingProofs`**: `TypeCorrect`,
`DisablingHides`, `MapAlwaysHasUser`, `SignificantAlwaysTracked`,
`HardwareAlwaysFollows`, `FuzzingAlwaysDisplaces` and the action properties
`NothingPublishedWhileDisabled`, `RecordsAreOwn`, for any
users, spots, zones and identifiers, any geometry and any bound on the queue.
The properties are not inductive by themselves. `IInv` adds:

* `UniqueIDs`: two live requests never share an identifier. Without it one
  cancellation would have to remove one of several requests.
* a finite set of requests (`Live`): the number of blocks a report dispatches is
  its cardinality.
* a dead process has no live request: otherwise the significant-changes
  subscription made at a launch could be a second one.
* `SignedHasUser`: wherever the app is in use or a sign-in is past its
  credentials, somebody is signed in or the account was deleted under the app
  (`orphaned`). `MapHasUser` is the part of it that concerns the map and the
  settings; it needs the rest because the answer to the question about sharing
  leads back to the map.

`RequestInv` (the subscriptions) rests on lemmas about `LocationManager`: adding,
removing, completing and reporting each keep `HardwareFollows`, `Stopped` leaves
no significant-changes request, and a fresh identifier is no live request's.
`UserInv` (user, database, settings) rests on `StoreWrites`, what
`storeLocation` may write, and `HiddenIsHidden`.

Its `Implementation` is that every step of `LocationSharing`, a crash included,
is a step of `Publication` or a stutter: with a user, hiding and deciding are one
step; without one, a decision changes `enabled` only, and the process dies before
it writes a record.

**`MapAnnotationsProofs`**: `TypeCorrect` and `FilterAlwaysHolds`. The invariant
follows a user the filter leaves out backwards from the map: an annotation, a
block of a finished download or a download on its way exists only if the user
was on the map or on the way when the filter changed.

**`UsersListProofs`**: `TypeCorrect`, `RowsAlwaysOfArray`, `ListAlwaysExact`,
`ListAlwaysCounts`, `IndicatorsAlwaysAccounted`. The strengthening says what the
arrays hold between the last selection and the answers to come.

**`TwitterAuthorizationProofs`**: `TypeCorrect`, `NoneForgotten`,
`OnceUnlessRaced`, `SingleIsSafe`, for any number of attempts. `IInv` adds that
nothing is left over of an attempt that has not begun; that an attempt is
finished by the main thread or its own, so by two at most; that the completion
is cleared before the global; that a waiting tap finds the global empty; and
that whoever is about to call a completion, and is alone, is the first.

**`WritePathProofs`**, first half: `TypeCorrect` and `SearchesAlwaysRight` of
`SkipList`, for any set of keys, any height and any number of readers. The
invariant: each level is sorted and leads past no node of its level, each level
is within the one below, nodes not yet linked are nowhere, `Insert`'s places are
still the ones next to the new key on the levels left to link, and a reader's
node is in the list, on its side of the target, with nothing it should find
behind it. Nearest nodes exist because sets of naturals are well-founded.

Second half: `RecordsStayWhole` of `LogFile`, for any sizes of blocks, headers
and records and any number of failed appends. `LogInvariant` says of the bytes
that a fragment, torn or not, is a beginning of itself, that fragments are in
their order, and that before one that goes on with a record there is the end of
the fragment it goes on from (`BytesAreInOrder`): a failed append ends its
record. Of the reader it says that it is behind the end of the last fragment it
has put together by less than a header, or by nothing (`IsBehind`). So a
fragment that goes on with a record and is next in the file goes on with this one
(`TakenIsNext`): whatever lies between was too short to be another, and a torn
one that the reader would have had to skip is a bad record, which empties
`scratch`.

`LogStaysReadable`: if no append failed, the log is read without a gap at least
up to the last record synced, and without corruption, wherever the file is cut
behind the bytes synced. `LogInvariant` is too weak for that, since it allows any
hole between two fragments; `NoFailureInvariant` adds that there is none. Each
block begins with a fragment, fragments do not cross blocks, and behind the end
of a fragment the next one begins, or the block ends within less than a header
(`BlocksAreFilled`); records are numbered and each begins behind the last
fragment of the one before (`RecordsAreNumbered`); the writer's `block_offset_` is
its place in the block of the file, and every fragment is there to its end
(`NothingIsMissing`). The reader is always at the beginning of a block or just
behind a fragment (`IsAtCut`), and has taken exactly the fragments up to some
number (`HasTaken`). So a header it finds is that of the next fragment, a
fragment that is not whole is torn by the end of the file, and what it skips at
the end of a block is a trailer (`NoneIsBad`); when it ends, what is behind it is
a torn fragment, and the last fragment of the last record synced is not
(`RestIsTorn`).

**`TableCacheProofs`**: `TypeCorrect`, `EntriesAlwaysAccounted` and
`OpenTablesAlwaysBounded`, for any tables, any finite set of threads and of
entries and any positive capacity. `Good` is the invariant: references are those of
the threads and of the hash table, a table is in the hash table once, whoever
uses a table has a handle of that table, the two lists split what is cached by
whether a thread holds it, and the usage is the number of cached entries.
`Bounded` needs the last two: when `Insert` has nothing left to evict, every
cached entry has a thread of its own. One lemma, `EntryChanges`, says what has to
be shown of the entry an operator touches; `Ref`, `Unref`, `FinishErase` and
`Insert` each meet it, and what is freed is out of both lists.

**`LevelDBProofs`**: `TypeCorrect` and `FilesAlwaysThere`, for any writes, any
bounds and triggers and any number of faults. `FilesAreThere` speaks of the last
record of the descriptor; a crash of the machine may leave an earlier one. So
`IInv` says it of every record, and what makes that last:

* `DescriptorsInv`: the files of each record are there, below the file number it
  restarts from, and those numbers grow. A file made after a crash therefore
  never takes the number of one a record names.
* `OpeningInv`: while `Open` works, its version is what CURRENT describes, and
  the tables it has made from logs have numbers above it.
* `RunningInv`: the files of the version, of the compaction's inputs and of the
  readers are there, and no number in use is beyond the next one.
* `AgreeInv`: until an error is kept, the descriptor has one record, or two
  between the append and the sync, and the first describes the version. This is
  why the deletion of whatever the version does not need hurts no record, and
  why nothing may be deleted once an error is kept.
* `StagesInv` and `EditInv`: at each stage of the background thread its output is
  pending and its edit leads to a record that can be opened from.
* `QueueInv`: the writer at the front, and only it, is past the queue. So the log
  is written by one thread, and a memtable is never switched during a write.
* `Quiet`: a process that is not open has no thread at work.

Its second half, `AlwaysAgree` and `Implementation`, is that
`LevelDB` implements `KVStore` for any writes, any of them with sync, any bounds
and triggers and any number of faults. The first half says that files are
there; this says what is in them. `Stored` is the set of entries the store
stands for: what the memtables and the version's tables hold while the database
is open, what an `Open` would find otherwise (`Found` of the last record).
`Contained` relates it to every place an entry can be in:

* `EntriesInv`: a sequence number belongs to one batch and a batch to one
  number, over all files, also those only a crash would bring back; but for the
  group being written, every entry is of a write that was answered or lost.
* `GroupInv` and `WritingInv`: the group being written has one entry for each
  batch of the writers it takes, numbered behind all others, and no batch with
  sync rides behind a leader without; its record is in the log before it is in
  the memtable, and, unless the log is torn, among the sound records, and synced
  if the leader asked for it. So an answer adds to the end of the order, and says
  "ok" only of what a crash keeps or `doubtful` names.
* `TornInv`: while `torn` is not set and no append has just failed, every record
  of the log in use is sound.
* `MemtablesInv`: the memtable is contained in its log, what is not doubtful of it
  in the sound part, and what is acknowledged with sync besides in the synced
  part; logs from `logNumber` on hold nothing
  acknowledged that a read would not find.
* `BackedUpInv`: the same of the memtable being flushed, for each record of the
  descriptor: it is in the record's tables or in the logs the record restarts
  from. This carries a flush over its two steps, the record and the sync.
* `OutputInv` and `EditHolds`: a compaction's output holds what its inputs held,
  and an edit leads to the same contents and a sequence number no smaller than
  any entry's.
* `ClosedInv`: whichever record the end of the machine leaves, nothing
  acknowledged appears that was missing, and nothing acknowledged with sync is
  missing, the doubtful writes excepted. It survives a second crash in the middle of `Open`.
* `SequenceInv`, `ReplayInv` and `NewLogInv`: numbers given out after an `Open`
  are above those of every entry it found, and until CURRENT is renamed the old
  descriptor still leads to the same contents.

Each action has a lemma that it keeps `Contained` and what becomes of `Stored`:
all leave it as it is, but the answer to a group, which adds the group's
entries, and a crash, which keeps at least the safe ones (`CrashContained`). The
refinement follows with what the order of sequence numbers gives
(`InOrderExtends`: what is numbered behind extends the list; `InOrderAgrees`:
two selections of the same entries never list two batches in opposite orders).
`FinishGroup` is `Commit` or `Fail` of the batches of the group, a refusal in
`MakeRoomForWrite` is `Fail` of one, its switch of logs is `NewLog`, the
background thread's sync of the descriptor is `Settle`, the last step of `Open` is
`Open`, a crash is `Crash`, and the rest stutters.

**`LevelsProofs`**: `LevelsStayDisjoint` and `ReadsStayRight`, for any finite
set of keys, any number of levels and any writes, deletions and snapshots. `IInv`
has two parts:

* `Shape`: the files of a level below 0 are apart, those of the version and
  those there will be once the compaction under way is installed (`After`). A
  memtable's table may be put into the version meanwhile. What keeps it out of
  the range of the outputs is `NoGap`: every key between two of the inputs' is
  within the range of one of them, so `PickLevelForMemTableOutput` stops above.
  At level 0 this rests on `GetOverlappingInputs` returning the smallest range
  that no file reaches across (`ClosureIs`), at the other levels on taking all
  that overlaps; `InputsAre` carries it through `SetupOtherInputs`.
* `Reading`, until a user key is split between two output files. `Ordered`: of two
  entries of a key in two files, the newer is in the file a read comes to first,
  in the version and in `After`. `MemTablesAreNewer`. `Complete`: an entry
  that is nowhere is hidden by a newer one that every snapshot sees, or is a
  deletion older than every snapshot with no older entry of its key left; this
  is what `Drops` has to respect, and the second case is why
  `IsBaseLevelForKey` looks below the output's level only.

From `Reading`, `InLevel0Is` and `InLevelIs` say that what `Get` finds in a level is
the newest entry there that the snapshot sees, `GetIs` that stopping at the
first place with the key loses nothing, and `PresentRead` that what was
dropped would not have been read. `keySplit` is needed: the run `split` refutes
`GetsAreRight` without it.

Only model-checked: liveness, since fairness and ENABLED are out of the
prover's reach; `Iterators` and `TableFile`.
The invariants that are proved were first checked with TLC on the instances of the runs.

## Not modelled

* `CountryViewController`: a single write with no state. `DDFUser`: generated
  code with no behaviour over time.
* The pages of Twitter's answer for the filter and the alert for the display
  name, single reads and writes; layout, wording, callouts, analytics.
* `locationWithBearing:`: floating-point trigonometry, here a constant function.
* CoreLocation, FIRAuth, UIKit and Firebase's own code, which is not in the
  repository as source; what they do is taken from how the code uses them.
* Of leveldb: the filter blocks, the compression, the checksums of blocks and
  the cache of blocks; the reuse of logs, which is off by default; manual
  compactions, for which no caller is in the repository; a descriptor torn in
  the middle of a record; sizes, seek charges and compaction pointers, which
  only choose among the compactions that `Levels` leaves open.
* The other Pods, of which the app uses single calls.

What would come next: a `LogFile` below `LevelDB`, so that a record of the
descriptor may be torn, and which records of a torn log are lost follows from bytes; the filter blocks in `TableFile`.

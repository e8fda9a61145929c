# DevPost: a TLA+ verification project

DevPost is an iOS app in Swift on top of Firebase: people sign up, write posts,
search them, comment on them, and edit or delete their own. This project models
the app's own control logic in `src/DevPost/DevPost`, together with the parts of
the Firebase libraries in `src/DevPost/Pods` that decide in which order the app's
closures run, and leveldb (`Pods/leveldb-library`), the storage engine under
FirebaseDatabase's persistence. TLC checks the modules on small instances, TLAPS proves
the central properties for every value of the constants.

Paths below are relative to `src/DevPost/DevPost`, unless they begin with `Pods`; `db/`,
`table/`, `util/` and `include/` are directories of `Pods/leveldb-library`.

## 1. Inventory

### How the app works

All data is in the Firebase realtime database, under `/posts`, `/comments` and
`/users`. The app holds no data of its own. `Model/FirebaseServices.swift` is a set
of stateless functions; each screen calls them with a closure and keeps what the
closure is given in an array of its own.

Reading is always *observing*: `observe(.childAdded)` or `observe(.value)` with a
closure that runs on the main queue for every child that is there and for every
child that comes later. **No observer and no auth state listener is ever removed**,
so each refresh, each sign-in and each login leaves one more closure behind that
goes on writing into the screens. That fact is behind most of what is hard here.

There are two queues. The database library works on a serial queue of its own: it
carries out registrations and writes in the order of the calls, raises events, and
puts the closures on the main queue. The main queue runs closures, taps and timers
one at a time. What interleaves is therefore: taps, closures already raised,
registrations not yet carried out, writes by other devices and their arrival,
answers of the authentication server, and the end of the process.

### Components

| component | state | operations | talks to |
|---|---|---|---|
| Posts in the database (`Model/FirebaseServices.swift`, `Model/Posts.swift`) | `/posts`, the library's cache of it, the events raised | `uploadPost`, `editUserPost`, removal, `observeUserPost`, `fetchCurrentUserPost` | every list, by `.childAdded` events |
| Feed (`Controller/Main`) | `posts`, `filteredPosts`, `showResult`, one `newPosts` per refresh, the rows on the screen | load, refresh, search, open comments, log out | Posts, Comments, Session |
| My posts (`Controller/my-comments`, `Controller/Edit-user-post`) | `myPost`, `newPosts` per refresh, auth listeners, delete dialog, edit form | load, refresh, delete, edit | Posts, Session (auth state) |
| Comments (`Controller/Comments`) | `comments`, the form for a new one | open, list, write, close | `/comments`, Feed |
| Session (`Controller/Login`, `Model/GoogleServices+Login+Ext.swift`, USER block of `FirebaseServices`, account deletion of `ProfileController`) | accounts, user records, current user, calls under way, login observers, login screens, HUD | sign up, log in, Google, reset password, log out, delete account, update record | authentication server, `/users` |
| User record (`fetchUser`, `Controller/Profile`, the name in `MainController`'s navigation bar) | listeners, observers of `/users/uid`, what each screen was last handed | `fetchUser`, `updateUserInfo`, profile, edit profile | `/users`, Session (auth state) |
| Post form (`Controller/Post/PostController.swift`) | the username that was fetched | open, submit, cancel | User record, Posts |
| Date texts (`Model/TimeString.swift`) | none | `setDate`, `updateDate` | lists sort by these texts |
| Launch and tabs (`SceneDelegate`, `TabBarController`) | which screen is seen | launch | all |
| Cells, layout, colours (`View`), settings, unused screens | none | - | - |
| leveldb: `DBImpl` (`db/db_impl.cc`, `db/builder.cc`, `db/filename.cc`) | writers' queue, log, `mem_`, `imm_`, manifest, `CURRENT`, table files, background thread | write, flush, merge, delete files, iterate, close, recover | Firebase's `FLevelDBStorageEngine`, the file system |
| leveldb: versions (`db/version_set.cc`) | levels of table files, compaction pointers, snapshots | read, pick a level, pick and carry out a compaction | `DBImpl` |
| leveldb: log files (`db/log_writer.cc`, `db/log_reader.cc`) | bytes in blocks | add a record, read records | log and manifest of `DBImpl` |
| leveldb: memtable index (`db/skiplist.h`) | nodes, heights | insert, search, iterate without a lock | memtable |
| leveldb: iterators (`db/db_iter.cc`, `table/merger.cc`) | positions, directions, the saved entry | seek and move both ways | readers |
| leveldb: table cache (`db/table_cache.cc`, `util/cache.cc`) | open tables, LRU list, references | find, release, evict | reads, merges, deletion of files |
| other pods | third-party | - | - |

The app does not switch persistence on, so at present leveldb is linked and not opened. It
is modelled because it is the one part of the repository that keeps data across crashes,
and because all of its source is here. The modules take it as Firebase opens it:
default options (no `reuse_logs`), `sync` off; the writers of the model use both
settings, since the engine promises something for each.

### What is hard, and what correct means

* **Feed.** All observers, the first one and those of every refresh, write the one
  list: `observeUser` appends and sorts, a refresh replaces it by its own list.
  Correct: no cached post is missing once the queues are empty; the newest refresh
  has the last word; row numbers counted at the last reload still fit the list that
  is indexed; a tap opens a post that is seen.
* **My posts.** Listeners multiply observers; the user can change; the delete dialog
  keeps a reusable table cell across reloads. Correct: every own post is listed,
  once, nobody else's is, and OK deletes the row and the post that was asked about.
* **Comments.** Comments arrive while the first events are being delivered. Correct:
  the screen shows exactly the comments of its post.
* **Session.** Answers come late, in any order, or with an error, to screens that
  may be gone; the login query is an observer that signs in again. Correct: the
  login screen is shown when nobody is signed in, only its own answer closes it,
  failures are reported, accounts have records, and a login with the right password
  succeeds.
* **User record.** Every screen that needs the user's name adds a listener and, for each
  user, an observer. Correct: the screens agree with the record, a post is signed with a
  name of its author, the name arrives, and "Post Success" means that there is a post.

* **leveldb, `DBImpl`.** Threads queue up behind one that writes for all of them without
  the mutex; a background thread flushes and merges without it; errors and crashes come
  between any two file operations. Correct: what was acknowledged is still found, with the
  promise that its `sync` flag gives; nothing that is needed is deleted; sequence numbers
  are unique; every call returns and the database can always be opened.
* **leveldb, versions.** Reads stop at the first level that has a key. Correct: newer
  entries are above older ones whatever is flushed and merged, files of a level are
  disjoint, snapshots keep what they saw, and compactions end.
* **leveldb, structures.** A log may end anywhere or have a hole; a skip list is searched
  while it grows; an iterator changes its direction; a table is opened twice or evicted
  while it is read. Correct: whole records in order and no others; nothing missed; a fixed
  view; a table open exactly as long as it is needed.

`PROJECT.json` lists the hazards with their lines.

## 2. Modules

| module | models |
|---|---|
| `PostsRef` | `/posts`, the cache, the main queue's `.childAdded` closures, and the operations on them |
| `Feed` (extends `PostsRef`) | `MainController` and its data source |
| `AuthState` | the current user and the auth state listeners |
| `MyPosts` (extends `PostsRef`, `AuthState`) | `MyCommentsController`, its table, dialog and edit form |
| `Session` | sign-up, login, Google, logout, account deletion, restart |
| `UserRecord` (extends `AuthState`) | `fetchUser`, the name in the navigation bar, profile, edit profile and post form |
| `CommentThread` | `CommentsController` and `PostCommentController` |
| `CommentBoard` | what the comments screen promises: the abstract specification that `CommentThread` implements |
| `Versions` | the pure part of `version_set.cc`: searching, choosing and merging files |
| `LsmTree` (extends `Versions`) | memtables, levels, snapshots, compactions: what a read finds |
| `LevelDB` | `DBImpl` with files, threads, errors, crashes and recovery |
| `LogFormat` | `log::Writer` and `log::Reader` |
| `SkipList` | the memtable's index, one memory access per step |
| `MergingIterator`, `DBIter` (extends it) | the iterators a reader of the database uses |
| `Cursor` | what an iterator promises: the abstract specification that `DBIter` implements |
| `TableCache` | `TableCache` over one shard of `LRUCache` |
| `MCFeed`, `MCMyPosts`, `MCSession`, `MCUserRecord`, `MCCommentThread`, `MCLsmTree`, `MCLevelDB`, `MCStructures` | instances for TLC |
| `PostsRefProofs` | lemmas about `/posts`, used by the next two |
| `FeedProofs`, `MyPostsProofs`, `SessionProofs`, `UserRecordProofs`, `CommentThreadProofs`, `LevelDBProofs` | the theorems of section 4, each module about the one it is named after |
| `StructuresProofs` | the theorems about `SkipList`, `TableCache` and `DBIter` |

Definitions called *Faulty* are mistakes one could plausibly make in the code. They
are not part of any specification; each breaks one property when it takes the place
of the definition that follows it.

### PostsRef

`db` is the node `/posts` on the server together with this device's own writes;
`view` are the keys of the children in the app's cache; `events` are the closures on
the main queue, each the number of its registration and the post it is handed.

* Registration r is the r-th observer that the database queue has carried out. A new
  registration is sent every cached child in key order (`observe`, from
  `FView.initialEvents`). A child entering the cache is sent to every registration in
  the order of registration (`AddedEvents`, from `FEventGenerator`).
* A write of this device changes the cache in the same call (`here = TRUE`); one of
  another device changes only `db` and arrives later, or never (`ChildArrives`).
* An edit is `updateChildValues`: no `.childChanged` observer exists, so it raises
  nothing, unless the node is gone, in which case the three values make a new child
  without author (`editUserPost`).
* A removal raises nothing; what was already raised stays on the queue. Another device's
  removal and its arrival in the cache are one step, so the properties about deleted posts
  are about deletions that the cache has seen.
* A post's date is the rank of its date text, since the lists compare texts; an edited
  post's text begins with "Updated on", which is greater than all month names.
  `Sorts` yields every arrangement that is in order: Swift's `sort` promises nothing
  about equal elements.

### Feed

`newPosts[r]` is the array that refresh r's closure captures, `Registered` the number
of observers carried out, `requested` those asked for. `Deliver` is one closure of
`observeUserPost`: it appends and sorts (`observeUser`) or appends to the refresh's
own array and assigns it (`RefreshClosure`), and reloads. `rendered` are the rows that
the collection view took at its last reload. A search text is the set of titles it
matches. `Relaunch` ends the process at any moment.

### AuthState

`authCalls` are the calls of auth state listeners on the main queue, `told[l]` the
user listener l was last told of (`FIRAuth.addAuthStateDidChangeListener` runs its
closure only when the user differs). A call reads the current user when it runs, not
when it was queued. `authCalls` and a module's database closures are two queues, though
both are on the main queue: the modules allow every order between the two.

### MyPosts

A told listener makes an observer for that uid, which drops the posts of others
(`fetchCurrentUserPost`). `alert` is the delete dialog:
the OK closure holds the tapped cell, and `reloadData` deals visible cells out anew,
so `cell` and `row` may change while `asked` does not. UIKit does not say which cell
gets which row: every outcome is allowed. `SignIn` may come at any moment and over another
user, since `loginUser`'s permanent observer signs in by itself (see `Session`); `SignOut`
may come whenever somebody is signed in, as an account deletion is answered late.

### Session

`calls` are requests the authentication server has not answered, with the login screen
(`vc`) that made them; they are answered in any order, and with `NetworkFails` perhaps
with an error, which does not tell whether the server did what it was asked: an account may
be made or deleted all the same. `observers` and `values` are the observers of `loginUser`'s query and
their events. `login` is the number of the login screen shown (0: none), `presented`
counts them, so that a late answer's screen can be told from the one shown. The
library's change of `currentUser` and the completion that the app passed are one step:
nothing of the app runs between them; only a restart (`Relaunch`) may find that the server
carried out a call (`MayBeDone`) and the library saved its user before the completion ran.
`handleLogout` includes the branch in which Auth's `signOut` throws. `Dismiss` is UIKit's: a screen that presents a
sheet dismisses the sheet, and one that is not shown dismisses nothing.

### UserRecord

`records` is `/users` with this device's own writes, `view` the cache of it, `observers`
the `observe(.value)` calls, `registered` how many the database queue has carried out,
`values` their closures on the main queue and `fetched[l]` what listener l's caller was
last handed: `fetched[1]` is the name in the navigation bar, `fetched[profile]` the
profile's `userInfo`, `fetched[form]` the open form's `username`. A record's fields are
one value, as `updateUserInfo` writes all that the screens show at once. A new observer is
handed the cached record at once, or else when it arrives. Google users have no record
until they edit their profile. `SignInAgain` is `loginUser`'s permanent observer, which
`Session` models in detail; here it may sign in any user with a record, logged in before
or not. The forms leave out their texts: a submitted or saved text is any value. The
counters `uploads` and `successes` compare what is written with what the user is told.

### CommentThread and CommentBoard

`stored`, `view` and `events` are as in `PostsRef`, for `/comments`. A closed screen's
observer goes on in the code, but writes only into that dead screen's array; the
module forgets it. `CommentBoard` has four actions: a comment is written, a thread is
opened or closed, or one more comment of the open thread is shown. `ImplementsBoard`
maps `stored` and the set of listed comments to it.

### Versions and LsmTree

An entry is a user key, a sequence number, and whether it deletes; its value is its
sequence number. A file is a number and its entries, a version the files of each level,
and a size a number of entries. `Versions` follows `version_set.cc` function by function:
`FilesToSearch` is `Version::Get`, `PickLevelForMemTableOutput`, `GetOverlappingInputs`,
`AddBoundaryInputs`, `SetupOtherInputs`, `IsTrivialMove`, `IsBaseLevelForKey` and
`DoCompactionWork` are their namesakes. `Fuller` compares the scores of two levels, which
the code keeps as floating point numbers, as fractions.

`LsmTree` adds the state. A merge is two steps: `BackgroundCompaction` takes inputs,
version and oldest snapshot, `InstallCompactionResults` installs the outputs; writes,
snapshots and `CompactMemTable` (the code calls it from the merge's loop) come in between.
How many writes fill a memtable and how many seeks use up a file is left open, so every
order of flushes and compactions is covered. `history` is only there to say what a read
should find.

### LevelDB

A step is what a thread does while it holds the mutex, or one file operation. `logs` and
`manifests` are sequences of records with the number that is synced, `tables` are written
and synced as a whole. `bg` is where the background thread is (`scheduled`, `build`,
`merge`, `sync`), `pc` where each writer is (`waiting` in the queue, `room` in
`MakeRoomForWrite`, `bgwait` on the background thread, `sync`, `apply`). Opening is a
sequence of steps too, so that a crash may interrupt it: `Recover`, `RecoverLogFile` for
each log, `NewLog`, `WriteSnapshot`, `SetCurrentFile`, `Open`, and before them `NewDB`.
Firebase's `createDB` answers every error of `DB::Open` by deleting the database
(`purgeDatabase`, one step) and opening a new one: `OpenDamaged` when the files are bad,
`OpenFails` when the lock, the disk or any file operation of the opening fails. A second
failure is an exception, i.e. a `ProcessCrash`.

Every memtable becomes one table of level 0 and a merge takes all tables: which files and
entries is the subject of `LsmTree`. The append to the manifest is one step with what
precedes it, since a crash between the two leaves the same as a crash that loses the
append.

A failed append leaves the log `torn` until the next one is begun: `AddRecord` then chooses
whether the reader will find the record (which ones it does not find is the subject of
`LogFormat`). `promised` are the acknowledged writes that an end of the process leaves,
`synced` those of them that an end of the machine leaves too: the ones that asked for
`sync`, and all that a flush has put into a table. `risked` are the acknowledged ones whose
record is unreadable; a flush makes them promised (`FlushedKept`), an end of the process
before it loses them. `OpenFails` empties all three: what a purge deletes is gone.

A version is what replaying a manifest's edits gives (`Replay`): a table is in level 0 or 1
when some edit adds it there and no later edit deletes it.

What the file system does is assumed: a crash of the process loses nothing that was
written; after a crash of the machine some prefix of each log and manifest is left that has
all that was synced; a synced table is there; the rename of `CURRENT` is atomic and lasts.

### LogFormat, SkipList, MergingIterator, DBIter, TableCache

* `LogFormat`: a byte knows the fragment it belongs to and its place in it, and a checksum
  fits only the bytes of one fragment in order. `AddRecordFails` stops after any byte and
  moves `block_offset` as the code does. `ReadUpTo(n)` reads the file cut after n bytes.
* `SkipList`: `Insert` and `Link` are the writer, one level at a time; a reader's
  `SearchStep` reads one pointer. `max_height_` is read without order: a reader may see
  any value it has had.
* `MergingIterator` has two children, the memtable's iterator, whose entries grow, and a
  table's. `DBIter` makes one move of it per step, and a writer may insert between any
  two. `ImplementsCursor` maps the entries the snapshot sees to `Cursor`'s fixed view.
* `TableCache`: the cache's mutex makes `Lookup`, `Insert`, `Release` and `Erase` one step
  each; opening a table is between two of them. A file is evicted when no version has it,
  so nobody is reading it.

`MCStructures` runs the four side by side: `which` is chosen at the start and only that
one moves.

## 3. Runs

| run | what it shows | result |
|---|---|---|
| `feed` | `TypeOK`, `RenderedIsCurrent`, `NothingLost`, `NewestRefreshWins`, `SortedUntilRefreshed`, `OpensWhatIsShown`, `EventuallyListed`, `RefreshDropsDeleted` | holds |
| `my_posts` | `TypeOK`, `DeletesTheRowItShows`, `OwnPostsListed`, `ListedOnce`, `NobodysPostsHaveNoRow` | holds |
| `session` | `TypeOK`, `SignedOutMeansLogin`, `SignInFindsRecord`, `LateAnswersKeepTheScreen` | holds |
| `session_live` | `LoginSucceeds`, on a network that works | holds |
| `comments` | `TypeOK`, `ThreadIsExact`, `ImplementsBoard`, `EventuallyShown` | holds |
| `user_record` | `ShowsOwnRecord`, `FormHasOwnName`, `NameArrives` | holds |
| `lsm` | `ReadsTheLatest`, `NewerAbove`, `LevelsAreDisjoint`, `CompactionsSink` | holds |
| `leveldb` | `TypeOK`, `AcknowledgedSurvive`, `LiveFilesExist`, `SequencesUnique` | holds |
| `leveldb_live` | `WritersReturn`, `Reopens` | holds |
| `structures` | `ReadsWholeRecords`, `NeverInvents`, `SearchMissesNothing`, `OpenWhileUsed`, `ImplementsCursor` | holds |
| `my_posts_cell` | `DeletesWhatWasAsked` | violated |
| `log_torn` | `NoWritesLost` | violated |

The two violations are disagreements between the code and what its comments or its texts
say; `PROJECT.json` quotes the lines:

* `my_posts_cell`: a post delivered while "Are you sure you want to delete this post?"
  is open reloads the table; the cell that OK reads may by then hold another post.
* `log_torn`: an append to the log fails, say because the disk is full. The write returns
  the error, `block_offset_` has moved all the same, and further writes are taken and
  acknowledged. At the next start the reader meets the hole, drops the rest of the block
  as its checksums do not fit, and with it acknowledged writes, though
  `include/leveldb/options.h:174` promises that none is lost when only the process ends.

### Bounds

* `feed`: two posts, a date and its later "Updated on" text, three observers, one edit,
  one restart. Two posts are enough for a
  list that is wrong in order or in membership, and three observers for an older
  refresh to come between the first observer and the newest. The proofs of section 4
  hold without these bounds.
* `my_posts`: a post of each of two users, two listeners, and two changes of the user, each
  a sign-out, a sign-in or a sign-in over another user, at any moment, or one of them and an
  edit (`MaxChanges`, in `MCMyPosts`). `OwnPostsListed` and `ListedOnce` were also checked
  with three changes of the user (7.8 million states), and with two and an edit, which takes
  too long to be kept. The second listener gives refreshes; two posts in the list come from
  the same post delivered twice. `my_posts_cell` takes two posts of one user.
* `session`: a password user and a Google user, three login screens, two attempts, one
  record change, one deletion, one restart. Two attempts are the least for a late answer
  to meet a screen that did not ask for it, and for a login after a sign-up whose answer was
  lost.
* `user_record`: a password user with or without a record and a Google user without one,
  two record values, three listeners (the navigation bar with a profile and a form, or with
  two forms), one change of user, which may come at any moment, and one change of a record.
  Each of the three starts of the launch (nobody, either user) is covered.
* `comments`: three comments, two threads, two dates: a comment before, one during and
  one after the registration, of equal and different threads and dates.

* `lsm`: three keys, three levels, files of one entry, four writes, one snapshot. With
  files this small a user key lies across two files, a level is full after one or two, a
  compaction grows, and an output is cut at its grandparents; four writes are enough for a
  key to have two entries in each of two levels with another key between them.
* `leveldb`: a writer that syncs and one that does not, memtables of one entry, five
  writes, crashes, closings, failed opens, other failures and iterators together (`MaxSteps`). Two writes fill
  both memtables, a third waits, and two tables start a merge; that leaves two faults,
  e.g. a failed sync and the crash after it, or a crash and one more during recovery.
  `leveldb_live` has four, and a second table in level 0 already blocks a writer.
* `structures`: blocks of six bytes with headers of two, and records of 0, 1 and 6 bytes,
  so that a record fills a block exactly, leaves one byte (a trailer) or spans two; four
  records, two failed appends. Skip list: three keys, two levels, two operations of one
  reader (readers change nothing that another one sees). Iterator: every history of three
  writes to three keys, every split between table and memtable, one later write. Cache:
  three files, two threads, capacity one, four tables opened.

The counters (`MaxEdits`, `MaxObserve`, `MaxAttempts`, ...) are in the guards of the
actions they bound. Where a run has `CHECK_DEADLOCK FALSE`, a state in which all
counters are used up and everything is answered is a legitimate end.

### Fairness

Weak fairness is assumed only of the two queues (`Register`, `Deliver`, `loginUser`,
`fetchComments`, `fetchUser`, `observeValue`) and of the server (every call is answered,
perhaps with an error; comments and records arrive while observed). Nothing in the app blocks the main queue, and the
library answers every call at the latest with a timeout error. `Feed` does not even
assume that another device's write arrives. Users owe nothing. `LoginSucceeds` is
checked with `NetworkFails = FALSE`, since an error leaves the user signed out.

`LevelDB` has weak fairness of each writer that can go on, of the background thread, of
the steps of opening and of the end of a closing: threads are scheduled, a condition
variable wakes those it signals, and Firebase opens the database at its start. Nothing
obliges anyone to write, to read or to close, and failures need not happen.

## 4. Proofs

| theorem | statement |
|---|---|
| `FeedProofs!FeedRowsAreCurrent` | `Spec => [](TypeOK /\ RenderedIsCurrent)` |
| `FeedProofs!FeedType` | `Spec => []TypeOK` |
| `FeedProofs!FeedIsSorted` | `Spec => []SortedUntilRefreshed` |
| `FeedProofs!FeedOpensWhatIsShown` | `Spec => OpensWhatIsShown` |
| `FeedProofs!FeedNothingLost` | `Spec => []NothingLost` |
| `FeedProofs!FeedNewestRefreshWins` | `Spec => []NewestRefreshWins` |
| `MyPostsProofs!MyPostsType` | `Spec => []TypeOK` |
| `MyPostsProofs!MyPostsDeletesItsRow` | `Spec => []DeletesTheRowItShows` |
| `MyPostsProofs!MyPostsHaveAuthors` | `Spec => []NobodysPostsHaveNoRow` |
| `MyPostsProofs!MyPostsAreListed` | `Spec => []OwnPostsListed` |
| `MyPostsProofs!MyPostsListOnce` | `Spec => []ListedOnce` |
| `SessionProofs!SessionInv` | `Spec => []Inv` |
| `SessionProofs!SessionType` | `Spec => []TypeOK` |
| `SessionProofs!SessionShowsLogin` | `Spec => []SignedOutMeansLogin` |
| `SessionProofs!SessionRecords` | `Spec => SignInFindsRecord` |
| `SessionProofs!SessionKeepsTheScreen` | `Spec => LateAnswersKeepTheScreen` |
| `UserRecordProofs!UserRecordFormName` | `Spec => []FormHasOwnName` |
| `UserRecordProofs!UserRecordShown` | `Spec => []ShowsOwnRecord` |
| `CommentThreadProofs!CommentsType` | `Spec => []TypeOK` |
| `CommentThreadProofs!CommentsAreExact` | `Spec => []ThreadIsExact` |
| `CommentThreadProofs!CommentsImplementBoard` | `Spec => ImplementsBoard` |
| `StructuresProofs!SkipListSearches` | `SkipSpec => []SearchMissesNothing` |
| `StructuresProofs!TableCacheOpen` | `CacheSpec => []OpenWhileUsed` |
| `StructuresProofs!DBIterImplementsCursor` | `DBIterSpec => ImplementsCursor` |
| `LevelDBProofs!LevelDBType` | `Spec => []TypeOK` |
| `LevelDBProofs!LevelDBSurvive` | `Spec => []AcknowledgedSurvive` |
| `LevelDBProofs!LevelDBLiveFiles` | `Spec => []LiveFilesExist` |
| `LevelDBProofs!LevelDBSequences` | `Spec => []SequencesUnique` |

They hold for every value of the constants that the named `ASSUME`s allow: any finite set of
post or comment ids (numbers, for the key order), any users, titles and dates, any number
of observers, refreshes, sign-ins, edits and restarts, and any network; for the skip list
any non-empty finite set of keys and any height; for the table cache any finite set of threads
and any capacity, 0 included; for the iterator any keys (numbers above 0, which stands for the
empty key), any history and any snapshot; for `LevelDB` any writers and bounds, with no
assumption at all. So all safety properties that TLC checks on small instances are proved in
general, but those of `LsmTree` and `LogFormat`.

### The app

* `PostsRefProofs` proves once what each operation on `/posts` preserves (`RefInv(n)`:
  the node, the cache and the queue are well-formed and no event is for a registration
  after the n-th), that sorting keeps the posts and orders them, and that an
  enumeration in key order leaves no child out (an increasing function into a set of its
  own size is onto).
* Feed. `TypeOK` is not inductive alone: `didSelectItemAt` indexes a list with a row number,
  which is in range only because `RenderedIsCurrent`. The two are proved together.
* `NothingLost` speaks of quiet states only. What makes it inductive is
  `OwnListsComplete` (each refresh's own list together with the closures on their way to
  *that* refresh holds every cached child; this is needed because the refresh's next
  closure replaces the whole list by its own) and `ListComplete` (the same for `posts`
  and closures on their way to anyone).
* `NewestRefreshWins` needs `LastWord`: the newest refresh has never been handed
  anything, or the last closure on the queue is its own, or the queue is empty and the
  list is its list. It holds because every change is handed to the registrations in
  their order, and so to the newest one last.
* My posts. The dialog's part of the invariant (`AlertOK`) is that the row of the dialog's
  cell, unless the cell was reused for none, exists in `myPost` and holds the cell's post;
  it needs `ListsOK` (the table agrees with `myPost`, and only posts with an author are in
  the lists). `OwnPostsListed` needs three links: a listener was told of the current user
  or its call is on the queue (`ToldOrCalled`), a listener told of a user has an observer
  for her (`ToldHasObserver`), and each own post of the cache is in a refresh's list or on
  its way to that refresh's observer (`RefreshesComplete`). For `myPost` itself it is either
  so with the observers of `viewDidLoad`, or `myPost` has all that some refresh's list and
  the database have (`ListComplete`): a refresh replaces the list, so neither alone is
  preserved. `ListedOnce` assumes an order between the listeners (`ToldInOrder`): none
  is told of a user twice, and viewDidLoad's listener before a refresh's. So it observes the
  user first and is handed a post first (`InTurn`). Only the first listener's observers append to `myPost`; a post that is
  on its way to one of them is in no list yet, one on its way to a refresh's is not in that
  refresh's list (`Once`). A post with an author enters the cache once (`Fresh`).
* Session. `Inv` is `TypeOK` with `GoogleCalls` (Google is asked for Google
  users only: needed because a restored Google user becomes a call, and because an account
  made by a credential needs no record) and `NoDeletePending` (without a deletion so far, no
  deletion call is under way: its answer is the only one that signs a user out without a
  login screen, or takes a record away). `SignInFindsRecord` needs `RecordsFound` as well:
  records stay, so every sign-in that is under way, and every event that is still to tell
  `loginUser` of a record, is for a user whose record is there.
* User record. For `FormHasOwnName`: whatever is cached, on its way, or was handed to a
  listener has been in the record of a user whom that listener's observers observe
  (`CacheWasHeld`, `ValuesWereHeld`, `FetchedWasHeld`). For `ShowsOwnRecord`: if all registered
  observers of a listener are of one user whose record the cache knows, the last closures on
  their way to the listener have the cached record, and if none is on its way it was handed
  that (`Fresh`); the links from the current user to an observer are those of My posts.
* Comments. Every cached comment of the open thread is listed or on its way, never both and
  never twice (`OnTheWayOrListed`); a screen that is not registered has nothing on it
  (`NothingBefore`); the table is the list, ascending and without repetition (`Listed`).
  The refinement then maps each step: a write stores a comment, opening and closing are the
  board's, a delivered closure shows one comment or, for another thread's, stutters.

### leveldb

* Skip list. `WellLinked`: at every level the list ascends and leaves out no node of the
  level, and a node is on all levels below the ones it is on. `InsertionPoint`: the node being
  inserted is on the levels already linked, and `prev` is still its place on the others,
  since nobody else writes. `SearchPoint`: a search is at a node of its level before the key
  it looks for; so a step down or right passes no key that was there when it began.
* Table cache. `InOrder`: `refs` counts the users of an entry and the cache, the table has
  exactly the entries that are in the cache and none of a deleted file, the LRU list has those
  of them that nobody uses, each once, and `usage` counts them. After a push-out either `usage`
  is within the capacity or every entry in the cache has a user of its own, which is a
  one-to-one map into the threads; that bounds `usage` by the greater of the two. `refs` and
  list are those of the code, and no entry whose last reference went is ever used again.
* Iterator. For the merging iterator (`MergedOK`): every child stands at one of its entries, the
  children other than the current one on the side that the direction says, and none of them
  has passed an entry that the snapshot sees; entries that were inserted behind it do not
  matter, as their numbers are above the snapshot's. So each move goes to the next entry that
  the snapshot sees or to a newer one before it (`NextIn`, `PrevIn`). For `DBIter`, one part for
  each loop: `FindsNext` (no entry that is wanted is passed, every entry that was passed has
  its key skipped), `ScansBack`, `FindsPrev` (the entry saved is the newest of its key among
  those passed so far, and if a deletion was the last, nothing that is wanted is), and, for an
  iterator at rest after a move back, `StandsBefore` (it is just before the keys it shows).
  Wanted are the entries among which the cursor's answer is; a loop's end then finds the least
  or the greatest of them, and every other step leaves the cursor as it is.
* `LevelDB`. The parts of the inductive invariant `Inv`:
  * `Disk`: for *every* end that a crash of the machine can leave of the current manifest,
    the tables it names exist, and together with the logs from its log number on, or the
    synced part of them, they hold all promised, or all synced, writes. This is what a crash at any moment
    relies on, and what every append to the manifest must establish before it may be lost.
  * `Numbers`: no file in use has a number that is still to be handed out. A table under
    construction is therefore `Unread`: nobody who reads now or after a crash reads it, and so
    it may be written, or left unfinished, without disturbing anything.
  * `Recovered`: a recovery under way has, in its version and its edit, all it has read, and
    the rest of the promised writes are in the logs it will still read. It is interrupted and
    begun anew at any step.
  * `Engine`, `Acknowledged`: while the database is open the version is what the manifest
    says, unless an edit failed; every promised write is in `mem_` and its log, in `imm_` and
    the logs since `log_number`, or in a table of the version. After a failed edit the manifest
    may say more than the version; that is why no obsolete file is deleted after an error.
  * `Merging`, `Flushing`, `Background`: what the background thread's edit will delete, its
    output holds. `Iterators`: an iterator's tables exist and hold what it saw.
  * `Queue`, `Group`: only the front of the writers' queue is anywhere but waiting; the group
    it writes for is in the log, synced before it is acknowledged if any of them asked for it.
  * For `SequencesUnique`, beside `Inv` (`LevelDBNumbered`): in the memtables, tables and logs of a
    running database a number names one write, and none is above `last_sequence` but those of
    the group being written (`Numbering`); for every end that a crash can leave of the manifest
    the same holds of the tables it names and the logs it has read, and the tables have no
    number above the one the manifest records (`EndsUnique`, `EndsUpTo`); a recovery under way
    has seen the numbers of what it has so far (`Replaying`).

The strengthenings of the feed, of my posts, of the user record, of `LevelDB` (on all 238534
states of the run `leveldb`) and of the iterator (with two later writes, 5829788 states) were
checked with TLC before they were proved.

### Model-checked only

* Liveness is out of the prover's reach: `EventuallyListed`, `LoginSucceeds`,
  `RefreshDropsDeleted`, `EventuallyShown`, `NameArrives`, `WritersReturn`, `Reopens`.
* `LogFormat` reads recursively, and what a recursive definition computes for every input
  needs induction over data, which the provers cannot do. The same holds for the merge of
  `Versions`, a fold over the sorted entries, and for the loops that choose its inputs, so for
  `ReadsTheLatest`, `NewerAbove`, `LevelsAreDisjoint` and `CompactionsSink` of `LsmTree`.

## 5. Behaviour noted while modelling

These follow from the modules but no document says otherwise, or no run is kept:

* A refresh that is handed nothing keeps the old list: after the last post is deleted,
  a refresh leaves it on the screen (`MainController.swift:77-87`). This is why
  `NothingLost` is one inclusion only.
  `RefreshDropsDeleted` says that the refresh does its work as soon as there is a post.
* Editing a post that was deleted meanwhile makes a node without author and id
  (`FirebaseServices.swift:164`). It is listed in the feed but, as
  `NobodysPostsHaveNoRow` shows, never among one's own posts, where deleting it would
  raise an exception.
* After a refresh, a deleted own post is still in that refresh's `newPosts`, and the next
  own post brings it back to the list (`MyCommentsController.swift:61`).
* After another user has signed in, `myPost` keeps the first user's posts, and the first
  user's observers go on adding to it (`MyCommentsController.swift:71`).
* A refused sign-in has no user, so `loginUser`'s guard returns before the error is shown
  and the spinner dismissed (`FirebaseServices.swift:47`).
* The login screen is presented before an account deletion is answered; whoever logs in
  again meanwhile is signed out later with no login screen (`ProfileController.swift:88`).
  `SignedOutMeansLogin` is therefore stated up to the first deletion.
* `uploadPost` returns while the username is nil, which it is until the record is fetched
  and always for a Google user, and "Post Success" is shown (`PostController.swift:92`).
* `loginUser`'s observer is permanent: a later change of the user's record signs in again
  with the password typed then, after a logout and also while somebody else is signed in
  (`FirebaseServices.swift:43`).
* After another user has signed in, the navigation bar and the profile keep the first
  user's name until the new one's record arrives, for a Google user for ever, and a change
  of the first user's record puts her name back (`FirebaseServices.swift:94`). This is why
  `ShowsOwnRecord` is stated for one user since the launch.
* The edit profile form is filled when it opens and written back as a whole
  (`EditProfileController.swift:84`): a change made elsewhere meanwhile is undone, and after
  a change of user the form may offer the earlier user's data.
* With the reset password sheet open, an answer's `dismiss` closes the sheet and not the
  login screen (`FirebaseServices.swift:34,53`): the user is signed in behind it.
* A failed account deletion removes the user's record all the same
  (`FirebaseServices.swift:87`), and a lost answer, or a kill, between the server's creation
  of an account and the completion leaves an account without a record. `loginUser`, which
  looks for the record, then says "User does not exist\n Please signup with username and
  email" (`FirebaseServices.swift:57`), and a sign-up is refused, as the email is taken.
  `SignInFindsRecord` is therefore stated up to the first deletion, and says nothing of
  accounts that nobody signs in to.
* A user who is told to a listener twice, because she logged out and in again, has two
  observers, both of which append: her posts are listed twice. So they are when a sign-in
  over another user comes while a refresh's listener still waits for its first call: that
  listener is told of the new user first, its observer assigns its list, and viewDidLoad's
  appends the same posts to it (`MyCommentsController.swift:58-77`). `ListedOnce` is stated
  for the other cases.
* leveldb: `NewDB` does not sync the first manifest before `CURRENT` names it
  (`db/db_impl.cc:200`). A crash of the machine can leave a database that cannot be opened;
  Firebase then deletes it (`OpenDamaged`), and as `AcknowledgedSurvive` shows no
  acknowledged write can be in it yet, since opening writes a second, synced manifest.
* leveldb: `createDB` deletes the database after *any* error of `DB::Open`
  (`FLevelDBStorageEngine.m:278-286`), also when it is sound and only the disk is full or
  the lock is held. Synced, acknowledged writes are then gone; `AcknowledgedSurvive` counts
  them as lost (`OpenFails`).
* leveldb: when a flush inside a merge fails, the merge goes on to its end and its result
  is installed (`db/db_impl.cc:912`), while writers already get the error.
* leveldb: a manual compaction cuts its inputs at a size limit (`db/version_set.cc:1472`),
  after which `SetupOtherInputs` may add files beyond the cut. Nothing in Firebase calls
  `CompactRange`, so it is not in the modules.
* Account deletion does not sign out of Google, and the login screen it presents
  restores the Google user, which makes the account anew.

## 6. Not modelled

* What cells draw, layout, colours, keyboard, animations, settings and unused screens.
* The characters of the date texts. They are planned.
* The profile's link to Safari and Google's `didDisconnectWith` message, which change no
  state, and `updatePassword`, which nothing calls.
* Database errors and security rules: the code ignores the results of its writes.
* The Firebase libraries beyond the order of events: transactions, reconnection, queries,
  tokens, and the tables in which persistence keeps nodes (the app does not enable it).
* leveldb: the byte format of tables, blocks, filters and version edits, compression,
  checksums (a checksum fits or it does not), `env_posix.cc` (system calls), `repair.cc`,
  the C bindings, statistics and properties, manual compaction and `reuse_logs`, which
  Firebase does not use. `RecordReadSample` charges the same files as `UpdateStats`.
* The other pods. By far most of their lines here are public headers, i.e. declarations and
  comments (`FirebaseAuth`, `FirebaseDatabase`, `GTMSessionFetcher`, `MaterialComponents`,
  `GoogleUtilities`), or closed binaries with headers only (`FirebaseAnalytics`,
  `GoogleSignIn`); declarations change no state and there is nothing to translate. The rest
  are codecs (`nanopb`'s `pb_encode.c` and `pb_decode.c`), whose questions are about bytes
  and pointers, and wrappers of network and drawing calls.

## 7. Plan

Done in this order: `PostsRef` and `Feed` (the most used screen), `MyPosts`, `Session`,
`CommentThread` with its abstract specification, the proofs about the feed and the
session, `UserRecord`, then leveldb: `LogFormat`, `Versions` and `LsmTree`, `LevelDB`,
`SkipList`, the iterators with `Cursor`, and `TableCache`.

Then the proofs about my posts, the user record, comments, the skip list, `LevelDB`, the table
cache and the iterator.

Next:

1. Date texts: the order of `TimeString`'s texts against the order of time.
2. Composition: one module in which `Session` drives the auth listeners of `MyPosts` and
   `UserRecord` and the overlay of `Feed`.
3. Proofs: `LsmTree`, once the merge's fold and the loops over input files can be reasoned
   about.

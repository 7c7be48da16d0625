# ANKIGTA in TLA+

ANKIGTA ties Anki cards to places in GTA: San Andreas (MTA). A player walks up to an object, a card opens
on his screen, he rates it, and Anki records the rating. Three programs take part:

- **the companion**, an Anki add-on in Python (`src/companion/ankigta_companion`): an HTTP server on
  localhost that starts study sessions over a filtered deck, renders cards and rates them;
- **the MTA server resource**, in Lua (`src/mta/ankigta/server`): the SQLite store of Map Entities and
  Spatial Links with its Change History, the gateway to the companion, and the authority over what is open;
- **the MTA client resource**, in Lua (`src/mta/ankigta/client`): Review Mode, the F7 panel, activation by
  place, and drawing.

## Inventory

| Component | State it keeps | Operations | What is hard about it | Correct when |
|---|---|---|---|---|
| Review coordinator, journal (`review.py`, `journal.py`) | outcomes in memory; journal rows in SQLite | rate, reconcile, collect_garbage | threads of one server, crash between any two writes and Anki's own, resends | no transaction rates twice; "applied" is true; memory and journal agree |
| Study session (`session.py`) | status, admitted card, membership; Anki's filtered deck and its owner mark | start, rebuild, admit, restore, cancel, pause, stop | each Anki call may fail; a build outlives its timeout; the user has decks of his own | no card is stranded, no foreign deck touched, the announced deck stands |
| HTTP server (`http_server.py`, `contract.py`) | threads | routes over the other components | concurrency of what it calls | as above |
| Connection manager (`connection.py`, `connection_config.py`) | listener, settings file, published file | start, manual, automatic, select folder | one step of four failing, rollback that fails | one listener, which matches what is published and persisted |
| Add-on lifecycle (`lifecycle.py`, `lifecycle_study.py`, `arbitration.py`) | observation, generation, study phase | Anki's hooks, deferred timer | a collection reopened before the timer; Anki's reviewer against a session | never reports a closed collection open; never two study modes |
| Collection identity (`collection_identity.py`) | registry, UUID in the collection | observe, bind, decide copy | copies, a registry that cannot be saved | two present collections never share a UUID |
| Content server (`content.py`) | one capability, its budget | issue, close, GET | replaced while a page loads | a token shows one card's one side, within its budget |
| Gateway (`server/companion.lua`) | pending requests, outcomes, generation | health, sessions, renders, ratings, search | timeouts, late answers, fetchRemote refusing | no late answer changes anything |
| Review Mode (`client/review_mode.lua`, `server/main.lua`) | the client's Review table, `openReview` | open, reveal, return, rate, dismiss | two channels and HTTP answers out of step | one card open, the player saw the answer he rates, "applied" is true |
| Store, Change History (`server/store.lua`) | SQLite tables, cursor | link, unlink, replace, relink, metadata, overrides, settings, forget; undo, redo | each operation written three times; writes beside the history | undo restores what the player saw; the cursor stands |
| Backups (`server/backup.lua`) | copies, manifest, restore journal, quarantine | daily, pre-migration, restore, recover | interrupted renames and torn files | there is always a whole copy |
| Map identity, world (`server/map_identity.lua`, `world.lua`) | pending saves | pending save, copy decision, presence | saves by the Map Editor between two looks | a link is activated only for what was saved |
| Study loop (`server/main.lua`, `client/spatial.lua`, `client/activation.lua`) | candidates, zone states | refresh, enter, leave, key | stale candidates | a card opens once per approach and is the one linked |
| Panel, layout, marks, labels, settings, statistics, teleport | client-side presentation | forms and drawing | | |

The companion's state is shared by the threads of its HTTP server; client and server exchange MTA events,
which keep their order in each direction; the server calls the companion with `fetchRemote`, whose answers
may be lost, late or refused.

## Modules

| Module | Models |
|---|---|
| `RatingOnce` | what the rating service promises: a transaction is rated at most once, and told "applied" only if it was |
| `ReviewCoordinator` | `review.py`, `journal.py` and the rating handler, one step per statement that another thread or a crash can come between; implements `RatingOnce` |
| `ReviewCoordinatorProofs` | its theorems |
| `SessionCoordinator` | `session.py` over Anki's deck, with its build threads |
| `ReviewMode` | Review Mode between clients, server and gateway |
| `Store` | the journalled store, Undo and Redo |
| `Connection` | `connection.py` and `connection_config.py`: where the companion listens and the file that tells MTA, with MTA's reading of it |
| `AddOn` | `lifecycle.py`, `collection_identity.py` and the way the card and note routes come to a collection |
| `Backup` | `backup.lua` and the opening of the store, one step per file operation |
| `SessionProofs`, `ReviewModeProofs`, `StoreProofs`, `ConnectionProofs`, `AddOnProofs`, `BackupProofs` | the theorems of each |
| `MC*` | small instances for TLC: identities, symmetry |

### ReviewCoordinator

A worker is a thread of the HTTP server serving one request. Its record holds the locals of `rate()` and a
`pc` that names its next action: look the outcome up, test for an unresolved transaction, test the admitted
card, test the scheduler's top, find or insert the intent, mark the start, call Anki, record the result,
remember it, restore the session, respond. `rows` is the SQLite table, `outcomes` the coordinator's
`_outcomes`, `revlog` how many times Anki has rated for each transaction and `acked` the clients that were told
"applied" (both history variables: Anki's log has no transaction column). `recon` is the reconcile call, a walk
over the blocking rows read at its start. `Crash` loses memory and workers and keeps the journal and Anki's log;
`Restart` opens the database and serves ratings at once. Nothing in the repository reconciles at startup
(`StudyLifecycle.on_reconnected` calls a reconcile it is handed), so `ReconcileBegin` may happen at any time and need never
happen. An error of the journal leaves the row as it was (`JournalFault`) or comes after the commit, when the row is read
back (`ReadBackFails`); a reconciliation may raise at any record, before or after its write (`ReconcileFails`), and
`phase` then says `lapsed`: what it had settled is in the journal and not in memory. What Anki's log tells the evidence lookup
is external: it never lies, and it may always fail to tell.

Two assumptions of the deployment are constants, so that runs and theorems can name them:
`ConcurrentRepeats` (one transaction served by two threads at once) and `ReconcileWhileServing`.
The gateway sends one transaction at a time and waits for it, so most theorems assume that there is neither;
`ReviewRepeat` allows the first, and the theorems `TypeCorrect` and `AppliedWasRated` both.

### SessionCoordinator

`op` is the request each worker serves, `build` the build threads, `deck`/`marker` Anki's deck of that name and
ANKIGTA's mark in the collection's configuration. Making the deck, marking it, filling it and the steps
of cleanup are separate because each is an operation of Anki that can fail, or be the last before a crash.
`Timeout` leaves the thread running (`abandoned`). `TopFails` is Anki's scheduler raising when it is asked for its next card:
the admission ends half done, the session is left with the one card, and the next admission forgets the rest.

`AnkiFilteredDeckBackend` does not make the deck itself; it calls what it was constructed with, and `adapter` says what that is.
A *saving* adapter makes the deck it is asked for, as the one of `tests/test_session.py:220-223` does
(`BuildCreate`, `BuildFill`). The one of `from_collection` *drafts* it: `create` names a deck that it never saves and returns
the draft's id, 0 (`BuildDraft`); that is what `BuildMark` writes; and `rebuild` asks for deck 0 again, is given another draft and
saves that one around the cards, with an id and a name of Anki's choice (`BuildFillDraft`). Those cards are in `loose`. Everything is checked
and proved with both. What needs a deck to be found says `Saving`, and `SessionDraft` shows what becomes of the other.

`disturbed` remembers that a request began beside another one or beside an abandoned build, or that a cleanup
failed: the code makes no promise after these, and the properties that need it say so. A timeout alone does not disturb,
and neither does the build that goes on after it: it may create, mark and fill the deck while its caller cleans up or after
that. `ForeignDeckUntouched` holds of disturbed sessions too.

### ReviewMode

`client[p]` is the `Review` table of one client, `openReview` that of the server, `session` the gateway's slot
for session requests, `txs` its pending ratings and recorded outcomes. `toClient[p]` and `toServer[p]` are the two
ordered event channels. A render may be answered, fail or time out; a rating may be answered, garbled, time out
or be applied after the timeout (`inAnki`). A transaction carries the card whose answer was on screen
at the click, so that `AnswerSeenFirst` can compare the two. Where the code leaves something to the
player's settings (close after rating) or to MTA (a browser that cannot be made), both ways are open.

### Store

`db` is the tables, `history` and `cursor` the Change History. A change and its entry are one transaction,
so one step; `ForeignKeys` is what SQLite's foreign keys (switched on at opening) demand of a commit. The
entries keep, besides `before` and `after` as the code writes them, the views of the store they led from and
to, so that `HistoryReverses` and `OneLine` can say what Undo owes the player. Writes beside the history (`Unjournalled`) are what map scans,
adoption, card checks and collisions do. Where the code drops the undone branch (`id > cursor`) the module keeps the
prefix of the list that ends at the cursor, which is the same because ids grow along the list and the cursor
stands in it (`Ordered` and `Stands`, proved). Name and tag are one text, the overridable settings one override,
the settings in the history one setting; authored coordinates and checksums never change here.

### Connection

A change of the connection binds the listener at once (`Switched`, `SwitchFails`) and then writes: `op.pc` walks
through copying the last-known-good file aside (`CopyPrevious`), replacing the published file
(`ReplaceCurrent`), removing a copy that never validated (`UnlinkPrevious`) and saving the settings
(`Persist`). `StepFails` is any of these raising: the operation then ends as its kind does (a folder is only
reported, a start stops the manager, the others go to `Restore`, which may itself fail). `busy` is the ports
other programs hold; a port may be taken in the moment its listener has stopped. Two history variables name what
the code does not promise: `unsettled` (a change stopped after it had replaced the published file, or a file was
spoilt, and nothing has got through since) and `denied` (the port the listener had to go back to was taken).

### AddOn

Anki's main thread is `stage`: loading a collection, open, paused for a sync, closing, away. The hooks are its actions
(`Opened`, `WillClose`, `WillPause`, `Unload`), the dialogs' two are `Bind` and `Decide`, and
`MarkAbsent(g)` is the deferred call that the closing hook leaves in Qt's event loop, with the generation it was
made for. A file has an `id` (`st_dev` and `st_ino`) beside its uuid, so that a copy, a move and a
replacement are told apart as `_file_identity` does. `Points` names the write or read of an observation that fails.
A request of a worker is two reads of shared state: `AskBound` or `AskUpdate` takes the identity from the
observation, `Take` takes `mw.col`; hooks come between them. `overtaken` is a history variable: a
hook, a decision or a binding came after the request had read the identity.

### Backup

`op` is the call in progress (opening, a copy, a restore) with the values its locals have and a `pc` per
file operation; each may fail (`faults`), and the server may stop between two (`Exit`) or in one that writes
(`CutShort`: the file is then torn, empty or has a phase nobody knows). MTA's `fileRename` fails when a file of the new
name exists, so a taken quarantine number refuses the restore. `Publish`, `Aside` and `TakeName` are the
renames. `lost` says that the journal went in being written, the case in which nothing is promised and which
`BackupEmptied` is about. A day is the set `taken` of copies made today; the time, the sizes and the
manifest's list of quarantined files are left out. `build` may grow at a restart, which is when a migration, and the copy
before it, happens.

## Runs

| Run | Expect | Bounds | Shows |
|---|---|---|---|
| `ReviewConcurrent` | pass | 2 workers, 2 transactions, 2 cards in 2 collections, 1 resend, 1 crash; symmetry over workers and transactions | type, `AtMostOnce`, `AppliedIsTrue`, `MemoryMatchesJournal`, the inductive invariant `IInv`, `CompletedForever`, refinement of `RatingOnce` |
| `ReviewRepeat` | violation | 2 workers, 1 transaction at once | two ratings for one transaction |
| `Session` | pass | 2 workers, 2 build threads, 2 cards, both adapters, 2 starts, 1 crash, 1 overlap; symmetry over cards, workers and threads | five properties of the deck |
| `SessionStranded` | violation | 1 worker, 2 cards, saving adapter | stop leaves cards in the owned deck |
| `SessionDraft` | violation | 1 worker, 2 cards, drafting adapter | stop leaves cards in a deck nobody owns |
| `ReviewMode` | pass | 2 players, 2 cards, 2 ratings, 2 openings, 2 clicks, 1 event under way each way (and a close) | five properties of Review Mode |
| `ReviewAwaits` | violation | 1 player, 1 card | a rating given twice is never answered |
| `Store` | pass | 2 entities of one map, 2 cards, 2 places, 3 changes, history limit 2, 1 other write | five properties of the Change History |
| `Connection` | pass | 3 ports, 2 tokens and the empty one, 3 revisions, 2 faults, 1 restart, 2 busy ports | the listener, what MTA dials and what is published agree; the published configuration is never lost |
| `AddOn` | pass | 2 profiles, 1 worker, 3 files, 2 uuids, 3 openings, 1 file moved or deleted, 1 fault, 1 restart | a reported identity is true, no copy takes a uuid, a request works on the collection it named; under fairness `AbsentReported` |
| `Backup` | pass | 5 numbers, 4 changes, 2 schemas, 2 faults, 3 ends of the server, limits 2 daily and 1 pre-migration | four properties of copies, journal and quarantine |
| `BackupEmptied` | violation | 3 numbers, 1 change, 1 schema, 2 faults, 2 ends | an empty database beside a quarantined one |

Why these are enough. *Review*: an anomaly needs one transaction interrupted and one repeat of it, and two
transactions to disturb each other; a third worker or transaction repeats a pair. A bogus rating and two
collections reach every refusal. *Session*: Anki has a single deck of that name; a second worker or thread meets it
at every step. Two cards tell a whole membership from the admitted card. Two starts give an abandoned build a later
one to meet. Two bounds keep the run finite in time: requests overlap only until the first session was started
(`OverlapStarts` = 1), and once disturbed nothing overlaps and no session starts (`PastDisturbance` = FALSE), so
it does not race two starts; the theorems hold for every value of the two. *ReviewMode*: a stale event needs
one earlier opening (2), another card (2) or another player (2); a result for an earlier rating needs two
clicks. *Store*: a limit of 2 and 3 changes make the history overflow, with Undo into the entry that became the
oldest; a relink needs a link, a missing entity and the relink itself, within 2 changes and 1 other
write, and one more change follows it. *Connection*: three ports are the old one, the new one and a third to fall back to;
three revisions are the first configuration, its successor and one that is confirmed between
them and a failure. *AddOn*: an original, its copy and a copy that takes the place of either are three files; two uuids are the
one that is copied and the one that is assigned; three openings close one collection, open another and come back before the
timer. One worker is enough because requests share nothing but what the hooks write. *Backup*: with limits of 2 and 1,
numbers to 5 let both kinds overflow and let a number be used again after a manifest that was lost; three ends
stop a copy or restore, its recovery and one later call; two faults damage the database and break one
operation of the restore that follows.

Symmetry is used only in runs without liveness, over values that no definition or property tells apart.

Every bound is a constant named in its module: `MaxResends`, `MaxCrashes`, `MaxStarts`, `MaxDecks`, `OverlapStarts`, `PastDisturbance`,
`MaxOpenings`, `MaxRatings`, `MaxBacklog`, `MaxChanges`, `MaxEvents`, `MaxRevision`, `MaxExits`, `MaxFaults`,
`MaxBusy`, `MaxFiles`, `MaxUuids`, `MaxMoves`, `MaxOpens`, `MaxId`, `MaxSchema`. Deadlock is switched off where
the system may stop: in `ReviewMode` nothing need happen after the last opening, in `AddOn` Anki may stay closed, in `Backup`
the server may stop for good or refuse to open its store.

### Fairness

Only two modules state any. `ReviewMode!FairSpec` makes events be delivered (MTA's
channels are reliable) and timers fire; no player, companion or answer is fair. `AddOn` assumes only that Qt's event loop runs a
deferred call some time; no hook, dialog or request is fair. Of the
review coordinator nothing is assumed to happen: no code makes anything settle what a crash left behind.

## What does not hold

- **`AtMostOnce` with `ConcurrentRepeats`** (`ReviewRepeat`). The lookup and the intent are not atomic and
  `record_intent` accepts the row that is already there.
- **`NothingStranded`** (`SessionStranded`). `pause()` cleans only when `filtered_deck_created`, which every build
  resets and only an operation that succeeds sets again: it is False after a build that timed out, failed or was cancelled, while
  the owned deck stands with cards in it.
- **`CardsGoHome`** (`SessionDraft`). With the adapter of `from_collection` no deck "ANKIGTA Session" ever exists and the marker is 0;
  `cleanup()` looks for that name, finds none and returns. Every session that ends leaves its cards in a filtered deck with a name Anki
  chose, without any failure on the way.
- **`EveryRatingAnswered`** (`ReviewAwaits`). `requestRating` takes any earlier rating of that card with that
  button for a repeat and raises no event, while the client waits and refuses to dismiss.
- **`NotInvented`** (`BackupEmptied`). The restore journal is rewritten by truncating it. When the server stops
  there, after the database was moved aside, the next opening finds no journal and no database and makes an empty one;
  `docs/operations/backups-and-recovery.md:59` says that it never does. The original is in quarantine and the copies are there.

Found while modelling and not stated as runs:

- *Review*: `unresolved()` blocks every card, where `CONTEXT.md` and ADR 0008 speak of the affected one; two
  different transactions may both pass it. `mark_applied` is never called. After a crash between the intent and the rating,
  `journal.py:293-306` calls the row safe to resend under the same id, while `unresolved()` counts that very row as
  blocking: the resend is refused, and the branch for too many resends can never be reached.
  The docstring of `journal.py` (290-296) says that reconciliation is "called on startup"; nothing calls it there. A reconciliation that
  raises half-way leaves an *outcome unknown* in memory over a row it has completed; memory is preferred to the journal, so
  every rating is refused until the add-on restarts (the exception in `MemoryMatchesJournal`).
- *Session*: an error of Anki's scheduler after the one-card build leaves the session with one card, and nothing comes back to the
  whole membership (`TopFails`); a failed start leaves the status "rebuilding"; pausing does not clear the admitted card; a crash between
  creating the deck and marking it leaves an unowned deck under the name, which makes every later start
  collide (empty, so `CardsStayFindable` holds).
- *Review Mode*: a first render that fails or times out leaves `openReview` set until the player quits; a
  failed render is told in the event of a rejected rating, so it unblocks the buttons while a rating is in
  flight (the exception in `OneAcceptedRating`); a result is told to whoever has the card open by then; the close of a render gets an answer
  without a session and is reported as a protocol error.
- *Store*: a chain of Redo can be refused for good (remove E, adopt E again, link E, undo twice, redo both: the
  link has no entity); undoing a removal does not bring an identity collision back; Undo and Redo do not
  make a daily backup due.
- *Backup*: a stop between the last rename of a restore and the manifest loses the quarantine number. The next restore takes
  the same number, its rename meets the file that is there, and so does every later one: while the database
  stays damaged no restore gets through, and a store in recovery takes no copies either. A second
  restore that stops in its copy, when an earlier journal still says *quarantined*, has its unverified
  half copy put in place by `recoverInterrupted` (the opening then finds it damaged; the original is in quarantine). When
  the quarantine rename fails the staged journal stays, so the next start reports an intact database as
  an interrupted restore. The quarantine file of an interrupted restore is never listed. `Backup.rotate` and
  `quarantinePrimary` have no caller.
  A rotation that deletes one expired copy and cannot delete an older one leaves a gap in the list until the next manifest is
  written; when that fails, a later rotation counts the copy that is gone and may leave fewer than the limit.
  The proof of `NewestKept` would not go through without excepting it; TLC shows it with `MaxChanges` = 5. The
  exception is `Gapless`, and `GapsOnlyByFailure` proves that a refused deletion is its only cause.
- *Connection*: settings that cannot be saved after the file was published leave a file that names a connection
  nobody serves, and no start repairs it (`unsettled`); a revision undone in this way is used again; a listener is lost when its port is
  taken while it is being moved (`denied`). `connection.py` passes no review or content coordinator to the server it
  makes.
- *AddOn*: a request reads the identity and then the collection, so a profile switch between the two gives it another
  collection than it named (the exception `overtaken` in `NamedCollection`). The docstring of `notes.py` says that the
  collection "has to be the bound one"; only uuids are compared, so notes of a wrong or undecided collection can be
  edited by naming its uuid. `__init__.py` makes no study lifecycle, reviewer arbiter, content
  server, session or review coordinator.

## Proofs

Every safety invariant and action property of the passing runs, and the refinement, is proved for every value of
the constants. The assumptions are the named ASSUMEs of each module, which TLC evaluates in
every run: bounds are natural numbers, `None` is not a value of what it stands for the absence of, some sets are finite
(`Workers` of the session, `Ports`), what is enumerated is among the values that occur in the code (`Adapters`, `Endings`), and functions given as constants have their type. Each inductive invariant was checked by TLC on
the instance of its module's run before it was proved. An invariant `IInv` contains or implies what is to be
proved, `TypeOK` first, and then says what the steps rely on. Each step lemma has one case per action and under it one step per
conjunct that the action can disturb.

### ReviewCoordinatorProofs

| Theorem | States |
|---|---|
| `TypeCorrect` | `[]TypeOK` |
| `AppliedWasRated` | `[]AppliedIsTrue` |
| `Inductive` | `[]IInv` |
| `RatedAtMostOnce` | `[]AtMostOnce` |
| `JournalWrittenAhead` | `[]WriteAhead`: Anki has a rating only after the journal has accounted for it |
| `CompletedStays` | `CompletedForever` |
| `MemoryIsJournal` | `[]MemoryMatchesJournal` |
| `Implements` | `RatesOnce`, the refinement of `RatingOnce` |

The first two assume nothing. The others assume `Quiet`: no transaction is served by two threads at once and nothing
is reconciled while ratings are served. Both halves are needed: without the first `AtMostOnce` is false
(`ReviewRepeat`), and with a reconciliation beside ratings TLC finds `AtMostOnce`, `WriteAhead`,
`CompletedForever` and `MemoryMatchesJournal` violated, because the walk changes rows a worker
has already checked, and writes others as it read them.

`AtMostOnce` is not inductive: a second rating could come from a worker about to call Anki for a card already
rated, from a row lost or set back to RECEIVED after the rating, or from a second worker on the transaction.
`IInv` therefore adds `WriteAhead` (a rating always has its row), `Exclusive` (one worker per transaction),
`ChecksHold` (what a worker past each check may still rely on: at the call to Anki its row is the only one,
is started, and nothing was rated), `ReconSound` (a reconciliation works on rows as they are and completes
only what the log shows) and `ServedAlone`, which is where `Quiet` enters. `CompletedForever` and the refinement
follow from `IInv` step by step. `MemoryIsJournal` needs `MemoryInv` on top of it: a worker past its lookup has nothing
remembered of its transaction until it has written the row, and during a reconciliation each record that is done is still
what its own row says, or was acknowledged and collected. The weaker "some row of the transaction bears it out" is not
inductive, since that row may be of another collection and next on the list. A reconciliation that failed half-way is the one exception,
and lasts until the restart. `AppliedWasRated` has a smaller
invariant of its own, `SettlesHonestly`: what a reconciliation has marked completed has a review.

### SessionProofs

| Theorem | States |
|---|---|
| `TypeCorrect`, `Inductive` | `[]TypeOK`, `[]IInv` |
| `AnnouncementIsTrue` | `[]AnnouncedDeckStands` |
| `CardsAreFound` | `[]CardsStayFindable` |
| `ForeignDeckStays` | `ForeignDeckUntouched` |
| `RefusalGivesBack` | `RefusalRestores` |

The announced deck is true only because of what the request and its build have done on the way. `IInv` says which
requests reach which step (`Shaped`), that a marked deck is ANKIGTA's (`OwnDecks`), that each waiting request has a
thread to itself (`Waiting`), and, while nothing was `disturbed`, that there is one request and no build
without it but those abandoned (`Alone`), what the build has done of what its request wants (`Built`), what an abandoned build can still
do (`Late`) and what the request knows of status and deck (`Announced`). `Late` is why timeouts need no exception: a build reads
its cancel event only at its beginning, so an abandoned one that is past it may still create, but then no deck of ANKIGTA's
stands and no request is deleting one; it may mark the deck it created or none of ANKIGTA's; and it fills a deck only when the marker
names it, while the status admits to no deck. `Counted` bounds the cancel events by the requests still to take one.
With the drafting adapter the marker is 0 or absent, no deck of the name is ever ANKIGTA's, and the conclusions about a deck
that stands are drawn only when `Saving`. `RefusalGivesBack` covers a restoring build that succeeds and one that fails, is
cancelled or times out. `ForeignDeckStays` rests on `OwnDecks` alone, so it holds of disturbed sessions too.

### ReviewModeProofs

| Theorem | States |
|---|---|
| `TypeCorrect`, `Inductive` | `[]TypeOK`, `[]IInv` |
| `OneReviewOpen` | `[]ExclusiveReviewMode` |
| `RatedWhatWasSeen` | `[]AnswerSeenFirst` |
| `ShownAppliedIsApplied` | `[]AppliedIsTrue` |
| `RatedAtMostOnce` | `[]OneAcceptedRating` |

Each property is about one end of a channel, so the invariant is about what is under way. `Channelled` types it, `Numbered`
ties transactions to openings, `Rendering` ties renders to the open card, and each player has: `Served` (what a client asks, it asks of the
opening it shows, and its close comes last), `Shown` (the server holds open what the client shows, and every
event still to come fits that card), `Coming` (an opening under way is the one the server holds, and all that is
stale comes before it), `Once` and `Locked` (a client that was not misled has one rating under way, as a request, a
refusal or a transaction, and its buttons are locked meanwhile). `Single` is `OneAcceptedRating` of ratings that
may still be applied as well.

### StoreProofs

| Theorem | States |
|---|---|
| `TypeCorrect`, `Inductive` | `[]TypeOK` (foreign keys included), `[]IInv` |
| `CursorNeverDangles` | `[]CursorStands` |
| `UndoNeverRefused` | `[]UndoApplies` |
| `HistoryIsOneLine` | `[]OneLine` |
| `UndoAndRedoReverse` | `HistoryReverses` |

`Ordered` says of every entry which operation it is, with the states it wrote and the views it led from and to
(`Says`), and that ids grow. The cursor is at some place `c` of the list (`Stands`), and while all writes
were journalled the views join up there (`Unbroken`). That is enough for the line and for reversal, not for
`UndoApplies`: an Undo may meet a store that other writes have changed, and must still find the entity, link
and metadata row it is going to restore or overwrite. `EntityStays`, `LinksBacked`, `RowStays` and `RowsBacked` give the reason why they are
there: a row that an entry touches was there before the history begins or was given by an earlier entry, and no entry between
that one and the cursor took it away; the writes beside the history remove none of these. The proof has a lemma per kind
of entry, forth and back, and lemmas for dropping the oldest entry and for discarding the undone ones.

### ConnectionProofs

| Theorem | States |
|---|---|
| `TypeCorrect`, `Inductive` | `[]TypeOK`, `[]IInv` |
| `ListenerFollows` | `[]ListenerIsEffective` |
| `MTADialsTheListener` | `[]DialledIsServed` |
| `ConfigurationStaysReadable` | `StaysReadable` |
| `CopyIsTheReplaced` | `OneGenerationBack` |

Between operations the properties are about three copies of one connection: listener, settings, file. `IInv` says of the change in
progress what the settings become if it gets through or fails (`Changing`), which listener goes with them
(`Listening`), which settings are saved (`Saved`) and lead back (`Agreed`), and which file is published (`Settled`). `CopyKept`
says what the last-known-good copy holds at each of the steps that write it, which is what
`StaysReadable` needs.

### AddOnProofs

| Theorem | States |
|---|---|
| `TypeCorrect`, `Inductive` | `[]TypeOK`, `[]IInv` |
| `ReportsTheOpenFile` | `[]ReportedIsRegistered` |
| `ObservationFollows` | `[]ReportedIsOpen` |
| `WorksOnTheNamed` | `[]NamedCollection` |
| `UuidStays` | `UuidNotStolen` |

`Staged` ties the collection to Anki's stage and keeps its file where it is while it is open, `Observed` ties the
observation to the stage (a late deferred call included, by its generation), `Named` ties the current identity
to file and registry, `Numbered` keeps new uuids and file ids apart from those given out, `Requested` says of a
request that nothing has overtaken that its collection is the one that is open. The proof showed that two
arms of a CASE in `Answers` overlapped, which TLC had resolved by taking the first; the arms now exclude each other, as the
branches of the code do.

### BackupProofs

| Theorem | States |
|---|---|
| `TypeCorrect`, `Inductive` | `[]TypeOK`, `[]IInv` |
| `ListedStaysWhole` | `[]ListedIsWhole` |
| `InterruptionIsSeen` | `[]InterruptedIsSeen` |
| `OriginalStays` | `OriginalKept` |
| `NewestStay` | `NewestKept` |
| `GapsOnlyByFailure` | `Gapless` ends only by a rotation that is refused a deletion |

A call keeps the manifest it read at its start: `OnBook` says that it is still the one on disk, `NextIsFree` that its next
number is above all listed. `StagedWhole` and `CopiesWhole` say that only what was verified gets a name, and stays as it was
verified until then, `Placed` that what is about to be listed is there, `Moved` where the database is at each
step of a restore, and `Noticed` is `InterruptedIsSeen` between two steps of a call. `NewestKept` also needs that the
manifest's list has no gap, a precondition of the property itself (see above).

### Only model-checked

Liveness (`AbsentReported`, and in the violated run `EveryRatingAnswered`), which this prover does not do, and the five violated properties,
which are counterexamples and not theorems. The other way round, what happens when one transaction is served twice while a
reconciliation runs beside it is only proved (`TypeCorrect`, `AppliedWasRated`): with journal errors in every step the instance is
too large for a run.

## Not modelled

- Content server, study lifecycle and reviewer arbitration: the add-on's entry point makes neither, so a model would have
  to invent who calls them. Their races are listed as hazards.
- Gateway health, sessions, search and notes: one request, one answer that is shown or counted. What an older
  answer overwrites, the next poll puts right.
- Map identity, pending map saves, world scan: judgements from MTA's map files and element tree,
  whose contents would be invented. Their writes to the store are the unjournalled events of `Store`.
- Spatial activation, candidates: geometry evaluated every frame; what it proposes is `OpenReview` of
  `ReviewMode`, and the server looks the link up again.
- Eligibility and other pure rules: functions of one card, tested by cases in the repository; `SessionCoordinator` leaves which
  cards are eligible open.
- Read-only queries, formats and validation (`contract.py`, `shared/settings.lua`), Qt dialogs, the F7
  panel and drawing, packaging and development tools: pure I/O or presentation.

### Left out of what is modelled

- `Store`: settings that are not in the Change History are written without it (`store.lua:3695`);
  `RefreshPresence` is one step where the code commits the metadata row and the update (`store.lua:2493-2506`) apart.
- `Connection`: when a saved manual port is taken, `start` raises with the settings already set (`connection.py:80-87`); here
  they stay absent. The manager has no server and is not started in both.
- `AddOn`: faults before the observation of an opened profile (`lifecycle.py:207-235`) and the fault paths of a note update before it
  takes the collection (`notes.py:210-228`) have no step of their own: the first leave the observation as it was
  with only the generation counted on, the others change nothing.
- `Backup`: an empty or schemaless primary passes the integrity check and is given a schema (`store.lua:1481`), and some damage ends in
  *failed* (`store.lua:1494-1498`), where the module sends every torn primary to recovery; several migrations are several
  transactions in the code and one step here.

## Plan

The modules that the code supports are written and their safety is proved. What may still be added: the reasons why
`AtMostOnce` survives crashes as a second abstract specification between `RatingOnce` and the coordinator (the journal as a
write-ahead log), and a shorter proof of `StoreProofs`, whose lemmas per kind of entry repeat a pattern.

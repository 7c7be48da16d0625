------------------------------- MODULE Backup -------------------------------
(***************************************************************************)
(* The server's database file with its backups, the restore journal and    *)
(* the quarantine (mta/ankigta/server/backup.lua), and the opening of the  *)
(* store that goes with them (store.lua, Store.open).                      *)
(*                                                                         *)
(* All of it runs on the resource's one thread, as a row of operations on  *)
(* files: each may fail, and the server may stop between any two of them,  *)
(* or in the middle of one that writes a file. A rename happens or does    *)
(* not; it fails when there is a file of the new name.                     *)
(*                                                                         *)
(* A database is the number of its last change and its schema; Torn stands *)
(* for one that Backup.verify and the opening refuse. A manifest or a      *)
(* journal with nothing in it is read as if it were not there; the         *)
(* manifest's list of quarantined files is left out.                       *)
(***************************************************************************)
EXTENDS Naturals, FiniteSets

CONSTANTS
  Retention,   \* how many copies of each kind rotation leaves
  MaxId,       \* bound: numbers of copies and of quarantined databases
  MaxChanges,  \* bound: changes of the data
  MaxSchema,   \* bound: schema versions, and so builds of the resource
  MaxFaults,   \* bound: operations that fail and databases that get damaged
  MaxExits,    \* bound: ends of the server
  Torn,        \* a database that does not verify
  None         \* no file

Kinds == {"daily", "premigration"}

ASSUME RetentionAssumption == Retention \in [Kinds -> Nat \ {0}]
ASSUME BoundAssumption == MaxId \in Nat /\ MaxChanges \in Nat /\ MaxSchema \in Nat \ {0}
                          /\ MaxFaults \in Nat /\ MaxExits \in Nat

VARIABLES
  primary,   \* ankigta.sqlite
  staging,   \* backups/staging.sqlite
  copies,    \* backups/ankigta-<kind>-<id>.sqlite
  kept,      \* backups/quarantine-<id>.sqlite
  manifest,  \* backups/manifest.json
  journal,   \* backups/restore-journal.json
  state,     \* Store.ready, Store.recoveryState, or neither of them
  op,        \* the call in progress
  due,       \* the daily timer is set
  taken,     \* numbers of the daily copies made today
  build,     \* CURRENT_SCHEMA_VERSION
  changes,   \* changes of the data so far
  lost,      \* a journal went in being written
  faults, exits

files == <<primary, staging, copies, kept, manifest, journal>>
world == <<build, changes>>
vars  == <<files, state, op, due, taken, world, lost, faults, exits>>

-----------------------------------------------------------------------------
(* Files.                                                                  *)

Ids       == 1 .. MaxId
Names     == [id : Ids, kind : Kinds]
Databases == [data : 0 .. MaxChanges, schema : 1 .. MaxSchema]
Files     == Databases \cup {Torn, None}
Manifests == [nextId : 1 .. MaxId + 1, entries : SUBSET Names]
Journals  == [phase : {"staged", "quarantined", "unknown"}]
Empty     == [nextId |-> 1, entries |-> {}]

ASSUME FileAssumption == /\ Torn # None /\ {Torn, None} \cap Databases = {}
                         /\ None \notin Journals

\* Backup.verify; no build older than the database runs on it
Whole(file) == file \notin {Torn, None}

\* readManifest
Book == IF manifest = None THEN Empty ELSE manifest

Idle == [kind |-> "idle"]
Ops  == [kind : {"open"}, pc : {"journal", "forget", "check", "migrate"}]
        \cup [kind : Kinds, book : Manifests, ok : BOOLEAN,
              pc : {"copy", "verify", "publish", "rotate", "write"}]
        \cup [kind : {"restore"}, book : Manifests, ok : BOOLEAN, from : Names, aside : 0 .. MaxId,
              pc : {"copy", "verify", "aside", "mark", "publish", "forget", "write"}]

TypeOK ==
  /\ primary \in Files /\ staging \in Files
  /\ copies \in [Names -> Files] /\ kept \in [Ids -> Files]
  /\ manifest \in Manifests \cup {None} /\ journal \in Journals \cup {None}
  /\ state \in {"down", "ready", "recovery", "failed"}
  /\ op \in Ops \cup {Idle}
  /\ due \in BOOLEAN /\ taken \subseteq Ids
  /\ build \in 1 .. MaxSchema /\ changes \in 0 .. MaxChanges
  /\ lost \in BOOLEAN
  /\ faults \in 0 .. MaxFaults /\ exits \in 0 .. MaxExits

Init ==
  /\ primary = None /\ staging = None
  /\ copies = [n \in Names |-> None] /\ kept = [i \in Ids |-> None]
  /\ manifest = None /\ journal = None
  /\ state = "down" /\ op = Idle
  /\ due = FALSE /\ taken = {}
  /\ build = 1 /\ changes = 0
  /\ lost = FALSE /\ faults = 0 /\ exits = 0

At(kinds, pc) == op # Idle /\ op.kind \in kinds /\ op.pc = pc
Goto(pc)      == op' = [op EXCEPT !.pc = pc]
Open          == [kind |-> "open", pc |-> "journal"]

Fault   == faults < MaxFaults /\ faults' = faults + 1
NoFault == UNCHANGED faults

\* The call ends: Store.open with a state, Backup.create with a result.
Opened(s) == op' = Idle /\ state' = s
Created(ok) ==
  IF op.kind = "daily" THEN op' = Idle /\ UNCHANGED state
  ELSE IF ok THEN op' = [kind |-> "open", pc |-> "migrate"] /\ UNCHANGED state
  ELSE Opened("failed")

\* writeTextFile over a file that held old: written, not created, or created and
\* not written, when it is deleted.
Writes(file, old, new) ==
  \/ file' = new /\ NoFault
  \/ file' \in {old, None} /\ Fault

-----------------------------------------------------------------------------
(* Store.open.                                                             *)

Start ==
  /\ state = "down" /\ op = Idle
  /\ op' = Open
  /\ UNCHANGED <<files, state, due, taken, world, lost, faults, exits>>

\* recoverInterrupted: only the last rename of a restore is made up for.
Interrupted ==
  /\ At({"open"}, "journal")
  /\ IF journal = None THEN Goto("check") /\ UNCHANGED <<primary, staging, state>> /\ NoFault
     ELSE \/ /\ journal.phase = "quarantined" /\ staging # None /\ primary = None
             /\ primary' = staging /\ staging' = None
             /\ Goto("forget")
             /\ UNCHANGED state /\ NoFault
          \/ /\ IF journal.phase = "quarantined" /\ staging # None /\ primary = None
                THEN Fault ELSE NoFault
             /\ Opened("recovery")
             /\ UNCHANGED <<primary, staging>>
  /\ UNCHANGED <<copies, kept, manifest, journal, due, taken, world, lost, exits>>

\* Mutant: the journal is marked as done with.
MarkDone ==
  /\ At({"open", "restore"}, "forget")
  /\ journal' = [phase |-> "completed"]
  /\ Goto(IF op.kind = "open" THEN "check" ELSE "write")
  /\ UNCHANGED <<primary, staging, copies, kept, manifest, state, due, taken, world, lost,
                 faults, exits>>

\* clearJournal, at the end of either
Forget ==
  /\ At({"open", "restore"}, "forget")
  /\ \/ journal' = None /\ NoFault
     \/ UNCHANGED journal /\ Fault
  /\ Goto(IF op.kind = "open" THEN "check" ELSE "write")
  /\ UNCHANGED <<primary, staging, copies, kept, manifest, state, due, taken, world, lost, exits>>

\* A database that is not there is made, a damaged one is left alone, an older
\* one is copied before it is migrated; or a statement fails.
Check ==
  /\ At({"open"}, "check")
  /\ \/ /\ primary = None
        /\ primary' = [data |-> 0, schema |-> build]
        /\ Opened("ready") /\ NoFault
     \/ /\ primary = Torn
        /\ Opened("recovery") /\ UNCHANGED primary /\ NoFault
     \/ /\ Whole(primary)
        /\ IF primary.schema = build THEN Opened("ready")
           ELSE /\ op' = [kind |-> "premigration", pc |-> "copy", book |-> Book, ok |-> TRUE]
                /\ UNCHANGED state
        /\ UNCHANGED primary /\ NoFault
     \/ Opened("failed") /\ UNCHANGED primary /\ Fault
  /\ UNCHANGED <<staging, copies, kept, manifest, journal, due, taken, world, lost, exits>>

\* runMigrations, in one transaction
Migrate ==
  /\ At({"open"}, "migrate")
  /\ \/ Whole(primary) /\ primary' = [primary EXCEPT !.schema = build] /\ Opened("ready") /\ NoFault
     \/ UNCHANGED primary /\ Opened("failed") /\ Fault
  /\ UNCHANGED <<staging, copies, kept, manifest, journal, due, taken, world, lost, exits>>

-----------------------------------------------------------------------------
(* Backup.create, for both kinds.                                          *)

\* The daily timer fires; createDaily makes one copy a day.
Daily ==
  /\ due /\ op = Idle
  /\ due' = FALSE
  /\ op' = IF \/ primary = None
              \/ \E e \in Book.entries : e.kind = "daily" /\ e.id \in taken /\ copies[e] # None
           THEN Idle
           ELSE [kind |-> "daily", pc |-> "copy", book |-> Book, ok |-> TRUE]
  /\ UNCHANGED <<files, state, taken, world, lost, faults, exits>>

Name == [id |-> op.book.nextId, kind |-> op.kind]

\* fileCopy onto the staging file, a stale one deleted; it may also copy amiss.
Copied(file, ended) ==
  \/ staging' = file /\ Goto("verify") /\ UNCHANGED state /\ NoFault
  \/ staging' = Torn /\ Goto("verify") /\ UNCHANGED state /\ Fault
  \/ staging' = None /\ ended /\ Fault

CopyPrimary ==
  /\ At(Kinds, "copy")
  /\ op.book.nextId \in Ids
  /\ Copied(primary, Created(FALSE))
  /\ UNCHANGED <<primary, copies, kept, manifest, journal, due, taken, world, lost, exits>>

\* Mutant: the copy takes its name as it is.
PublishUnverified ==
  /\ At(Kinds, "verify")
  /\ copies' = [copies EXCEPT ![Name] = None] /\ Goto("publish")
  /\ UNCHANGED <<primary, staging, kept, manifest, journal, state, due, taken, world, lost,
                 faults, exits>>

\* The copy is verified; a file in the way of its name, left by an attempt that
\* did not get as far as the manifest, goes.
VerifyCopy ==
  /\ At(Kinds, "verify")
  /\ IF Whole(staging)
     THEN copies' = [copies EXCEPT ![Name] = None] /\ Goto("publish") /\ UNCHANGED <<staging, state>>
     ELSE staging' = None /\ Created(FALSE) /\ UNCHANGED copies
  /\ UNCHANGED <<primary, kept, manifest, journal, due, taken, world, lost, faults, exits>>

Publish ==
  /\ At(Kinds, "publish")
  /\ \/ /\ copies' = [copies EXCEPT ![Name] = staging]
        /\ taken' = IF op.kind = "daily" THEN taken \cup {Name.id} ELSE taken
        /\ Goto("rotate")
        /\ UNCHANGED state /\ NoFault
     \/ Created(FALSE) /\ UNCHANGED <<copies, taken>> /\ Fault
  /\ staging' = None
  /\ UNCHANGED <<primary, kept, manifest, journal, due, world, lost, exits>>

\* The entries past the limit of their kind, newest kept
ExpiredMutant(entries) ==  \* Mutant: off by one
  {e \in entries : Cardinality({f \in entries : f.kind = e.kind /\ f.id >= e.id}) >= Retention[e.kind]}
Expired(entries) ==
  {e \in entries : Cardinality({f \in entries : f.kind = e.kind /\ f.id > e.id}) >= Retention[e.kind]}

\* rotateEntries: the file of an expired entry goes, and an entry that has no
\* file. One that cannot be deleted keeps its entry, and create then fails.
Rotate ==
  LET entries == op.book.entries \cup {Name} IN
  /\ At(Kinds, "rotate")
  /\ \E stuck \in SUBSET {e \in Expired(entries) : copies[e] # None} :
       /\ IF stuck = {} THEN NoFault ELSE Fault
       /\ copies' = [n \in Names |-> IF n \in Expired(entries) \ stuck THEN None ELSE copies[n]]
       /\ op' = [op EXCEPT !.pc = "write", !.ok = (stuck = {}),
                   !.book = [nextId |-> Name.id + 1, entries |-> {e \in entries : copies'[e] # None}]]
  /\ UNCHANGED <<primary, staging, kept, manifest, journal, state, due, taken, world, lost, exits>>

WriteManifest ==
  /\ At(Kinds, "write")
  /\ Writes(manifest, manifest, op.book)
  /\ Created(op.ok /\ faults' = faults)
  /\ UNCHANGED <<primary, staging, copies, kept, journal, due, taken, world, lost, exits>>

-----------------------------------------------------------------------------
(* Backup.restore.                                                         *)

\* The player chooses a copy on the recovery screen; the choice is verified.
Restore(e) ==
  /\ state = "recovery" /\ op = Idle
  /\ e \in Book.entries /\ Whole(copies[e])
  /\ op' = [kind |-> "restore", pc |-> "copy", book |-> Book, ok |-> TRUE, from |-> e, aside |-> 0]
  /\ UNCHANGED <<files, state, due, taken, world, lost, faults, exits>>

CopyBackup ==
  /\ At({"restore"}, "copy")
  /\ op.book.nextId \in Ids
  /\ Copied(copies[op.from], op' = Idle /\ UNCHANGED state)
  /\ UNCHANGED <<primary, copies, kept, manifest, journal, due, taken, world, lost, exits>>

\* The staged copy is verified, quarantinePath takes the next number, and the
\* journal says that the copy is staged.
JournalStaged ==
  /\ At({"restore"}, "verify")
  /\ IF Whole(staging)
     THEN /\ Writes(journal, journal, [phase |-> "staged"])
          /\ IF faults' = faults
             THEN /\ op' = [op EXCEPT !.pc = "aside", !.aside = op.book.nextId,
                                      !.book.nextId = op.book.nextId + 1]
                  /\ UNCHANGED staging
             ELSE op' = Idle /\ staging' = None
     ELSE op' = Idle /\ staging' = None /\ UNCHANGED journal /\ NoFault
  /\ lost' = (lost \/ (journal # None /\ journal' = None))
  /\ UNCHANGED <<primary, copies, kept, manifest, state, due, taken, world, exits>>

\* Mutant: the file that has the name makes room.
AsideOver ==
  /\ At({"restore"}, "aside")
  /\ kept' = IF primary = None THEN kept ELSE [kept EXCEPT ![op.aside] = primary]
  /\ primary' = None /\ Goto("mark")
  /\ UNCHANGED <<staging, copies, manifest, journal, state, due, taken, world, lost, faults, exits>>

\* The original, if there is one, is moved aside, unless its new name is taken.
Aside ==
  /\ At({"restore"}, "aside")
  /\ \/ /\ primary = None \/ kept[op.aside] = None
        /\ kept' = IF primary = None THEN kept ELSE [kept EXCEPT ![op.aside] = primary]
        /\ primary' = None /\ Goto("mark")
        /\ NoFault
     \/ /\ primary # None
        /\ IF kept[op.aside] = None THEN Fault ELSE NoFault
        /\ op' = Idle
        /\ UNCHANGED <<primary, kept>>
  /\ UNCHANGED <<staging, copies, manifest, journal, state, due, taken, world, lost, exits>>

\* The journal says so; whether it could be written is not looked at.
JournalQuarantined ==
  /\ At({"restore"}, "mark")
  /\ Writes(journal, journal, [phase |-> "quarantined"])
  /\ lost' = (lost \/ (journal # None /\ journal' = None))
  /\ Goto("publish")
  /\ UNCHANGED <<primary, staging, copies, kept, manifest, state, due, taken, world, exits>>

\* Mutant: the journal is cleared whether or not the copy has taken the name.
TakeNameMutant ==
  /\ At({"restore"}, "publish")
  /\ \/ primary' = staging /\ staging' = None /\ Goto("forget") /\ UNCHANGED journal /\ NoFault
     \/ UNCHANGED <<primary, staging>> /\ journal' = None /\ Fault
        /\ op' = [op EXCEPT !.pc = "write", !.ok = FALSE]
  /\ UNCHANGED <<copies, kept, manifest, state, due, taken, world, lost, exits>>

\* The staged copy takes the database's name.
TakeName ==
  /\ At({"restore"}, "publish")
  /\ \/ primary' = staging /\ staging' = None /\ Goto("forget") /\ NoFault
     \/ UNCHANGED <<primary, staging>> /\ Fault /\ op' = [op EXCEPT !.pc = "write", !.ok = FALSE]
  /\ UNCHANGED <<copies, kept, manifest, journal, state, due, taken, world, lost, exits>>

\* The manifest is written last, and what came back is opened.
Restored ==
  /\ At({"restore"}, "write")
  /\ Writes(manifest, manifest, op.book)
  /\ IF op.ok THEN op' = Open /\ state' = "down" ELSE op' = Idle /\ UNCHANGED state
  /\ UNCHANGED <<primary, staging, copies, kept, journal, due, taken, world, lost, exits>>

-----------------------------------------------------------------------------
(* What happens to them.                                                   *)

\* The store commits a change: noteDataChange sets the daily timer.
Change ==
  /\ state = "ready" /\ op = Idle
  /\ Whole(primary)
  /\ changes < MaxChanges
  /\ changes' = changes + 1
  /\ primary' = [primary EXCEPT !.data = changes']
  /\ due' = TRUE
  /\ UNCHANGED <<staging, copies, kept, manifest, journal, state, op, taken, build, lost,
                 faults, exits>>

\* The database gets damaged.
Spoil ==
  /\ Whole(primary) /\ op = Idle
  /\ Fault
  /\ primary' = Torn
  /\ UNCHANGED <<staging, copies, kept, manifest, journal, state, op, due, taken, world, lost, exits>>

NewDay ==
  /\ taken # {} /\ op = Idle
  /\ taken' = {}
  /\ UNCHANGED <<files, state, op, due, world, lost, faults, exits>>

\* The server stops, in order or not, with the resource's timers; and may come
\* back with a newer build.
Ends ==
  /\ exits < MaxExits
  /\ exits' = exits + 1
  /\ op' = Idle /\ state' = "down" /\ due' = FALSE
  /\ UNCHANGED <<taken, changes, faults>>

Exit ==
  /\ state # "down" \/ op # Idle
  /\ Ends
  /\ build' \in {build, build + 1} /\ build' <= MaxSchema
  /\ UNCHANGED <<files, lost>>

\* ... while a file is being written: a copy, the manifest, the journal, which is
\* then empty or of an unknown phase
CutShort ==
  /\ \/ /\ At(Kinds \cup {"restore"}, "copy")
        /\ staging' \in {Torn, None}
        /\ UNCHANGED <<manifest, journal, lost>>
     \/ /\ At(Kinds \cup {"restore"}, "write")
        /\ manifest' = None
        /\ UNCHANGED <<staging, journal, lost>>
     \/ /\ At({"restore"}, "mark") \/ (At({"restore"}, "verify") /\ Whole(staging))
        /\ journal' \in {None, [phase |-> "unknown"]}
        /\ lost' = (lost \/ (journal # None /\ journal' = None))
        /\ UNCHANGED <<staging, manifest>>
  /\ Ends
  /\ UNCHANGED <<primary, copies, kept, build>>

Next ==
  \/ Start \/ Interrupted \/ Forget \/ Check \/ Migrate
  \/ Daily \/ CopyPrimary \/ VerifyCopy \/ Publish \/ Rotate \/ WriteManifest
  \/ \E e \in Names : Restore(e)
  \/ CopyBackup \/ JournalStaged \/ Aside \/ JournalQuarantined \/ TakeName \/ Restored
  \/ Change \/ Spoil \/ NewDay \/ Exit \/ CutShort

Spec == Init /\ [][Next]_vars

-----------------------------------------------------------------------------
(* Properties.                                                             *)

\* Whatever is interrupted, and whichever numbers are used again after a manifest
\* that was not written: the database leaves its name only whole or damaged as it
\* was into a quarantine file of its own, and a quarantined file stays as it is.
\* (backup.lua:5-11, 569, 640)
OriginalKept ==
  [][/\ primary # None /\ primary' = None =>
          \E i \in Ids : kept[i] = None /\ kept'[i] = primary
     /\ \A i \in Ids : kept[i] # None => kept'[i] = kept[i]]_vars

\* No listed copy is gone while an older one of its kind is there.
Gapless ==
  \A n, m \in Book.entries :
    n.kind = m.kind /\ n.id < m.id /\ copies[n] # None => copies[m] # None

\* The copies of n's kind that are newer than n
Newer(n) == {m \in Names : m.kind = n.kind /\ m.id > n.id /\ copies[m] # None}

\* A copy the manifest lists goes, or is replaced, only when as many newer ones of
\* its kind as the limit asks for are there, whatever failed and stopped before;
\* unless the manifest lists one that is gone and is newer than one that is not.
\* (backup.lua:350, 452)
NewestKept ==
  [][Gapless =>
       \A n \in Book.entries :
         copies[n] # None /\ copies'[n] # copies[n] =>
           Cardinality(Newer(n)') >= Retention[n.kind]]_vars

\* A name in the manifest never refers to a copy that is not whole, though the
\* database may be damaged and a copy go amiss. (backup.lua:13-17, 446)
ListedIsWhole == \A n \in Book.entries : copies[n] # Torn

\* Once the database was moved aside and nothing has taken its place, the journal
\* stops the next opening, unless the journal itself went in being written.
\* (backup.lua:629-668, 543; store.lua:1456)
InterruptedIsSeen ==
  primary = None /\ op = Idle /\ ~lost => journal # None \/ \A i \in Ids : kept[i] = None

\* The docs: ANKIGTA "does not invent an empty database over the top of your
\* data" (docs/operations/backups-and-recovery.md:59): an opening that is about to
\* make a database has none in quarantine.
NotInvented ==
  At({"open"}, "check") /\ primary = None => \A i \in Ids : kept[i] = None
=============================================================================

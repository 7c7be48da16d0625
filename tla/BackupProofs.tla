---------------------------- MODULE BackupProofs ----------------------------
(***************************************************************************)
(* Proofs about Backup, for every retention and every number of changes,   *)
(* faults, schema versions and ends of the server.                         *)
(***************************************************************************)
EXTENDS Backup, FiniteSetTheorems, WellFoundedInduction, TLAPS

-----------------------------------------------------------------------------
(* Type correctness, with the numbers calls have taken.                    *)

\* The number a call is about to use is one of the names there are.
Numbered ==
  /\ op.kind \in Kinds /\ op.pc \in {"verify", "publish", "rotate"} => op.book.nextId \in Ids
  /\ op.kind = "restore" /\ op.pc = "verify" => op.book.nextId \in Ids
  /\ op.kind = "restore" /\ op.pc = "aside" => op.aside \in Ids

TypeInv == TypeOK /\ Numbered

LEMMA InitType == Init => TypeInv
<1> SUFFICES ASSUME Init PROVE TypeInv
  OBVIOUS
<1>1. TypeOK
  <2>1. None \in Files
    BY DEF Files
  <2>2. 1 \in 1 .. MaxSchema /\ 0 \in 0 .. MaxChanges /\ 0 \in 0 .. MaxFaults /\ 0 \in 0 .. MaxExits
    BY BoundAssumption
  <2> QED
    BY <2>1, <2>2 DEF Init, TypeOK
<1>2. Numbered
  BY DEF Init, Numbered, Idle, Kinds
<1> QED
  BY <1>1, <1>2 DEF TypeInv

LEMMA BookType ==
  ASSUME TypeOK
  PROVE  Book \in Manifests
<1>1. Empty \in Manifests
  BY BoundAssumption DEF Empty, Manifests
<1> QED
  BY <1>1 DEF TypeOK, Book

LEMMA OpenGoto ==
  ASSUME NEW pc \in {"journal", "forget", "check", "migrate"}
  PROVE  /\ [kind |-> "open", pc |-> pc] \in Ops
         /\ op \in Ops /\ op.kind = "open" => [op EXCEPT !.pc = pc] \in Ops
BY DEF Ops, Kinds

LEMMA CopyGoto ==
  ASSUME op \in Ops \cup {Idle}, op.kind \in Kinds,
         NEW pc \in {"copy", "verify", "publish", "rotate", "write"}
  PROVE  /\ [op EXCEPT !.pc = pc] \in Ops
         /\ op.book \in Manifests
BY DEF Ops, Kinds, Idle

LEMMA RestoreGoto ==
  ASSUME op \in Ops \cup {Idle}, op.kind = "restore",
         NEW pc \in {"copy", "verify", "aside", "mark", "publish", "forget", "write"}
  PROVE  /\ [op EXCEPT !.pc = pc] \in Ops
         /\ op.book \in Manifests /\ op.from \in Names /\ op.aside \in 0 .. MaxId
         /\ op.ok \in BOOLEAN
BY DEF Ops, Kinds, Idle

LEMMA CopyingType ==
  ASSUME NEW book \in Manifests, NEW kind \in Kinds
  PROVE  [kind |-> kind, pc |-> "copy", book |-> book, ok |-> TRUE] \in Ops
BY DEF Ops

LEMMA NumberTaken ==
  ASSUME op \in Ops, op.kind = "restore", op.book \in Manifests, op.book.nextId \in Ids
  PROVE  LET next == [op EXCEPT !.pc = "aside", !.aside = op.book.nextId,
                                !.book.nextId = op.book.nextId + 1]
         IN  /\ next \in Ops /\ next.kind = "restore" /\ next.pc = "aside" /\ next.aside \in Ids
             /\ next.book.entries = op.book.entries /\ next.book.nextId = op.book.nextId + 1
<1>1. [op.book EXCEPT !.nextId = op.book.nextId + 1] \in Manifests
  BY BoundAssumption DEF Manifests, Ids
<1>2. op.book.nextId \in 0 .. MaxId
  BY DEF Ids
<1>3. [op.book EXCEPT !.nextId = op.book.nextId + 1].entries = op.book.entries
      /\ [op.book EXCEPT !.nextId = op.book.nextId + 1].nextId = op.book.nextId + 1
  BY DEF Manifests
<1> QED
  BY <1>1, <1>2, <1>3 DEF Ops, Kinds

LEMMA CreatedType ==
  ASSUME TypeInv, op.kind \in Kinds, NEW ok, Created(ok)
  PROVE  /\ op' \in Ops \cup {Idle} /\ op'.kind \in {"open", "idle"}
         /\ state' \in {"down", "ready", "recovery", "failed"}
BY OpenGoto DEF Created, Opened, TypeInv, TypeOK, Idle

LEMMA FaultType ==
  ASSUME TypeInv, Fault \/ NoFault
  PROVE  faults' \in 0 .. MaxFaults
BY BoundAssumption DEF Fault, NoFault, TypeInv, TypeOK

LEMMA OpenType ==
  ASSUME TypeInv, Start \/ Interrupted \/ Check \/ Migrate
  PROVE  TypeInv'
<1> USE DEF TypeInv, TypeOK, files, world
<1>1. CASE Start
  BY <1>1, OpenGoto DEF Start, Open, Numbered, Kinds
<1>2. CASE Interrupted
  <2>1. op' \in Ops \cup {Idle} /\ op'.kind \in {"open", "idle"}
    <3>1. op \in Ops /\ op.kind = "open" /\ [op EXCEPT !.pc = "check"].kind = "open"
          /\ [op EXCEPT !.pc = "forget"].kind = "open"
      BY <1>2 DEF Interrupted, At, Ops
    <3>2. op' \in {[op EXCEPT !.pc = "check"], [op EXCEPT !.pc = "forget"], Idle}
      BY <1>2 DEF Interrupted, Opened, Goto
    <3>3. [op EXCEPT !.pc = "check"] \in Ops /\ [op EXCEPT !.pc = "forget"] \in Ops
      BY <3>1, OpenGoto
    <3>4. Idle.kind = "idle"
      BY DEF Idle
    <3> QED
      BY <3>1, <3>2, <3>3, <3>4
  <2>2. primary' \in Files /\ staging' \in Files /\ state' \in {"down", "ready", "recovery", "failed"}
    BY <1>2 DEF Interrupted, Opened, Files
  <2>3. faults' \in 0 .. MaxFaults
    BY <1>2, FaultType DEF Interrupted
  <2> QED
    BY <1>2, <2>1, <2>2, <2>3 DEF Interrupted, Numbered, Kinds
<1>3. CASE Check
  <2>1. op' \in Ops \cup {Idle} /\ (op'.kind \in Kinds => op'.pc = "copy") /\ op'.kind # "restore"
    <3> DEFINE copying == [kind |-> "premigration", pc |-> "copy", book |-> Book, ok |-> TRUE]
    <3>1. op' = Idle \/ op' = copying
      BY <1>3 DEF Check, Opened
    <3>2. copying \in Ops
      <4>1. Book \in Manifests /\ "premigration" \in Kinds
        BY BookType DEF Kinds
      <4> QED
        BY <4>1, CopyingType
    <3>3. copying.kind = "premigration" /\ copying.pc = "copy"
      OBVIOUS
    <3>4. Idle.kind = "idle"
      BY DEF Idle
    <3> HIDE DEF copying
    <3> QED
      BY <3>1, <3>2, <3>3, <3>4 DEF Kinds
  <2>2. primary' \in Files /\ state' \in {"down", "ready", "recovery", "failed"}
    BY <1>3, BoundAssumption DEF Check, Opened, Files, Databases
  <2>3. faults' \in 0 .. MaxFaults
    BY <1>3, FaultType DEF Check
  <2> QED
    BY <1>3, <2>1, <2>2, <2>3 DEF Check, Numbered
<1>4. CASE Migrate
  <2>1. op' = Idle /\ primary' \in Files /\ state' \in {"down", "ready", "recovery", "failed"}
    BY <1>4 DEF Migrate, Opened, Whole, Files, Databases
  <2>2. faults' \in 0 .. MaxFaults
    BY <1>4, FaultType DEF Migrate
  <2> QED
    BY <1>4, <2>1, <2>2 DEF Migrate, Numbered, Idle, Kinds
<1> QED
  BY <1>1, <1>2, <1>3, <1>4

LEMMA ForgetType ==
  ASSUME TypeInv, Forget
  PROVE  TypeInv'
<1> USE DEF TypeInv, TypeOK, world
<1>1. op' \in Ops \cup {Idle} /\ op'.kind \notin Kinds /\ op'.pc \in {"check", "write"}
  <2>1. CASE op.kind = "open"
    <3>1. op' = [op EXCEPT !.pc = "check"]
      BY <2>1 DEF Forget, Goto
    <3> QED
      BY <2>1, <3>1, OpenGoto DEF Forget, At, Ops, Kinds
  <2>2. CASE op.kind = "restore"
    <3>1. op' = [op EXCEPT !.pc = "write"]
      BY <2>2 DEF Forget, Goto
    <3> QED
      BY <2>2, <3>1, RestoreGoto DEF Forget, At, Ops, Kinds
  <2> QED
    BY <2>1, <2>2 DEF Forget, At
<1>2. faults' \in 0 .. MaxFaults
  BY FaultType DEF Forget
<1> QED
  BY <1>1, <1>2 DEF Forget, Numbered

LEMMA CopyType ==
  ASSUME TypeInv, Daily \/ CopyPrimary \/ VerifyCopy \/ Publish \/ Rotate \/ WriteManifest
  PROVE  TypeInv'
<1> USE DEF TypeInv, TypeOK, files, world
<1>1. CASE Daily
  <2>1. op' \in Ops \cup {Idle} /\ (op'.kind \in Kinds => op'.pc = "copy") /\ op'.kind # "restore"
    BY <1>1, BookType DEF Daily, Ops, Kinds, Idle
  <2> QED
    BY <1>1, <2>1 DEF Daily, Numbered
<1>2. CASE CopyPrimary
  <2>1. op.kind \in Kinds /\ op.pc = "copy" /\ op.book.nextId \in Ids
    BY <1>2 DEF CopyPrimary, At
  <2>2. staging' \in Files /\ state' \in {"down", "ready", "recovery", "failed"}
    BY <1>2, <2>1, CreatedType DEF CopyPrimary, Copied, Files
  <2>3. op' \in Ops \cup {Idle} /\ (op'.kind \in {"open", "idle"} \/ op' = [op EXCEPT !.pc = "verify"])
    BY <1>2, <2>1, CopyGoto, CreatedType DEF CopyPrimary, Copied, Goto
  <2>4. Numbered'
    BY <2>1, <2>3 DEF Numbered, Ops, Kinds, Idle
  <2>5. faults' \in 0 .. MaxFaults
    BY <1>2, FaultType DEF CopyPrimary, Copied
  <2> QED
    BY <1>2, <2>2, <2>3, <2>4, <2>5 DEF CopyPrimary
<1>3. CASE VerifyCopy
  <2>1. op.kind \in Kinds /\ op.pc = "verify" /\ op.book.nextId \in Ids
    BY <1>3 DEF VerifyCopy, At, Numbered
  <2>2. op' \in Ops \cup {Idle} /\ (op'.kind \in {"open", "idle"} \/ op' = [op EXCEPT !.pc = "publish"])
    BY <1>3, <2>1, CopyGoto, CreatedType DEF VerifyCopy, Goto
  <2>3. staging' \in Files /\ state' \in {"down", "ready", "recovery", "failed"}
    BY <1>3, <2>1, CreatedType DEF VerifyCopy, Files
  <2>4. copies' \in [Names -> Files]
    BY <1>3 DEF VerifyCopy, Files
  <2>5. Numbered'
    BY <2>1, <2>2 DEF Numbered, Ops, Kinds, Idle
  <2> QED
    BY <1>3, <2>2, <2>3, <2>4, <2>5 DEF VerifyCopy
<1>4. CASE Publish
  <2>1. op.kind \in Kinds /\ op.pc = "publish" /\ op.book.nextId \in Ids
    BY <1>4 DEF Publish, At, Numbered
  <2>2. op' \in Ops \cup {Idle} /\ (op'.kind \in {"open", "idle"} \/ op' = [op EXCEPT !.pc = "rotate"])
    BY <1>4, <2>1, CopyGoto, CreatedType DEF Publish, Goto
  <2>3. staging' \in Files /\ state' \in {"down", "ready", "recovery", "failed"}
    BY <1>4, <2>1, CreatedType DEF Publish, Files
  <2>4. copies' \in [Names -> Files] /\ taken' \subseteq Ids
    BY <1>4, <2>1 DEF Publish, Name
  <2>5. Numbered'
    BY <2>1, <2>2 DEF Numbered, Ops, Kinds, Idle
  <2>6. faults' \in 0 .. MaxFaults
    BY <1>4, FaultType DEF Publish
  <2> QED
    BY <1>4, <2>2, <2>3, <2>4, <2>5, <2>6 DEF Publish
<1>5. CASE Rotate
  <2>1. op.kind \in Kinds /\ op.book.nextId \in Ids /\ op.book \in Manifests /\ op \in Ops
    BY <1>5, CopyGoto DEF Rotate, At, Numbered
  <2>2. Name \in Names
    BY <2>1 DEF Name, Names
  <2> DEFINE entries == op.book.entries \cup {Name}
  <2>3. PICK stuck \in SUBSET {e \in Expired(entries) : copies[e] # None} :
          /\ IF stuck = {} THEN NoFault ELSE Fault
          /\ copies' = [n \in Names |-> IF n \in Expired(entries) \ stuck THEN None ELSE copies[n]]
          /\ op' = [op EXCEPT !.pc = "write", !.ok = (stuck = {}),
                     !.book = [nextId |-> Name.id + 1, entries |-> {e \in entries : copies'[e] # None}]]
    BY <1>5 DEF Rotate
  <2>4. [nextId |-> Name.id + 1, entries |-> {e \in entries : copies'[e] # None}] \in Manifests
    BY <2>1, <2>2, BoundAssumption DEF Manifests, Name, Ids
  <2>5. op' \in Ops /\ op'.kind = op.kind /\ op'.pc = "write"
    BY <2>1, <2>3, <2>4 DEF Ops, Kinds
  <2>6. copies' \in [Names -> Files]
    BY <2>3 DEF Files
  <2>7. faults' \in 0 .. MaxFaults
    BY <2>3, FaultType
  <2> QED
    BY <1>5, <2>1, <2>5, <2>6, <2>7 DEF Rotate, Numbered, Kinds
<1>6. CASE WriteManifest
  <2>1. op.kind \in Kinds
    BY <1>6 DEF WriteManifest, At
  <2>2. op' \in Ops \cup {Idle} /\ op'.kind \in {"open", "idle"}
        /\ state' \in {"down", "ready", "recovery", "failed"}
    BY <1>6, <2>1, CreatedType DEF WriteManifest
  <2>3. manifest' \in Manifests \cup {None}
    BY <1>6, <2>1, CopyGoto DEF WriteManifest, Writes
  <2>4. faults' \in 0 .. MaxFaults
    BY <1>6, FaultType DEF WriteManifest, Writes
  <2> QED
    BY <1>6, <2>2, <2>3, <2>4 DEF WriteManifest, Numbered, Kinds
<1> QED
  BY <1>1, <1>2, <1>3, <1>4, <1>5, <1>6

LEMMA RestoreType ==
  ASSUME TypeInv,
         \/ \E e \in Names : Restore(e)
         \/ CopyBackup \/ JournalStaged \/ Aside \/ JournalQuarantined \/ TakeName \/ Restored
  PROVE  TypeInv'
<1> USE DEF TypeInv, TypeOK, files, world
<1>1. ASSUME NEW e \in Names, Restore(e) PROVE TypeInv'
  <2>1. op' \in Ops /\ op'.kind = "restore" /\ op'.pc = "copy"
    BY <1>1, BookType, BoundAssumption DEF Restore, Ops
  <2> QED
    BY <1>1, <2>1 DEF Restore, Numbered, Kinds
<1>2. CASE CopyBackup
  <2>1. op.kind = "restore" /\ op.pc = "copy" /\ op.book.nextId \in Ids /\ op.from \in Names
    BY <1>2, RestoreGoto DEF CopyBackup, At
  <2>2. staging' \in Files /\ state' = state
    BY <1>2, <2>1 DEF CopyBackup, Copied, Files
  <2>3. op' \in Ops \cup {Idle} /\ (op' = Idle \/ op' = [op EXCEPT !.pc = "verify"])
    BY <1>2, <2>1, RestoreGoto DEF CopyBackup, Copied, Goto
  <2>4. Numbered'
    BY <2>1, <2>3 DEF Numbered, Ops, Kinds, Idle
  <2>5. faults' \in 0 .. MaxFaults
    BY <1>2, FaultType DEF CopyBackup, Copied
  <2> QED
    BY <1>2, <2>2, <2>3, <2>4, <2>5 DEF CopyBackup
<1>3. CASE JournalStaged
  <2>1. op.kind = "restore" /\ op.pc = "verify" /\ op.book.nextId \in Ids /\ op \in Ops
    BY <1>3 DEF JournalStaged, At, Numbered
  <2>2. [phase |-> "staged"] \in Journals
    BY DEF Journals
  <2>3. journal' \in Journals \cup {None} /\ staging' \in Files /\ faults' \in 0 .. MaxFaults
    BY <1>3, <2>2, FaultType DEF JournalStaged, Writes, Files
  <2>4. op' = Idle \/ op' = [op EXCEPT !.pc = "aside", !.aside = op.book.nextId,
                                       !.book.nextId = op.book.nextId + 1]
    BY <1>3 DEF JournalStaged
  <2>5. op.book \in Manifests
    BY <2>1, RestoreGoto
  <2>6. op' = Idle \/ (op' \in Ops /\ op'.kind = "restore" /\ op'.pc = "aside" /\ op'.aside \in Ids)
    BY <2>1, <2>4, <2>5, NumberTaken
  <2>7. op' \in Ops \cup {Idle} /\ Numbered'
    BY <2>6 DEF Kinds, Idle, Numbered
  <2>8. lost' \in BOOLEAN
    BY <1>3 DEF JournalStaged
  <2> QED
    BY <1>3, <2>3, <2>7, <2>8 DEF JournalStaged
<1>4. CASE Aside
  <2>1. op.kind = "restore" /\ op.pc = "aside" /\ op.aside \in Ids
    BY <1>4 DEF Aside, At, Numbered
  <2>2. op' \in Ops \cup {Idle} /\ (op' = Idle \/ op' = [op EXCEPT !.pc = "mark"])
    BY <1>4, <2>1, RestoreGoto DEF Aside, Goto
  <2>3. kept' \in [Ids -> Files] /\ primary' \in Files
    BY <1>4 DEF Aside, Files
  <2>4. Numbered'
    BY <2>1, <2>2 DEF Numbered, Ops, Kinds, Idle
  <2>5. faults' \in 0 .. MaxFaults
    BY <1>4, FaultType DEF Aside
  <2> QED
    BY <1>4, <2>2, <2>3, <2>4, <2>5 DEF Aside
<1>5. CASE JournalQuarantined
  <2>1. op.kind = "restore" /\ op' = [op EXCEPT !.pc = "publish"]
    BY <1>5 DEF JournalQuarantined, At, Goto
  <2>2. op' \in Ops /\ Numbered'
    BY <2>1, RestoreGoto DEF Numbered, Ops, Kinds, Idle
  <2>3. [phase |-> "quarantined"] \in Journals
    BY DEF Journals
  <2>4. journal' \in Journals \cup {None} /\ faults' \in 0 .. MaxFaults /\ lost' \in BOOLEAN
    BY <1>5, <2>3, FaultType DEF JournalQuarantined, Writes
  <2> QED
    BY <1>5, <2>2, <2>4 DEF JournalQuarantined
<1>6. CASE TakeName
  <2>1. op.kind = "restore" /\ op \in Ops
    BY <1>6 DEF TakeName, At
  <2>2. op' = [op EXCEPT !.pc = "forget"] \/ op' = [op EXCEPT !.pc = "write", !.ok = FALSE]
    BY <1>6 DEF TakeName, Goto
  <2>3. op' \in Ops /\ Numbered'
    BY <2>1, <2>2 DEF Numbered, Ops, Kinds
  <2>4. primary' \in Files /\ staging' \in Files /\ faults' \in 0 .. MaxFaults
    BY <1>6, FaultType DEF TakeName, Files
  <2> QED
    BY <1>6, <2>3, <2>4 DEF TakeName
<1>7. CASE Restored
  <2>1. op.kind = "restore" /\ op.book \in Manifests
    BY <1>7, RestoreGoto DEF Restored, At
  <2>2. op' \in Ops \cup {Idle} /\ op'.kind \in {"open", "idle"}
        /\ state' \in {"down", "ready", "recovery", "failed"}
    BY <1>7, OpenGoto DEF Restored, Open, Idle
  <2>3. manifest' \in Manifests \cup {None} /\ faults' \in 0 .. MaxFaults
    BY <1>7, <2>1, FaultType DEF Restored, Writes
  <2> QED
    BY <1>7, <2>2, <2>3 DEF Restored, Numbered, Kinds
<1> QED
  BY <1>1, <1>2, <1>3, <1>4, <1>5, <1>6, <1>7

LEMMA WorldType ==
  ASSUME TypeInv, Change \/ Spoil \/ NewDay \/ Exit \/ CutShort
  PROVE  TypeInv'
<1> USE DEF TypeInv, TypeOK, files, world
<1>1. CASE Change
  <2>1. changes' \in 0 .. MaxChanges /\ primary' \in Files
    BY <1>1, BoundAssumption DEF Change, Whole, Files, Databases
  <2> QED
    BY <1>1, <2>1 DEF Change, Numbered
<1>2. CASE Spoil
  BY <1>2, FaultType DEF Spoil, Numbered, Files
<1>3. CASE NewDay
  BY <1>3 DEF NewDay, Numbered
<1>4. CASE Exit
  <2>1. build' \in 1 .. MaxSchema /\ exits' \in 0 .. MaxExits
    BY <1>4, BoundAssumption DEF Exit, Ends
  <2> QED
    BY <1>4, <2>1 DEF Exit, Ends, Numbered, Idle, Kinds
<1>5. CASE CutShort
  <2>1. staging' \in Files /\ manifest' \in Manifests \cup {None} /\ journal' \in Journals \cup {None}
        /\ lost' \in BOOLEAN
    <3>1. [phase |-> "unknown"] \in Journals /\ None \in Files /\ Torn \in Files
      BY DEF Journals, Files
    <3> QED
      BY <1>5, <3>1 DEF CutShort
  <2>2. Ends /\ exits' \in 0 .. MaxExits /\ Numbered'
    BY <1>5, BoundAssumption DEF CutShort, Ends, Numbered, Idle, Kinds
  <2> QED
    BY <1>5, <2>1, <2>2 DEF CutShort, Ends
<1> QED
  BY <1>1, <1>2, <1>3, <1>4, <1>5

LEMMA NextType == TypeInv /\ [Next]_vars => TypeInv'
<1>1. TypeInv /\ UNCHANGED vars => TypeInv'
  BY DEF vars, files, world, TypeInv, TypeOK, Numbered
<1> QED
  BY <1>1, OpenType, ForgetType, CopyType, RestoreType, WorldType DEF Next

\* TypeOK, for every instance.
THEOREM TypeCorrect == Spec => []TypeOK
<1>1. TypeInv => TypeOK
  BY DEF TypeInv
<1> QED
  BY <1>1, InitType, NextType, PTL DEF Spec

-----------------------------------------------------------------------------
(* The inductive invariant: what the call in progress may rely on.         *)

\* It works on the manifest as it stands; a restore has taken a number of it.
OnBook ==
  /\ op.kind \in Kinds /\ op.pc # "write" => op.book = Book
  /\ op.kind = "restore" => op.book.entries = Book.entries /\ op.book.nextId >= Book.nextId

\* The next number is above all that are listed.
Above(book) == \A e \in book.entries : e.id < book.nextId
NextIsFree == Above(Book) /\ (op.kind \in Kinds => Above(op.book))

\* What is about to take a name was found whole, and so is whatever has one.
StagedWhole ==
  /\ op.kind \in Kinds /\ op.pc = "publish" => Whole(staging)
  /\ op.kind = "restore" /\ op.pc \in {"aside", "mark", "publish"} => Whole(staging)
CopiesWhole == \A n \in Names : copies[n] # Torn

\* What is about to be listed is there.
Placed ==
  /\ op.kind \in Kinds /\ op.pc = "rotate" => copies[Name] # None
  /\ op.kind \in Kinds /\ op.pc = "write" => \A e \in op.book.entries : copies[e] # None

\* The database is aside when the journal is to say so, and in place again when
\* the journal goes; it is moved only under a journal.
Moved ==
  /\ op.kind = "restore" /\ op.pc \in {"mark", "publish"} => primary = None
  /\ op.kind \in {"open", "restore"} /\ op.pc = "forget" => primary # None
  /\ op.kind = "restore" /\ op.pc = "aside" => journal # None

\* InterruptedIsSeen, in the middle of a call as well
Noticed == primary = None /\ ~lost => journal # None \/ \A i \in Ids : kept[i] = None

IInv == /\ TypeInv /\ OnBook /\ NextIsFree /\ StagedWhole /\ CopiesWhole /\ Placed
        /\ Moved /\ Noticed

LEMMA NameInNames ==
  ASSUME TypeInv, op.kind \in Kinds, op.pc \in {"verify", "publish", "rotate"}
  PROVE  Name \in Names
BY DEF TypeInv, Numbered, Name, Names

\* After a step that ends a call, or opens the store, little is left to show.
LEMMA NoCall ==
  ASSUME op'.kind \in {"open", "idle"}, op'.kind = "open" => op'.pc # "forget"
  PROVE  OnBook' /\ (Above(Book)' => NextIsFree') /\ StagedWhole' /\ Placed' /\ Moved'
BY DEF OnBook, NextIsFree, StagedWhole, Placed, Moved, Kinds

LEMMA GotoKeeps ==
  ASSUME op \in Ops, op.kind \in Kinds \cup {"restore"}, NEW pc, Goto(pc)
  PROVE  op'.kind = op.kind /\ op'.pc = pc /\ op'.book = op.book
BY DEF Goto, Ops, Kinds

LEMMA CreatedEnds ==
  ASSUME NEW ok, Created(ok)
  PROVE  op'.kind \in {"open", "idle"} /\ (op'.kind = "open" => op'.pc # "forget")
BY DEF Created, Opened, Idle

LEMMA OpenStep ==
  ASSUME IInv, Start \/ Interrupted \/ Check \/ Migrate
  PROVE  IInv'
<1>1. TypeInv'
  BY OpenType DEF IInv
<1>2. CASE Start
  <2>1. op'.kind = "open" /\ op'.pc = "journal"
    BY <1>2 DEF Start, Open
  <2> QED
    BY <1>1, <1>2, <2>1, NoCall DEF Start, IInv, NextIsFree, Above, Book, CopiesWhole, Noticed, files
<1>3. CASE Interrupted
  <2>1. op'.kind \in {"open", "idle"} /\ (op'.kind = "open" => op'.pc # "forget" \/ primary' # None)
    BY <1>3 DEF Interrupted, Opened, Goto, At, Idle, IInv, TypeInv, TypeOK, Ops
  <2> QED
    BY <1>1, <1>3, <2>1, NoCall DEF Interrupted, IInv, NextIsFree, Above, Book, CopiesWhole, Noticed,
       OnBook, StagedWhole, Placed, Moved, Kinds
<1>4. CASE Check
  <2>1. \/ op'.kind = "idle"
        \/ op'.kind = "premigration" /\ op'.pc = "copy" /\ op'.book = Book
    BY <1>4 DEF Check, Opened, Idle
  <2>2. primary' = None => primary = None
    BY <1>4, FileAssumption DEF Check
  <2> QED
    BY <1>1, <1>4, <2>1, <2>2 DEF Check, IInv, NextIsFree, Above, Book, CopiesWhole, Noticed,
       OnBook, StagedWhole, Placed, Moved, Kinds
<1>5. CASE Migrate
  <2>1. op'.kind = "idle"
    BY <1>5 DEF Migrate, Opened, Idle
  <2>2. primary' = None => primary = None
    BY <1>5, FileAssumption DEF Migrate, Whole, IInv, TypeInv, TypeOK, Files, Databases
  <2> QED
    BY <1>1, <1>5, <2>1, <2>2, NoCall DEF Migrate, IInv, NextIsFree, Above, Book, CopiesWhole, Noticed
<1> QED
  BY <1>2, <1>3, <1>4, <1>5

LEMMA ForgetStep ==
  ASSUME IInv, Forget
  PROVE  IInv'
<1>1. TypeInv'
  BY ForgetType DEF IInv
<1>2. primary # None
  BY DEF Forget, At, IInv, Moved
<1>3. op'.kind = op.kind /\ op'.pc \in {"check", "write"} /\ op.kind \in {"open", "restore"}
      /\ (op.kind = "restore" => op'.book = op.book)
  BY DEF Forget, Goto, At, IInv, TypeInv, TypeOK, Ops
<1> QED
  BY <1>1, <1>2, <1>3 DEF Forget, IInv, OnBook, NextIsFree, Above, Book, StagedWhole, CopiesWhole,
     Placed, Moved, Noticed, Kinds

LEMMA CopyStep ==
  ASSUME IInv, Daily \/ CopyPrimary \/ VerifyCopy \/ Publish \/ Rotate \/ WriteManifest
  PROVE  IInv'
<1>1. TypeInv'
  BY CopyType DEF IInv
<1>2. op \in Ops \cup {Idle} /\ copies \in [Names -> Files]
  BY DEF IInv, TypeInv, TypeOK
<1>3. CASE Daily
  <2>1. \/ op'.kind = "idle"
        \/ op'.kind = "daily" /\ op'.pc = "copy" /\ op'.book = Book
    BY <1>3 DEF Daily, Idle
  <2> QED
    BY <1>1, <1>3, <2>1 DEF Daily, IInv, OnBook, NextIsFree, Above, Book, StagedWhole, CopiesWhole,
       Placed, Moved, Noticed, Kinds, files
<1>4. CASE CopyPrimary
  <2>1. \/ op'.kind \in {"open", "idle"} /\ (op'.kind = "open" => op'.pc # "forget")
        \/ op'.kind = op.kind /\ op'.pc = "verify" /\ op'.book = op.book
    BY <1>2, <1>4, CreatedEnds DEF CopyPrimary, Copied, Goto, At, Ops
  <2>2. op.kind \in Kinds /\ op.pc = "copy"
    BY <1>4 DEF CopyPrimary, At
  <2> QED
    BY <1>1, <1>4, <2>1, <2>2 DEF CopyPrimary, IInv, OnBook, NextIsFree, Above, Book, StagedWhole,
       CopiesWhole, Placed, Moved, Noticed, Kinds
<1>5. CASE VerifyCopy
  <2>1. op.kind \in Kinds /\ op.pc = "verify"
    BY <1>5 DEF VerifyCopy, At
  <2>2. \/ op'.kind \in {"open", "idle"} /\ (op'.kind = "open" => op'.pc # "forget")
        \/ op'.kind = op.kind /\ op'.pc = "publish" /\ op'.book = op.book /\ Whole(staging')
    <3>1. CASE Whole(staging)
      BY <1>2, <1>5, <2>1, <3>1, GotoKeeps DEF VerifyCopy, At
    <3>2. CASE ~Whole(staging)
      BY <1>5, <3>2, CreatedEnds DEF VerifyCopy
    <3> QED
      BY <3>1, <3>2
  <2>3. CopiesWhole'
    BY <1>2, <1>5, FileAssumption DEF VerifyCopy, CopiesWhole, IInv
  <2> QED
    BY <1>1, <1>5, <2>1, <2>2, <2>3 DEF VerifyCopy, IInv, OnBook, NextIsFree, Above, Book, StagedWhole,
       Placed, Moved, Noticed, Kinds
<1>6. CASE Publish
  <2>1. op.kind \in Kinds /\ op.pc = "publish" /\ Whole(staging) /\ Name \in Names
    BY <1>6, NameInNames DEF Publish, At, IInv, StagedWhole
  <2>2. \/ op'.kind \in {"open", "idle"} /\ (op'.kind = "open" => op'.pc # "forget")
        \/ op'.kind = op.kind /\ op'.pc = "rotate" /\ op'.book = op.book
           /\ copies' = [copies EXCEPT ![Name] = staging]
    BY <1>2, <1>6, <2>1, CreatedEnds, GotoKeeps DEF Publish, At
  <2>3. CopiesWhole'
    BY <1>2, <1>6, <2>1 DEF Publish, CopiesWhole, IInv, Whole
  <2>4. op'.kind \in Kinds => copies'[Name'] # None
    <3> SUFFICES ASSUME op'.kind = op.kind, op'.book = op.book,
                        copies' = [copies EXCEPT ![Name] = staging]
                 PROVE  copies'[Name'] # None
      BY <2>2 DEF Kinds
    <3>1. Name' = Name
      BY DEF Name
    <3> QED
      BY <1>2, <2>1, <3>1 DEF Whole
  <2> QED
    BY <1>1, <1>6, <2>1, <2>2, <2>3, <2>4 DEF Publish, IInv, OnBook, NextIsFree, Above, Book, StagedWhole,
       Placed, Moved, Noticed, Kinds
<1>7. CASE Rotate
  <2>1. op.kind \in Kinds /\ op.pc = "rotate" /\ Name \in Names
    BY <1>7, NameInNames DEF Rotate, At, IInv
  <2>2. op'.kind = op.kind /\ op'.pc = "write" /\ op'.book.nextId = Name.id + 1
        /\ op'.book.entries = {e \in op.book.entries \cup {Name} : copies'[e] # None}
    <3>1. PICK ok : op' = [op EXCEPT !.pc = "write", !.ok = ok,
                             !.book = [nextId |-> Name.id + 1,
                                       entries |-> {e \in op.book.entries \cup {Name} : copies'[e] # None}]]
      BY <1>7 DEF Rotate
    <3>2. op \in Ops
      BY <1>2, <1>7 DEF Rotate, At
    <3> QED
      BY <2>1, <3>1, <3>2 DEF Ops, Kinds
  <2>3. CopiesWhole'
    BY <1>7, FileAssumption DEF Rotate, CopiesWhole, IInv
  <2>4. Above(op'.book)
    <3>1. Above(op.book) /\ Name.id = op.book.nextId /\ Name.id \in Nat /\ op.book \in Manifests
      BY <1>2, <2>1, CopyGoto, BoundAssumption DEF IInv, NextIsFree, Name, Names, Ids
    <3>2. \A e \in op.book.entries : e.id \in Nat
      BY <3>1 DEF Manifests, Names, Ids
    <3> QED
      BY <2>2, <3>1, <3>2 DEF Above
  <2> QED
    BY <1>1, <1>7, <2>1, <2>2, <2>3, <2>4 DEF Rotate, IInv, OnBook, NextIsFree, Above, Book, StagedWhole,
       Placed, Moved, Noticed, Kinds
<1>8. CASE WriteManifest
  <2>1. op.kind \in Kinds /\ op.pc = "write"
    BY <1>8 DEF WriteManifest, At
  <2>2. op'.kind \in {"open", "idle"} /\ (op'.kind = "open" => op'.pc # "forget")
    BY <1>8, CreatedEnds DEF WriteManifest
  <2>3. manifest' \in {manifest, op.book, None}
    BY <1>8 DEF WriteManifest, Writes
  <2>4. Above(Book)'
    BY <2>1, <2>3 DEF IInv, NextIsFree, Above, Book, Empty
  <2> QED
    BY <1>1, <1>8, <2>2, <2>4, NoCall DEF WriteManifest, IInv, CopiesWhole, Noticed
<1> QED
  BY <1>3, <1>4, <1>5, <1>6, <1>7, <1>8

LEMMA RestoreStep ==
  ASSUME IInv,
         \/ \E e \in Names : Restore(e)
         \/ CopyBackup \/ JournalStaged \/ Aside \/ JournalQuarantined \/ TakeName \/ Restored
  PROVE  IInv'
<1>1. TypeInv'
  BY RestoreType DEF IInv
<1>2. op \in Ops \cup {Idle} /\ kept \in [Ids -> Files]
  BY DEF IInv, TypeInv, TypeOK
<1> USE DEF Kinds
<1>3. ASSUME NEW e \in Names, Restore(e) PROVE IInv'
  <2>1. op'.kind = "restore" /\ op'.pc = "copy" /\ op'.book = Book
    BY <1>3 DEF Restore
  <2>2. Book.nextId >= Book.nextId
    BY BookType DEF IInv, TypeInv, Manifests
  <2> QED
    BY <1>1, <1>3, <2>1, <2>2 DEF Restore, IInv, OnBook, NextIsFree, Above, Book, StagedWhole,
       CopiesWhole, Placed, Moved, Noticed, files
<1>4. CASE CopyBackup
  <2>1. op.kind = "restore" /\ op.pc = "copy"
    BY <1>4 DEF CopyBackup, At
  <2>2. op'.kind = "idle" \/ (op'.kind = "restore" /\ op'.pc = "verify" /\ op'.book = op.book)
    BY <1>2, <1>4 DEF CopyBackup, Copied, Goto, At, Ops, Idle
  <2> QED
    BY <1>1, <1>4, <2>1, <2>2 DEF CopyBackup, IInv, OnBook, NextIsFree, Above, Book, StagedWhole,
       CopiesWhole, Placed, Moved, Noticed
<1>5. CASE JournalStaged
  <2>1. op.kind = "restore" /\ op.pc = "verify" /\ op \in Ops /\ op.book \in Manifests
    BY <1>2, <1>5, RestoreGoto DEF JournalStaged, At
  <2>2. \/ op' = Idle
        \/ /\ op' = [op EXCEPT !.pc = "aside", !.aside = op.book.nextId,
                               !.book.nextId = op.book.nextId + 1]
           /\ Whole(staging) /\ staging' = staging /\ faults' = faults
    BY <1>5 DEF JournalStaged
  <2>3. faults' = faults /\ Whole(staging) => journal' # None
    <3>1. faults \in Nat
      BY BoundAssumption DEF IInv, TypeInv, TypeOK
    <3> QED
      BY <1>5, <3>1, FileAssumption DEF JournalStaged, Writes, Fault, Journals
  <2>4. \/ op'.kind = "idle"
        \/ op'.kind = "restore" /\ op'.pc = "aside" /\ op'.book.entries = op.book.entries
           /\ op'.book.nextId = op.book.nextId + 1 /\ Whole(staging') /\ journal' # None
    <3>1. Idle.kind = "idle"
      BY DEF Idle
    <3>2. op.book.nextId \in Ids
      BY <2>1 DEF IInv, TypeInv, Numbered
    <3> QED
      BY <2>1, <2>2, <2>3, <3>1, <3>2, NumberTaken
  <2>5. op.book.nextId \in Nat /\ Book.nextId \in Nat
    BY <2>1, BookType, BoundAssumption DEF Manifests, IInv, TypeInv
  <2>6. Noticed'
    BY <1>5 DEF JournalStaged, IInv, Noticed
  <2> QED
    BY <1>1, <1>5, <2>1, <2>4, <2>5, <2>6 DEF JournalStaged, IInv, OnBook, NextIsFree, Above, Book,
       StagedWhole, CopiesWhole, Placed, Moved
<1>6. CASE Aside
  <2>1. op.kind = "restore" /\ op.pc = "aside" /\ journal # None
    BY <1>6 DEF Aside, At, IInv, Moved
  <2>2. op'.kind = "idle"
        \/ (op'.kind = "restore" /\ op'.pc = "mark" /\ op'.book = op.book /\ primary' = None)
    BY <1>2, <1>6 DEF Aside, Goto, At, Ops, Idle
  <2> QED
    BY <1>1, <1>6, <2>1, <2>2 DEF Aside, IInv, OnBook, NextIsFree, Above, Book, StagedWhole,
       CopiesWhole, Placed, Moved, Noticed
<1>7. CASE JournalQuarantined
  <2>1. op.kind = "restore" /\ op.pc = "mark"
        /\ op'.kind = "restore" /\ op'.pc = "publish" /\ op'.book = op.book
    BY <1>2, <1>7 DEF JournalQuarantined, Goto, At, Ops
  <2>2. Noticed'
    BY <1>7 DEF JournalQuarantined, IInv, Noticed
  <2> QED
    BY <1>1, <1>7, <2>1, <2>2 DEF JournalQuarantined, IInv, OnBook, NextIsFree, Above, Book, StagedWhole,
       CopiesWhole, Placed, Moved
<1>8. CASE TakeName
  <2>1. op.kind = "restore" /\ op.pc = "publish" /\ Whole(staging)
    BY <1>8 DEF TakeName, At, IInv, StagedWhole
  <2>2. op'.kind = "restore" /\ op'.book = op.book
        /\ (op'.pc = "write" \/ (op'.pc = "forget" /\ primary' = staging))
    BY <1>2, <1>8 DEF TakeName, Goto, At, Ops
  <2> QED
    BY <1>1, <1>8, <2>1, <2>2 DEF TakeName, IInv, OnBook, NextIsFree, Above, Book, StagedWhole, Whole,
       CopiesWhole, Placed, Moved, Noticed
<1>9. CASE Restored
  <2>1. op.kind = "restore" /\ op.book \in Manifests
    BY <1>2, <1>9, RestoreGoto DEF Restored, At
  <2>2. op'.kind \in {"open", "idle"} /\ (op'.kind = "open" => op'.pc # "forget")
    BY <1>9 DEF Restored, Open, Idle
  <2>3. manifest' \in {manifest, op.book, None}
    BY <1>9 DEF Restored, Writes
  <2>4. Above(op.book)
    <3>1. Above(Book) /\ op.book.entries = Book.entries /\ op.book.nextId >= Book.nextId
      BY <2>1 DEF IInv, NextIsFree, OnBook
    <3>2. Book \in Manifests
      BY BookType DEF IInv, TypeInv
    <3> QED
      BY <2>1, <3>1, <3>2 DEF Above, Manifests, Names, Ids
  <2>5. Above(Book)'
    BY <2>3, <2>4 DEF IInv, NextIsFree, Above, Book, Empty
  <2> QED
    BY <1>1, <1>9, <2>2, <2>5, NoCall DEF Restored, IInv, CopiesWhole, Noticed
<1> QED
  BY <1>3, <1>4, <1>5, <1>6, <1>7, <1>8, <1>9

LEMMA ChangeKeeps ==
  ASSUME IInv, Change
  PROVE  primary' # None
<1>1. primary \in Databases
  BY DEF Change, Whole, IInv, TypeInv, TypeOK, Files
<1>2. changes' \in 0 .. MaxChanges
  BY WorldType DEF IInv, TypeInv, TypeOK
<1>3. primary' \in Databases
  BY <1>1, <1>2 DEF Change, Databases
<1> QED
  BY <1>3, FileAssumption

LEMMA WorldStep ==
  ASSUME IInv, Change \/ Spoil \/ NewDay \/ Exit \/ CutShort
  PROVE  IInv'
<1>1. TypeInv'
  BY WorldType DEF IInv
<1>2. op'.kind = "idle"
  BY DEF Change, Spoil, NewDay, Exit, CutShort, Ends, Idle
<1>3. CASE Change \/ Spoil
  <2>1. primary # None /\ UNCHANGED <<manifest, copies>>
    BY <1>3 DEF Change, Spoil, Whole
  <2>2. primary' # None
    <3>1. CASE Change
      BY <3>1, ChangeKeeps
    <3> QED
      BY <1>3, <3>1, FileAssumption DEF Spoil
  <2> QED
    BY <1>1, <1>2, <2>1, <2>2, NoCall DEF IInv, NextIsFree, Above, Book, CopiesWhole, Noticed
<1>4. CASE NewDay \/ Exit
  <2>1. UNCHANGED files /\ UNCHANGED lost
    BY <1>4 DEF NewDay, Exit
  <2> QED
    BY <1>1, <1>2, <2>1, NoCall DEF IInv, NextIsFree, Above, Book, CopiesWhole, Noticed, files
<1>5. CASE CutShort
  <2>1. UNCHANGED <<primary, copies, kept>> /\ manifest' \in {manifest, None}
    BY <1>5 DEF CutShort
  <2>2. Above(Book)'
    BY <2>1 DEF IInv, NextIsFree, Above, Book, Empty
  <2>3. Noticed'
    <3>1. primary' = primary /\ kept' = kept
      BY <1>5 DEF CutShort
    <3>2. \/ journal' = journal /\ lost' = lost
          \/ lost' = (lost \/ (journal # None /\ journal' = None))
      BY <1>5 DEF CutShort
    <3> QED
      BY <3>1, <3>2 DEF IInv, Noticed
  <2> QED
    BY <1>1, <1>2, <2>1, <2>2, <2>3, NoCall DEF IInv, CopiesWhole
<1> QED
  BY <1>3, <1>4, <1>5

\* IInv is inductive: whatever fails or stops, the next call finds files it can
\* go on from.
THEOREM Inductive == Spec => []IInv
<1>1. Init => IInv
  <2> SUFFICES ASSUME Init PROVE IInv
    OBVIOUS
  <2>1. TypeInv
    BY InitType
  <2> QED
    BY <2>1, FileAssumption DEF Init, IInv, OnBook, NextIsFree, Above, Book, Empty, StagedWhole,
       CopiesWhole, Placed, Moved, Noticed, Idle, Kinds
<1>2. IInv /\ [Next]_vars => IInv'
  <2> SUFFICES ASSUME IInv, [Next]_vars PROVE IInv'
    OBVIOUS
  <2>1. CASE UNCHANGED vars
    <3>1. TypeInv'
      BY <2>1, NextType DEF IInv
    <3>2. UNCHANGED <<files, op, lost>>
      BY <2>1 DEF vars
    <3> QED
      BY <3>1, <3>2 DEF IInv, OnBook, NextIsFree, Above, Book, StagedWhole, CopiesWhole, Placed, Moved,
         Noticed, Name, files
  <2> QED
    BY <2>1, OpenStep, ForgetStep, CopyStep, RestoreStep, WorldStep DEF Next
<1> QED
  BY <1>1, <1>2, PTL DEF Spec

-----------------------------------------------------------------------------
(* What follows from it.                                                   *)

\* ListedIsWhole: no copy that the player can be offered is torn.
THEOREM ListedStaysWhole == Spec => []ListedIsWhole
<1>1. IInv => ListedIsWhole
  BY BookType DEF IInv, TypeInv, CopiesWhole, ListedIsWhole, Manifests
<1> QED
  BY <1>1, Inductive, PTL

\* InterruptedIsSeen: a database that is aside with nothing in its place has a
\* journal that says so, unless the journal itself was lost.
THEOREM InterruptionIsSeen == Spec => []InterruptedIsSeen
<1>1. IInv => InterruptedIsSeen
  BY DEF IInv, Noticed, InterruptedIsSeen
<1> QED
  BY <1>1, Inductive, PTL

\* OriginalKept: the database is never lost, and never takes the place of an
\* earlier one in quarantine.
THEOREM OriginalStays == Spec => OriginalKept
<1> DEFINE Kept == /\ primary # None /\ primary' = None =>
                        \E i \in Ids : kept[i] = None /\ kept'[i] = primary
                   /\ \A i \in Ids : kept[i] # None => kept'[i] = kept[i]
<1>1. IInv /\ IInv' /\ [Next]_vars => [Kept]_vars
  <2> SUFFICES ASSUME IInv, IInv', Next PROVE Kept
    OBVIOUS
  <2>1. CASE Aside
    <3>1. op.aside \in Ids /\ kept \in [Ids -> Files]
      BY <2>1 DEF Aside, At, IInv, TypeInv, TypeOK, Numbered
    <3> QED
      BY <2>1, <3>1 DEF Aside
  <2>2. CASE TakeName
    <3>1. Whole(staging)
      BY <2>2 DEF TakeName, At, IInv, StagedWhole
    <3> QED
      BY <2>2, <3>1 DEF TakeName, Whole
  <2>3. CASE Interrupted
    BY <2>3 DEF Interrupted
  <2>4. CASE Migrate
    <3>1. primary # None => primary' # None
      BY <2>4, FileAssumption DEF Migrate, Whole, IInv, TypeInv, TypeOK, Files, Databases
    <3> QED
      BY <2>4, <3>1 DEF Migrate
  <2>5. CASE Change
    <3>1. primary' # None
      BY <2>5, ChangeKeeps
    <3> QED
      BY <2>5, <3>1 DEF Change
  <2>6. CASE Start \/ Forget \/ Check \/ Daily \/ CopyPrimary \/ VerifyCopy \/ Publish \/ Rotate
             \/ WriteManifest \/ (\E e \in Names : Restore(e)) \/ CopyBackup \/ JournalStaged
             \/ JournalQuarantined \/ Restored \/ NewDay \/ Exit \/ CutShort
    BY <2>6 DEF Start, Forget, Check, Daily, CopyPrimary, VerifyCopy, Publish, Rotate,
       WriteManifest, Restore, CopyBackup, JournalStaged, JournalQuarantined, Restored, NewDay,
       Exit, CutShort, files
  <2>7. CASE Spoil
    BY <2>7, FileAssumption DEF Spoil
  <2> QED
    BY <2>1, <2>2, <2>3, <2>4, <2>5, <2>6, <2>7 DEF Next
<1> QED
  BY <1>1, Inductive, PTL DEF Spec, OriginalKept

-----------------------------------------------------------------------------
(* Rotation spares the newest.                                             *)

\* A set of names in which some have expired holds one past which none has.
LEMMA NewestExpired ==
  ASSUME NEW expired \in SUBSET Names, NEW n \in expired
  PROVE  \E x \in expired : /\ x.kind = n.kind /\ x.id >= n.id
                            /\ \A y \in expired : y.kind = n.kind => y.id <= x.id
<1> DEFINE Ranks == {MaxId - y.id : y \in {z \in expired : z.kind = n.kind}}
           Less  == OpToRel(<, Nat)
<1>1. \A y \in expired : y.id \in Int /\ MaxId - y.id \in Nat
  BY BoundAssumption DEF Names, Ids
<1>2. Ranks \subseteq Nat /\ Ranks # {}
  BY <1>1
<1>3. PICK r \in Ranks : \A q \in Ranks : ~(<<q, r>> \in Less)
  <2> HIDE DEF Ranks, Less
  <2>1. IsWellFoundedOn(Less, Nat)
    BY NatLessThanWellFounded DEF Less
  <2> QED
    BY <1>2, <2>1, WFMin
<1>4. \A q \in Ranks : r <= q
  <2> HIDE DEF Ranks
  <2> SUFFICES ASSUME NEW q \in Ranks PROVE ~(q < r)
    BY <1>2
  <2>1. q \in Nat /\ r \in Nat /\ <<q, r>> \notin Less
    BY <1>2, <1>3
  <2> QED
    BY <2>1 DEF OpToRel
<1>5. PICK x \in expired : x.kind = n.kind /\ r = MaxId - x.id
  OBVIOUS
<1>6. \A y \in expired : y.kind = n.kind => y.id <= x.id
  <2> SUFFICES ASSUME NEW y \in expired, y.kind = n.kind PROVE y.id <= x.id
    OBVIOUS
  <2>1. r <= MaxId - y.id
    BY <1>4
  <2> QED
    BY <1>1, <1>5, <2>1, BoundAssumption
<1> QED
  BY <1>1, <1>5, <1>6

LEMMA NewerFinite ==
  ASSUME NEW kind, NEW named \in SUBSET {m \in Names : m.kind = kind}
  PROVE  IsFiniteSet(named)
<1> DEFINE number == [m \in named |-> m.id]
<1>1. number \in Injection(named, 1 .. MaxId)
  <2>1. \A m \in named : m \in [id : 1 .. MaxId, kind : Kinds] /\ m.kind = kind
    BY DEF Names, Ids
  <2>2. \A m1, m2 \in named : m1.id = m2.id => m1 = m2
    BY <2>1
  <2> QED
    BY <2>1, <2>2 DEF Injection, IsInjective
<1>2. IsFiniteSet(1 .. MaxId)
  BY FS_Interval, BoundAssumption
<1> QED
  BY <1>1, <1>2, FS_Injection

\* A call's own copy is not among those the manifest lists.
LEMMA NameIsNew ==
  ASSUME IInv, op.kind \in Kinds, op.pc \in {"verify", "publish", "rotate"}
  PROVE  Name \notin Book.entries
<1>1. Above(Book) /\ op.book = Book /\ Name.id = op.book.nextId /\ Book \in Manifests
  BY BookType DEF IInv, TypeInv, NextIsFree, OnBook, Name
<1> QED
  BY <1>1 DEF Above, Manifests, Names, Ids

\* What a rotation does to the copies.
LEMMA RotateDeletes ==
  ASSUME IInv, Rotate
  PROVE  /\ op.book = Book /\ Book.entries \subseteq Names /\ Name \in Names
         /\ copies[Name] # None
         /\ \E stuck \in SUBSET Expired(Book.entries \cup {Name}) :
              /\ stuck # {} => Fault
              /\ copies' = [n \in Names |-> IF n \in Expired(Book.entries \cup {Name}) \ stuck
                                            THEN None ELSE copies[n]]
<1>1. op.kind \in Kinds /\ op.pc = "rotate"
  BY DEF Rotate, At
<1>2. op.book = Book /\ Name \in Names /\ copies[Name] # None /\ Book.entries \subseteq Names
  BY <1>1, NameInNames, BookType DEF IInv, TypeInv, OnBook, Placed, Manifests
<1> QED
  BY <1>2 DEF Rotate

LEMMA RotateSpares ==
  ASSUME IInv, Rotate, Gapless, NEW n \in Book.entries, copies[n] # None, copies'[n] # copies[n]
  PROVE  Cardinality(Newer(n)') >= Retention[n.kind]
<1> DEFINE entries == Book.entries \cup {Name}
<1>1. entries \subseteq Names /\ n \in Names
  BY RotateDeletes
<1>2. PICK stuck \in SUBSET Expired(entries) :
        copies' = [m \in Names |-> IF m \in Expired(entries) \ stuck THEN None ELSE copies[m]]
  BY RotateDeletes
<1>3. n \in Expired(entries) /\ Expired(entries) \in SUBSET Names
  BY <1>1, <1>2 DEF Expired
<1>4. PICK x \in Expired(entries) : /\ x.kind = n.kind /\ x.id >= n.id
                                    /\ \A y \in Expired(entries) : y.kind = n.kind => y.id <= x.id
  <2> DEFINE expired == Expired(entries)
  <2>1. n \in expired /\ expired \in SUBSET Names
    BY <1>3
  <2> HIDE DEF expired
  <2>2. \E x \in expired : /\ x.kind = n.kind /\ x.id >= n.id
                            /\ \A y \in expired : y.kind = n.kind => y.id <= x.id
    BY <2>1, NewestExpired
  <2> QED
    BY <2>2 DEF expired
<1> DEFINE spared == {f \in entries : f.kind = x.kind /\ f.id > x.id}
<1>5. Cardinality(spared) >= Retention[n.kind]
  BY <1>4 DEF Expired
<1>6. spared \subseteq Newer(n)'
  <2> SUFFICES ASSUME NEW f \in entries, f.kind = x.kind, f.id > x.id PROVE f \in Newer(n)'
    OBVIOUS
  <2>1. f \in Names /\ f.kind = n.kind /\ f.id > n.id
    <3>1. f \in Names /\ x \in Names /\ x.kind = n.kind /\ x.id >= n.id
      BY <1>1, <1>3, <1>4
    <3>2. f.id \in Nat /\ x.id \in Nat /\ n.id \in Nat
      BY <1>1, <3>1 DEF Names, Ids
    <3> QED
      BY <3>1, <3>2
  <2>2. f \notin Expired(entries)
    BY <1>3, <1>4, <2>1 DEF Names, Ids
  <2>3. copies[f] # None
    BY <2>1, RotateDeletes DEF Gapless
  <2>4. copies'[f] # None
    BY <1>2, <2>1, <2>2, <2>3
  <2> QED
    BY <2>1, <2>4 DEF Newer
<1>7. IsFiniteSet(Newer(n)') /\ IsFiniteSet(spared)
  <2>1. Newer(n)' \in SUBSET {m \in Names : m.kind = n.kind}
    BY DEF Newer
  <2>2. IsFiniteSet(Newer(n)')
    BY <2>1, NewerFinite
  <2> QED
    BY <1>6, <2>2, FS_Subset
<1>8. Cardinality(spared) <= Cardinality(Newer(n)')
  BY <1>6, <1>7, FS_Subset
<1>9. Cardinality(spared) \in Nat /\ Cardinality(Newer(n)') \in Nat /\ Retention[n.kind] \in Nat
  BY <1>1, <1>7, FS_CardinalityType, RetentionAssumption DEF Names
<1> QED
  BY <1>5, <1>8, <1>9

\* Only what creates a copy writes copies.
LEMMA CopiesStay ==
  ASSUME Next
  PROVE  VerifyCopy \/ Publish \/ Rotate \/ UNCHANGED copies
BY DEF Next, Start, Interrupted, Forget, Check, Migrate, Daily, CopyPrimary, WriteManifest, Restore,
   CopyBackup, JournalStaged, Aside, JournalQuarantined, TakeName, Restored, Change, Spoil, NewDay,
   Exit, CutShort, files

\* Verifying and publishing a copy touches none that is listed.
LEMMA ListedUntouched ==
  ASSUME IInv, VerifyCopy \/ Publish, NEW n \in Book.entries
  PROVE  copies'[n] = copies[n]
<1>1. op.kind \in Kinds /\ op.pc \in {"verify", "publish"}
  BY DEF VerifyCopy, Publish, At
<1>2. n # Name
  BY <1>1, NameIsNew
<1>3. n \in Names /\ copies \in [Names -> Files]
  BY BookType DEF IInv, TypeInv, TypeOK, Manifests
<1> QED
  BY <1>2, <1>3 DEF VerifyCopy, Publish

\* NewestKept: rotation deletes a listed copy only when as many newer ones as the
\* limit asks for stay, and nothing else deletes one.
THEOREM NewestStay == Spec => NewestKept
<1> DEFINE Spared == Gapless =>
             \A n \in Book.entries :
               copies[n] # None /\ copies'[n] # copies[n] =>
                 Cardinality(Newer(n)') >= Retention[n.kind]
<1>1. IInv /\ [Next]_vars => [Spared]_vars
  <2> SUFFICES ASSUME IInv, Next, Gapless, NEW n \in Book.entries,
                      copies[n] # None, copies'[n] # copies[n]
               PROVE  Cardinality(Newer(n)') >= Retention[n.kind]
    OBVIOUS
  <2> QED
    BY CopiesStay, ListedUntouched, RotateSpares
<1> QED
  BY <1>1, Inductive, PTL DEF Spec, NewestKept

\* What is older than an expired copy of its kind has expired as well.
LEMMA ExpiredDownwards ==
  ASSUME NEW entries \in SUBSET Names, NEW n \in entries, NEW m \in entries,
         n.kind = m.kind, n.id < m.id, m \in Expired(entries)
  PROVE  n \in Expired(entries)
<1> DEFINE above(e) == {f \in entries : f.kind = e.kind /\ f.id > e.id}
<1>1. above(m) \subseteq above(n)
  <2>1. \A f \in entries : f.id \in Nat
    BY DEF Names, Ids
  <2> QED
    BY <2>1
<1>2. IsFiniteSet(above(n)) /\ IsFiniteSet(above(m))
  <2>1. above(n) \in SUBSET {f \in Names : f.kind = n.kind}
        /\ above(m) \in SUBSET {f \in Names : f.kind = m.kind}
    OBVIOUS
  <2> HIDE DEF above
  <2> QED
    BY <2>1, NewerFinite
<1>3. Cardinality(above(m)) <= Cardinality(above(n))
  BY <1>1, <1>2, FS_Subset
<1>4. Cardinality(above(m)) \in Nat /\ Cardinality(above(n)) \in Nat /\ Retention[n.kind] \in Nat
  BY <1>2, FS_CardinalityType, RetentionAssumption DEF Names
<1>5. Cardinality(above(m)) >= Retention[m.kind]
  BY DEF Expired
<1> QED
  BY <1>3, <1>4, <1>5 DEF Expired

\* Gapless, which NewestKept assumes, ends only by a rotation that is refused the
\* deletion of a copy; the manifest that is then to be written closes the gap.
GapsByFailure == [][Gapless => Gapless' \/ (Rotate /\ Fault)]_vars

\* GapsByFailure, for every instance: what NewestKept excepts has that one cause.
THEOREM GapsOnlyByFailure == Spec => GapsByFailure
<1> DEFINE Stays == Gapless => Gapless' \/ (Rotate /\ Fault)
<1>1. IInv /\ [Next]_vars => [Stays]_vars
  <2> SUFFICES ASSUME IInv, Next, Gapless, ~(Rotate /\ Fault) PROVE Gapless'
    OBVIOUS
  <2>1. CASE Rotate
    <3> DEFINE entries == Book.entries \cup {Name}
    <3>1. copies' = [m \in Names |-> IF m \in Expired(entries) THEN None ELSE copies[m]]
      BY <2>1, RotateDeletes
    <3>2. Book' = Book
      BY <2>1 DEF Rotate, Book
    <3> SUFFICES ASSUME NEW n \in Book.entries, NEW m \in Book.entries,
                        n.kind = m.kind, n.id < m.id, copies'[n] # None
                 PROVE  copies'[m] # None
      BY <3>2 DEF Gapless
    <3>3. n \in Names /\ m \in Names
      BY <2>1, RotateDeletes
    <3>4. n \notin Expired(entries) /\ copies[m] # None
      BY <3>1, <3>3 DEF Gapless
    <3>5. m \notin Expired(entries)
      BY <3>3, <3>4, ExpiredDownwards, RotateDeletes, <2>1
    <3> QED
      BY <3>1, <3>3, <3>4, <3>5
  <2>2. CASE VerifyCopy \/ Publish
    <3>1. Book' = Book
      BY <2>2 DEF VerifyCopy, Publish, Book
    <3> QED
      BY <2>2, <3>1, ListedUntouched DEF Gapless
  <2>3. CASE WriteManifest
    <3>1. \A e \in op.book.entries : copies[e] # None
      BY <2>3 DEF WriteManifest, At, IInv, Placed
    <3>2. manifest' \in {manifest, op.book, None} /\ copies' = copies
      BY <2>3 DEF WriteManifest, Writes
    <3> QED
      BY <3>1, <3>2 DEF Gapless, Book, Empty
  <2>4. CASE Restored
    <3>1. op.book.entries = Book.entries
      BY <2>4 DEF Restored, At, IInv, OnBook
    <3>2. manifest' \in {manifest, op.book, None} /\ copies' = copies
      BY <2>4 DEF Restored, Writes
    <3> QED
      BY <3>1, <3>2 DEF Gapless, Book, Empty
  <2>5. CASE CutShort
    BY <2>5 DEF CutShort, Gapless, Book, Empty
  <2> QED
    <3>1. ~(Rotate \/ VerifyCopy \/ Publish \/ WriteManifest \/ Restored \/ CutShort)
            => UNCHANGED <<manifest, copies>>
      BY DEF Next, Start, Interrupted, Forget, Check, Migrate, Daily, CopyPrimary, Restore,
         CopyBackup, JournalStaged, Aside, JournalQuarantined, TakeName, Change, Spoil, NewDay,
         Exit, files
    <3> QED
      BY <2>1, <2>2, <2>3, <2>4, <2>5, <3>1 DEF Gapless, Book
<1> QED
  BY <1>1, Inductive, PTL DEF Spec, GapsByFailure
=============================================================================

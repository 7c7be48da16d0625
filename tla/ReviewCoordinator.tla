------------------------- MODULE ReviewCoordinator -------------------------
(***************************************************************************)
(* The Review Transaction coordinator of the Anki add-on                   *)
(* (companion/ankigta_companion/review.py) together with its durable       *)
(* journal (journal.py).                                                   *)
(*                                                                         *)
(* HTTP worker threads run ReviewCoordinator.rate concurrently, one step   *)
(* per point at which the code gives up a lock or enters SQLite or Anki.   *)
(* The journal and Anki's review log survive a crash; the outcomes the     *)
(* coordinator remembers, its workers and the session's admission do not.  *)
(* ReviewJournal.reconcile settles what a crash left behind, whenever it   *)
(* is called: nothing at startup does, StudyLifecycle.on_reconnected calls *)
(* the reconcile it is handed.                                             *)
(*                                                                         *)
(* What the coordinator asks of SessionCoordinator (admitted_identity,     *)
(* scheduler_top, restore) is reduced here to the admitted card and the    *)
(* card on top of Anki's queue; module SessionCoordinator models the rest. *)
(***************************************************************************)
EXTENDS Naturals, FiniteSets

CONSTANTS
  Workers,              \* threads of the HTTP server that can run rate at once
  Txs,                  \* reviewTransactionIds
  Identities,           \* Anki Card Identities: a card of a collection
  Collections,          \* collection UUIDs
  CollectionOf,         \* the collection of an identity
  Ratings,              \* the ratings a request may carry
  KnownRatings,         \* those that are keys of RATINGS (review.py)
  MaxResends,           \* MAX_RESENDS (journal.py)
  MaxCrashes,           \* bound: crashes of the add-on's process
  ConcurrentRepeats,    \* may a transaction be sent again while it is in flight
  ReconcileWhileServing,\* may reconcile run while requests are being served
  None                  \* Python's None

ASSUME CollectionAssumption == CollectionOf \in [Identities -> Collections]
ASSUME RatingAssumption     == KnownRatings \subseteq Ratings
ASSUME BoundAssumption      == MaxResends \in Nat /\ MaxCrashes \in Nat
ASSUME SwitchAssumption     ==
  /\ ConcurrentRepeats \in BOOLEAN
  /\ ReconcileWhileServing \in BOOLEAN
ASSUME NoneAssumption       == None \notin Identities \cup BOOLEAN

VARIABLES
  rows,      \* review_transactions: the durable journal, by primary key
  outcomes,  \* ReviewCoordinator._outcomes, lost with the process
  worker,    \* the request each worker thread is executing
  recon,     \* the reconcile call, if one is running
  phase,     \* the process: "down", "serving", or "lapsed": serving since a
             \* reconcile failed half-way and its results were not remembered
  admitted,  \* SessionCoordinator._admitted
  top,       \* the card Anki's scheduler would serve next
  revlog,    \* how many reviews Anki committed for each transaction
  acked,     \* transactions the client was told are applied
  crashes    \* crashes so far, up to MaxCrashes

vars == <<rows, outcomes, worker, recon, phase, admitted, top, revlog, acked,
          crashes>>
durable == <<rows, revlog, acked>>
session == <<admitted, top>>

-----------------------------------------------------------------------------
(* The journal.                                                            *)

Keys == Collections \X Txs
KeyOf(id, tx) == <<CollectionOf[id], tx>>

RECEIVED        == "received"
RATING_STARTED  == "rating_started"
COMPLETED       == "completed"
OUTCOME_UNKNOWN == "outcome_unknown"
APPLIED         == "applied"
REFUSED         == "refused"

JournalStates  == {RECEIVED, RATING_STARTED, COMPLETED, OUTCOME_UNKNOWN}
\* Mutant: completed rows reconciled again.
EveryStateBlocks == JournalStates
BLOCKING_STATES == {RECEIVED, RATING_STARTED, OUTCOME_UNKNOWN}

\* JournalRecord. scheduler_calls, before_json, result_json and reason are only
\* ever written; mark_rating_started is what makes the call durable first.
Rows == [identity : Identities, rating : Ratings, state : JournalStates,
         resends : Nat]
NoRow == [state |-> "absent"]

\* ReviewJournal.blocking: the keys reconcile still has to settle.
Blocking == {k \in Keys : rows[k].state \in BLOCKING_STATES}

\* ReviewJournal._transition writes the resend count of the record its caller
\* holds, not those of the row it overwrites.
Rewritten(record, state, resends) ==
  [record EXCEPT !.state = state, !.resends = resends]

-----------------------------------------------------------------------------
(* What the coordinator remembers, and what it can look up.                *)

Outcomes == [identity : Identities, rating : Ratings,
             state : {APPLIED, OUTCOME_UNKNOWN}]
NoOutcome == [state |-> "absent"]

OutcomeOfRow(row) ==
  [identity |-> row.identity, rating |-> row.rating,
   state |-> IF row.state = COMPLETED THEN APPLIED ELSE OUTCOME_UNKNOWN]

\* Mutant: a journal never consulted.
RecordedInMemory(tx) == IF outcomes[tx] # NoOutcome THEN {outcomes[tx]} ELSE {}

\* ReviewCoordinator.outcome: memory first, then the terminal journal rows of
\* every collection that carry the id (SQLite returns them in any order).
Recorded(tx) ==
  IF outcomes[tx] # NoOutcome THEN {outcomes[tx]}
  ELSE {OutcomeOfRow(rows[k]) : k \in
          {k \in Keys : k[2] = tx /\ rows[k].state \in {COMPLETED, OUTCOME_UNKNOWN}}}

\* ReviewCoordinator.unresolved
Unresolved ==
  \/ Blocking # {}
  \/ \E tx \in Txs : outcomes[tx].state = OUTCOME_UNKNOWN

-----------------------------------------------------------------------------
(* A worker. pc names the step rate performs next.                         *)

Steps == {"outcome", "unresolved", "admitted", "top", "intent", "insert",
          "start", "answer", "record", "remember", "restore", "reply"}
Results == {APPLIED, OUTCOME_UNKNOWN, REFUSED}

Idle == [pc |-> "idle"]
Requests == [pc : Steps, tx : Txs, identity : Identities, rating : Ratings,
             record : Rows \cup {NoRow}, result : Results]
\* From record_intent on rate holds a journal record; after _apply, an outcome.
Holding == {"start", "answer", "record"}
Decided == {"record", "remember"}
Busy == {request \in Requests :
           /\ request.pc \in Holding => request.record # NoRow
           /\ request.pc \in Decided => request.result # REFUSED}

Up == phase # "down"
At(w, step) == worker[w].pc = step
KeyAt(w)    == KeyOf(worker[w].identity, worker[w].tx)
Goto(w, step) == worker' = [worker EXCEPT ![w].pc = step]
Reply(w, result) ==
  worker' = [worker EXCEPT ![w].pc = "reply", ![w].result = result]
\* An exception rate does not translate: the connection closes with no answer.
Abort(w) == worker' = [worker EXCEPT ![w] = Idle]

NoRecon == [pc |-> "idle"]

TypeOK ==
  /\ rows \in [Keys -> Rows \cup {NoRow}]
  /\ outcomes \in [Txs -> Outcomes \cup {NoOutcome}]
  /\ worker \in [Workers -> Busy \cup {Idle}]
  /\ recon \in {NoRecon} \cup
       [pc : {"scan"}, todo : SUBSET (Keys \X Rows), done : SUBSET (Keys \X Rows)]
  /\ phase \in {"down", "serving", "lapsed"}
  /\ admitted \in Identities \cup {None}
  /\ top \in Identities \cup {None}
  /\ revlog \in [Txs -> Nat]
  /\ acked \subseteq Txs
  /\ crashes \in 0 .. MaxCrashes

Init ==
  /\ rows = [k \in Keys |-> NoRow]
  /\ outcomes = [tx \in Txs |-> NoOutcome]
  /\ worker = [w \in Workers |-> Idle]
  /\ recon = NoRecon
  /\ phase = "serving"
  /\ admitted = None
  /\ top = None
  /\ revlog = [tx \in Txs |-> 0]
  /\ acked = {}
  /\ crashes = 0

-----------------------------------------------------------------------------
(* ReviewCoordinator.rate, step by step.                                   *)

\* do_POST hands a rating to a free worker. The client keeps an id to itself
\* once it knows the rating is applied; whether it may send an id again while
\* an earlier copy is still being served is the client's ConcurrentRepeats.
Request(w, tx, id, rating) ==
  /\ Up
  /\ worker[w] = Idle
  /\ tx \notin acked
  /\ ConcurrentRepeats \/ \A v \in Workers : worker[v] # Idle => worker[v].tx # tx
  /\ worker' = [worker EXCEPT ![w] =
       [pc |-> "outcome", tx |-> tx, identity |-> id, rating |-> rating,
        record |-> NoRow, result |-> REFUSED]]
  /\ UNCHANGED <<durable, outcomes, recon, phase, session, crashes>>

\* A repeat replays what is recorded; with another card or rating it is a
\* transaction_conflict. An unknown rating is refused only after this lookup.
LookUpOutcome(w) ==
  /\ At(w, "outcome")
  /\ \/ /\ Recorded(worker[w].tx) = {}
        /\ IF worker[w].rating \in KnownRatings
           THEN Goto(w, "unresolved") ELSE Reply(w, REFUSED)
     \/ \E found \in Recorded(worker[w].tx) :
          IF found.identity = worker[w].identity /\ found.rating = worker[w].rating
          THEN Reply(w, found.state) ELSE Reply(w, REFUSED)
  /\ UNCHANGED <<durable, outcomes, recon, phase, session, crashes>>

\* A rating waits for every unresolved transaction, its own id's included.
CheckUnresolved(w) ==
  /\ At(w, "unresolved")
  /\ IF Unresolved THEN Reply(w, REFUSED) ELSE Goto(w, "admitted")
  /\ UNCHANGED <<durable, outcomes, recon, phase, session, crashes>>

CheckAdmitted(w) ==
  /\ At(w, "admitted")
  /\ IF admitted = worker[w].identity THEN Goto(w, "top") ELSE Reply(w, REFUSED)
  /\ UNCHANGED <<durable, outcomes, recon, phase, session, crashes>>

CheckTop(w) ==
  /\ At(w, "top")
  /\ IF top = worker[w].identity THEN Goto(w, "intent") ELSE Reply(w, REFUSED)
  /\ UNCHANGED <<durable, outcomes, recon, phase, session, crashes>>

\* Mutant: a new intent never written.
IntentNotInserted(w) ==
  /\ At(w, "intent")
  /\ worker' = [worker EXCEPT ![w].pc = "start", ![w].record = rows[KeyAt(w)]]
  /\ UNCHANGED <<durable, outcomes, recon, phase, session, crashes>>

\* record_intent, first half: an existing row is reused, or is a conflict.
FindIntent(w) ==
  LET row == rows[KeyAt(w)] IN
  /\ At(w, "intent")
  /\ CASE row = NoRow -> Goto(w, "insert")
       [] row # NoRow /\ row.identity = worker[w].identity
                      /\ row.rating = worker[w].rating ->
            worker' = [worker EXCEPT ![w].pc = "start", ![w].record = row]
       [] OTHER -> Reply(w, REFUSED)
  /\ UNCHANGED <<durable, outcomes, recon, phase, session, crashes>>

\* The row of a new intent, and the state a result is recorded as.
IntentOf(w) == [identity |-> worker[w].identity, rating |-> worker[w].rating,
                state |-> RECEIVED, resends |-> 0]
ResultState(w) == IF worker[w].result = APPLIED THEN COMPLETED ELSE OUTCOME_UNKNOWN

\* record_intent, second half. The primary key refuses a row another worker
\* inserted meanwhile, with an IntegrityError nobody catches.
InsertIntent(w) ==
  LET fresh == IntentOf(w) IN
  /\ At(w, "insert")
  /\ \/ /\ rows[KeyAt(w)] = NoRow
        /\ rows' = [rows EXCEPT ![KeyAt(w)] = fresh]
        /\ worker' = [worker EXCEPT ![w].pc = "start", ![w].record = fresh]
     \/ rows[KeyAt(w)] # NoRow /\ Abort(w) /\ UNCHANGED rows
  /\ UNCHANGED <<revlog, acked, outcomes, recon, phase, session, crashes>>

\* Mutant: the scheduler called before the journal knows.
StartUnrecorded(w) ==
  /\ At(w, "start")
  /\ Goto(w, "answer")
  /\ UNCHANGED <<durable, outcomes, recon, phase, session, crashes>>

\* mark_rating_started makes the scheduler call durable before it is made.
StartRating(w) ==
  LET record == worker[w].record
      next == Rewritten(record, RATING_STARTED, record.resends) IN
  /\ At(w, "start")
  /\ \/ /\ rows[KeyAt(w)] # NoRow
        /\ rows' = [rows EXCEPT ![KeyAt(w)] = next]
        /\ worker' = [worker EXCEPT ![w].pc = "answer", ![w].record = next]
     \/ rows[KeyAt(w)] = NoRow /\ Abort(w) /\ UNCHANGED rows
  /\ UNCHANGED <<revlog, acked, outcomes, recon, phase, session, crashes>>

\* _apply calls Anki's scheduler. Anki commits the answer only for the card on
\* top of its queue; the call may fail, or its success may be lost on the way.
AnswerCommitted(w) ==
  /\ At(w, "answer")
  /\ top = worker[w].identity
  /\ revlog' = [revlog EXCEPT ![worker[w].tx] = @ + 1]
  /\ top' \in Identities \cup {None}
  /\ \E result \in {APPLIED, OUTCOME_UNKNOWN} :
       worker' = [worker EXCEPT ![w].pc = "record", ![w].result = result]
  /\ UNCHANGED <<rows, acked, outcomes, recon, phase, admitted, crashes>>

\* Mutant: the scheduler's exception swallowed.
FailureTakenForSuccess(w) ==
  /\ At(w, "answer")
  /\ worker' = [worker EXCEPT ![w].pc = "record", ![w].result = APPLIED]
  /\ UNCHANGED <<durable, outcomes, recon, phase, session, crashes>>

AnswerFailed(w) ==
  /\ At(w, "answer")
  /\ worker' = [worker EXCEPT ![w].pc = "record", ![w].result = OUTCOME_UNKNOWN]
  /\ UNCHANGED <<durable, outcomes, recon, phase, session, crashes>>

\* Mutant: the outcome's state ignored.
RecordAnyAsCompleted(w) ==
  LET record == worker[w].record IN
  /\ At(w, "record")
  /\ rows' = [rows EXCEPT ![KeyAt(w)] =
       Rewritten(record, COMPLETED, record.resends)]
  /\ Goto(w, "remember")
  /\ UNCHANGED <<revlog, acked, outcomes, recon, phase, session, crashes>>

\* mark_completed or mark_outcome_unknown.
RecordResult(w) ==
  LET record == worker[w].record
      state == ResultState(w) IN
  /\ At(w, "record")
  /\ \/ /\ rows[KeyAt(w)] # NoRow
        /\ rows' = [rows EXCEPT ![KeyAt(w)] =
             Rewritten(record, state, record.resends)]
        /\ Goto(w, "remember")
     \/ rows[KeyAt(w)] = NoRow /\ Abort(w) /\ UNCHANGED rows
  /\ UNCHANGED <<revlog, acked, outcomes, recon, phase, session, crashes>>

Remember(w) ==
  /\ At(w, "remember")
  /\ outcomes' = [outcomes EXCEPT ![worker[w].tx] =
       [identity |-> worker[w].identity, rating |-> worker[w].rating,
        state |-> worker[w].result]]
  /\ IF worker[w].result = APPLIED THEN Goto(w, "restore") ELSE Goto(w, "reply")
  /\ UNCHANGED <<durable, recon, phase, session, crashes>>

\* SessionCoordinator.restore: nothing to do without an admission; a failed
\* rebuild keeps the admission and turns the answer into an error.
Restore(w) ==
  /\ At(w, "restore")
  /\ \/ admitted = None /\ Goto(w, "reply") /\ UNCHANGED session
     \/ /\ admitted # None
        /\ admitted' = None
        /\ top' \in Identities \cup {None}
        /\ Goto(w, "reply")
     \/ admitted # None /\ Reply(w, REFUSED) /\ UNCHANGED session
  /\ UNCHANGED <<durable, outcomes, recon, phase, crashes>>

\* The answer reaches the client, or is lost on the way.
Respond(w) ==
  /\ At(w, "reply")
  /\ Abort(w)
  /\ \/ /\ worker[w].result = APPLIED
        /\ acked' = acked \cup {worker[w].tx}
     \/ UNCHANGED acked
  /\ UNCHANGED <<rows, revlog, outcomes, recon, phase, session, crashes>>

\* A read or a write of the journal fails (a locked or full database file): the
\* sqlite3 error leaves rate, and the row stays as it was.
JournalFault(w) ==
  /\ worker[w].pc \in {"outcome", "unresolved", "intent", "insert", "start", "record"}
  /\ At(w, "outcome") => outcomes[worker[w].tx] = NoOutcome
  /\ Abort(w)
  /\ UNCHANGED <<durable, outcomes, recon, phase, session, crashes>>

\* A write is committed and reading the row back fails: the error leaves rate
\* all the same.
ReadBackFails(w) ==
  LET record == worker[w].record IN
  /\ \/ /\ At(w, "insert")
        /\ rows[KeyAt(w)] = NoRow
        /\ rows' = [rows EXCEPT ![KeyAt(w)] = IntentOf(w)]
     \/ /\ worker[w].pc \in {"start", "record"}
        /\ rows[KeyAt(w)] # NoRow
        /\ rows' = [rows EXCEPT ![KeyAt(w)] =
             Rewritten(record, IF At(w, "start") THEN RATING_STARTED ELSE ResultState(w),
                       record.resends)]
  /\ Abort(w)
  /\ UNCHANGED <<revlog, acked, outcomes, recon, phase, session, crashes>>

-----------------------------------------------------------------------------
(* ReviewJournal.reconcile and ReviewCoordinator.reconcile.                *)

\* Whoever holds reconcile may call it in a process that is up, and need not.
ReconcileBegin ==
  /\ Up
  /\ recon = NoRecon
  /\ ReconcileWhileServing \/ \A w \in Workers : worker[w] = Idle
  /\ recon' = [pc |-> "scan", todo |-> {<<k, rows[k]>> : k \in Blocking}, done |-> {}]
  /\ UNCHANGED <<durable, outcomes, worker, phase, session, crashes>>

\* The verifier is honest: it proves only what Anki's review log shows, and
\* may fail to prove anything.
Evidence(tx) == {None, revlog[tx] > 0}

\* What reconcile makes of one record of its list.
Reconciled(record, proof) ==
  CASE record.state = RECEIVED -> record
    [] record.state # RECEIVED /\ proof = TRUE ->
         Rewritten(record, COMPLETED, record.resends)
    [] record.state # RECEIVED /\ proof = FALSE /\ record.resends < MaxResends ->
         Rewritten(record, RECEIVED, record.resends + 1)
    [] OTHER -> Rewritten(record, OUTCOME_UNKNOWN, record.resends)

\* One record, in SQLite's order. A received record is left alone; any other
\* is written even if its row changed after the list was read.
ReconcileOne ==
  /\ recon # NoRecon
  /\ \E item \in recon.todo, proof \in {None, TRUE, FALSE} :
       LET k == item[1]
           after == Reconciled(item[2], proof) IN
       /\ proof \in Evidence(k[2])
       /\ item[2].state = RECEIVED \/ rows[k] # NoRow
       /\ recon' = [recon EXCEPT !.todo = @ \ {item}, !.done = @ \cup {<<k, after>>}]
       /\ rows' = IF item[2].state = RECEIVED THEN rows ELSE [rows EXCEPT ![k] = after]
  /\ UNCHANGED <<revlog, acked, outcomes, worker, phase, session, crashes>>

\* reconcile raises at a record: the verifier fails, or the write, or, the row
\* written, reading it back, which also a row that is gone does. What it has made
\* of the records before is in the journal and is never remembered.
ReconcileFails ==
  /\ recon # NoRecon
  /\ \E item \in recon.todo, proof \in {None, TRUE, FALSE} :
       /\ proof \in Evidence(item[1][2])
       /\ \/ UNCHANGED rows
          \/ /\ item[2].state # RECEIVED /\ rows[item[1]] # NoRow
             /\ rows' = [rows EXCEPT ![item[1]] = Reconciled(item[2], proof)]
  /\ recon' = NoRecon
  /\ phase' = "lapsed"
  /\ UNCHANGED <<revlog, acked, outcomes, worker, session, crashes>>

\* The results are remembered under one lock; a record to be resent is
\* remembered as outcome_unknown, like a quarantined one.
ReconcilePublish ==
  /\ recon # NoRecon
  /\ recon.todo = {}
  /\ \E last \in [{item[1][2] : item \in recon.done} -> recon.done] :
       /\ \A tx \in DOMAIN last : last[tx][1][2] = tx
       /\ outcomes' = [tx \in Txs |-> IF tx \in DOMAIN last
                                     THEN OutcomeOfRow(last[tx][2]) ELSE outcomes[tx]]
  /\ recon' = NoRecon
  /\ UNCHANGED <<durable, worker, phase, session, crashes>>

\* Mutant: garbage nobody acknowledged.
CollectUnacknowledged ==
  /\ Up
  /\ \E k \in Keys : rows[k].state = COMPLETED /\ rows' = [rows EXCEPT ![k] = NoRow]
  /\ UNCHANGED <<revlog, acked, outcomes, worker, recon, phase, session, crashes>>

\* ReviewJournal.collect_garbage: completed records the client acknowledged.
CollectGarbage ==
  /\ Up
  /\ \E finished \in SUBSET acked :
       /\ \E k \in Keys : k[2] \in finished /\ rows[k].state = COMPLETED
       /\ rows' = [k \in Keys |-> IF k[2] \in finished /\ rows[k].state = COMPLETED
                                 THEN NoRow ELSE rows[k]]
  /\ UNCHANGED <<revlog, acked, outcomes, worker, recon, phase, session, crashes>>

-----------------------------------------------------------------------------
(* The process, the session and Anki around the coordinator.               *)

Crash ==
  /\ Up
  /\ crashes < MaxCrashes
  /\ crashes' = crashes + 1
  /\ phase' = "down"
  /\ worker' = [w \in Workers |-> Idle]
  /\ outcomes' = [tx \in Txs |-> NoOutcome]
  /\ recon' = NoRecon
  /\ admitted' = None
  /\ UNCHANGED <<durable, top>>

\* The add-on is loaded again: ReviewJournal opens the database it left, and
\* ratings are served at once.
Restart ==
  /\ ~Up
  /\ phase' = "serving"
  /\ UNCHANGED <<durable, outcomes, worker, recon, session, crashes>>

\* A successful SessionCoordinator.admit.
Admit(id) ==
  /\ Up
  /\ admitted = None
  /\ ~Unresolved
  /\ admitted' = id
  /\ top' = id
  /\ UNCHANGED <<durable, outcomes, worker, recon, phase, crashes>>

\* A /v1/session/restore request ends the admission.
EndAdmission ==
  /\ admitted # None
  /\ admitted' = None
  /\ top' \in Identities \cup {None}
  /\ UNCHANGED <<durable, outcomes, worker, recon, phase, crashes>>

\* Time passes, or the user works in Anki: another card comes up.
TopMoves ==
  /\ \E id \in Identities \cup {None} : id # top /\ top' = id
  /\ UNCHANGED <<durable, outcomes, worker, recon, phase, admitted, crashes>>

Rate(w) ==
  \/ LookUpOutcome(w) \/ CheckUnresolved(w) \/ CheckAdmitted(w) \/ CheckTop(w)
  \/ FindIntent(w) \/ InsertIntent(w) \/ StartRating(w)
  \/ AnswerCommitted(w) \/ AnswerFailed(w)
  \/ RecordResult(w) \/ Remember(w) \/ Restore(w) \/ Respond(w)
  \/ JournalFault(w) \/ ReadBackFails(w)

Serve(w) ==
  /\ recon = NoRecon \/ ReconcileWhileServing
  /\ \E tx \in Txs, id \in Identities, rating \in Ratings : Request(w, tx, id, rating)

Reconcile == ReconcileBegin \/ ReconcileOne \/ ReconcileFails \/ ReconcilePublish

Next ==
  \/ \E w \in Workers : Serve(w) \/ Rate(w)
  \/ Reconcile
  \/ CollectGarbage
  \/ Crash \/ Restart
  \/ \E id \in Identities : Admit(id)
  \/ EndAdmission \/ TopMoves

Spec == Init /\ [][Next]_vars

-----------------------------------------------------------------------------
(* Safety.                                                                 *)

\* One transaction reaches Anki at most once, whatever is repeated, lost or
\* reconciled (review.py:3-9).
AtMostOnce == \A tx \in Txs : revlog[tx] <= 1

\* The journal knows of every review before Anki does: a review Anki committed
\* never faces a missing or merely received row, so no crash and no verifier
\* can make it look safe to resend (journal.py, mark_rating_started).
CoveredBy(row) == row.state \in {RATING_STARTED, COMPLETED, OUTCOME_UNKNOWN}
WriteAhead ==
  \A tx \in Txs : revlog[tx] > 0 =>
    tx \in acked \/ \E k \in Keys : k[2] = tx /\ CoveredBy(rows[k])

\* "applied", wherever it is kept or said, is backed by a review in Anki.
AppliedIsTrue ==
  \A tx \in Txs :
    \/ revlog[tx] > 0
    \/ /\ tx \notin acked
       /\ outcomes[tx].state # APPLIED
       /\ \A k \in Keys : k[2] = tx => rows[k].state # COMPLETED
       /\ \A w \in Workers : worker[w] # Idle /\ worker[w].tx = tx =>
            worker[w].result # APPLIED

\* Outside a reconciliation and outside the transaction's own request, memory
\* and journal tell the same story; a remembered outcome_unknown whose row is
\* completed would block every rating until the add-on restarts. Only a
\* reconciliation that failed half-way leaves such a memory behind.
MemoryMatchesJournal ==
  \A tx \in Txs :
    \/ outcomes[tx] = NoOutcome
    \/ recon # NoRecon
    \/ \E w \in Workers : worker[w] # Idle /\ worker[w].tx = tx
    \/ outcomes[tx].state = APPLIED /\ tx \in acked
    \/ outcomes[tx].state = OUTCOME_UNKNOWN /\ phase = "lapsed"
    \/ \E k \in Keys : /\ k[2] = tx
                      /\ rows[k].state # "absent"
                      /\ IF outcomes[tx].state = APPLIED
                         THEN rows[k].state = COMPLETED
                         ELSE rows[k].state \in {RECEIVED, OUTCOME_UNKNOWN}

-----------------------------------------------------------------------------
(* Action properties.                                                      *)

\* A completed row stays completed until garbage collection removes it, and
\* that only after its client acknowledged it: no late failure, retry or
\* reconciliation may take a proved result back.
KeepsCompleted ==
  \A k \in Keys : rows[k].state = COMPLETED =>
    \/ rows'[k].state = COMPLETED
    \/ rows'[k] = NoRow /\ k[2] \in acked
CompletedForever == [][KeepsCompleted]_vars

-----------------------------------------------------------------------------
(* Refinement.                                                             *)

\* The coordinator implements the promise of RatingOnce.
Promise == INSTANCE RatingOnce WITH rated <- revlog, told <- acked
RatesOnce == Promise!Spec
-----------------------------------------------------------------------------
(* The inductive invariant behind AtMostOnce, CompletedForever and         *)
(* RatesOnce. It holds when no transaction is in flight twice and nothing  *)
(* is reconciled while ratings are being served.                           *)

BusyOn(w, tx) == worker[w] # Idle /\ worker[w].tx = tx
NoRowOf(tx)   == \A k \in Keys : k[2] = tx => rows[k] = NoRow
OnlyRowOf(w, states) ==
  /\ rows[KeyAt(w)] = worker[w].record
  /\ worker[w].record.state \in states
  /\ \A k \in Keys : k[2] = worker[w].tx /\ k # KeyAt(w) => rows[k] = NoRow

\* No two workers serve one transaction, and none serves an acknowledged one.
Exclusive ==
  \A w \in Workers, tx \in Txs : BusyOn(w, tx) =>
    /\ tx \notin acked
    /\ \A v \in Workers : BusyOn(v, tx) => v = w

\* Nothing is served while the process is down or reconciling.
ServedAlone ==
  ~Up \/ recon # NoRecon => \A w \in Workers : worker[w] = Idle

\* What a worker past a check may still rely on.
ChecksAt(w) ==
  /\ At(w, "unresolved") =>
       \A k \in Keys : k[2] = worker[w].tx => rows[k].state # COMPLETED
  /\ worker[w].pc \in {"admitted", "top", "intent", "insert"} => NoRowOf(worker[w].tx)
  /\ At(w, "start") => OnlyRowOf(w, {RECEIVED})
  /\ At(w, "answer") => OnlyRowOf(w, {RATING_STARTED}) /\ revlog[worker[w].tx] = 0
  /\ At(w, "record") => OnlyRowOf(w, {RATING_STARTED})
ChecksHold == \A w \in Workers : ChecksAt(w)

\* A reconciliation works on the rows as they are, and completes only what
\* Anki's review log shows.
ReconSound ==
  recon # NoRecon =>
    /\ \A item \in recon.todo :
         rows[item[1]] = item[2] /\ item[2].state \in BLOCKING_STATES
    /\ \A item \in recon.done : item[2].state = COMPLETED => revlog[item[1][2]] > 0

IInv ==
  /\ TypeOK
  /\ AtMostOnce
  /\ WriteAhead
  /\ AppliedIsTrue
  /\ Exclusive
  /\ ServedAlone
  /\ ChecksHold
  /\ ReconSound
=============================================================================

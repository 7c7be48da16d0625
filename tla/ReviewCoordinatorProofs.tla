---------------------- MODULE ReviewCoordinatorProofs ----------------------
(***************************************************************************)
(* Proofs about ReviewCoordinator, for every number of workers,            *)
(* transactions, cards, collections and crashes.                           *)
(***************************************************************************)
EXTENDS ReviewCoordinator, TLAPS

-----------------------------------------------------------------------------
(* Type correctness.                                                       *)

\* The workers, alone: the part of TypeOK most steps disturb.
WorkersOK == worker \in [Workers -> Busy \cup {Idle}]

LEMMA BusyWorker ==
  ASSUME WorkersOK, NEW w \in Workers, worker[w].pc # "idle"
  PROVE  worker[w] \in Busy
BY DEF WorkersOK, Idle

LEMMA KeyType ==
  ASSUME NEW id \in Identities, NEW tx \in Txs
  PROVE  KeyOf(id, tx) \in Keys
BY CollectionAssumption DEF KeyOf, Keys

LEMMA GotoType ==
  ASSUME WorkersOK, NEW w \in Workers, worker[w].pc # "idle",
         NEW step \in Steps \ Holding, Goto(w, step),
         step \in Decided => worker[w].pc \in Decided
  PROVE  WorkersOK'
<1>1. worker[w] \in Busy
  BY BusyWorker
<1>2. [worker[w] EXCEPT !.pc = step] \in Busy
  BY <1>1 DEF Busy, Requests, Decided
<1> QED
  BY <1>2 DEF WorkersOK, Goto

LEMMA ReplyType ==
  ASSUME WorkersOK, NEW w \in Workers, worker[w].pc # "idle",
         NEW result \in Results, Reply(w, result)
  PROVE  WorkersOK'
<1>1. worker[w] \in Busy
  BY BusyWorker
<1>2. [worker[w] EXCEPT !.pc = "reply", !.result = result] \in Busy
  BY <1>1 DEF Busy, Requests, Holding, Decided, Steps
<1> QED
  BY <1>2 DEF WorkersOK, Reply

LEMMA AbortType ==
  ASSUME WorkersOK, NEW w \in Workers, Abort(w)
  PROVE  WorkersOK'
BY DEF WorkersOK, Abort

LEMMA RowPresent ==
  ASSUME NEW row \in Rows
  PROVE  row # NoRow /\ row.state # "absent"
BY DEF Rows, NoRow, JournalStates, RECEIVED, RATING_STARTED, COMPLETED, OUTCOME_UNKNOWN

LEMMA RewrittenType ==
  ASSUME NEW record \in Rows, NEW state \in JournalStates,
         NEW resends \in Nat
  PROVE  Rewritten(record, state, resends) \in Rows
BY DEF Rewritten, Rows

LEMMA IntentType ==
  ASSUME NEW w, worker[w] \in Busy
  PROVE  IntentOf(w) \in Rows
BY DEF IntentOf, Busy, Requests, Rows, JournalStates

LEMMA OutcomeOfRowType ==
  ASSUME NEW row \in Rows
  PROVE  OutcomeOfRow(row) \in Outcomes
BY DEF OutcomeOfRow, Rows, Outcomes, APPLIED, OUTCOME_UNKNOWN

\* Every step of rate keeps the worker's request well typed, and what it
\* writes to the journal.
LEMMA RateType ==
  ASSUME TypeOK, NEW w \in Workers, Rate(w)
  PROVE  TypeOK'
<1> USE DEF At, Requests, Holding, Decided, Steps, Results, APPLIED, OUTCOME_UNKNOWN, REFUSED
<1>1. WorkersOK
  BY DEF TypeOK, WorkersOK
<1>2. CASE worker[w].pc = "outcome" /\ LookUpOutcome(w)
  <2>1. WorkersOK'
    <3>1. CASE Goto(w, "unresolved")
      BY <1>1, <1>2, <3>1, GotoType
    <3>2. CASE Reply(w, REFUSED)
      BY <1>1, <1>2, <3>2, ReplyType
    <3>3. CASE \E found \in Recorded(worker[w].tx) :
                 found.identity = worker[w].identity /\ Reply(w, found.state)
      <4>1. PICK found \in Recorded(worker[w].tx) : Reply(w, found.state)
        BY <3>3
      <4>2. worker[w] \in Busy
        BY <1>1, <1>2, BusyWorker
      <4>3. found.state \in Results
        BY <4>2 DEF Recorded, TypeOK, Outcomes, NoOutcome, OutcomeOfRow, Busy
      <4> QED
        BY <1>1, <1>2, <4>1, <4>3, ReplyType
    <3> QED
      BY <1>2, <3>1, <3>2, <3>3 DEF LookUpOutcome
  <2> QED
    BY <1>2, <2>1 DEF LookUpOutcome, TypeOK, WorkersOK, durable, session
<1>3. CASE CheckUnresolved(w)
  <2>1. WorkersOK'
    BY <1>1, <1>3, GotoType, ReplyType DEF CheckUnresolved
  <2> QED
    BY <1>3, <2>1 DEF CheckUnresolved, TypeOK, WorkersOK, durable, session
<1>4. CASE CheckAdmitted(w)
  <2>1. WorkersOK'
    BY <1>1, <1>4, GotoType, ReplyType DEF CheckAdmitted
  <2> QED
    BY <1>4, <2>1 DEF CheckAdmitted, TypeOK, WorkersOK, durable, session
<1>5. CASE CheckTop(w)
  <2>1. WorkersOK'
    BY <1>1, <1>5, GotoType, ReplyType DEF CheckTop
  <2> QED
    BY <1>5, <2>1 DEF CheckTop, TypeOK, WorkersOK, durable, session
<1>6. CASE FindIntent(w)
  <2>1. worker[w] \in Busy
    BY <1>1, <1>6, BusyWorker DEF FindIntent
  <2>2. rows[KeyAt(w)] \in Rows \cup {NoRow}
    BY <2>1, KeyType DEF KeyAt, Busy, TypeOK
  <2>3. rows[KeyAt(w)] # NoRow =>
          [worker[w] EXCEPT !.pc = "start", !.record = rows[KeyAt(w)]] \in Busy
    BY <2>1, <2>2 DEF Busy
  <2>4. WorkersOK'
    <3>1. CASE Goto(w, "insert")
      BY <1>1, <1>6, <3>1, GotoType DEF FindIntent
    <3>2. CASE Reply(w, REFUSED)
      BY <1>1, <1>6, <3>2, ReplyType DEF FindIntent
    <3>3. CASE /\ rows[KeyAt(w)] # NoRow
               /\ worker' = [worker EXCEPT ![w].pc = "start", ![w].record = rows[KeyAt(w)]]
      BY <1>1, <2>3, <3>3 DEF WorkersOK
    <3> QED
      BY <1>6, <3>1, <3>2, <3>3 DEF FindIntent
  <2> QED
    BY <1>6, <2>4 DEF FindIntent, TypeOK, WorkersOK, durable, session
<1>7. CASE InsertIntent(w)
  <2>1. worker[w] \in Busy
    BY <1>1, <1>7, BusyWorker DEF InsertIntent
  <2>2. KeyAt(w) \in Keys
    BY <2>1, KeyType DEF KeyAt, Busy
  <2> DEFINE fresh == IntentOf(w)
  <2>3. fresh \in Rows
    BY <2>1, IntentType
  <2>a. fresh # NoRow
    BY <2>3, RowPresent
  <2> HIDE DEF fresh
  <2>4. [worker[w] EXCEPT !.pc = "start", !.record = fresh] \in Busy
    BY <2>1, <2>3, <2>a DEF Busy
  <2>5. WorkersOK' /\ rows' \in [Keys -> Rows \cup {NoRow}]
    <3>1. CASE Abort(w) /\ UNCHANGED rows
      BY <1>1, <3>1, AbortType DEF TypeOK
    <3>2. CASE /\ rows' = [rows EXCEPT ![KeyAt(w)] = fresh]
               /\ worker' = [worker EXCEPT ![w].pc = "start", ![w].record = fresh]
      BY <1>1, <2>3, <2>4, <3>2 DEF WorkersOK, TypeOK
    <3> QED
      BY <1>7, <3>1, <3>2 DEF InsertIntent, fresh
  <2> QED
    BY <1>7, <2>5 DEF InsertIntent, TypeOK, WorkersOK, session
<1>8. CASE StartRating(w)
  <2>1. worker[w] \in Busy
    BY <1>1, <1>8, BusyWorker DEF StartRating
  <2>2. KeyAt(w) \in Keys
    BY <2>1, KeyType DEF KeyAt, Busy
  <2> DEFINE record == worker[w].record
             next == Rewritten(record, RATING_STARTED, record.resends)
  <2>3. WorkersOK' /\ rows' \in [Keys -> Rows \cup {NoRow}]
    <3>1. CASE Abort(w) /\ UNCHANGED rows
      BY <1>1, <3>1, AbortType DEF TypeOK
    <3>2. CASE /\ rows' = [rows EXCEPT ![KeyAt(w)] = next]
               /\ worker' = [worker EXCEPT ![w].pc = "answer", ![w].record = next]
      <4>1. record \in Rows
        BY <1>8, <2>1 DEF StartRating, Busy
      <4>a. record.resends \in Nat
        BY <4>1 DEF Rows
      <4>b. RATING_STARTED \in JournalStates
        BY DEF JournalStates
      <4>2. next \in Rows
        BY <4>1, <4>a, <4>b, RewrittenType
      <4>3. next # NoRow
        BY <4>2, RowPresent
      <4>4. [worker[w] EXCEPT !.pc = "answer", !.record = next] \in Busy
        BY <2>1, <4>2, <4>3 DEF Busy
      <4> QED
        BY <1>1, <3>2, <4>2, <4>4 DEF WorkersOK, TypeOK
    <3> QED
      BY <1>8, <3>1, <3>2 DEF StartRating
  <2> QED
    BY <1>8, <2>3 DEF StartRating, TypeOK, WorkersOK, session
<1>9. CASE AnswerCommitted(w)
  <2>1. worker[w] \in Busy
    BY <1>1, <1>9, BusyWorker DEF AnswerCommitted
  <2>2. WorkersOK'
    <3>1. PICK result \in {APPLIED, OUTCOME_UNKNOWN} :
            worker' = [worker EXCEPT ![w].pc = "record", ![w].result = result]
      BY <1>9 DEF AnswerCommitted
    <3>2. [worker[w] EXCEPT !.pc = "record", !.result = result] \in Busy
      BY <1>9, <2>1 DEF AnswerCommitted, Busy
    <3> QED
      BY <1>1, <3>1, <3>2 DEF WorkersOK
  <2>3. revlog' \in [Txs -> Nat]
    BY <1>9, <2>1 DEF AnswerCommitted, TypeOK, Busy
  <2> QED
    BY <1>9, <2>2, <2>3 DEF AnswerCommitted, TypeOK, WorkersOK
<1>10. CASE AnswerFailed(w)
  <2>1. worker[w] \in Busy
    BY <1>1, <1>10, BusyWorker DEF AnswerFailed
  <2>2. [worker[w] EXCEPT !.pc = "record", !.result = OUTCOME_UNKNOWN] \in Busy
    BY <1>10, <2>1 DEF AnswerFailed, Busy
  <2> QED
    BY <1>10, <2>2 DEF AnswerFailed, TypeOK, durable, session
<1>11. CASE RecordResult(w)
  <2>1. worker[w] \in Busy
    BY <1>1, <1>11, BusyWorker DEF RecordResult
  <2>2. worker[w].record \in Rows
    BY <1>11, <2>1 DEF RecordResult, Busy
  <2>3. \A state \in JournalStates :
          Rewritten(worker[w].record, state,
                    worker[w].record.resends) \in Rows
    BY <2>2, RewrittenType DEF Rows
  <2>4. rows' \in [Keys -> Rows \cup {NoRow}]
    BY <1>11, <2>3 DEF RecordResult, ResultState, TypeOK, JournalStates
  <2>5. WorkersOK'
    BY <1>1, <1>11, GotoType, AbortType DEF RecordResult
  <2> QED
    BY <1>11, <2>4, <2>5 DEF RecordResult, TypeOK, WorkersOK, session
<1>12. CASE Remember(w)
  <2>1. worker[w] \in Busy
    BY <1>1, <1>12, BusyWorker DEF Remember
  <2>2. WorkersOK'
    BY <1>1, <1>12, GotoType DEF Remember
  <2>3. outcomes' \in [Txs -> Outcomes \cup {NoOutcome}]
    BY <1>12, <2>1 DEF Remember, TypeOK, Busy, Outcomes
  <2> QED
    BY <1>12, <2>2, <2>3 DEF Remember, TypeOK, WorkersOK, durable, session
<1>13. CASE Restore(w)
  <2>1. WorkersOK'
    BY <1>1, <1>13, GotoType, ReplyType DEF Restore
  <2> QED
    BY <1>13, <2>1 DEF Restore, TypeOK, WorkersOK, durable, session
<1>14. CASE Respond(w)
  <2>1. worker[w] \in Busy
    BY <1>1, <1>14, BusyWorker DEF Respond
  <2>2. acked' \subseteq Txs
    BY <1>14, <2>1 DEF Respond, TypeOK, Busy
  <2> QED
    BY <1>1, <1>14, <2>2, AbortType DEF Respond, TypeOK, WorkersOK, session
<1>15. CASE JournalFault(w)
  BY <1>1, <1>15, AbortType DEF JournalFault, TypeOK, WorkersOK, durable, session
<1>16. CASE ReadBackFails(w)
  <2>1. worker[w] \in Busy
    BY <1>1, <1>16, BusyWorker DEF ReadBackFails
  <2>2. \E row \in Rows : rows' = [rows EXCEPT ![KeyAt(w)] = row]
    <3>1. CASE At(w, "insert")
      BY <1>16, <2>1, <3>1, IntentType DEF ReadBackFails
    <3>2. CASE worker[w].pc \in {"start", "record"}
      <4>1. worker[w].record \in Rows
        BY <2>1, <3>2 DEF Busy
      <4>2. \A state \in JournalStates :
              Rewritten(worker[w].record, state, worker[w].record.resends) \in Rows
        BY <4>1, RewrittenType DEF Rows
      <4> QED
        BY <1>16, <3>2, <4>2 DEF ReadBackFails, ResultState, JournalStates
    <3> QED
      BY <1>16, <3>1, <3>2 DEF ReadBackFails
  <2>3. rows' \in [Keys -> Rows \cup {NoRow}]
    BY <2>2 DEF TypeOK
  <2> QED
    BY <1>1, <1>16, <2>3, AbortType DEF ReadBackFails, TypeOK, WorkersOK, session
<1> QED
  BY <1>2, <1>3, <1>4, <1>5, <1>6, <1>7, <1>8, <1>9, <1>10, <1>11, <1>12, <1>13,
     <1>14, <1>15, <1>16 DEF Rate, LookUpOutcome

LEMMA RequestType ==
  ASSUME TypeOK, NEW w \in Workers, Serve(w)
  PROVE  TypeOK'
<1>1. PICK tx \in Txs, id \in Identities, rating \in Ratings : Request(w, tx, id, rating)
  BY DEF Serve
<1>2. [pc |-> "outcome", tx |-> tx, identity |-> id, rating |-> rating,
       record |-> NoRow, result |-> REFUSED] \in Busy
  BY DEF Busy, Requests, Steps, Holding, Decided, Results
<1> QED
  BY <1>1, <1>2 DEF Request, TypeOK, durable, session

LEMMA ReconciledType ==
  ASSUME NEW record \in Rows, NEW proof
  PROVE  Reconciled(record, proof) \in Rows
<1> USE BoundAssumption
<1>1. record.resends \in Nat /\ record.resends + 1 \in Nat
  BY DEF Rows
<1>2. \A state \in {COMPLETED, OUTCOME_UNKNOWN} :
        Rewritten(record, state, record.resends) \in Rows
  BY <1>1, RewrittenType DEF JournalStates
<1>3. Rewritten(record, RECEIVED, record.resends + 1) \in Rows
  BY <1>1, RewrittenType DEF JournalStates
<1> QED
  BY <1>2, <1>3 DEF Reconciled

LEMMA ReconcileType ==
  ASSUME TypeOK, Reconcile
  PROVE  TypeOK'
<1>1. CASE ReconcileBegin
  <2>1. \A k \in Blocking : rows[k] \in Rows
    BY DEF TypeOK, Blocking, NoRow, BLOCKING_STATES, RECEIVED, RATING_STARTED, OUTCOME_UNKNOWN
  <2>2. {<<k, rows[k]>> : k \in Blocking} \subseteq Keys \X Rows
    BY <2>1 DEF Blocking
  <2> QED
    BY <1>1, <2>2 DEF ReconcileBegin, TypeOK, durable, session
<1>2. CASE ReconcileOne
  <2>1. PICK item \in recon.todo, proof \in {None, TRUE, FALSE} :
          LET k == item[1]
              after == Reconciled(item[2], proof) IN
          /\ recon' = [recon EXCEPT !.todo = @ \ {item}, !.done = @ \cup {<<k, after>>}]
          /\ rows' = IF item[2].state = RECEIVED THEN rows ELSE [rows EXCEPT ![k] = after]
    BY <1>2, Zenon DEF ReconcileOne
  <2>2. /\ recon.pc = "scan"
        /\ recon.todo \in SUBSET (Keys \X Rows)
        /\ recon.done \in SUBSET (Keys \X Rows)
        /\ recon = [pc |-> "scan", todo |-> recon.todo, done |-> recon.done]
    BY <1>2 DEF ReconcileOne, TypeOK, NoRecon
  <2>3. item[1] \in Keys /\ item[2] \in Rows
    BY <2>2
  <2>4. Reconciled(item[2], proof) \in Rows
    BY <2>3, ReconciledType
  <2>5. rows' \in [Keys -> Rows \cup {NoRow}]
    BY <2>1, <2>3, <2>4 DEF TypeOK
  <2>6. recon' \in {NoRecon} \cup
          [pc : {"scan"}, todo : SUBSET (Keys \X Rows), done : SUBSET (Keys \X Rows)]
    <3> DEFINE pair == <<item[1], Reconciled(item[2], proof)>>
    <3>1. pair \in Keys \X Rows
      BY <2>3, <2>4
    <3>2. recon' = [recon EXCEPT !.todo = @ \ {item}, !.done = @ \cup {pair}]
      BY <2>1
    <3> HIDE DEF pair
    <3>3. recon' = [pc |-> "scan", todo |-> recon.todo \ {item},
                    done |-> recon.done \cup {pair}]
      BY <2>2, <3>2
    <3> QED
      BY <2>2, <3>1, <3>3
  <2> QED
    BY <1>2, <2>5, <2>6 DEF ReconcileOne, TypeOK, session
<1>3. CASE ReconcilePublish
  <2>1. recon.done \in SUBSET (Keys \X Rows)
    BY <1>3 DEF ReconcilePublish, TypeOK, NoRecon
  <2>2. PICK last \in [{item[1][2] : item \in recon.done} -> recon.done] :
          outcomes' = [tx \in Txs |-> IF tx \in DOMAIN last
                                     THEN OutcomeOfRow(last[tx][2]) ELSE outcomes[tx]]
    BY <1>3 DEF ReconcilePublish
  <2>3. \A tx \in DOMAIN last : last[tx][2] \in Rows
    BY <2>1, <2>2
  <2>4. outcomes' \in [Txs -> Outcomes \cup {NoOutcome}]
    BY <2>2, <2>3, OutcomeOfRowType DEF TypeOK
  <2> QED
    BY <1>3, <2>4 DEF ReconcilePublish, TypeOK, durable, session
<1>4. CASE ReconcileFails
  <2>1. PICK item \in recon.todo, proof \in {None, TRUE, FALSE} :
          \/ UNCHANGED rows
          \/ rows' = [rows EXCEPT ![item[1]] = Reconciled(item[2], proof)]
    BY <1>4 DEF ReconcileFails
  <2>2. item[1] \in Keys /\ item[2] \in Rows
    BY <1>4 DEF ReconcileFails, TypeOK, NoRecon
  <2>3. Reconciled(item[2], proof) \in Rows
    BY <2>2, ReconciledType
  <2>4. rows' \in [Keys -> Rows \cup {NoRow}]
    BY <2>1, <2>2, <2>3 DEF TypeOK
  <2> QED
    BY <1>4, <2>4 DEF ReconcileFails, TypeOK, session
<1> QED
  BY <1>1, <1>2, <1>3, <1>4 DEF Reconcile

LEMMA InitType == Init => TypeOK
BY BoundAssumption DEF Init, TypeOK

LEMMA EnvironmentType ==
  ASSUME TypeOK,
         \/ CollectGarbage \/ Crash \/ Restart \/ EndAdmission \/ TopMoves
         \/ \E id \in Identities : Admit(id)
  PROVE  TypeOK'
BY BoundAssumption DEF CollectGarbage, Crash, Restart, EndAdmission, TopMoves, Admit,
   TypeOK, durable, session

\* TypeOK: what the journal, the memory and every worker hold is well formed,
\* whatever happens.
THEOREM TypeCorrect == Spec => []TypeOK
<1>1. TypeOK /\ [Next]_vars => TypeOK'
  BY RateType, RequestType, ReconcileType, EnvironmentType DEF Next, vars, TypeOK
<1> QED
  BY <1>1, InitType, PTL DEF Spec

-----------------------------------------------------------------------------
(* The inductive invariant.                                                *)

\* No transaction is in flight twice, and nothing is reconciled while ratings
\* are being served.
Quiet == ~ConcurrentRepeats /\ ~ReconcileWhileServing

USE DEF Up

LEMMA BusyFacts ==
  ASSUME IInv, NEW w \in Workers, worker[w] # Idle
  PROVE  /\ worker[w] \in Busy
         /\ worker[w].tx \in Txs
         /\ KeyAt(w) \in Keys
         /\ KeyAt(w)[2] = worker[w].tx
         /\ worker[w].tx \notin acked
         /\ Up
         /\ recon = NoRecon
         /\ \A v \in Workers : worker[v] # Idle /\ worker[v].tx = worker[w].tx => v = w
<1>1. worker[w] \in Busy
  BY DEF IInv, TypeOK
<1>2. worker[w].tx \in Txs /\ worker[w].identity \in Identities
  BY <1>1 DEF Busy, Requests
<1>3. KeyAt(w) \in Keys /\ KeyAt(w)[2] = worker[w].tx
  BY <1>2, KeyType DEF KeyAt, KeyOf
<1> QED
  BY <1>1, <1>2, <1>3 DEF IInv, Exclusive, BusyOn, ServedAlone

\* A step of one worker that touches nothing shared.
LEMMA LocalStep ==
  ASSUME IInv, TypeOK', NEW w \in Workers, worker[w] # Idle, NEW r \in Busy \cup {Idle},
         worker' = [worker EXCEPT ![w] = r],
         r # Idle => /\ r.tx = worker[w].tx
                     /\ r.result = APPLIED => revlog[r.tx] > 0,
         UNCHANGED <<durable, outcomes, recon, phase>>,
         ChecksAt(w)'
  PROVE  IInv'
<1>1. worker'[w] = r /\ \A v \in Workers : v # w => worker'[v] = worker[v]
  BY DEF IInv, TypeOK
<1>2. AtMostOnce' /\ WriteAhead'
  BY DEF IInv, AtMostOnce, WriteAhead, durable
<1>3. AppliedIsTrue'
  BY <1>1 DEF IInv, AppliedIsTrue, durable
<1>4. Exclusive'
  BY <1>1 DEF IInv, Exclusive, BusyOn, durable
<1>5. ServedAlone'
  BY <1>1 DEF IInv, ServedAlone
<1>6. ChecksHold'
  <2> SUFFICES ASSUME NEW v \in Workers, v # w PROVE ChecksAt(v)'
    BY DEF ChecksHold
  <2>1. ChecksAt(v)
    BY DEF IInv, ChecksHold
  <2> QED
    BY <1>1, <2>1 DEF ChecksAt, At, NoRowOf, OnlyRowOf, KeyAt, durable
<1>7. ReconSound'
  BY DEF IInv, ReconSound, durable
<1> QED
  BY <1>2, <1>3, <1>4, <1>5, <1>6, <1>7 DEF IInv

\* A write of the row of the transaction a worker serves.
LEMMA RowStep ==
  ASSUME IInv, TypeOK', NEW w \in Workers, worker[w] # Idle, NEW r \in Busy \cup {Idle},
         NEW row \in Rows, NEW tx \in Txs, tx = worker[w].tx,
         worker' = [worker EXCEPT ![w] = r],
         rows' = [rows EXCEPT ![KeyAt(w)] = row],
         r # Idle => r.tx = tx /\ (r.result = APPLIED => worker[w].result = APPLIED),
         revlog[tx] > 0 => CoveredBy(row),
         row.state = COMPLETED => revlog[tx] > 0,
         UNCHANGED <<revlog, acked, outcomes, recon, phase>>,
         ChecksAt(w)'
  PROVE  IInv'
<1>1. worker'[w] = r /\ \A v \in Workers : v # w => worker'[v] = worker[v]
  BY DEF IInv, TypeOK
<1>2. /\ KeyAt(w) \in Keys
      /\ KeyAt(w)[2] = tx
      /\ recon = NoRecon
      /\ Up
      /\ tx \notin acked
  BY BusyFacts
<1>3. rows'[KeyAt(w)] = row /\ \A k \in Keys : k # KeyAt(w) => rows'[k] = rows[k]
  BY <1>2 DEF IInv, TypeOK
<1>4. AtMostOnce'
  BY DEF IInv, AtMostOnce
<1>5. WriteAhead'
  BY <1>2, <1>3 DEF IInv, WriteAhead
<1>6. AppliedIsTrue'
  <2> SUFFICES ASSUME NEW other \in Txs, ~(revlog[other] > 0)
               PROVE  /\ other \notin acked
                      /\ outcomes[other].state # APPLIED
                      /\ \A k \in Keys : k[2] = other => rows'[k].state # COMPLETED
                      /\ \A v \in Workers : worker'[v] # Idle /\ worker'[v].tx = other =>
                           worker'[v].result # APPLIED
    BY DEF AppliedIsTrue
  <2>1. /\ other \notin acked
        /\ outcomes[other].state # APPLIED
        /\ \A k \in Keys : k[2] = other => rows[k].state # COMPLETED
        /\ \A v \in Workers : worker[v] # Idle /\ worker[v].tx = other =>
             worker[v].result # APPLIED
    BY DEF IInv, AppliedIsTrue
  <2> QED
    BY <1>1, <1>2, <1>3, <2>1
<1>7. Exclusive'
  BY <1>1 DEF IInv, Exclusive, BusyOn
<1>8. ServedAlone'
  BY <1>2 DEF ServedAlone
<1>9. ChecksHold'
  <2> SUFFICES ASSUME NEW v \in Workers, v # w PROVE ChecksAt(v)'
    BY DEF ChecksHold
  <2>1. ChecksAt(v)
    BY DEF IInv, ChecksHold
  <2>2. worker[v] = Idle \/ worker[v].tx # tx
    BY BusyFacts
  <2>3. CASE worker[v] = Idle
    BY <1>1, <2>3 DEF ChecksAt, At, Idle
  <2>4. CASE worker[v] # Idle /\ worker[v].tx # tx
    <3>1. KeyAt(v)' = KeyAt(v) /\ KeyAt(v)[2] = worker[v].tx /\ KeyAt(v) \in Keys
      BY <1>1, <2>4, BusyFacts DEF KeyAt
    <3>2. \A k \in Keys : k[2] = worker[v].tx => rows'[k] = rows[k]
      BY <1>2, <1>3, <2>4
    <3> QED
      BY <1>1, <2>1, <3>1, <3>2 DEF ChecksAt, At, NoRowOf, OnlyRowOf
  <2> QED
    BY <2>2, <2>3, <2>4
<1>10. ReconSound'
  BY <1>2 DEF ReconSound
<1> QED
  BY <1>4, <1>5, <1>6, <1>7, <1>8, <1>9, <1>10 DEF IInv

\* How a step of rate changes its worker.
LEMMA WorkerStep ==
  ASSUME IInv, NEW w \in Workers, worker[w] # Idle
  PROVE  /\ \A step \in Steps : Goto(w, step) =>
              /\ worker' = [worker EXCEPT ![w] = worker'[w]]
              /\ worker'[w] = [worker[w] EXCEPT !.pc = step]
         /\ \A result \in Results : Reply(w, result) =>
              /\ worker' = [worker EXCEPT ![w] = worker'[w]]
              /\ worker'[w] = [worker[w] EXCEPT !.pc = "reply", !.result = result]
         /\ Abort(w) => worker' = [worker EXCEPT ![w] = worker'[w]] /\ worker'[w] = Idle
<1>1. worker \in [Workers -> Busy \cup {Idle}]
  BY DEF IInv, TypeOK
<1> QED
  BY <1>1 DEF Goto, Reply, Abort

\* The steps that leave everything shared alone: to a refusal, or to no answer.
LEMMA Dismissed ==
  ASSUME IInv, TypeOK', NEW w \in Workers, worker[w] # Idle,
         Reply(w, REFUSED) \/ Abort(w),
         UNCHANGED <<durable, outcomes, recon, phase>>
  PROVE  IInv'
<1>1. worker[w] \in Busy /\ worker'[w] \in Busy \cup {Idle}
  BY BusyFacts DEF TypeOK
<1>2. CASE Reply(w, REFUSED)
  <2>1. worker' = [worker EXCEPT ![w] = worker'[w]]
        /\ worker'[w] = [worker[w] EXCEPT !.pc = "reply", !.result = REFUSED]
    BY <1>2, WorkerStep DEF Results
  <2>2. worker'[w].pc = "reply" /\ worker'[w].tx = worker[w].tx /\ worker'[w].result = REFUSED
    BY <1>1, <2>1 DEF Busy, Requests
  <2>3. ChecksAt(w)'
    BY <2>2 DEF ChecksAt, At
  <2> QED
    BY <1>1, <2>1, <2>2, <2>3, LocalStep DEF REFUSED, APPLIED
<1>3. CASE Abort(w)
  <2>1. worker' = [worker EXCEPT ![w] = worker'[w]] /\ worker'[w] = Idle
    BY <1>3, WorkerStep
  <2>2. ChecksAt(w)'
    BY <2>1 DEF ChecksAt, At, Idle
  <2> QED
    BY <1>1, <2>1, <2>2, LocalStep
<1> QED
  BY <1>2, <1>3

\* A check that passes: rate goes on, and the next check's knowledge holds.
LEMMA Advanced ==
  ASSUME IInv, TypeOK', NEW w \in Workers, worker[w] # Idle,
         NEW step \in Steps, Goto(w, step),
         UNCHANGED <<durable, outcomes, recon, phase>>,
         ChecksAt(w)'
  PROVE  IInv'
<1>1. worker[w] \in Busy /\ worker'[w] \in Busy \cup {Idle} /\ worker[w].tx \in Txs
  BY BusyFacts DEF TypeOK
<1>2. worker' = [worker EXCEPT ![w] = worker'[w]]
      /\ worker'[w] = [worker[w] EXCEPT !.pc = step]
  BY WorkerStep
<1>3. worker'[w].tx = worker[w].tx /\ worker'[w].result = worker[w].result
  BY <1>1, <1>2 DEF Busy, Requests
<1>4. worker[w].result = APPLIED => revlog[worker[w].tx] > 0
  BY <1>1 DEF IInv, AppliedIsTrue
<1> QED
  BY <1>1, <1>2, <1>3, <1>4, LocalStep

LEMMA ChecksStep ==
  ASSUME IInv, NEW w \in Workers,
         \/ LookUpOutcome(w) \/ CheckUnresolved(w) \/ CheckAdmitted(w)
         \/ CheckTop(w) \/ FindIntent(w)
  PROVE  IInv'
<1>1. TypeOK' /\ worker[w] # Idle
  BY RateType DEF IInv, Rate, LookUpOutcome, CheckUnresolved, CheckAdmitted, CheckTop,
         FindIntent, At, Idle
<1>2. /\ worker[w] \in Busy
      /\ worker[w].tx \in Txs
      /\ KeyAt(w) \in Keys
      /\ KeyAt(w)[2] = worker[w].tx
      /\ worker \in [Workers -> Busy \cup {Idle}]
      /\ ChecksAt(w)
  BY <1>1, BusyFacts DEF IInv, ChecksHold, TypeOK
<1> DEFINE tx == worker[w].tx
<1>3. \A step \in Steps : Goto(w, step) => worker'[w].pc = step /\ worker'[w].tx = tx
  BY <1>2 DEF Goto, Busy, Requests
<1>4. CASE LookUpOutcome(w)
  <2>1. CASE Goto(w, "unresolved") /\ Recorded(tx) = {}
    <3>1. \A k \in Keys : k[2] = tx => rows[k].state # COMPLETED
      BY <2>1 DEF Recorded, COMPLETED
    <3>2. worker'[w].pc = "unresolved" /\ worker'[w].tx = tx
      BY <1>3, <2>1 DEF Steps
    <3>3. ChecksAt(w)'
      BY <1>4, <3>1, <3>2 DEF LookUpOutcome, ChecksAt, At, durable
    <3> QED
      BY <1>1, <1>4, <2>1, <3>3, Advanced DEF LookUpOutcome, Steps
  <2>2. CASE Reply(w, REFUSED)
    BY <1>1, <1>4, <2>2, Dismissed DEF LookUpOutcome
  <2>3. CASE \E found \in Recorded(tx) : Reply(w, found.state)
    <3>1. PICK found \in Recorded(tx) : Reply(w, found.state)
      BY <2>3
    <3>2. found.state \in Results
      BY <1>2 DEF IInv, TypeOK, Recorded, Outcomes, NoOutcome, OutcomeOfRow, Results
    <3>3. found.state = APPLIED => revlog[tx] > 0
      <4>1. CASE found = outcomes[tx]
        BY <1>2, <4>1 DEF IInv, AppliedIsTrue
      <4>2. CASE \E k \in Keys : k[2] = tx /\ found = OutcomeOfRow(rows[k])
        BY <1>2, <4>2 DEF IInv, AppliedIsTrue, OutcomeOfRow, APPLIED, OUTCOME_UNKNOWN
      <4> QED
        BY <4>1, <4>2 DEF Recorded
    <3>4. worker' = [worker EXCEPT ![w] = worker'[w]]
          /\ worker'[w] = [worker[w] EXCEPT !.pc = "reply", !.result = found.state]
      BY <1>1, <3>1, <3>2, WorkerStep
    <3>5. worker'[w].pc = "reply" /\ worker'[w].tx = tx /\ worker'[w].result = found.state
      BY <1>2, <3>4 DEF Busy, Requests
    <3>6. ChecksAt(w)' /\ worker'[w] \in Busy \cup {Idle}
      BY <1>1, <3>5 DEF ChecksAt, At, TypeOK
    <3> QED
      BY <1>1, <1>4, <3>3, <3>4, <3>5, <3>6, LocalStep DEF LookUpOutcome
  <2> QED
    BY <1>4, <2>1, <2>2, <2>3 DEF LookUpOutcome
<1>5. CASE CheckUnresolved(w)
  <2>1. CASE Goto(w, "admitted") /\ ~Unresolved
    <3>1. NoRowOf(tx)
      BY <1>2, <1>5, <2>1 DEF CheckUnresolved, Unresolved, Blocking, ChecksAt, At, NoRowOf,
           IInv, TypeOK, Rows, JournalStates, BLOCKING_STATES
    <3>2. worker'[w].pc = "admitted" /\ worker'[w].tx = tx
      BY <1>3, <2>1 DEF Steps
    <3>3. ChecksAt(w)'
      BY <1>5, <3>1, <3>2 DEF CheckUnresolved, ChecksAt, At, NoRowOf, durable
    <3> QED
      BY <1>1, <1>5, <2>1, <3>3, Advanced DEF CheckUnresolved, Steps
  <2> QED
    BY <1>1, <1>5, <2>1, Dismissed DEF CheckUnresolved
<1>6. ASSUME NEW step \in {"top", "intent", "insert"}, Goto(w, step), NoRowOf(tx),
             UNCHANGED <<durable, outcomes, recon, phase>>
      PROVE  IInv'
  <2>1. worker'[w].pc = step /\ worker'[w].tx = tx /\ step \in Steps
    BY <1>3, <1>6 DEF Steps
  <2>2. ChecksAt(w)'
    BY <1>6, <2>1 DEF ChecksAt, At, NoRowOf, durable
  <2> QED
    BY <1>1, <1>6, <2>1, <2>2, Advanced
<1>7. CASE CheckAdmitted(w)
  BY <1>1, <1>2, <1>6, <1>7, Dismissed DEF CheckAdmitted, ChecksAt, At
<1>8. CASE CheckTop(w)
  BY <1>1, <1>2, <1>6, <1>8, Dismissed DEF CheckTop, ChecksAt, At
<1>9. CASE FindIntent(w)
  <2>1. NoRowOf(tx) /\ rows[KeyAt(w)] = NoRow
    BY <1>2, <1>9 DEF FindIntent, ChecksAt, At, NoRowOf
  <2>2. Goto(w, "insert")
    BY <1>9, <2>1 DEF FindIntent
  <2> QED
    BY <1>6, <1>9, <2>1, <2>2 DEF FindIntent
<1> QED
  BY <1>4, <1>5, <1>7, <1>8, <1>9

\* The journal and the scheduler: intent, count, answer, result.
LEMMA JournalStep ==
  ASSUME IInv, NEW w \in Workers,
         \/ InsertIntent(w) \/ StartRating(w) \/ AnswerCommitted(w)
         \/ AnswerFailed(w) \/ RecordResult(w) \/ ReadBackFails(w)
  PROVE  IInv'
<1>1. TypeOK' /\ worker[w] # Idle
  <2>1. TypeOK'
    BY RateType DEF IInv, Rate
  <2>2. worker[w].pc # "idle"
    BY DEF InsertIntent, StartRating, AnswerCommitted, AnswerFailed, RecordResult,
       ReadBackFails, At
  <2> QED
    BY <2>1, <2>2 DEF Idle
<1>w. worker' \in [Workers -> Busy \cup {Idle}]
  BY <1>1 DEF TypeOK
<1>2. /\ worker[w] \in Busy
      /\ worker[w].tx \in Txs
      /\ KeyAt(w) \in Keys
      /\ KeyAt(w)[2] = worker[w].tx
      /\ worker[w].tx \notin acked
      /\ recon = NoRecon
      /\ worker \in [Workers -> Busy \cup {Idle}]
      /\ rows \in [Keys -> Rows \cup {NoRow}]
      /\ revlog \in [Txs -> Nat]
      /\ ChecksAt(w)
  BY <1>1, BusyFacts DEF IInv, ChecksHold, TypeOK
<1> DEFINE tx == worker[w].tx
           record == worker[w].record
\* A row of Anki's making: WriteAhead and AppliedIsTrue for the one row of tx.
<1>3. (\A k \in Keys : k[2] = tx => ~CoveredBy(rows[k])) => revlog[tx] = 0
  BY <1>2 DEF IInv, WriteAhead
<1>4. worker[w].result = APPLIED => revlog[tx] > 0
  BY <1>1, <1>2 DEF IInv, AppliedIsTrue
<1>5. CASE InsertIntent(w)
  <2> DEFINE fresh == IntentOf(w)
             r == [worker[w] EXCEPT !.pc = "start", !.record = fresh]
  <2>1. NoRowOf(tx)
    BY <1>2, <1>5 DEF InsertIntent, ChecksAt, At
  <2>2. rows' = [rows EXCEPT ![KeyAt(w)] = fresh] /\ worker' = [worker EXCEPT ![w] = r]
    BY <1>2, <1>5, <2>1 DEF InsertIntent, NoRowOf
  <2>3. worker'[w] = r /\ rows'[KeyAt(w)] = fresh
        /\ \A k \in Keys : k # KeyAt(w) => rows'[k] = rows[k]
    BY <1>2, <2>2
  <2>5. r.pc = "start" /\ r.tx = tx /\ r.identity = worker[w].identity
        /\ r.record = fresh /\ r.result = worker[w].result
    BY <1>2 DEF Busy, Requests
  <2>4. r \in Busy
    <3> HIDE DEF r
    <3> QED
      BY <1>w, <2>3, <2>5 DEF Idle
  <2>6. fresh \in Rows
    BY <1>2, IntentType
  <2>7. revlog[tx] = 0
    BY <1>3, <2>1 DEF NoRowOf, NoRow, CoveredBy, RATING_STARTED, COMPLETED, OUTCOME_UNKNOWN
  <2>8. ChecksAt(w)'
    <3>1. KeyAt(w)' = KeyAt(w)
      BY <2>3, <2>5 DEF KeyAt
    <3> HIDE DEF r
    <3> QED
      BY <2>1, <2>3, <2>5, <3>1 DEF ChecksAt, At, OnlyRowOf, NoRowOf, IntentOf
  <2>9. fresh.state # COMPLETED /\ ~(revlog[tx] > 0)
    BY <2>7 DEF IntentOf, RECEIVED, COMPLETED
  <2>10. UNCHANGED <<revlog, acked, outcomes, recon, phase>>
    BY <1>5 DEF InsertIntent
  <2> HIDE DEF r, fresh
  <2> QED
    BY <1>1, <1>2, <2>2, <2>4, <2>5, <2>6, <2>8, <2>9, <2>10, RowStep
<1>6. CASE StartRating(w)
  <2> DEFINE next == Rewritten(record, RATING_STARTED, record.resends)
             r == [worker[w] EXCEPT !.pc = "answer", !.record = next]
  <2>1. OnlyRowOf(w, {RECEIVED})
    BY <1>2, <1>6 DEF StartRating, ChecksAt, At
  <2>2. record \in Rows
    BY <1>2, <1>6 DEF StartRating, At, Busy, Requests, Holding
  <2>3. rows' = [rows EXCEPT ![KeyAt(w)] = next] /\ worker' = [worker EXCEPT ![w] = r]
    BY <1>6, <2>1, <2>2, RowPresent, <1>2 DEF StartRating, OnlyRowOf
  <2>4. worker'[w] = r /\ rows'[KeyAt(w)] = next
        /\ \A k \in Keys : k # KeyAt(w) => rows'[k] = rows[k]
    BY <1>2, <2>3
  <2>5. r.pc = "answer" /\ r.tx = tx /\ r.identity = worker[w].identity
        /\ r.record = next /\ r.result = worker[w].result
    BY <1>2 DEF Busy, Requests
  <2>6. r \in Busy
    <3> HIDE DEF r
    <3> QED
      BY <1>w, <2>4, <2>5 DEF Idle
  <2>7. next \in Rows /\ next.state = RATING_STARTED
    <3>1. record.resends \in Nat
      BY <2>2 DEF Rows
    <3>2. RATING_STARTED \in JournalStates
      BY DEF JournalStates
    <3>3. next.state = RATING_STARTED
      BY <2>2 DEF Rewritten, Rows
    <3> QED
      BY <2>2, <3>1, <3>2, <3>3, RewrittenType
  <2> HIDE DEF next, r
  <2>8. revlog[tx] = 0
    BY <1>3, <2>1 DEF OnlyRowOf, NoRow, CoveredBy, RECEIVED, RATING_STARTED,
                      COMPLETED, OUTCOME_UNKNOWN
  <2>9. ChecksAt(w)'
    <3>1. KeyAt(w)' = KeyAt(w)
      BY <2>4, <2>5 DEF KeyAt
    <3>2. revlog' = revlog
      BY <1>6 DEF StartRating
    <3> QED
      BY <2>1, <2>4, <2>5, <2>7, <2>8, <3>1, <3>2 DEF ChecksAt, At, OnlyRowOf, NoRowOf
  <2> QED
    <3>1. next.state # COMPLETED /\ ~(revlog[tx] > 0)
      BY <2>7, <2>8 DEF RATING_STARTED, COMPLETED
    <3>2. UNCHANGED <<revlog, acked, outcomes, recon, phase>>
      BY <1>6 DEF StartRating
    <3> QED
      BY <1>1, <1>2, <2>3, <2>5, <2>6, <2>7, <2>9, <3>1, <3>2, RowStep
<1>7. CASE AnswerFailed(w)
  <2> DEFINE r == [worker[w] EXCEPT !.pc = "record", !.result = OUTCOME_UNKNOWN]
  <2>1. worker' = [worker EXCEPT ![w] = r] /\ worker'[w] = r
    BY <1>2, <1>7 DEF AnswerFailed
  <2>2. r.pc = "record" /\ r.tx = tx /\ r.identity = worker[w].identity
        /\ r.record = record /\ r.result = OUTCOME_UNKNOWN
    BY <1>2 DEF Busy, Requests
  <2>3. r \in Busy \cup {Idle}
    BY <1>1, <2>1 DEF TypeOK
  <2> HIDE DEF r
  <2>4. ChecksAt(w)'
    <3>1. KeyAt(w)' = KeyAt(w)
      BY <2>1, <2>2 DEF KeyAt
    <3> QED
      BY <1>2, <1>7, <2>1, <2>2, <3>1 DEF AnswerFailed, ChecksAt, At, OnlyRowOf, durable
  <2> QED
    BY <1>1, <1>7, <2>1, <2>2, <2>3, <2>4, LocalStep
       DEF AnswerFailed, APPLIED, OUTCOME_UNKNOWN
<1>8. CASE AnswerCommitted(w)
  <2>1. PICK result \in {APPLIED, OUTCOME_UNKNOWN} :
          worker' = [worker EXCEPT ![w].pc = "record", ![w].result = result]
    BY <1>8 DEF AnswerCommitted
  <2> DEFINE r == [worker[w] EXCEPT !.pc = "record", !.result = result]
  <2>2. worker'[w] = r /\ \A v \in Workers : v # w => worker'[v] = worker[v]
    BY <1>2, <2>1
  <2>3. r.pc = "record" /\ r.tx = tx /\ r.identity = worker[w].identity
        /\ r.record = record /\ r.result = result
    BY <1>2 DEF Busy, Requests
  <2> HIDE DEF r
  <2>4. OnlyRowOf(w, {RATING_STARTED}) /\ revlog[tx] = 0
    BY <1>2, <1>8 DEF AnswerCommitted, ChecksAt, At
  <2>5. revlog'[tx] = 1 /\ \A t \in Txs : t # tx => revlog'[t] = revlog[t]
    BY <1>2, <1>8, <2>4 DEF AnswerCommitted
  <2>6. UNCHANGED <<rows, acked, outcomes, recon, phase>>
    BY <1>8 DEF AnswerCommitted
  <2>7. AtMostOnce'
    BY <2>5 DEF IInv, AtMostOnce
  <2>8. WriteAhead'
    BY <1>2, <2>4, <2>5, <2>6 DEF IInv, WriteAhead, OnlyRowOf, CoveredBy
  <2>9. AppliedIsTrue'
    BY <1>2, <2>2, <2>3, <2>5, <2>6 DEF IInv, AppliedIsTrue
  <2>10. Exclusive' /\ ServedAlone'
    <3>1. Exclusive'
      BY <1>1, <1>2, <2>2, <2>3, <2>6 DEF IInv, Exclusive, BusyOn
    <3>2. ServedAlone'
      BY <1>1, <2>2, <2>6 DEF IInv, ServedAlone
    <3> QED
      BY <3>1, <3>2
  <2>11. ChecksHold'
    <3>1. KeyAt(w)' = KeyAt(w)
      BY <2>2, <2>3 DEF KeyAt
    <3>2. ChecksAt(w)'
      BY <2>2, <2>3, <2>4, <2>6, <3>1 DEF ChecksAt, At, OnlyRowOf
    <3>3. ASSUME NEW v \in Workers, v # w PROVE ChecksAt(v)'
      <4>1. worker'[v] = worker[v] /\ ChecksAt(v) /\ KeyAt(v)' = KeyAt(v)
        BY <2>2, <3>3 DEF IInv, ChecksHold, KeyAt
      <4>2. CASE worker[v] = Idle
        BY <4>1, <4>2 DEF ChecksAt, At, Idle
      <4>3. CASE worker[v] # Idle
        <5>1. worker[v].tx \in Txs /\ worker[v].tx # tx
          BY <1>1, <3>3, <4>3, BusyFacts
        <5> QED
          BY <2>5, <2>6, <4>1, <5>1 DEF ChecksAt, At, OnlyRowOf, NoRowOf
      <4> QED
        BY <4>2, <4>3
    <3> QED
      BY <3>2, <3>3 DEF ChecksHold
  <2>12. ReconSound'
    BY <1>2, <2>6 DEF ReconSound
  <2> QED
    BY <1>1, <2>7, <2>8, <2>9, <2>10, <2>11, <2>12 DEF IInv
<1>9. CASE RecordResult(w)
  <2> DEFINE state == ResultState(w)
             row == Rewritten(record, state, record.resends)
             r == [worker[w] EXCEPT !.pc = "remember"]
  <2>1. OnlyRowOf(w, {RATING_STARTED})
    BY <1>2, <1>9 DEF RecordResult, ChecksAt, At
  <2>2. record \in Rows
    BY <1>2, <1>9 DEF RecordResult, At, Busy, Requests, Holding
  <2>3. rows' = [rows EXCEPT ![KeyAt(w)] = row] /\ worker' = [worker EXCEPT ![w] = r]
    BY <1>2, <1>9, <2>1, <2>2, RowPresent DEF RecordResult, OnlyRowOf, Goto
  <2>4. worker'[w] = r
    BY <1>2, <2>3
  <2>5. r.pc = "remember" /\ r.tx = tx /\ r.result = worker[w].result
    BY <1>2 DEF Busy, Requests
  <2>6. r \in Busy
    <3> HIDE DEF r
    <3> QED
      BY <1>w, <2>4, <2>5 DEF Idle
  <2>7. row \in Rows /\ row.state = state
    <3>1. record.resends \in Nat
      BY <2>2 DEF Rows
    <3>2. state \in JournalStates
      BY DEF JournalStates, ResultState
    <3>3. row.state = state
      BY <2>2 DEF Rewritten, Rows
    <3> QED
      BY <2>2, <3>1, <3>2, <3>3, RewrittenType
  <2>8. CoveredBy(row) /\ (row.state = COMPLETED => revlog[tx] > 0)
    BY <1>4, <2>7 DEF CoveredBy, ResultState, COMPLETED, OUTCOME_UNKNOWN
  <2> HIDE DEF row, r
  <2>9. ChecksAt(w)'
    BY <2>4, <2>5 DEF ChecksAt, At
  <2> QED
    BY <1>1, <1>2, <1>9, <2>3, <2>5, <2>6, <2>7, <2>8, <2>9, RowStep DEF RecordResult
<1>10. CASE ReadBackFails(w)
  <2>1. worker' = [worker EXCEPT ![w] = Idle] /\ worker'[w] = Idle
    BY <1>2, <1>10 DEF ReadBackFails, Abort
  <2>2. ChecksAt(w)'
    BY <2>1 DEF ChecksAt, At, Idle
  <2>3. UNCHANGED <<revlog, acked, outcomes, recon, phase>>
    BY <1>10 DEF ReadBackFails
  <2>4. PICK row \in Rows :
          /\ rows' = [rows EXCEPT ![KeyAt(w)] = row]
          /\ revlog[tx] > 0 => CoveredBy(row)
          /\ row.state = COMPLETED => revlog[tx] > 0
    <3>1. CASE At(w, "insert")
      <4>1. revlog[tx] = 0
        BY <1>2, <1>3, <3>1 DEF ChecksAt, At, NoRowOf, NoRow, CoveredBy, RATING_STARTED,
           COMPLETED, OUTCOME_UNKNOWN
      <4>2. IntentOf(w) \in Rows /\ IntentOf(w).state # COMPLETED
        BY <1>2, IntentType DEF IntentOf, RECEIVED, COMPLETED
      <4> QED
        BY <1>10, <3>1, <4>1, <4>2 DEF ReadBackFails, At
    <3>2. CASE worker[w].pc \in {"start", "record"}
      <4> DEFINE state == IF At(w, "start") THEN RATING_STARTED ELSE ResultState(w)
      <4>1. record \in Rows
        BY <1>2, <3>2 DEF Busy, Requests, Holding
      <4>2. record.resends \in Nat /\ state \in JournalStates
        BY <4>1 DEF Rows, JournalStates, ResultState
      <4>3. rows' = [rows EXCEPT ![KeyAt(w)] = Rewritten(record, state, record.resends)]
        BY <1>10, <3>2 DEF ReadBackFails, At
      <4>4. Rewritten(record, state, record.resends).state = state
        BY <4>1 DEF Rewritten, Rows
      <4>5. state \in {RATING_STARTED, COMPLETED, OUTCOME_UNKNOWN}
            /\ (state = COMPLETED => revlog[tx] > 0)
        BY <1>4 DEF ResultState, RATING_STARTED, COMPLETED, OUTCOME_UNKNOWN
      <4> HIDE DEF state
      <4> QED
        BY <4>1, <4>2, <4>3, <4>4, <4>5, RewrittenType DEF CoveredBy
    <3> QED
      BY <1>10, <3>1, <3>2 DEF ReadBackFails
  <2> QED
    BY <1>1, <1>2, <2>1, <2>2, <2>3, <2>4, RowStep
<1> QED
  BY <1>5, <1>6, <1>7, <1>8, <1>9, <1>10

\* After the journal: memory, the session and the answer to the client.
LEMMA AnswerStep ==
  ASSUME IInv, NEW w \in Workers,
         Remember(w) \/ Restore(w) \/ Respond(w) \/ JournalFault(w)
  PROVE  IInv'
<1>1. TypeOK' /\ worker[w] # Idle
  <2>1. TypeOK'
    BY RateType DEF IInv, Rate
  <2>2. worker[w].pc # "idle"
    BY DEF Remember, Restore, Respond, JournalFault, At
  <2> QED
    BY <2>1, <2>2 DEF Idle
<1>2. /\ worker[w] \in Busy
      /\ worker[w].tx \in Txs
      /\ worker[w].tx \notin acked
      /\ Up
      /\ recon = NoRecon
      /\ worker \in [Workers -> Busy \cup {Idle}]
  BY <1>1, BusyFacts DEF IInv, TypeOK
<1> DEFINE tx == worker[w].tx
<1>3. worker[w].result = APPLIED => revlog[tx] > 0
  BY <1>1, <1>2 DEF IInv, AppliedIsTrue
<1>4. \A step \in {"restore", "reply"} : Goto(w, step) => ChecksAt(w)'
  BY <1>2 DEF Goto, ChecksAt, At
<1>5. Abort(w) => worker'[w] = Idle
  BY <1>2 DEF Abort
<1>6. CASE Remember(w)
  <2>1. PICK step \in {"restore", "reply"} : Goto(w, step)
    BY <1>6 DEF Remember
  <2> DEFINE r == [worker[w] EXCEPT !.pc = step]
  <2>2. /\ worker'[w] = r
        /\ \A v \in Workers : v # w => worker'[v] = worker[v]
        /\ r.tx = tx
        /\ r.result = worker[w].result
    BY <1>2, <2>1 DEF Goto, Busy, Requests
  <2> HIDE DEF r
  <2>3. UNCHANGED <<durable, recon, phase>>
    BY <1>6 DEF Remember
  <2>4. \A t \in Txs : outcomes'[t].state = APPLIED =>
          outcomes[t].state = APPLIED \/ (t = tx /\ worker[w].result = APPLIED)
    BY <1>2, <1>6 DEF Remember, IInv, TypeOK
  <2>5. AtMostOnce' /\ WriteAhead' /\ ReconSound'
    BY <1>2, <2>3 DEF IInv, AtMostOnce, WriteAhead, ReconSound, durable
  <2>6. AppliedIsTrue'
    BY <1>2, <1>3, <2>2, <2>3, <2>4 DEF IInv, AppliedIsTrue, durable
  <2>7. Exclusive'
    BY <1>1, <1>2, <2>2, <2>3 DEF IInv, Exclusive, BusyOn, durable
  <2>8. ServedAlone'
    BY <1>2, <2>3 DEF ServedAlone
  <2>9. ChecksHold'
    <3>1. ASSUME NEW v \in Workers, v # w PROVE ChecksAt(v)'
      BY <2>2, <2>3, <3>1 DEF IInv, ChecksHold, ChecksAt, At, NoRowOf, OnlyRowOf, KeyAt, durable
    <3> QED
      BY <1>4, <2>1, <3>1 DEF ChecksHold
  <2> QED
    BY <1>1, <2>5, <2>6, <2>7, <2>8, <2>9 DEF IInv
<1>7. CASE Restore(w)
  <2>1. UNCHANGED <<durable, outcomes, recon, phase>>
    BY <1>7 DEF Restore
  <2>2. CASE Goto(w, "reply")
    BY <1>1, <1>4, <2>1, <2>2, Advanced DEF Steps
  <2> QED
    BY <1>1, <1>7, <2>1, <2>2, Dismissed DEF Restore
<1>8. CASE Respond(w)
  <2>1. worker'[w] = Idle /\ \A v \in Workers : v # w => worker'[v] = worker[v]
    BY <1>2, <1>8 DEF Respond, Abort
  <2>2. UNCHANGED <<rows, revlog, outcomes, recon, phase>>
    BY <1>8 DEF Respond
  <2>3. acked' = acked \/ (acked' = acked \cup {tx} /\ worker[w].result = APPLIED)
    BY <1>8 DEF Respond
  <2>4. AtMostOnce' /\ WriteAhead' /\ ReconSound'
    BY <2>2, <2>3 DEF IInv, AtMostOnce, WriteAhead, ReconSound
  <2>5. AppliedIsTrue'
    BY <1>3, <2>1, <2>2, <2>3 DEF IInv, AppliedIsTrue
  <2>6. Exclusive'
    BY <1>1, <1>2, <2>1, <2>3 DEF IInv, Exclusive, BusyOn
  <2>7. ServedAlone'
    BY <1>2, <2>2 DEF ServedAlone
  <2>8. ChecksHold'
    <3>1. ASSUME NEW v \in Workers PROVE ChecksAt(v)'
      <4>1. CASE v = w
        BY <2>1, <4>1 DEF ChecksAt, At, Idle
      <4>2. CASE v # w
        BY <2>1, <2>2, <4>2 DEF IInv, ChecksHold, ChecksAt, At, NoRowOf, OnlyRowOf, KeyAt
      <4> QED
        BY <4>1, <4>2
    <3> QED
      BY <3>1 DEF ChecksHold
  <2> QED
    BY <1>1, <2>4, <2>5, <2>6, <2>7, <2>8 DEF IInv
<1>9. CASE JournalFault(w)
  BY <1>1, <1>9, Dismissed DEF JournalFault
<1> QED
  BY <1>6, <1>7, <1>8, <1>9

LEMMA RateStep ==
  ASSUME IInv, NEW w \in Workers, Rate(w)
  PROVE  IInv'
BY ChecksStep, JournalStep, AnswerStep DEF Rate

\* A new request: Quiet keeps it off the transactions in flight.
LEMMA RequestStep ==
  ASSUME IInv, Quiet, NEW w \in Workers, Serve(w)
  PROVE  IInv'
<1>1. PICK tx \in Txs, id \in Identities, rating \in Ratings : Request(w, tx, id, rating)
  BY DEF Serve
<1> DEFINE r == [pc |-> "outcome", tx |-> tx, identity |-> id, rating |-> rating,
                 record |-> NoRow, result |-> REFUSED]
<1>2. /\ TypeOK'
      /\ worker'[w] = r
      /\ \A v \in Workers : v # w => worker'[v] = worker[v]
      /\ UNCHANGED <<rows, revlog, acked, outcomes, recon, phase>>
      /\ Up
      /\ recon = NoRecon
      /\ tx \notin acked
      /\ \A v \in Workers : worker[v] # Idle => worker[v].tx # tx
  BY <1>1, RequestType DEF Serve, Request, Quiet, IInv, TypeOK, durable
<1>3. r.pc = "outcome" /\ r.tx = tx /\ r.result # APPLIED
  BY DEF REFUSED, APPLIED
<1> HIDE DEF r
<1>4. AtMostOnce' /\ WriteAhead' /\ ReconSound'
  BY <1>2 DEF IInv, AtMostOnce, WriteAhead, ReconSound
<1>5. AppliedIsTrue'
  BY <1>2, <1>3 DEF IInv, AppliedIsTrue
<1>6. Exclusive'
  BY <1>2, <1>3 DEF IInv, Exclusive, BusyOn
<1>7. ServedAlone'
  BY <1>2 DEF ServedAlone
<1>8. ChecksHold'
  <2>1. ASSUME NEW v \in Workers PROVE ChecksAt(v)'
    <3>1. CASE v = w
      BY <1>2, <1>3, <3>1 DEF ChecksAt, At
    <3>2. CASE v # w
      BY <1>2, <3>2 DEF IInv, ChecksHold, ChecksAt, At, NoRowOf, OnlyRowOf, KeyAt
    <3> QED
      BY <3>1, <3>2
  <2> QED
    BY <2>1 DEF ChecksHold
<1> QED
  BY <1>2, <1>4, <1>5, <1>6, <1>7, <1>8 DEF IInv

LEMMA ReconciledSound ==
  ASSUME TypeOK, NEW tx \in Txs, NEW record \in Rows,
         record.state \in BLOCKING_STATES, record.state # RECEIVED,
         NEW proof \in Evidence(tx)
  PROVE  /\ Reconciled(record, proof).state = COMPLETED => revlog[tx] > 0
         /\ revlog[tx] > 0 => CoveredBy(Reconciled(record, proof))
<1>1. revlog[tx] \in Nat /\ (proof = TRUE => revlog[tx] > 0)
      /\ (proof = FALSE => ~(revlog[tx] > 0))
  BY NoneAssumption DEF Evidence, TypeOK
<1>2. \A state, resends : Rewritten(record, state, resends).state = state
  BY DEF Rewritten, Rows
<1> QED
  BY <1>1, <1>2 DEF Reconciled, CoveredBy, RECEIVED, COMPLETED, OUTCOME_UNKNOWN

LEMMA ReconcileStep ==
  ASSUME IInv, Quiet, Reconcile
  PROVE  IInv'
<1>1. TypeOK' /\ TypeOK
  BY ReconcileType DEF IInv
<1>2. CASE ReconcileBegin
  <2>1. \A w \in Workers : worker[w] = Idle
    BY <1>2 DEF ReconcileBegin, Quiet, IInv, ServedAlone
  <2>2. AtMostOnce' /\ WriteAhead' /\ AppliedIsTrue' /\ Exclusive' /\ ServedAlone'
    BY <1>2, <2>1 DEF ReconcileBegin, IInv, AtMostOnce, WriteAhead, AppliedIsTrue,
       Exclusive, BusyOn, ServedAlone, durable
  <2>3. ChecksHold'
    BY <1>2, <2>1 DEF ReconcileBegin, ChecksHold, ChecksAt, At, Idle
  <2>4. ReconSound'
    BY <1>2 DEF ReconcileBegin, ReconSound, Blocking, durable
  <2> QED
    BY <1>1, <2>2, <2>3, <2>4 DEF IInv
<1>3. CASE ReconcileOne
  <2>1. PICK item \in recon.todo, proof \in {None, TRUE, FALSE} :
          LET k == item[1]
              after == Reconciled(item[2], proof) IN
          /\ proof \in Evidence(k[2])
          /\ recon' = [recon EXCEPT !.todo = @ \ {item}, !.done = @ \cup {<<k, after>>}]
          /\ rows' = IF item[2].state = RECEIVED THEN rows ELSE [rows EXCEPT ![k] = after]
    BY <1>3, Zenon DEF ReconcileOne
  <2> DEFINE k == item[1]
             after == Reconciled(item[2], proof)
  <2>2. /\ recon.todo \in SUBSET (Keys \X Rows)
        /\ recon.done \in SUBSET (Keys \X Rows)
        /\ recon = [pc |-> "scan", todo |-> recon.todo, done |-> recon.done]
        /\ \A w \in Workers : worker[w] = Idle
    BY <1>1, <1>3 DEF ReconcileOne, IInv, ServedAlone, TypeOK, NoRecon
  <2>3. k \in Keys /\ k[2] \in Txs /\ item[2] \in Rows /\ item = <<k, item[2]>>
    BY <2>2 DEF Keys
  <2>4. rows[k] = item[2] /\ item[2].state \in BLOCKING_STATES
    BY <1>3 DEF ReconcileOne, IInv, ReconSound
  <2>5. \A other \in recon.todo : other # item => other[1] # k
    BY <1>3, <2>2, <2>3, <2>4 DEF ReconcileOne, IInv, ReconSound
  <2>6. /\ recon'.todo = recon.todo \ {item}
        /\ recon'.done = recon.done \cup {<<k, after>>}
        /\ rows' = IF item[2].state = RECEIVED THEN rows ELSE [rows EXCEPT ![k] = after]
    BY <2>1, <2>2
  <2>7. UNCHANGED <<revlog, acked, outcomes, worker, phase>>
    BY <1>3 DEF ReconcileOne
  <2>8. /\ after.state = COMPLETED => revlog[k[2]] > 0
        /\ item[2].state # RECEIVED /\ revlog[k[2]] > 0 => CoveredBy(after)
    <3>1. CASE item[2].state = RECEIVED
      BY <3>1 DEF Reconciled, RECEIVED, COMPLETED
    <3>2. CASE item[2].state # RECEIVED
      BY <1>1, <2>1, <2>3, <2>4, <3>2, ReconciledSound
    <3> QED
      BY <3>1, <3>2
  <2> HIDE DEF k, after
  <2>9. \A other \in Keys : rows'[other] = rows[other] \/ (other = k /\ rows'[k] = after
                                                        /\ item[2].state # RECEIVED)
    BY <1>1, <2>3, <2>6 DEF TypeOK
  <2>10. AtMostOnce'
    BY <2>7 DEF IInv, AtMostOnce
  <2>11. WriteAhead'
    BY <2>7, <2>8, <2>9 DEF IInv, WriteAhead
  <2>12. AppliedIsTrue'
    BY <2>7, <2>8, <2>9 DEF IInv, AppliedIsTrue
  <2>13. Exclusive' /\ ServedAlone' /\ ChecksHold'
    BY <2>2, <2>7 DEF Exclusive, BusyOn, ServedAlone, ChecksHold, ChecksAt, At, Idle
  <2>14. ReconSound'
    <3>1. \A other \in recon'.todo : rows'[other[1]] = other[2]
                                    /\ other[2].state \in BLOCKING_STATES
      BY <1>3, <2>2, <2>5, <2>6, <2>9 DEF ReconcileOne, IInv, ReconSound
    <3>2. \A other \in recon'.done : other[2].state = COMPLETED => revlog[other[1][2]] > 0
      BY <1>3, <2>6, <2>8 DEF ReconcileOne, IInv, ReconSound
    <3> QED
      BY <2>7, <3>1, <3>2 DEF ReconSound
  <2> QED
    BY <1>1, <2>10, <2>11, <2>12, <2>13, <2>14 DEF IInv
<1>4. CASE ReconcilePublish
  <2>1. PICK last \in [{item[1][2] : item \in recon.done} -> recon.done] :
          /\ \A tx \in DOMAIN last : last[tx][1][2] = tx
          /\ outcomes' = [tx \in Txs |-> IF tx \in DOMAIN last
                                     THEN OutcomeOfRow(last[tx][2]) ELSE outcomes[tx]]
    BY <1>4 DEF ReconcilePublish
  <2>2. \A tx \in Txs : outcomes'[tx].state = APPLIED =>
          outcomes[tx].state = APPLIED \/ revlog[tx] > 0
    <3> SUFFICES ASSUME NEW tx \in Txs, outcomes'[tx].state = APPLIED, tx \in DOMAIN last
                 PROVE  revlog[tx] > 0
      BY <2>1
    <3>1. last[tx] \in recon.done /\ last[tx][1][2] = tx
      BY <2>1
    <3>2. last[tx][2].state = COMPLETED
      BY <2>1 DEF OutcomeOfRow, APPLIED, OUTCOME_UNKNOWN
    <3> QED
      BY <1>4, <3>1, <3>2 DEF ReconcilePublish, IInv, ReconSound
  <2>3. UNCHANGED <<durable, worker, phase>> /\ recon' = NoRecon
    BY <1>4 DEF ReconcilePublish
  <2>4. \A w \in Workers : worker[w] = Idle
    BY <1>4 DEF ReconcilePublish, IInv, ServedAlone
  <2>5. AtMostOnce' /\ WriteAhead' /\ Exclusive' /\ ServedAlone' /\ ReconSound'
    BY <2>3, <2>4 DEF IInv, AtMostOnce, WriteAhead, Exclusive, BusyOn, ServedAlone,
       ReconSound, durable
  <2>6. AppliedIsTrue'
    BY <2>2, <2>3 DEF IInv, AppliedIsTrue, durable
  <2>7. ChecksHold'
    BY <2>3, <2>4 DEF ChecksHold, ChecksAt, At, Idle
  <2> QED
    BY <1>1, <2>5, <2>6, <2>7 DEF IInv
<1>5. CASE ReconcileFails
  <2>1. PICK item \in recon.todo, proof \in {None, TRUE, FALSE} :
          /\ proof \in Evidence(item[1][2])
          /\ \/ UNCHANGED rows
             \/ /\ item[2].state # RECEIVED
                /\ rows' = [rows EXCEPT ![item[1]] = Reconciled(item[2], proof)]
    BY <1>5 DEF ReconcileFails
  <2> DEFINE k == item[1]
             after == Reconciled(item[2], proof)
  <2>2. /\ UNCHANGED <<revlog, acked, outcomes, worker>>
        /\ recon' = NoRecon
        /\ \A w \in Workers : worker[w] = Idle
    BY <1>5 DEF ReconcileFails, IInv, ServedAlone
  <2>3. /\ k \in Keys /\ k[2] \in Txs /\ item[2] \in Rows
        /\ item[2].state \in BLOCKING_STATES
    BY <1>1, <1>5 DEF ReconcileFails, IInv, ReconSound, TypeOK, NoRecon, Keys
  <2>4. item[2].state # RECEIVED =>
          /\ after.state = COMPLETED => revlog[k[2]] > 0
          /\ revlog[k[2]] > 0 => CoveredBy(after)
    BY <1>1, <2>1, <2>3, ReconciledSound
  <2>5. \A other \in Keys : rows'[other] = rows[other] \/ (other = k /\ rows'[k] = after
                                                        /\ item[2].state # RECEIVED)
    BY <1>1, <2>1, <2>3 DEF TypeOK
  <2> HIDE DEF k, after
  <2>6. AtMostOnce' /\ ReconSound'
    BY <2>2 DEF IInv, AtMostOnce, ReconSound
  <2>7. WriteAhead'
    BY <2>2, <2>4, <2>5 DEF IInv, WriteAhead
  <2>8. AppliedIsTrue'
    BY <2>2, <2>4, <2>5 DEF IInv, AppliedIsTrue
  <2>9. Exclusive' /\ ServedAlone' /\ ChecksHold'
    BY <2>2 DEF Exclusive, BusyOn, ServedAlone, ChecksHold, ChecksAt, At, Idle
  <2> QED
    BY <1>1, <2>6, <2>7, <2>8, <2>9 DEF IInv
<1> QED
  BY <1>2, <1>3, <1>4, <1>5 DEF Reconcile

\* Garbage collection, the process and the session around the coordinator.
LEMMA EnvironmentStep ==
  ASSUME IInv,
         \/ CollectGarbage \/ Crash \/ Restart \/ EndAdmission \/ TopMoves
         \/ \E id \in Identities : Admit(id)
  PROVE  IInv'
<1>1. TypeOK'
  BY EnvironmentType DEF IInv
<1>2. CASE CollectGarbage
  <2>1. /\ \A k \in Keys : \/ rows'[k] = rows[k]
                          \/ /\ k[2] \in acked
                             /\ rows[k].state = COMPLETED
                             /\ rows'[k] = NoRow
        /\ UNCHANGED <<revlog, acked, outcomes, worker, recon, phase>>
    BY <1>2 DEF CollectGarbage, IInv, TypeOK
  <2>2. AtMostOnce' /\ WriteAhead' /\ Exclusive' /\ ServedAlone'
    BY <2>1 DEF IInv, AtMostOnce, WriteAhead, Exclusive, BusyOn, ServedAlone
  <2>3. AppliedIsTrue'
    BY <2>1 DEF IInv, AppliedIsTrue, NoRow, COMPLETED
  <2>4. ChecksHold'
    <3>1. ASSUME NEW w \in Workers PROVE ChecksAt(w)'
      <4>1. CASE worker[w] = Idle
        BY <2>1, <4>1 DEF ChecksAt, At, Idle
      <4>2. CASE worker[w] # Idle
        <5>1. KeyAt(w) \in Keys /\ KeyAt(w)[2] = worker[w].tx /\ worker[w].tx \notin acked
              /\ KeyAt(w)' = KeyAt(w)
          BY <2>1, <4>2, BusyFacts DEF KeyAt
        <5>2. \A k \in Keys : k[2] = worker[w].tx => rows'[k] = rows[k]
          BY <2>1, <5>1
        <5> QED
          BY <2>1, <5>1, <5>2 DEF IInv, ChecksHold, ChecksAt, At, NoRowOf, OnlyRowOf
      <4> QED
        BY <4>1, <4>2
    <3> QED
      BY <3>1 DEF ChecksHold
  <2>5. ReconSound'
    <3>1. \A item \in recon.todo : recon # NoRecon => item[1] \in Keys
      BY DEF IInv, TypeOK
    <3> QED
      BY <2>1, <3>1 DEF IInv, ReconSound, BLOCKING_STATES, RECEIVED, RATING_STARTED,
         OUTCOME_UNKNOWN, COMPLETED
  <2> QED
    BY <1>1, <2>2, <2>3, <2>4, <2>5 DEF IInv
<1>3. CASE Crash
  <2>1. AtMostOnce' /\ WriteAhead' /\ Exclusive' /\ ServedAlone' /\ ReconSound'
    BY <1>3 DEF Crash, IInv, AtMostOnce, WriteAhead, Exclusive, BusyOn, ServedAlone,
       ReconSound, durable
  <2>2. AppliedIsTrue'
    BY <1>3 DEF Crash, IInv, AppliedIsTrue, NoOutcome, APPLIED, durable
  <2>3. ChecksHold'
    BY <1>3 DEF Crash, ChecksHold, ChecksAt, At, Idle
  <2> QED
    BY <1>1, <2>1, <2>2, <2>3 DEF IInv
<1>4. CASE Restart \/ EndAdmission \/ TopMoves \/ \E id \in Identities : Admit(id)
  <2>1. UNCHANGED <<rows, revlog, acked, outcomes, worker, recon>>
        /\ (phase' = phase \/ phase = "down")
    BY <1>4 DEF Restart, EndAdmission, TopMoves, Admit, durable
  <2>2. AtMostOnce' /\ WriteAhead' /\ AppliedIsTrue' /\ Exclusive' /\ ReconSound'
    BY <2>1 DEF IInv, AtMostOnce, WriteAhead, AppliedIsTrue, Exclusive, BusyOn, ReconSound
  <2>3. ServedAlone'
    BY <2>1 DEF IInv, ServedAlone
  <2>4. ChecksHold'
    BY <2>1 DEF IInv, ChecksHold, ChecksAt, At, NoRowOf, OnlyRowOf, KeyAt
  <2> QED
    BY <1>1, <2>2, <2>3, <2>4 DEF IInv
<1> QED
  BY <1>2, <1>3, <1>4

\* IInv is inductive: what a worker has checked stays true while it acts on it.
THEOREM Inductive == ASSUME Quiet PROVE Spec => []IInv
<1>1. Init => IInv
  <2> SUFFICES ASSUME Init PROVE IInv
    OBVIOUS
  <2>1. TypeOK
    BY InitType
  <2> QED
    BY <2>1 DEF Init, IInv, AtMostOnce, WriteAhead, AppliedIsTrue, Exclusive, BusyOn,
       ServedAlone, ChecksHold, ChecksAt, At, Idle, ReconSound, NoOutcome, NoRow,
       APPLIED, COMPLETED
<1>2. IInv /\ [Next]_vars => IInv'
  <2> SUFFICES ASSUME IInv, [Next]_vars PROVE IInv'
    OBVIOUS
  <2>1. CASE UNCHANGED vars
    <3>1. UNCHANGED <<rows, revlog, acked, outcomes, worker, recon, phase>> /\ TypeOK'
      BY <2>1 DEF vars, IInv, TypeOK
    <3> QED
      BY <3>1 DEF IInv, AtMostOnce, WriteAhead, AppliedIsTrue, Exclusive, BusyOn, ReconSound,
         ServedAlone, ChecksHold, ChecksAt, At, NoRowOf, OnlyRowOf, KeyAt
  <2> QED
    BY <2>1, RateStep, RequestStep, ReconcileStep, EnvironmentStep, Quiet DEF Next
<1> QED
  BY <1>1, <1>2, PTL DEF Spec

-----------------------------------------------------------------------------
(* What follows from it.                                                   *)

\* AtMostOnce: one transaction reaches Anki at most once, however many workers
\* serve however many transactions (review.py:3-9).
THEOREM RatedAtMostOnce == ASSUME Quiet PROVE Spec => []AtMostOnce
<1>1. IInv => AtMostOnce
  BY DEF IInv
<1> QED
  BY <1>1, Inductive, PTL

\* WriteAhead: the journal knows of a review before Anki does.
THEOREM JournalWrittenAhead == ASSUME Quiet PROVE Spec => []WriteAhead
<1>1. IInv => WriteAhead
  BY DEF IInv
<1> QED
  BY <1>1, Inductive, PTL

\* A step of rate leaves a completed row alone.
LEMMA RateKeepsCompleted ==
  ASSUME IInv, NEW w \in Workers, Rate(w), NEW k \in Keys, rows[k].state = COMPLETED
  PROVE  rows'[k] = rows[k]
<1>1. CASE InsertIntent(w) \/ StartRating(w) \/ RecordResult(w) \/ ReadBackFails(w)
  <2>1. worker[w] # Idle
    BY <1>1 DEF InsertIntent, StartRating, RecordResult, ReadBackFails, At, Idle
  <2>2. KeyAt(w) \in Keys /\ KeyAt(w)[2] = worker[w].tx
    BY <2>1, BusyFacts
  <2>3. ChecksAt(w) /\ rows \in [Keys -> Rows \cup {NoRow}]
    BY DEF IInv, ChecksHold, TypeOK
  <2>4. rows[KeyAt(w)].state # COMPLETED
    BY <1>1, <2>2, <2>3 DEF InsertIntent, StartRating, RecordResult, ReadBackFails, ChecksAt,
       At, NoRowOf, OnlyRowOf, NoRow, RECEIVED, RATING_STARTED, COMPLETED
  <2>5. \A other \in Keys : other # KeyAt(w) => rows'[other] = rows[other]
    BY <1>1, <2>3 DEF InsertIntent, StartRating, RecordResult, ReadBackFails
  <2> QED
    BY <2>4, <2>5
<1> QED
  BY <1>1 DEF Rate, LookUpOutcome, CheckUnresolved, CheckAdmitted, CheckTop, FindIntent,
     AnswerCommitted, AnswerFailed, Remember, Restore, Respond, JournalFault, durable

\* A reconciliation works on blocking rows only, as they are.
LEMMA ReconcileKeepsCompleted ==
  ASSUME IInv, Reconcile, NEW k \in Keys, rows[k].state = COMPLETED
  PROVE  rows'[k] = rows[k]
<1>1. CASE ReconcileOne \/ ReconcileFails
  <2>1. recon # NoRecon
    BY <1>1, Zenon DEF ReconcileOne, ReconcileFails
  <2>2. PICK item \in recon.todo, proof \in {None, TRUE, FALSE} :
          rows' = rows \/ rows' = [rows EXCEPT ![item[1]] = Reconciled(item[2], proof)]
    <3>1. CASE ReconcileOne
      BY <3>1, Zenon DEF ReconcileOne
    <3>2. CASE ReconcileFails
      BY <3>2 DEF ReconcileFails
    <3> QED
      BY <1>1, <3>1, <3>2
  <2>3. rows[item[1]].state # COMPLETED
    BY <2>1 DEF IInv, ReconSound, BLOCKING_STATES, RECEIVED, RATING_STARTED, OUTCOME_UNKNOWN,
       COMPLETED
  <2> QED
    BY <2>2, <2>3 DEF IInv, TypeOK
<1> QED
  BY <1>1 DEF Reconcile, ReconcileBegin, ReconcilePublish, durable

\* CompletedForever: no late failure, retry or reconciliation takes a proved
\* result back; only garbage collection removes it, once it is acknowledged.
THEOREM CompletedStays == ASSUME Quiet PROVE Spec => CompletedForever
<1>1. IInv /\ [Next]_vars => [KeepsCompleted]_vars
  <2> SUFFICES ASSUME IInv, Next, NEW k \in Keys, rows[k].state = COMPLETED
               PROVE  rows'[k].state = COMPLETED \/ (rows'[k] = NoRow /\ k[2] \in acked)
    BY DEF KeepsCompleted
  <2>1. CASE CollectGarbage
    BY <2>1 DEF CollectGarbage
  <2>2. ASSUME NEW w \in Workers, Serve(w) PROVE rows' = rows
    BY <2>2 DEF Serve, Request, durable
  <2>3. CASE Crash \/ Restart \/ EndAdmission \/ TopMoves \/ \E id \in Identities : Admit(id)
    BY <2>3 DEF Crash, Restart, EndAdmission, TopMoves, Admit, durable
  <2> QED
    BY <2>1, <2>2, <2>3, RateKeepsCompleted, ReconcileKeepsCompleted DEF Next
<1> QED
  BY <1>1, Inductive, PTL DEF Spec, CompletedForever

\* RatesOnce: the coordinator implements the promise of RatingOnce. Anki's
\* commit is its Rate, the delivered answer its Tell; all else stutters.
THEOREM Implements == ASSUME Quiet PROVE Spec => RatesOnce
<1>1. Init => Promise!Init
  BY DEF Init, Promise!Init
<1>2. IInv /\ [Next]_vars => [Promise!Next]_<<revlog, acked>>
  <2> SUFFICES ASSUME IInv, Next PROVE Promise!Next \/ UNCHANGED <<revlog, acked>>
    BY DEF vars
  <2>1. ASSUME NEW w \in Workers, AnswerCommitted(w)
        PROVE  Promise!Next
    <3>1. worker[w] # Idle
      BY <2>1 DEF AnswerCommitted, At, Idle
    <3>2. worker[w].tx \in Txs /\ revlog[worker[w].tx] = 0
      BY <2>1, <3>1, BusyFacts DEF AnswerCommitted, At, IInv, ChecksHold, ChecksAt
    <3>3. Promise!Rate(worker[w].tx)
      BY <2>1, <3>2 DEF AnswerCommitted, Promise!Rate
    <3> QED
      BY <3>2, <3>3 DEF Promise!Next
  <2>2. ASSUME NEW w \in Workers, Respond(w)
        PROVE  Promise!Next \/ UNCHANGED <<revlog, acked>>
    <3>1. worker[w] # Idle
      BY <2>2 DEF Respond, At, Idle
    <3>2. worker[w].tx \in Txs
      BY <3>1, BusyFacts
    <3>3. CASE worker[w].result = APPLIED /\ acked' = acked \cup {worker[w].tx}
      <4>1. revlog[worker[w].tx] = 1
        BY <3>1, <3>2, <3>3 DEF IInv, AppliedIsTrue, AtMostOnce, TypeOK
      <4>2. Promise!Tell(worker[w].tx)
        BY <2>2, <3>3, <4>1 DEF Respond, Promise!Tell
      <4> QED
        BY <3>2, <4>2 DEF Promise!Next
    <3> QED
      BY <2>2, <3>3 DEF Respond
  <2>3. ASSUME NEW w \in Workers, Rate(w)
        PROVE  Promise!Next \/ UNCHANGED <<revlog, acked>>
    BY <2>1, <2>2, <2>3 DEF Rate, LookUpOutcome, CheckUnresolved, CheckAdmitted, CheckTop,
       FindIntent, InsertIntent, StartRating, AnswerFailed, RecordResult, Remember, Restore,
       JournalFault, ReadBackFails, durable
  <2>4. ASSUME NEW w \in Workers, Serve(w) PROVE UNCHANGED <<revlog, acked>>
    BY <2>4 DEF Serve, Request, durable
  <2>5. CASE Reconcile \/ CollectGarbage \/ Crash \/ Restart \/ EndAdmission \/ TopMoves
             \/ \E id \in Identities : Admit(id)
    <3>1. CASE ReconcileBegin \/ ReconcileFails \/ ReconcilePublish
      BY <3>1 DEF ReconcileBegin, ReconcileFails, ReconcilePublish, durable
    <3>2. CASE ReconcileOne
      BY <3>2, Zenon DEF ReconcileOne
    <3>3. CASE CollectGarbage \/ Crash \/ Restart \/ EndAdmission \/ TopMoves
               \/ \E id \in Identities : Admit(id)
      BY <3>3 DEF CollectGarbage, Crash, Restart, EndAdmission, TopMoves, Admit, durable
    <3> QED
      BY <2>5, <3>1, <3>2, <3>3 DEF Reconcile
  <2> QED
    BY <2>3, <2>4, <2>5 DEF Next
<1> QED
  BY <1>1, <1>2, Inductive, PTL DEF Spec, RatesOnce, Promise!Spec

-----------------------------------------------------------------------------
(* "Applied", with repeats and a reconciliation beside ratings as well.    *)

\* A reconciliation has blocking rows to settle, and completes only what the
\* log shows.
SettlesHonestly ==
  recon # NoRecon =>
    /\ \A item \in recon.todo : item[2].state \in BLOCKING_STATES
    /\ \A item \in recon.done : item[2].state = COMPLETED => revlog[item[1][2]] > 0
AppliedInv == TypeOK /\ AppliedIsTrue /\ SettlesHonestly

\* Only workers say something new, and only of a transaction that was rated.
LEMMA AppliedStays ==
  ASSUME AppliedIsTrue,
         \A tx \in Txs : revlog[tx] > 0 => revlog'[tx] > 0,
         \A tx \in Txs : tx \in acked' => tx \in acked \/ revlog'[tx] > 0,
         \A tx \in Txs : outcomes'[tx].state = APPLIED =>
                           outcomes[tx].state = APPLIED \/ revlog'[tx] > 0,
         \A k \in Keys : rows'[k].state = COMPLETED =>
                           rows[k].state = COMPLETED \/ revlog'[k[2]] > 0,
         \A w \in Workers : worker'[w] # Idle /\ worker'[w].result = APPLIED =>
           \/ worker[w] # Idle /\ worker[w].result = APPLIED /\ worker[w].tx = worker'[w].tx
           \/ revlog'[worker'[w].tx] > 0
  PROVE  AppliedIsTrue'
BY DEF AppliedIsTrue

LEMMA AppliedRate ==
  ASSUME AppliedInv, NEW w \in Workers, Rate(w)
  PROVE  AppliedIsTrue'
<1>1. /\ worker \in [Workers -> Busy \cup {Idle}] /\ rows \in [Keys -> Rows \cup {NoRow}]
      /\ outcomes \in [Txs -> Outcomes \cup {NoOutcome}] /\ revlog \in [Txs -> Nat]
  BY DEF AppliedInv, TypeOK
<1>2. worker[w] # Idle
  BY DEF Rate, LookUpOutcome, CheckUnresolved, CheckAdmitted, CheckTop, FindIntent, InsertIntent,
     StartRating, AnswerCommitted, AnswerFailed, RecordResult, Remember, Restore, Respond,
     JournalFault, ReadBackFails, At, Idle
<1>3. worker[w] \in Busy /\ worker[w].tx \in Txs /\ worker[w].identity \in Identities
      /\ worker[w].rating \in Ratings
  BY <1>1, <1>2 DEF Busy, Requests
<1>4. KeyAt(w) \in Keys /\ KeyAt(w)[2] = worker[w].tx
  BY <1>3, KeyType DEF KeyAt, KeyOf
<1>5. worker[w].result = APPLIED => revlog[worker[w].tx] > 0
  BY <1>2, <1>3 DEF AppliedInv, AppliedIsTrue
<1>6. \A step : Goto(w, step) => worker'[w].tx = worker[w].tx /\ worker'[w].result = worker[w].result
  BY <1>1, <1>3 DEF Goto, Busy, Requests
<1>7. \A result : Reply(w, result) => worker'[w].tx = worker[w].tx /\ worker'[w].result = result
  BY <1>1, <1>3 DEF Reply, Busy, Requests
<1>8. Abort(w) => worker'[w] = Idle
  BY <1>1 DEF Abort
<1>9. \A v \in Workers : v # w => worker'[v] = worker[v]
  BY <1>1 DEF Rate, LookUpOutcome, CheckUnresolved, CheckAdmitted, CheckTop, FindIntent,
     InsertIntent, StartRating, AnswerCommitted, AnswerFailed, RecordResult, Remember, Restore,
     Respond, JournalFault, ReadBackFails, Goto, Reply, Abort
\* For each step it is enough to look at the worker, its row and its memory.
<1>10. ASSUME UNCHANGED <<rows, revlog, acked, outcomes>>,
              worker'[w] # Idle /\ worker'[w].result = APPLIED =>
                worker'[w].tx = worker[w].tx /\ revlog[worker[w].tx] > 0
       PROVE  AppliedIsTrue'
  BY <1>2, <1>9, <1>10, AppliedStays DEF AppliedInv
<1>11. CASE LookUpOutcome(w)
  <2>1. UNCHANGED <<rows, revlog, acked, outcomes>>
    BY <1>11 DEF LookUpOutcome, durable
  <2>2. ASSUME NEW found \in Recorded(worker[w].tx), found.state = APPLIED
        PROVE  revlog[worker[w].tx] > 0
    <3>1. CASE outcomes[worker[w].tx] # NoOutcome
      BY <1>3, <2>2, <3>1 DEF Recorded, AppliedInv, AppliedIsTrue
    <3>2. CASE outcomes[worker[w].tx] = NoOutcome
      <4>1. PICK k \in Keys : k[2] = worker[w].tx /\ found = OutcomeOfRow(rows[k])
        BY <2>2, <3>2 DEF Recorded
      <4>2. rows[k].state = COMPLETED
        BY <2>2, <4>1 DEF OutcomeOfRow, APPLIED, OUTCOME_UNKNOWN
      <4> QED
        BY <1>3, <4>1, <4>2 DEF AppliedInv, AppliedIsTrue
    <3> QED
      BY <3>1, <3>2
  <2>3. CASE \E step : Goto(w, step)
    BY <1>5, <1>6, <1>10, <2>1, <2>3
  <2>4. CASE Reply(w, REFUSED)
    BY <1>7, <1>10, <2>1, <2>4 DEF REFUSED, APPLIED
  <2>5. CASE \E found \in Recorded(worker[w].tx) : Reply(w, found.state)
    BY <1>7, <1>10, <2>1, <2>2, <2>5
  <2> QED
    BY <1>11, <2>3, <2>4, <2>5 DEF LookUpOutcome
<1>12. CASE CheckUnresolved(w) \/ CheckAdmitted(w) \/ CheckTop(w) \/ JournalFault(w)
  BY <1>5, <1>6, <1>7, <1>8, <1>10, <1>12
     DEF CheckUnresolved, CheckAdmitted, CheckTop, JournalFault, durable, REFUSED, APPLIED
<1>13. CASE FindIntent(w) \/ AnswerFailed(w)
  <2>1. UNCHANGED <<rows, revlog, acked, outcomes>>
    BY <1>13 DEF FindIntent, AnswerFailed, durable
  <2>2. worker'[w].tx = worker[w].tx
        /\ (worker'[w].result = APPLIED => worker[w].result = APPLIED)
    BY <1>1, <1>3, <1>6, <1>7, <1>13
       DEF FindIntent, AnswerFailed, Busy, Requests, REFUSED, APPLIED, OUTCOME_UNKNOWN
  <2> QED
    BY <1>5, <1>10, <2>1, <2>2
<1>14. CASE AnswerCommitted(w)
  <2>1. revlog'[worker[w].tx] > 0 /\ \A tx \in Txs : revlog[tx] > 0 => revlog'[tx] > 0
    BY <1>1, <1>3, <1>14 DEF AnswerCommitted
  <2>2. UNCHANGED <<rows, acked, outcomes>> /\ worker'[w].tx = worker[w].tx
    BY <1>1, <1>3, <1>14 DEF AnswerCommitted, Busy, Requests
  <2> QED
    BY <1>9, <2>1, <2>2, AppliedStays DEF AppliedInv
<1>15. CASE InsertIntent(w) \/ StartRating(w) \/ RecordResult(w) \/ ReadBackFails(w)
  <2>1. UNCHANGED <<revlog, acked, outcomes>>
        /\ \A k \in Keys : k # KeyAt(w) => rows'[k] = rows[k]
    BY <1>1, <1>15 DEF InsertIntent, StartRating, RecordResult, ReadBackFails
  <2>2. worker'[w] # Idle => worker'[w].tx = worker[w].tx /\ worker'[w].result = worker[w].result
    BY <1>1, <1>3, <1>6, <1>8, <1>15 DEF InsertIntent, StartRating, RecordResult, ReadBackFails,
       Busy, Requests
  <2>3. rows'[KeyAt(w)].state = COMPLETED =>
          rows[KeyAt(w)].state = COMPLETED \/ worker[w].result = APPLIED
    <3>1. CASE InsertIntent(w) \/ (ReadBackFails(w) /\ At(w, "insert"))
      <4>1. IntentOf(w).state # COMPLETED
        BY DEF IntentOf, RECEIVED, COMPLETED
      <4> QED
        BY <1>1, <1>4, <3>1, <4>1 DEF InsertIntent, ReadBackFails, At
    <3>2. CASE StartRating(w) \/ RecordResult(w) \/ (ReadBackFails(w) /\ ~At(w, "insert"))
      <4>1. worker[w].record \in Rows
        BY <1>3, <3>2 DEF StartRating, RecordResult, ReadBackFails, At, Busy, Requests, Holding
      <4>2. \A state, resends : Rewritten(worker[w].record, state, resends).state = state
        BY <4>1 DEF Rewritten, Rows
      <4> QED
        BY <1>1, <1>4, <3>2, <4>2
           DEF StartRating, RecordResult, ReadBackFails, ResultState, At, RATING_STARTED,
               OUTCOME_UNKNOWN, COMPLETED
    <3> QED
      BY <1>15, <3>1, <3>2
  <2>4. \A k \in Keys : rows'[k].state = COMPLETED => rows[k].state = COMPLETED \/ revlog'[k[2]] > 0
    BY <1>4, <1>5, <2>1, <2>3
  <2> QED
    BY <1>2, <1>9, <2>1, <2>2, <2>4, AppliedStays DEF AppliedInv
<1>16. CASE Remember(w)
  <2>1. UNCHANGED <<rows, revlog, acked>>
    BY <1>16 DEF Remember, durable
  <2>2. worker'[w].tx = worker[w].tx /\ worker'[w].result = worker[w].result
    BY <1>6, <1>16 DEF Remember
  <2>3. \A tx \in Txs : outcomes'[tx].state = APPLIED =>
          outcomes[tx].state = APPLIED \/ (tx = worker[w].tx /\ worker[w].result = APPLIED)
    BY <1>1, <1>16 DEF Remember
  <2> QED
    BY <1>2, <1>5, <1>9, <2>1, <2>2, <2>3, AppliedStays DEF AppliedInv
<1>17. CASE Restore(w)
  BY <1>5, <1>6, <1>7, <1>10, <1>17 DEF Restore, durable, REFUSED, APPLIED
<1>18. CASE Respond(w)
  <2>1. UNCHANGED <<rows, revlog, outcomes>> /\ worker'[w] = Idle
    BY <1>8, <1>18 DEF Respond
  <2>2. \A tx \in Txs : tx \in acked' => tx \in acked \/ revlog[tx] > 0
    BY <1>5, <1>18 DEF Respond
  <2> QED
    BY <1>9, <2>1, <2>2, AppliedStays DEF AppliedInv
<1> QED
  BY <1>11, <1>12, <1>13, <1>14, <1>15, <1>16, <1>17, <1>18 DEF Rate

LEMMA AppliedReconcile ==
  ASSUME AppliedInv, Reconcile
  PROVE  AppliedIsTrue' /\ SettlesHonestly'
<1>1. TypeOK
  BY DEF AppliedInv
<1>2. CASE ReconcileBegin
  <2>1. UNCHANGED <<durable, outcomes, worker>>
        /\ recon' = [pc |-> "scan", todo |-> {<<k, rows[k]>> : k \in Blocking}, done |-> {}]
    BY <1>2 DEF ReconcileBegin
  <2>2. AppliedIsTrue'
    BY <2>1, AppliedStays DEF AppliedInv, durable
  <2>3. SettlesHonestly'
    BY <2>1 DEF SettlesHonestly, Blocking
  <2> QED
    BY <2>2, <2>3
<1>3. CASE ReconcileOne
  <2>1. PICK item \in recon.todo, proof \in {None, TRUE, FALSE} :
          LET k == item[1]
              after == Reconciled(item[2], proof) IN
          /\ proof \in Evidence(k[2])
          /\ recon' = [recon EXCEPT !.todo = @ \ {item}, !.done = @ \cup {<<k, after>>}]
          /\ rows' = IF item[2].state = RECEIVED THEN rows ELSE [rows EXCEPT ![k] = after]
    BY <1>3, Zenon DEF ReconcileOne
  <2> DEFINE k == item[1]
             after == Reconciled(item[2], proof)
  <2>2. /\ recon.todo \in SUBSET (Keys \X Rows)
        /\ recon = [pc |-> "scan", todo |-> recon.todo, done |-> recon.done]
        /\ recon # NoRecon
        /\ UNCHANGED <<revlog, acked, outcomes, worker>>
    BY <1>1, <1>3 DEF ReconcileOne, TypeOK, NoRecon
  <2>3. k \in Keys /\ k[2] \in Txs /\ item[2] \in Rows /\ item[2].state \in BLOCKING_STATES
    BY <2>2 DEF Keys, AppliedInv, SettlesHonestly
  <2>4. after.state = COMPLETED => revlog[k[2]] > 0
    <3>1. CASE item[2].state = RECEIVED
      BY <3>1 DEF Reconciled, RECEIVED, COMPLETED
    <3>2. CASE item[2].state # RECEIVED
      BY <1>1, <2>1, <2>3, <3>2, ReconciledSound
    <3> QED
      BY <3>1, <3>2
  <2> HIDE DEF k, after
  <2>5. \A other \in Keys : rows'[other] = rows[other] \/ (other = k /\ rows'[k] = after)
    BY <1>1, <2>1, <2>3 DEF TypeOK, k, after
  <2>6. AppliedIsTrue'
    BY <2>2, <2>4, <2>5, AppliedStays DEF AppliedInv
  <2>7. recon'.todo \subseteq recon.todo /\ recon'.done = recon.done \cup {<<k, after>>}
    <3>1. recon' = [recon EXCEPT !.todo = @ \ {item}, !.done = @ \cup {<<k, after>>}]
      BY <2>1 DEF k, after
    <3> QED
      BY <2>2, <3>1
  <2>8. SettlesHonestly'
    BY <2>2, <2>4, <2>7 DEF AppliedInv, SettlesHonestly
  <2> QED
    BY <2>6, <2>8
<1>4. CASE ReconcilePublish
  <2>1. PICK last \in [{item[1][2] : item \in recon.done} -> recon.done] :
          /\ \A tx \in DOMAIN last : last[tx][1][2] = tx
          /\ outcomes' = [tx \in Txs |-> IF tx \in DOMAIN last
                                     THEN OutcomeOfRow(last[tx][2]) ELSE outcomes[tx]]
    BY <1>4 DEF ReconcilePublish
  <2>2. UNCHANGED <<rows, revlog, acked, worker>> /\ recon' = NoRecon /\ recon # NoRecon
    BY <1>4 DEF ReconcilePublish, durable
  <2>3. ASSUME NEW tx \in Txs, outcomes'[tx].state = APPLIED
        PROVE  outcomes[tx].state = APPLIED \/ revlog[tx] > 0
    <3>1. CASE tx \in DOMAIN last
      <4>1. last[tx] \in recon.done /\ last[tx][1][2] = tx
        BY <2>1, <3>1
      <4>2. last[tx][2].state = COMPLETED
        BY <2>1, <2>3, <3>1 DEF OutcomeOfRow, APPLIED, OUTCOME_UNKNOWN
      <4> QED
        BY <2>2, <4>1, <4>2 DEF AppliedInv, SettlesHonestly
    <3> QED
      BY <2>1, <2>3, <3>1
  <2>4. AppliedIsTrue'
    BY <2>2, <2>3, AppliedStays DEF AppliedInv
  <2> QED
    BY <2>2, <2>4 DEF SettlesHonestly
<1>5. CASE ReconcileFails
  <2>1. PICK item \in recon.todo, proof \in {None, TRUE, FALSE} :
          /\ proof \in Evidence(item[1][2])
          /\ \/ UNCHANGED rows
             \/ /\ item[2].state # RECEIVED
                /\ rows' = [rows EXCEPT ![item[1]] = Reconciled(item[2], proof)]
    BY <1>5 DEF ReconcileFails
  <2> DEFINE k == item[1]
             after == Reconciled(item[2], proof)
  <2>2. UNCHANGED <<revlog, acked, outcomes, worker>> /\ recon' = NoRecon /\ recon # NoRecon
    BY <1>5 DEF ReconcileFails
  <2>3. k \in Keys /\ k[2] \in Txs /\ item[2] \in Rows /\ item[2].state \in BLOCKING_STATES
    BY <1>1, <2>2 DEF TypeOK, NoRecon, Keys, AppliedInv, SettlesHonestly
  <2>4. item[2].state # RECEIVED /\ after.state = COMPLETED => revlog[k[2]] > 0
    BY <1>1, <2>1, <2>3, ReconciledSound
  <2>5. \A other \in Keys : rows'[other] = rows[other] \/ (other = k /\ rows'[k] = after
                                                        /\ item[2].state # RECEIVED)
    BY <1>1, <2>1, <2>3 DEF TypeOK
  <2> HIDE DEF k, after
  <2>6. AppliedIsTrue'
    BY <2>2, <2>4, <2>5, AppliedStays DEF AppliedInv
  <2> QED
    BY <2>2, <2>6 DEF SettlesHonestly
<1> QED
  BY <1>2, <1>3, <1>4, <1>5 DEF Reconcile

LEMMA AppliedElsewhere ==
  ASSUME AppliedInv,
         \/ \E w \in Workers : Serve(w)
         \/ CollectGarbage \/ Crash \/ Restart \/ EndAdmission \/ TopMoves
         \/ \E id \in Identities : Admit(id)
  PROVE  AppliedIsTrue' /\ SettlesHonestly'
<1>1. TypeOK
  BY DEF AppliedInv
<1>2. UNCHANGED <<revlog, acked>> /\ recon' \in {recon, NoRecon}
  BY DEF Serve, Request, CollectGarbage, Crash, Restart, EndAdmission, TopMoves, Admit, durable
<1>3. \A tx \in Txs : outcomes'[tx] = outcomes[tx] \/ outcomes'[tx] = NoOutcome
  BY DEF Serve, Request, CollectGarbage, Crash, Restart, EndAdmission, TopMoves, Admit
<1>4. \A k \in Keys : rows'[k] = rows[k] \/ rows'[k] = NoRow
  BY DEF Serve, Request, CollectGarbage, Crash, Restart, EndAdmission, TopMoves, Admit, durable
<1>5. \A w \in Workers : worker'[w] = worker[w] \/ worker'[w] = Idle \/ worker'[w].result = REFUSED
  BY <1>1 DEF Serve, Request, CollectGarbage, Crash, Restart, EndAdmission, TopMoves, Admit, TypeOK
<1>6. AppliedIsTrue'
  BY <1>2, <1>3, <1>4, <1>5, AppliedStays
     DEF AppliedInv, NoOutcome, NoRow, APPLIED, COMPLETED, REFUSED
<1>7. SettlesHonestly'
  BY <1>2 DEF AppliedInv, SettlesHonestly
<1> QED
  BY <1>6, <1>7

\* A rating that Anki has committed stays committed, so what a reconciliation has
\* seen of it stays true.
LEMMA RateKeepsSettling ==
  ASSUME AppliedInv, NEW w \in Workers, Rate(w)
  PROVE  SettlesHonestly'
<1>1. revlog \in [Txs -> Nat] /\ worker \in [Workers -> Busy \cup {Idle}]
  BY DEF AppliedInv, TypeOK
<1>2. recon' = recon /\ \A tx \in Txs : revlog[tx] > 0 => revlog'[tx] > 0
  <2>1. CASE AnswerCommitted(w)
    BY <1>1, <2>1 DEF AnswerCommitted
  <2>2. CASE ~AnswerCommitted(w)
    BY <2>2 DEF Rate, LookUpOutcome, CheckUnresolved, CheckAdmitted, CheckTop, FindIntent,
       InsertIntent, StartRating, AnswerFailed, RecordResult, Remember, Restore, Respond,
       JournalFault, ReadBackFails, durable
  <2> QED
    BY <2>1, <2>2
<1>3. \A item \in recon.done : recon # NoRecon => item[1][2] \in Txs
  BY DEF AppliedInv, TypeOK, Keys
<1> QED
  BY <1>2, <1>3 DEF AppliedInv, SettlesHonestly

\* AppliedIsTrue: whoever says "applied", the memory, the journal, an answer or
\* a client that was told, has a review in Anki behind it, also when a transaction
\* is served twice at once and a reconciliation runs beside it (review.py,
\* journal.py).
THEOREM AppliedWasRated == Spec => []AppliedIsTrue
<1>1. Init => AppliedInv
  <2> SUFFICES ASSUME Init PROVE AppliedInv
    OBVIOUS
  <2>1. TypeOK
    BY InitType
  <2> QED
    BY <2>1 DEF Init, AppliedInv, AppliedIsTrue, SettlesHonestly, NoOutcome, NoRow, APPLIED,
       COMPLETED
<1>2. AppliedInv /\ [Next]_vars => AppliedInv'
  <2> SUFFICES ASSUME AppliedInv, [Next]_vars PROVE TypeOK' /\ AppliedIsTrue' /\ SettlesHonestly'
    BY DEF AppliedInv
  <2>1. CASE UNCHANGED vars
    BY <2>1 DEF vars, AppliedInv, TypeOK, AppliedIsTrue, SettlesHonestly
  <2>2. TypeOK'
    BY <2>1, RateType, RequestType, ReconcileType, EnvironmentType DEF Next, AppliedInv
  <2> QED
    BY <2>1, <2>2, AppliedRate, RateKeepsSettling, AppliedReconcile, AppliedElsewhere DEF Next
<1>3. AppliedInv => AppliedIsTrue
  BY DEF AppliedInv
<1> QED
  BY <1>1, <1>2, <1>3, PTL DEF Spec

-----------------------------------------------------------------------------
(* Memory and journal.                                                     *)

\* The journal bears out what is remembered of tx, or its client is told and
\* the row may be gone.
Agrees(outcome, row) ==
  IF outcome.state = APPLIED THEN row.state = COMPLETED
  ELSE row.state \in {RECEIVED, OUTCOME_UNKNOWN}
Borne(outcome, tx) ==
  \/ outcome.state = APPLIED /\ tx \in acked
  \/ \E k \in Keys : k[2] = tx /\ Agrees(outcome, rows[k])
\* Only a reconciliation that failed half-way leaves more in memory than that.
Matches(tx) ==
  \/ outcomes[tx] = NoOutcome
  \/ Borne(outcomes[tx], tx)
  \/ outcomes[tx].state = OUTCOME_UNKNOWN /\ phase = "lapsed"

\* A worker remembers nothing of its transaction until it has written the row.
Undecided == {"unresolved", "admitted", "top", "intent", "insert", "start", "answer", "record",
              "remember"}
Remembering(w) ==
  /\ worker[w].pc \in Undecided => outcomes[worker[w].tx] = NoOutcome
  /\ At(w, "remember") =>
       rows[KeyAt(w)].state = IF worker[w].result = APPLIED THEN COMPLETED ELSE OUTCOME_UNKNOWN

\* A reconciliation replaces what is remembered of the rows it walks over, by
\* what it has made of them. A remembered "applied" it leaves alone: its row is
\* not among those that block.
Replacing ==
  /\ \A tx \in Txs : outcomes[tx].state = APPLIED => Borne(outcomes[tx], tx)
  /\ \A tx \in Txs : (\A item \in recon.todo \cup recon.done : item[1][2] # tx) => Matches(tx)
  /\ \A item \in recon.done :
       /\ item[2].state # RATING_STARTED
       /\ \/ rows[item[1]] = item[2]
          \/ item[2].state = COMPLETED /\ item[1][2] \in acked
       /\ \A other \in recon.todo : other[1] # item[1]

MemoryInv ==
  /\ \A w \in Workers : Remembering(w)
  /\ IF recon = NoRecon THEN \A tx \in Txs : Matches(tx) ELSE Replacing

LEMMA BorneStays ==
  ASSUME NEW tx \in Txs, outcomes'[tx] = outcomes[tx], acked \subseteq acked',
         Borne(outcomes[tx], tx),
         \A k \in Keys : k[2] = tx =>
           rows'[k] = rows[k] \/ (rows[k].state = COMPLETED /\ tx \in acked)
  PROVE  Borne(outcomes[tx], tx)'
BY DEF Borne, Agrees, APPLIED, COMPLETED, RECEIVED, OUTCOME_UNKNOWN

LEMMA MatchesStays ==
  ASSUME NEW tx \in Txs, outcomes'[tx] = outcomes[tx], acked \subseteq acked', Matches(tx),
         phase = "lapsed" => phase' = "lapsed",
         \A k \in Keys : k[2] = tx =>
           rows'[k] = rows[k] \/ (rows[k].state = COMPLETED /\ tx \in acked)
  PROVE  Matches(tx)'
BY BorneStays DEF Matches

\* A step that does not serve v's transaction.
LEMMA RememberingStays ==
  ASSUME IInv, NEW v \in Workers, Remembering(v), worker'[v] = worker[v],
         worker[v] # Idle => /\ outcomes'[worker[v].tx] = outcomes[worker[v].tx]
                             /\ rows'[KeyAt(v)] = rows[KeyAt(v)]
  PROVE  Remembering(v)'
<1>1. KeyAt(v)' = KeyAt(v)
  BY DEF KeyAt
<1>2. CASE worker[v] = Idle
  BY <1>2 DEF Remembering, At, Idle, Undecided
<1>3. CASE worker[v] # Idle
  BY <1>1, <1>3 DEF Remembering, At
<1> QED
  BY <1>2, <1>3

\* What a step of rate leaves alone.
LEMMA OnlyItsOwn ==
  ASSUME IInv, NEW w \in Workers, Rate(w)
  PROVE  /\ worker[w] # Idle
         /\ recon' = recon /\ acked \subseteq acked' /\ phase' = phase
         /\ \A v \in Workers : v # w => worker'[v] = worker[v]
         /\ \A tx \in Txs : tx # worker[w].tx => outcomes'[tx] = outcomes[tx]
         /\ \A k \in Keys : k # KeyAt(w) => rows'[k] = rows[k]
<1>1. worker \in [Workers -> Busy \cup {Idle}] /\ rows \in [Keys -> Rows \cup {NoRow}]
      /\ outcomes \in [Txs -> Outcomes \cup {NoOutcome}]
  BY DEF IInv, TypeOK
<1>2. worker[w] # Idle
  BY DEF Rate, LookUpOutcome, CheckUnresolved, CheckAdmitted, CheckTop, FindIntent, InsertIntent,
     StartRating, AnswerCommitted, AnswerFailed, RecordResult, Remember, Restore, Respond,
     JournalFault, ReadBackFails, At, Idle
<1>3. recon' = recon /\ acked \subseteq acked' /\ phase' = phase
  BY DEF Rate, LookUpOutcome, CheckUnresolved, CheckAdmitted, CheckTop, FindIntent, InsertIntent,
     StartRating, AnswerCommitted, AnswerFailed, RecordResult, Remember, Restore, Respond,
     JournalFault, ReadBackFails, durable
<1>4. \A v \in Workers : v # w => worker'[v] = worker[v]
  BY <1>1 DEF Rate, LookUpOutcome, CheckUnresolved, CheckAdmitted, CheckTop, FindIntent,
     InsertIntent, StartRating, AnswerCommitted, AnswerFailed, RecordResult, Remember, Restore,
     Respond, JournalFault, ReadBackFails, Goto, Reply, Abort
<1>5. \A tx \in Txs : tx # worker[w].tx => outcomes'[tx] = outcomes[tx]
  BY <1>1 DEF Rate, LookUpOutcome, CheckUnresolved, CheckAdmitted, CheckTop, FindIntent,
     InsertIntent, StartRating, AnswerCommitted, AnswerFailed, RecordResult, Remember, Restore,
     Respond, JournalFault, ReadBackFails
<1>6. \A k \in Keys : k # KeyAt(w) => rows'[k] = rows[k]
  BY <1>1 DEF Rate, LookUpOutcome, CheckUnresolved, CheckAdmitted, CheckTop, FindIntent,
     InsertIntent, StartRating, AnswerCommitted, AnswerFailed, RecordResult, Remember, Restore,
     Respond, JournalFault, ReadBackFails, durable
<1> QED
  BY <1>2, <1>3, <1>4, <1>5, <1>6

\* What it does for its own transaction.
LEMMA ItsOwn ==
  ASSUME IInv, MemoryInv, NEW w \in Workers, Rate(w), NEW tx \in Txs, tx = worker[w].tx
  PROVE  Remembering(w)' /\ Matches(tx)'
<1>1. /\ worker[w] \in Busy /\ tx \in Txs /\ KeyAt(w) \in Keys /\ KeyAt(w)[2] = tx
      /\ recon = NoRecon /\ acked \subseteq acked' /\ phase' = phase
  BY OnlyItsOwn, BusyFacts
<1>2. /\ worker \in [Workers -> Busy \cup {Idle}] /\ rows \in [Keys -> Rows \cup {NoRow}]
      /\ outcomes \in [Txs -> Outcomes \cup {NoOutcome}]
  BY DEF IInv, TypeOK
<1>3. Remembering(w) /\ Matches(tx) /\ ChecksAt(w)
  BY <1>1 DEF MemoryInv, IInv, ChecksHold
<1>4. \A step : Goto(w, step) => worker'[w].pc = step /\ worker'[w].tx = tx
  BY <1>1, <1>2 DEF Goto, Busy, Requests
<1>5. \A result : Reply(w, result) => worker'[w].pc = "reply" /\ worker'[w].tx = tx
  BY <1>1, <1>2 DEF Reply, Busy, Requests
<1>6. Abort(w) => worker'[w].pc = "idle"
  BY <1>2 DEF Abort, Idle
\* Steps that touch neither rows nor memory and leave rate, or are on the way to
\* the row's next write.
<1>7. ASSUME UNCHANGED <<rows, outcomes>>,
             \/ worker'[w].pc \notin Undecided
             \/ worker'[w].pc # "remember" /\ worker'[w].tx = tx /\ outcomes[tx] = NoOutcome
      PROVE  Remembering(w)' /\ Matches(tx)'
  <2>1. Matches(tx)'
    BY <1>1, <1>3, <1>7, MatchesStays
  <2>2. Remembering(w)'
    BY <1>7 DEF Remembering, At, Undecided
  <2> QED
    BY <2>1, <2>2
<1>8. CASE LookUpOutcome(w)
  <2>1. CASE Recorded(tx) = {}
    <3>1. outcomes[tx] = NoOutcome
      BY <2>1 DEF Recorded
    <3> QED
      BY <1>4, <1>5, <1>7, <1>8, <2>1, <3>1 DEF LookUpOutcome, durable
  <2>2. CASE Recorded(tx) # {}
    <3>1. worker'[w].pc = "reply" /\ UNCHANGED <<rows, outcomes>>
      BY <1>5, <1>8, <2>2 DEF LookUpOutcome, durable
    <3> QED
      BY <1>7, <3>1 DEF Undecided
  <2> QED
    BY <2>1, <2>2
<1>9. CASE CheckUnresolved(w) \/ CheckAdmitted(w) \/ CheckTop(w)
  <2>1. outcomes[tx] = NoOutcome
    BY <1>3, <1>9 DEF Remembering, CheckUnresolved, CheckAdmitted, CheckTop, At, Undecided
  <2>2. UNCHANGED <<rows, outcomes>>
    BY <1>9 DEF CheckUnresolved, CheckAdmitted, CheckTop, durable
  <2>3. worker'[w].pc # "remember" /\ worker'[w].tx = tx
    BY <1>4, <1>5, <1>9 DEF CheckUnresolved, CheckAdmitted, CheckTop
  <2> QED
    BY <1>7, <2>1, <2>2, <2>3
<1>10. CASE FindIntent(w) \/ AnswerCommitted(w) \/ AnswerFailed(w)
  <2>1. outcomes[tx] = NoOutcome
    BY <1>3, <1>10 DEF Remembering, FindIntent, AnswerCommitted, AnswerFailed, At, Undecided
  <2>2. UNCHANGED <<rows, outcomes>>
    BY <1>10 DEF FindIntent, AnswerCommitted, AnswerFailed, durable
  <2>3. worker'[w].pc # "remember" /\ worker'[w].tx = tx
    BY <1>1, <1>2, <1>4, <1>5, <1>10
       DEF FindIntent, AnswerCommitted, AnswerFailed, Busy, Requests
  <2> QED
    BY <1>7, <2>1, <2>2, <2>3
<1>11. CASE InsertIntent(w) \/ StartRating(w) \/ ReadBackFails(w)
  <2>1. outcomes[tx] = NoOutcome
    BY <1>3, <1>11 DEF Remembering, InsertIntent, StartRating, ReadBackFails, At, Undecided
  <2>2. UNCHANGED outcomes
    BY <1>11 DEF InsertIntent, StartRating, ReadBackFails
  <2>3. worker'[w].pc # "remember" /\ (worker'[w].pc # "idle" => worker'[w].tx = tx)
    BY <1>1, <1>2, <1>6, <1>11 DEF InsertIntent, StartRating, ReadBackFails, Busy, Requests
  <2> QED
    BY <2>1, <2>2, <2>3 DEF Remembering, Matches, At, Undecided
<1>12. CASE RecordResult(w)
  <2> DEFINE record == worker[w].record
             state == ResultState(w)
             row == Rewritten(record, state, record.resends)
             r == [worker[w] EXCEPT !.pc = "remember"]
  <2>1. outcomes[tx] = NoOutcome /\ UNCHANGED outcomes
    BY <1>3, <1>12 DEF Remembering, RecordResult, At, Undecided
  <2>2. record \in Rows /\ OnlyRowOf(w, {RATING_STARTED})
    BY <1>1, <1>3, <1>12 DEF RecordResult, ChecksAt, At, Busy, Requests, Holding
  <2>3. rows' = [rows EXCEPT ![KeyAt(w)] = row] /\ worker' = [worker EXCEPT ![w] = r]
    BY <1>1, <1>12, <2>2, RowPresent DEF RecordResult, OnlyRowOf, Goto
  <2>4. worker'[w] = r /\ rows'[KeyAt(w)] = row
    BY <1>1, <1>2, <2>3
  <2>5. r.pc = "remember" /\ r.tx = tx /\ r.identity = worker[w].identity
        /\ r.result = worker[w].result
    BY <1>1 DEF Busy, Requests
  <2>6. row.state = state
    BY <2>2 DEF Rewritten, Rows
  <2>7. KeyAt(w)' = KeyAt(w)
    BY <2>4, <2>5 DEF KeyAt
  <2>8. Remembering(w)'
    <3> HIDE DEF row, r
    <3> QED
      BY <2>1, <2>4, <2>5, <2>6, <2>7 DEF Remembering, At, ResultState
  <2> QED
    BY <2>1, <2>8 DEF Matches
<1>13. CASE Remember(w)
  <2> DEFINE outcome == [identity |-> worker[w].identity, rating |-> worker[w].rating,
                         state |-> worker[w].result]
  <2>1. outcomes'[tx] = outcome /\ UNCHANGED rows
    BY <1>2, <1>13 DEF Remember, durable
  <2>2. rows[KeyAt(w)].state = IF worker[w].result = APPLIED THEN COMPLETED ELSE OUTCOME_UNKNOWN
    BY <1>3, <1>13 DEF Remembering, Remember
  <2>3. Agrees(outcome, rows[KeyAt(w)])
    BY <2>2 DEF Agrees
  <2>4. Matches(tx)'
    <3>1. rows'[KeyAt(w)] = rows[KeyAt(w)]
      BY <2>1
    <3>2. PICK k \in Keys : k = KeyAt(w)
      BY <1>1
    <3>3. Agrees(outcomes[tx], rows[k])'
      BY <2>1, <2>2, <3>1, <3>2 DEF Agrees
    <3>4. k[2] = tx
      BY <1>1, <3>2
    <3> QED
      BY <3>3, <3>4 DEF Matches, Borne
  <2>5. worker'[w].pc \notin Undecided
    BY <1>4, <1>13 DEF Remember, Undecided
  <2> QED
    BY <2>4, <2>5 DEF Remembering, At, Undecided
<1>14. CASE Restore(w) \/ Respond(w)
  <2>1. UNCHANGED <<rows, outcomes>>
    BY <1>14 DEF Restore, Respond, durable
  <2>2. worker'[w].pc \notin Undecided
    BY <1>4, <1>5, <1>6, <1>14 DEF Restore, Respond, Undecided
  <2> QED
    BY <1>7, <2>1, <2>2
<1>15. CASE JournalFault(w)
  BY <1>6, <1>7, <1>15 DEF JournalFault, Undecided, durable
<1> QED
  BY <1>8, <1>9, <1>10, <1>11, <1>12, <1>13, <1>14, <1>15 DEF Rate

LEMMA MemoryRate ==
  ASSUME IInv, MemoryInv, NEW w \in Workers, Rate(w)
  PROVE  MemoryInv'
<1>1. PICK tx \in Txs : tx = worker[w].tx
  BY OnlyItsOwn, BusyFacts
<1>2. KeyAt(w) \in Keys /\ KeyAt(w)[2] = tx /\ recon' = NoRecon /\ recon = NoRecon
  BY <1>1, OnlyItsOwn, BusyFacts
<1>3. Remembering(w)' /\ Matches(tx)'
  BY <1>1, ItsOwn
<1>4. ASSUME NEW v \in Workers, v # w
      PROVE  Remembering(v)'
  <2>1. ASSUME worker[v] # Idle
        PROVE  outcomes'[worker[v].tx] = outcomes[worker[v].tx] /\ rows'[KeyAt(v)] = rows[KeyAt(v)]
    <3>1. KeyAt(v) \in Keys /\ KeyAt(v)[2] = worker[v].tx /\ worker[v].tx \in Txs
          /\ worker[v].tx # tx
      BY <1>1, <1>4, <2>1, OnlyItsOwn, BusyFacts
    <3> QED
      BY <1>1, <1>2, <3>1, OnlyItsOwn
  <2>2. worker'[v] = worker[v] /\ Remembering(v)
    BY <1>4, OnlyItsOwn DEF MemoryInv
  <2> QED
    BY <2>1, <2>2, RememberingStays
<1>5. ASSUME NEW t \in Txs, t # tx PROVE Matches(t)'
  <2>1. Matches(t)
    BY <1>2 DEF MemoryInv
  <2>2. outcomes'[t] = outcomes[t] /\ acked \subseteq acked' /\ phase' = phase
    BY <1>1, <1>5, OnlyItsOwn
  <2>3. \A k \in Keys : k[2] = t => rows'[k] = rows[k]
    BY <1>2, <1>5, OnlyItsOwn
  <2> QED
    BY <2>1, <2>2, <2>3, MatchesStays
<1> QED
  BY <1>2, <1>3, <1>4, <1>5 DEF MemoryInv

LEMMA MemoryRequest ==
  ASSUME IInv, MemoryInv, Quiet, NEW w \in Workers, Serve(w)
  PROVE  MemoryInv'
<1>1. /\ worker'[w].pc = "outcome"
      /\ \A v \in Workers : v # w => worker'[v] = worker[v]
      /\ UNCHANGED <<rows, acked, outcomes, recon, phase>>
      /\ recon = NoRecon
  BY DEF Serve, Request, Quiet, IInv, TypeOK, durable
<1>2. ASSUME NEW v \in Workers PROVE Remembering(v)'
  <2>1. CASE v = w
    BY <1>1, <2>1 DEF Remembering, At, Undecided
  <2>2. CASE v # w
    BY <1>1, <2>2, RememberingStays DEF MemoryInv
  <2> QED
    BY <2>1, <2>2
<1>3. ASSUME NEW tx \in Txs PROVE Matches(tx)'
  BY <1>1, MatchesStays DEF MemoryInv
<1> QED
  BY <1>1, <1>2, <1>3 DEF MemoryInv

\* A blocking row is on the reconciliation's list, a completed one only leaves
\* when it is acknowledged.
LEMMA MemoryReconcile ==
  ASSUME IInv, MemoryInv, Quiet, Reconcile
  PROVE  MemoryInv'
<1>1. TypeOK /\ \A w \in Workers : worker'[w] = Idle
  <2>1. \A w \in Workers : worker[w] = Idle
    <3>1. recon # NoRecon \/ ReconcileBegin
      BY Zenon DEF Reconcile, ReconcileOne, ReconcileFails, ReconcilePublish
    <3> QED
      BY <3>1 DEF IInv, ServedAlone, ReconcileBegin, Quiet
  <2>2. UNCHANGED worker
    BY Zenon DEF Reconcile, ReconcileBegin, ReconcileOne, ReconcileFails, ReconcilePublish
  <2> QED
    BY <2>1, <2>2 DEF IInv
<1>2. \A w \in Workers : Remembering(w)'
  BY <1>1 DEF Remembering, At, Undecided, Idle
<1>3. CASE ReconcileBegin
  <2>1. recon' = [pc |-> "scan", todo |-> {<<k, rows[k]>> : k \in Blocking}, done |-> {}]
        /\ UNCHANGED <<rows, acked, outcomes, phase>> /\ recon = NoRecon
    BY <1>3 DEF ReconcileBegin, durable
  <2>2. recon' # NoRecon
    BY <2>1 DEF NoRecon
  <2>3. ASSUME NEW tx \in Txs PROVE Matches(tx)'
    BY <2>1, <2>3, MatchesStays DEF MemoryInv
  <2>4. recon'.done = {}
    BY <2>1
  <2>5. ASSUME NEW tx \in Txs, outcomes[tx].state = APPLIED PROVE Borne(outcomes[tx], tx)'
    BY <2>1, <2>5, BorneStays DEF MemoryInv, Matches, NoOutcome, APPLIED, OUTCOME_UNKNOWN
  <2>6. outcomes' = outcomes
    BY <2>1
  <2> QED
    BY <1>2, <2>2, <2>3, <2>4, <2>5, <2>6 DEF MemoryInv, Replacing
<1>4. CASE ReconcileOne
  <2>1. PICK item \in recon.todo, proof \in {None, TRUE, FALSE} :
          LET k == item[1]
              after == Reconciled(item[2], proof) IN
          /\ proof \in Evidence(k[2])
          /\ recon' = [recon EXCEPT !.todo = @ \ {item}, !.done = @ \cup {<<k, after>>}]
          /\ rows' = IF item[2].state = RECEIVED THEN rows ELSE [rows EXCEPT ![k] = after]
    BY <1>4, Zenon DEF ReconcileOne
  <2> DEFINE k == item[1]
             after == Reconciled(item[2], proof)
  <2>2. /\ recon.todo \in SUBSET (Keys \X Rows)
        /\ recon.done \in SUBSET (Keys \X Rows)
        /\ recon = [pc |-> "scan", todo |-> recon.todo, done |-> recon.done]
        /\ recon # NoRecon
    BY <1>1, <1>4 DEF ReconcileOne, TypeOK, NoRecon
  <2>3. k \in Keys /\ k[2] \in Txs /\ item[2] \in Rows /\ item = <<k, item[2]>>
    BY <2>2 DEF Keys
  <2>4. rows[k] = item[2] /\ rows[k].state # COMPLETED
    BY <2>2 DEF IInv, ReconSound, BLOCKING_STATES, RECEIVED, RATING_STARTED, OUTCOME_UNKNOWN,
       COMPLETED
  <2>5. \A other \in recon.todo : other # item => other[1] # k
    BY <2>2, <2>3, <2>4 DEF IInv, ReconSound
  <2>6. /\ recon'.todo = recon.todo \ {item}
        /\ recon'.done = recon.done \cup {<<k, after>>}
        /\ rows' = IF item[2].state = RECEIVED THEN rows ELSE [rows EXCEPT ![k] = after]
        /\ recon' # NoRecon
    <3>1. recon' = [recon EXCEPT !.todo = @ \ {item}, !.done = @ \cup {<<k, after>>}]
          /\ rows' = IF item[2].state = RECEIVED THEN rows ELSE [rows EXCEPT ![k] = after]
      BY <2>1
    <3> HIDE DEF after, k
    <3> QED
      BY <2>2, <3>1 DEF NoRecon
  <2>7. UNCHANGED <<acked, outcomes, phase>>
    BY <1>4 DEF ReconcileOne
  <2>8. /\ item[2].state = RECEIVED => after = item[2]
        /\ after.state \in {RECEIVED, COMPLETED, OUTCOME_UNKNOWN}
    <3>1. \A state, resends : Rewritten(item[2], state, resends).state = state
      BY <2>3 DEF Rewritten, Rows
    <3> QED
      BY <3>1 DEF Reconciled, RECEIVED, COMPLETED, OUTCOME_UNKNOWN
  <2>9. rows'[k] = after /\ \A other \in Keys : other # k => rows'[other] = rows[other]
    <3> HIDE DEF after, k
    <3> QED
      BY <1>1, <2>3, <2>4, <2>6, <2>8 DEF TypeOK
  <2>10. ASSUME NEW tx \in Txs, \A other \in recon'.todo \cup recon'.done : other[1][2] # tx
         PROVE  Matches(tx)'
    <3>1. <<k, after>> \in recon'.done /\ <<k, after>>[1] = k
      BY <2>6
    <3>2. k[2] # tx
      BY <2>10, <3>1
    <3>3. \A other \in recon.todo \cup recon.done : other[1][2] # tx
      BY <2>6, <2>10, <3>2
    <3>4. Matches(tx)
      BY <2>2, <3>3 DEF MemoryInv, Replacing
    <3> HIDE DEF after, k
    <3>5. \A key \in Keys : key[2] = tx => rows'[key] = rows[key]
      BY <2>9, <3>2
    <3> QED
      BY <2>7, <3>4, <3>5, MatchesStays
  <2>11. ASSUME NEW other \in recon'.done
         PROVE  /\ other[2].state # RATING_STARTED
                /\ \/ rows'[other[1]] = other[2]
                   \/ other[2].state = COMPLETED /\ other[1][2] \in acked'
                /\ \A next \in recon'.todo : next[1] # other[1]
    <3>1. CASE other = <<k, after>>
      <4>1. other[1] = k /\ other[2] = after
        BY <3>1
      <4> HIDE DEF after, k
      <4>2. other[2].state # RATING_STARTED
        BY <2>8, <4>1 DEF RATING_STARTED, COMPLETED, RECEIVED, OUTCOME_UNKNOWN
      <4>3. \A next \in recon'.todo : next[1] # other[1]
        BY <2>5, <2>6, <4>1
      <4> QED
        BY <2>9, <4>1, <4>2, <4>3
    <3>2. CASE other # <<k, after>>
      <4>1. other \in recon.done
        BY <2>6, <3>2
      <4>2. other[1] \in Keys /\ other[1] # k
        BY <2>2, <4>1 DEF MemoryInv, Replacing
      <4> HIDE DEF after, k
      <4> QED
        BY <2>2, <2>6, <2>7, <2>9, <4>1, <4>2 DEF MemoryInv, Replacing
    <3> QED
      BY <3>1, <3>2
  <2>12. ASSUME NEW tx \in Txs, outcomes'[tx].state = APPLIED
         PROVE  Borne(outcomes[tx], tx)'
    <3>1. Borne(outcomes[tx], tx) /\ outcomes'[tx] = outcomes[tx] /\ acked' = acked
      BY <2>2, <2>7, <2>12 DEF MemoryInv, Replacing
    <3>2. CASE tx \in acked
      BY <2>12, <3>1, <3>2 DEF Borne
    <3>3. CASE tx \notin acked
      <4>1. PICK key \in Keys : key[2] = tx /\ rows[key].state = COMPLETED
        BY <2>7, <2>12, <3>1, <3>3 DEF Borne, Agrees
      <4>2. rows'[key] = rows[key]
        BY <2>4, <2>9, <4>1
      <4> QED
        BY <2>7, <2>12, <4>1, <4>2 DEF Borne, Agrees
    <3> QED
      BY <3>2, <3>3
  <2> QED
    BY <1>2, <2>6, <2>10, <2>11, <2>12 DEF MemoryInv, Replacing
<1>5. CASE ReconcilePublish
  <2>1. PICK last \in [{item[1][2] : item \in recon.done} -> recon.done] :
          /\ \A tx \in DOMAIN last : last[tx][1][2] = tx
          /\ outcomes' = [tx \in Txs |-> IF tx \in DOMAIN last
                                     THEN OutcomeOfRow(last[tx][2]) ELSE outcomes[tx]]
    BY <1>5 DEF ReconcilePublish
  <2>2. /\ UNCHANGED <<rows, acked, phase>> /\ recon' = NoRecon
        /\ recon # NoRecon /\ recon.todo = {}
    BY <1>5 DEF ReconcilePublish, durable
  <2>3. recon.done \in SUBSET (Keys \X Rows)
    BY <1>1, <2>2 DEF TypeOK
  <2>4. ASSUME NEW tx \in Txs PROVE Matches(tx)'
    <3>1. CASE tx \in DOMAIN last
      <4>1. PICK item \in recon.done : item = last[tx]
        BY <2>1, <3>1
      <4>2. item[1][2] = tx /\ outcomes'[tx] = OutcomeOfRow(item[2]) /\ item[1] \in Keys
            /\ item[2] \in Rows
        BY <2>1, <2>3, <3>1, <4>1
      <4>3. /\ item[2].state # RATING_STARTED
            /\ \/ rows[item[1]] = item[2]
               \/ item[2].state = COMPLETED /\ tx \in acked
        BY <2>2, <4>2 DEF MemoryInv, Replacing
      <4>4. Agrees(OutcomeOfRow(item[2]), item[2])
        BY <4>2, <4>3 DEF Agrees, OutcomeOfRow, Rows, JournalStates, APPLIED, COMPLETED,
           RECEIVED, RATING_STARTED, OUTCOME_UNKNOWN
      <4>5. CASE rows[item[1]] = item[2]
        <5>1. Agrees(outcomes'[tx], rows'[item[1]])
          BY <2>2, <4>2, <4>4, <4>5
        <5> QED
          BY <4>2, <5>1 DEF Matches, Borne, Agrees
      <4>6. CASE item[2].state = COMPLETED /\ tx \in acked
        BY <2>2, <4>2, <4>6 DEF Matches, Borne, OutcomeOfRow
      <4> QED
        BY <4>3, <4>5, <4>6
    <3>2. CASE tx \notin DOMAIN last
      <4>1. \A item \in recon.todo \cup recon.done : item[1][2] # tx
        BY <2>1, <2>2, <3>2
      <4>2. Matches(tx) /\ outcomes'[tx] = outcomes[tx]
        BY <2>1, <2>2, <3>2, <4>1 DEF MemoryInv, Replacing
      <4> QED
        BY <2>2, <4>2, MatchesStays
    <3> QED
      BY <3>1, <3>2
  <2> QED
    BY <1>2, <2>2, <2>4 DEF MemoryInv
<1>6. CASE ReconcileFails
  <2>1. PICK item \in recon.todo, proof \in {None, TRUE, FALSE} :
          UNCHANGED rows \/ rows' = [rows EXCEPT ![item[1]] = Reconciled(item[2], proof)]
    BY <1>6 DEF ReconcileFails
  <2>2. /\ UNCHANGED <<acked, outcomes>> /\ phase' = "lapsed"
        /\ recon # NoRecon /\ recon' = NoRecon
    BY <1>6 DEF ReconcileFails
  <2>3. rows[item[1]].state # COMPLETED
    BY <2>2 DEF IInv, ReconSound, BLOCKING_STATES, RECEIVED, RATING_STARTED, OUTCOME_UNKNOWN,
       COMPLETED
  <2>4. \A k \in Keys : rows[k].state = COMPLETED => rows'[k] = rows[k]
    BY <1>1, <2>1, <2>3 DEF TypeOK
  <2>5. ASSUME NEW tx \in Txs PROVE Matches(tx)'
    <3>1. outcomes[tx] = NoOutcome \/ outcomes[tx].state \in {APPLIED, OUTCOME_UNKNOWN}
      BY <1>1 DEF TypeOK, Outcomes
    <3>2. CASE outcomes[tx].state = APPLIED
      <4>1. Borne(outcomes[tx], tx) /\ outcomes'[tx] = outcomes[tx] /\ acked' = acked
        BY <2>2, <3>2 DEF MemoryInv, Replacing
      <4>2. Borne(outcomes[tx], tx)'
        BY <2>4, <3>2, <4>1 DEF Borne, Agrees
      <4> QED
        BY <4>2 DEF Matches
    <3> QED
      BY <2>2, <3>1, <3>2 DEF Matches
  <2> QED
    BY <1>2, <2>2, <2>5 DEF MemoryInv
<1> QED
  BY <1>3, <1>4, <1>5, <1>6 DEF Reconcile

LEMMA MemoryEnvironment ==
  ASSUME IInv, MemoryInv,
         \/ CollectGarbage \/ Crash \/ Restart \/ EndAdmission \/ TopMoves
         \/ \E id \in Identities : Admit(id)
  PROVE  MemoryInv'
<1>1. CASE Crash
  <2>1. \A w \in Workers : worker'[w] = Idle
    BY <1>1 DEF Crash
  <2>2. recon' = NoRecon /\ \A tx \in Txs : outcomes'[tx] = NoOutcome
    BY <1>1 DEF Crash
  <2> QED
    BY <2>1, <2>2 DEF MemoryInv, Remembering, Matches, At, Undecided, Idle
<1>2. CASE ~Crash
  <2>1. /\ UNCHANGED <<acked, outcomes, worker, recon>>
        /\ phase = "lapsed" => phase' = "lapsed"
        /\ \A k \in Keys : \/ rows'[k] = rows[k]
                           \/ rows[k].state = COMPLETED /\ k[2] \in acked
    BY <1>2 DEF CollectGarbage, Restart, EndAdmission, TopMoves, Admit, IInv, TypeOK, durable
  <2>2. ASSUME NEW tx \in Txs, Matches(tx) PROVE Matches(tx)'
    BY <2>1, <2>2, MatchesStays
  <2>3. ASSUME NEW w \in Workers PROVE Remembering(w)'
    <3>1. CASE worker[w] # Idle
      <4>1. KeyAt(w) \in Keys /\ KeyAt(w)[2] = worker[w].tx /\ worker[w].tx \notin acked
        BY <3>1, BusyFacts
      <4>2. rows'[KeyAt(w)] = rows[KeyAt(w)]
        BY <2>1, <4>1
      <4> QED
        BY <2>1, <4>2, RememberingStays DEF MemoryInv
    <3> QED
      BY <2>1, <3>1, RememberingStays DEF MemoryInv
  <2>4. CASE recon = NoRecon
    BY <2>1, <2>2, <2>3, <2>4 DEF MemoryInv
  <2>5. CASE recon # NoRecon
    <3>1. recon.done \in SUBSET (Keys \X Rows)
      BY <2>5 DEF IInv, TypeOK
    <3>2. ASSUME NEW item \in recon.done
          PROVE  rows'[item[1]] = item[2] \/ (item[2].state = COMPLETED /\ item[1][2] \in acked)
      <4>1. item[1] \in Keys
        BY <3>1
      <4> QED
        BY <2>1, <2>5, <4>1 DEF MemoryInv, Replacing
    <3>3. ASSUME NEW tx \in Txs, outcomes'[tx].state = APPLIED PROVE Borne(outcomes[tx], tx)'
      BY <2>1, <2>5, <3>3, BorneStays DEF MemoryInv, Replacing
    <3>4. Replacing'
      BY <2>1, <2>2, <2>5, <3>2, <3>3 DEF MemoryInv, Replacing
    <3> QED
      BY <2>1, <2>3, <2>5, <3>4 DEF MemoryInv
  <2> QED
    BY <2>4, <2>5
<1> QED
  BY <1>1, <1>2

\* MemoryMatchesJournal: what is remembered of a transaction that nobody serves
\* is what its row says, so that a rating is never blocked by a memory the journal
\* does not share, unless a reconciliation failed half-way since the add-on started
\* (review.py, journal.py).
THEOREM MemoryIsJournal == ASSUME Quiet PROVE Spec => []MemoryMatchesJournal
<1>1. Init => MemoryInv
  BY DEF Init, MemoryInv, Remembering, Matches, At, Undecided, Idle
<1>2. IInv /\ MemoryInv /\ [Next]_vars => MemoryInv'
  <2> SUFFICES ASSUME IInv, MemoryInv, [Next]_vars PROVE MemoryInv'
    OBVIOUS
  <2>1. CASE UNCHANGED vars
    BY <2>1 DEF vars, MemoryInv, Remembering, Matches, Borne, Agrees, Replacing, At, KeyAt
  <2> QED
    BY <2>1, MemoryRate, MemoryRequest, MemoryReconcile, MemoryEnvironment, Quiet DEF Next
<1>3. IInv /\ MemoryInv => MemoryMatchesJournal
  <2> SUFFICES ASSUME MemoryInv, NEW tx \in Txs, recon = NoRecon, outcomes[tx] # NoOutcome,
                      ~(outcomes[tx].state = APPLIED /\ tx \in acked),
                      ~(outcomes[tx].state = OUTCOME_UNKNOWN /\ phase = "lapsed")
               PROVE  \E k \in Keys : /\ k[2] = tx
                                      /\ rows[k].state # "absent"
                                      /\ IF outcomes[tx].state = APPLIED
                                         THEN rows[k].state = COMPLETED
                                         ELSE rows[k].state \in {RECEIVED, OUTCOME_UNKNOWN}
    BY DEF MemoryMatchesJournal
  <2> QED
    BY DEF MemoryInv, Matches, Borne, Agrees, COMPLETED, RECEIVED, OUTCOME_UNKNOWN
<1> QED
  BY <1>1, <1>2, <1>3, Inductive, PTL DEF Spec

=============================================================================

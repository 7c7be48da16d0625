------------------------ MODULE SessionCoordinator -------------------------
(***************************************************************************)
(* The ANKIGTA Session: one rescheduling filtered deck in Anki             *)
(* (companion/ankigta_companion/session.py, SessionCoordinator and         *)
(* AnkiFilteredDeckBackend).                                               *)
(*                                                                         *)
(* HTTP worker threads run start, rebuild, admit, restore, pause and stop; *)
(* every build of the deck runs in a thread of its own, which nothing      *)
(* stops when its caller times out. Each call into Anki is one step and    *)
(* may fail, so a build or a cleanup can end half done. The deck and the   *)
(* ownership marker in the collection's configuration survive a crash.     *)
(*                                                                         *)
(* Refusals that change nothing (compatibility, an open Reviewer, an       *)
(* unresolved transaction, an ineligible card) are requests that do not    *)
(* begin. Progress counts, payloads and the wording of errors are left out.*)
(*                                                                         *)
(* AnkiFilteredDeckBackend creates its deck through a callable it is       *)
(* handed. With one that makes the deck it is asked for, as that of        *)
(* tests/test_session.py:220-223, the adapter is "saving". The one         *)
(* from_collection hands it, session.py:96-104, names a draft Anki never   *)
(* gets to save, and returns the draft's id, 0: the adapter is "draft".    *)
(***************************************************************************)
EXTENDS Naturals, FiniteSets

CONSTANTS
  Workers,     \* threads of the HTTP server
  Threads,     \* bound: build threads alive at once, abandoned ones included
  Cards,       \* Anki cards of the bound collection
  Adapters,    \* the adapters considered: "saving", "draft"
  Endings,     \* how a session ends: "paused", "stopped", "connection_lost"
  MaxStarts,   \* bound: start and rebuild requests, one cancel Event each
  MaxDecks,    \* bound: decks ANKIGTA creates
  MaxCrashes,  \* bound: crashes of the add-on's process
  OverlapStarts, \* bound: requests overlap until so many sessions were started
  PastDisturbance, \* bound: whether requests overlap and sessions start once disturbed
  None         \* Python's None

ASSUME CardAssumption  == None \notin Cards
ASSUME WorkerAssumption == IsFiniteSet(Workers)
ASSUME AdapterAssumption == Adapters \subseteq {"saving", "draft"}
ASSUME EndingAssumption == Endings \subseteq {"paused", "stopped", "connection_lost"}
ASSUME BoundAssumption == /\ MaxStarts \in Nat /\ MaxDecks \in Nat /\ MaxCrashes \in Nat
                          /\ OverlapStarts \in Nat /\ PastDisturbance \in BOOLEAN
                          /\ None \notin Nat

VARIABLES
  status,      \* SessionCoordinator._status
  admitted,    \* _admitted
  membership,  \* _full_membership
  cancel,      \* the Event _cancel refers to
  fired,       \* the Events that are set
  op,          \* the session request each worker executes
  build,       \* the build threads
  cancelling,  \* cancel_rebuild has seen a rebuild and is about to set the Event
  deck,        \* Anki: the deck named ANKIGTA Session
  marker,      \* Anki's configuration: OWNER_CONFIG_KEY
  made,        \* decks of that name ANKIGTA created so far
  loose,       \* Anki: cards in filtered decks ANKIGTA made under other names
  adapter,     \* the adapter in use, one for good
  disturbed,   \* a request began beside another or beside an abandoned build, or a
               \* cleanup failed
  crashes

vars == <<status, admitted, membership, cancel, fired, op, build, cancelling, deck,
          marker, made, loose, adapter, disturbed, crashes>>
anki    == <<deck, marker, made, loose, adapter>>
events  == <<cancel, fired, cancelling>>
history == <<disturbed, crashes>>

-----------------------------------------------------------------------------
(* Anki's deck and its owner.                                              *)

DeckIds == 1 .. MaxDecks + 1
Foreign == MaxDecks + 1  \* a deck the user made under the same name
Draft   == 0             \* what Anki calls a filtered deck it has not saved
Saving  == adapter = "saving"
\* What create returns.
Handles == IF Saving THEN 1 .. MaxDecks ELSE {Draft}
NoDeck  == [id |-> None]
Decks   == [id : DeckIds, cards : SUBSET Cards]

\* AnkiFilteredDeckBackend.inspect
Owned == deck # NoDeck /\ marker = deck.id

-----------------------------------------------------------------------------
(* The status reported to the player.                                      *)

Reasons == {"none", "not_started", "rebuilding", "paused", "stopped", "connection_lost"}
Statuses == [active : BOOLEAN, reason : Reasons, created : BOOLEAN, cards : SUBSET Cards]

Running(cards)    == [active |-> TRUE, reason |-> "none", created |-> cards # {}, cards |-> cards]
Rebuilding(cards) == [active |-> FALSE, reason |-> "rebuilding", created |-> FALSE, cards |-> cards]
Ended(reason)     == [active |-> FALSE, reason |-> reason, created |-> FALSE, cards |-> {}]

-----------------------------------------------------------------------------
(* Requests and build threads.                                             *)

Building == {"start", "admit", "refuse", "restore"}
Idle == [kind |-> "idle"]
Ops == [kind : Building \cup Endings, cards : SUBSET Cards, full : SUBSET Cards,
        pc : {"inspect", "select", "submit", "wait", "top", "finish",
              "find", "empty", "delete", "unmark", "name"},
        thread : Threads \cup {None}, deck : DeckIds \cup {None}, failed : BOOLEAN]

Free == [pc |-> "free"]
Builds == [pc : {"begin", "create", "mark", "fill", "report", "done", "failed"},
           event : 0 .. MaxStarts, cards : SUBSET Cards,
           deck : DeckIds \cup {Draft, None}, abandoned : BOOLEAN]

Set(w, changed) == op' = [op EXCEPT ![w] = changed]
Goto(w, pc) == Set(w, [op[w] EXCEPT !.pc = pc])
Return(w)   == Set(w, Idle)
InOp(w, pc) == op[w] # Idle /\ op[w].pc = pc
Others(w)   == {v \in Workers \ {w} : op[v] # Idle}

Abandoned   == {t \in Threads : build[t] # Free /\ build[t].abandoned}

\* How many start and rebuild requests have begun.
Started == cancel + Cardinality({v \in Workers : InOp(v, "inspect") \/
                                  (InOp(v, "select") /\ op[v].kind = "start")})

\* A worker takes a request. There is a thread left for each that may build.
Begin(w, kind, cards, pc) ==
  /\ op[w] = Idle
  /\ Others(w) = {} \/ (Started <= OverlapStarts /\ (PastDisturbance \/ ~disturbed))
  /\ Cardinality({v \in Workers : op[v] # Idle}) <
       Cardinality(Threads \ Abandoned)
  /\ Set(w, [kind |-> kind, cards |-> cards, full |-> {}, pc |-> pc, thread |-> None,
             deck |-> None, failed |-> FALSE])
  /\ disturbed' = (Others(w) # {} \/ Abandoned # {} \/ disturbed)
  /\ UNCHANGED <<build, anki, crashes>>

TypeOK ==
  /\ status \in Statuses
  /\ admitted \in Cards \cup {None}
  /\ membership \in SUBSET Cards
  /\ cancel \in 0 .. MaxStarts
  /\ fired \subseteq 0 .. MaxStarts
  /\ op \in [Workers -> Ops \cup {Idle}]
  /\ build \in [Threads -> Builds \cup {Free}]
  /\ cancelling \in BOOLEAN
  /\ deck \in Decks \cup {NoDeck}
  /\ marker \in DeckIds \cup {Draft, None}
  /\ made \in 0 .. MaxDecks
  /\ loose \in SUBSET Cards
  /\ adapter \in Adapters
  /\ disturbed \in BOOLEAN
  /\ crashes \in 0 .. MaxCrashes

Init ==
  /\ status = Ended("not_started")
  /\ admitted = None
  /\ membership = {}
  /\ cancel = 0
  /\ fired = {}
  /\ op = [w \in Workers |-> Idle]
  /\ build = [t \in Threads |-> Free]
  /\ cancelling = FALSE
  /\ deck = NoDeck
  /\ marker = None
  /\ made = 0
  /\ loose = {}
  /\ adapter \in Adapters
  /\ disturbed = FALSE
  /\ crashes = 0

-----------------------------------------------------------------------------
(* start and rebuild.                                                      *)

\* _validate_start passed; rebuild asks for an active session besides.
Start(w) ==
  /\ Started < MaxStarts
  /\ PastDisturbance \/ (~disturbed /\ Others(w) = {})
  /\ Begin(w, "start", {}, "inspect")
  /\ UNCHANGED <<status, admitted, membership, events>>

\* A deck of that name that is not ANKIGTA's is a collision: nothing is done.
Inspect(w) ==
  /\ InOp(w, "inspect")
  /\ IF deck # NoDeck /\ ~Owned THEN Return(w)
     ELSE Set(w, [op[w] EXCEPT !.pc = "select", !.deck = deck.id])
  /\ UNCHANGED <<status, admitted, membership, events, build, anki, history>>

\* The eligible cards are chosen and a new cancel Event takes the old one's
\* place. Without an eligible card a deck left behind is cleaned up.
Select(w) ==
  /\ InOp(w, "select")
  /\ cancel' = cancel + 1
  /\ \E cards \in SUBSET Cards :
       Set(w, [op[w] EXCEPT !.cards = cards, !.deck = None,
                 !.pc = CASE cards # {} -> "submit"
                          [] cards = {} /\ op[w].deck # None -> "find"
                          [] OTHER -> "finish"])
  /\ UNCHANGED <<status, admitted, membership, fired, cancelling, build, anki, history>>

FinishStart(w) ==
  /\ InOp(w, "finish")
  /\ op[w].kind = "start"
  /\ status' = Running(op[w].cards)
  /\ Return(w)
  /\ UNCHANGED <<admitted, membership, events, build, anki, history>>

-----------------------------------------------------------------------------
(* _run_build and the thread it starts.                                    *)

Submit(w) ==
  /\ InOp(w, "submit")
  /\ status' = Rebuilding(op[w].cards)
  /\ \E t \in Threads :
       /\ build[t] = Free
       /\ build' = [build EXCEPT ![t] = [pc |-> "begin", event |-> cancel,
                      cards |-> op[w].cards, deck |-> None, abandoned |-> FALSE]]
       /\ Set(w, [op[w] EXCEPT !.pc = "wait", !.thread = t])
  /\ UNCHANGED <<admitted, membership, events, anki, history>>

\* What an operation does when its build did not succeed: start cleans up and
\* raises, the others only raise.
Fail(w) ==
  IF op[w].kind = "start"
  THEN Set(w, [op[w] EXCEPT !.pc = "find", !.failed = TRUE, !.thread = None, !.cards = {}])
  ELSE Return(w)

\* Mutant: nobody asks the future for its exception.
CollectUnasked(w) ==
  LET t == op[w].thread IN
  /\ InOp(w, "wait")
  /\ build[t].pc \in {"done", "failed"}
  /\ Set(w, [op[w] EXCEPT !.pc = IF op[w].kind = "admit" THEN "top" ELSE "finish",
                          !.thread = None])
  /\ build' = [build EXCEPT ![t] = Free]
  /\ UNCHANGED <<status, admitted, membership, events, anki, history>>

\* future.result: the thread has ended. _cancel is read again here.
Collect(w) ==
  LET t == op[w].thread IN
  /\ InOp(w, "wait")
  /\ build[t].pc \in {"done", "failed"}
  /\ IF build[t].pc = "failed" \/ cancel \in fired THEN Fail(w)
     ELSE Set(w, [op[w] EXCEPT !.pc = IF op[w].kind = "admit" THEN "top" ELSE "finish",
                              !.thread = None])
  /\ build' = [build EXCEPT ![t] = Free]
  /\ UNCHANGED <<status, admitted, membership, events, anki, history>>

\* REBUILD_TIMEOUT_SECONDS passed. The Event is set, the thread goes on.
Timeout(w) ==
  LET t == op[w].thread IN
  /\ InOp(w, "wait")
  /\ build[t].pc \notin {"done", "failed"}
  /\ fired' = fired \cup {cancel}
  /\ build' = [build EXCEPT ![t].abandoned = TRUE]
  /\ Fail(w)
  /\ UNCHANGED <<status, admitted, membership, cancel, cancelling, anki, history>>

InBuild(t, pc) == build[t] # Free /\ build[t].pc = pc
\* A thread nobody waits for any more is gone when it ends.
EndBuild(t, pc) ==
  build' = IF build[t].abandoned THEN [build EXCEPT ![t] = Free]
           ELSE [build EXCEPT ![t].pc = pc, ![t].deck = None, ![t].cards = {}]

BuildBegin(t) ==
  /\ InBuild(t, "begin")
  /\ CASE build[t].event \in fired \/ (deck # NoDeck /\ ~Owned) -> EndBuild(t, "failed")
       [] build[t].event \notin fired /\ Owned ->
            build' = [build EXCEPT ![t].pc = "fill", ![t].deck = deck.id]
       [] OTHER -> build' = [build EXCEPT ![t].pc = "create"]
  /\ UNCHANGED <<status, admitted, membership, events, op, anki, history>>

\* Mutant: the deck is filled before it is marked as ANKIGTA's.
BuildCreateUnmarked(t) ==
  /\ Saving
  /\ InBuild(t, "create")
  /\ deck = NoDeck
  /\ made < MaxDecks
  /\ made' = made + 1
  /\ deck' = [id |-> made', cards |-> build[t].cards]
  /\ build' = [build EXCEPT ![t].pc = "mark", ![t].deck = made']
  /\ UNCHANGED <<status, admitted, membership, events, op, marker, loose, adapter, history>>

\* create makes a deck of that name.
BuildCreate(t) ==
  /\ Saving
  /\ InBuild(t, "create")
  /\ deck = NoDeck
  /\ made < MaxDecks
  /\ made' = made + 1
  /\ deck' = [id |-> made', cards |-> {}]
  /\ build' = [build EXCEPT ![t].pc = "mark", ![t].deck = made']
  /\ UNCHANGED <<status, admitted, membership, events, op, marker, loose, adapter, history>>

\* create names a draft nobody saves: nothing changes in Anki.
BuildDraft(t) ==
  /\ ~Saving
  /\ InBuild(t, "create")
  /\ build' = [build EXCEPT ![t].pc = "mark", ![t].deck = Draft]
  /\ UNCHANGED <<status, admitted, membership, events, op, anki, history>>

BuildMark(t) ==
  /\ InBuild(t, "mark")
  /\ marker' = build[t].deck
  /\ build' = [build EXCEPT ![t].pc = "fill"]
  /\ UNCHANGED <<status, admitted, membership, events, op, deck, made, loose, adapter, history>>

\* Anki rebuilds the deck of that id around the given cards.
BuildFill(t) ==
  /\ InBuild(t, "fill")
  /\ deck.id = build[t].deck
  /\ deck' = [deck EXCEPT !.cards = build[t].cards]
  /\ build' = [build EXCEPT ![t].pc = "report"]
  /\ UNCHANGED <<status, admitted, membership, events, op, marker, made, loose, adapter, history>>

\* rebuild asks Anki for deck 0 again and is given another draft, which Anki
\* saves around the cards, with an id and a name of its own.
BuildFillDraft(t) ==
  /\ InBuild(t, "fill")
  /\ build[t].deck = Draft
  /\ loose' = loose \cup build[t].cards
  /\ build' = [build EXCEPT ![t].pc = "report"]
  /\ UNCHANGED <<status, admitted, membership, events, op, deck, marker, made, adapter, history>>

\* The progress callback rewrites the status, whoever has written it since.
BuildReport(t) ==
  /\ InBuild(t, "report")
  /\ status' = Rebuilding(build[t].cards)
  /\ EndBuild(t, "done")
  /\ UNCHANGED <<admitted, membership, events, op, anki, history>>

\* A call into Anki raises: a name that is taken, a deck that is gone, anything.
BuildFails(t) ==
  /\ build[t] # Free
  /\ build[t].pc \in {"create", "mark", "fill"}
  /\ EndBuild(t, "failed")
  /\ UNCHANGED <<status, admitted, membership, events, op, anki, history>>

-----------------------------------------------------------------------------
(* admit and restore.                                                      *)

\* _validate_admission passed; the session's cards are read after it.
Admit(w) ==
  /\ status.active
  /\ admitted = None
  /\ \E card \in Cards : Begin(w, "admit", {card}, "select")
  /\ UNCHANGED <<status, admitted, membership, events>>

AdmitReads(w) ==
  /\ op[w].kind = "admit"
  /\ InOp(w, "select")
  /\ Set(w, [op[w] EXCEPT !.full = status.cards, !.pc = "submit"])
  /\ UNCHANGED <<status, admitted, membership, events, build, anki, history>>

\* Mutant: the membership to come back to is read after the deck was rebuilt.
AdmitBuiltLate(w) ==
  /\ InOp(w, "top")
  /\ status' = Running(op[w].cards)
  /\ membership' = status.cards
  /\ Goto(w, "finish")
  /\ UNCHANGED <<admitted, events, build, anki, history>>

\* The X-only deck stands and the session counts as active again.
AdmitBuilt(w) ==
  /\ InOp(w, "top")
  /\ status' = Running(op[w].cards)
  /\ membership' = op[w].full
  /\ Goto(w, "finish")
  /\ UNCHANGED <<admitted, events, build, anki, history>>

\* Mutant: the one-card membership is kept in place of the card.
AdmittedMembership(w) ==
  /\ op[w].kind = "admit"
  /\ InOp(w, "finish")
  /\ admitted' = op[w].cards
  /\ Return(w)
  /\ UNCHANGED <<status, membership, events, build, anki, history>>

\* Anki has the card on top: it may be rated.
Admitted(w) ==
  /\ op[w].kind = "admit"
  /\ InOp(w, "finish")
  /\ admitted' \in op[w].cards
  /\ Return(w)
  /\ UNCHANGED <<status, membership, events, build, anki, history>>

\* Anki serves another card or none: _refuse goes back to the full session.
Refused(w) ==
  /\ op[w].kind = "admit"
  /\ InOp(w, "finish")
  /\ Set(w, [op[w] EXCEPT !.kind = "refuse", !.cards = membership,
                          !.pc = IF membership = {} THEN "finish" ELSE "submit"])
  /\ UNCHANGED <<status, admitted, membership, events, build, anki, history>>

\* scheduler_top raises: the admission ends half done, the card neither admitted
\* nor refused and the session left with it alone.
TopFails(w) ==
  /\ op[w].kind = "admit"
  /\ InOp(w, "finish")
  /\ Return(w)
  /\ UNCHANGED <<status, admitted, membership, events, build, anki, history>>

\* A restore request, or the one a rated card makes.
Restore(w) ==
  /\ admitted # None
  /\ Begin(w, "restore", membership, IF membership = {} THEN "finish" ELSE "submit")
  /\ UNCHANGED <<status, admitted, membership, events>>

\* _restore_membership, after its build.
Restored(w) ==
  /\ InOp(w, "finish")
  /\ op[w].kind \in {"refuse", "restore"}
  /\ admitted' = None
  /\ membership' = {}
  /\ status' = Running(op[w].cards)
  /\ Return(w)
  /\ UNCHANGED <<events, build, anki, history>>

-----------------------------------------------------------------------------
(* pause, stop, on_connection_lost, and the cleanup of the owned deck.     *)

\* The deck is cleaned only if the status says one was created.
End(w) ==
  /\ \E kind \in Endings : Begin(w, kind, {}, IF status.created THEN "find" ELSE "finish")
  /\ UNCHANGED <<status, admitted, membership, events>>

\* Mutant: the deck to clean up is found by its name alone.
FindByName(w) ==
  /\ InOp(w, "find")
  /\ IF deck # NoDeck THEN Set(w, [op[w] EXCEPT !.pc = "empty", !.deck = deck.id])
     ELSE IF op[w].failed THEN Return(w) ELSE Goto(w, "finish")
  /\ UNCHANGED <<status, admitted, membership, events, build, anki, history>>

\* cleanup leaves a deck alone that the marker does not name.
FindOwned(w) ==
  /\ InOp(w, "find")
  /\ IF Owned THEN Set(w, [op[w] EXCEPT !.pc = "empty", !.deck = deck.id])
     ELSE IF op[w].failed THEN Return(w) ELSE Goto(w, "finish")
  /\ UNCHANGED <<status, admitted, membership, events, build, anki, history>>

EmptyDeck(w) ==
  /\ InOp(w, "empty")
  /\ deck.id = op[w].deck
  /\ deck' = [deck EXCEPT !.cards = {}]
  /\ Goto(w, "delete")
  /\ UNCHANGED <<status, admitted, membership, events, build, marker, made, loose, adapter, history>>

DeleteDeck(w) ==
  /\ InOp(w, "delete")
  /\ deck.id = op[w].deck
  /\ deck' = NoDeck
  /\ Goto(w, "unmark")
  /\ UNCHANGED <<status, admitted, membership, events, build, marker, made, loose, adapter, history>>

\* The marker goes with the deck; a start that failed raises now.
DropMarker(w) ==
  /\ InOp(w, "unmark")
  /\ marker' = None
  /\ IF op[w].failed THEN Return(w) ELSE Set(w, [op[w] EXCEPT !.pc = "finish", !.deck = None])
  /\ UNCHANGED <<status, admitted, membership, events, build, deck, made, loose, adapter, history>>

\* cleanup_failed: the request raises where it stands.
CleanupFails(w) ==
  /\ op[w] # Idle
  /\ op[w].pc \in {"empty", "delete", "unmark"}
  /\ Return(w)
  /\ disturbed' = TRUE
  /\ UNCHANGED <<status, admitted, membership, events, build, anki, crashes>>

\* stop and on_connection_lost pause first, then give their own reason.
FinishEnd(w) ==
  /\ InOp(w, "finish")
  /\ op[w].kind \in Endings
  /\ status' = Ended("paused")
  /\ IF op[w].kind = "paused" THEN Return(w) ELSE Goto(w, "name")
  /\ UNCHANGED <<admitted, membership, events, build, anki, history>>

NameEnd(w) ==
  /\ InOp(w, "name")
  /\ status' = Ended(op[w].kind)
  /\ Return(w)
  /\ UNCHANGED <<admitted, membership, events, build, anki, history>>

-----------------------------------------------------------------------------
(* cancel_rebuild, the user and the process.                               *)

CancelSeen ==
  /\ ~cancelling
  /\ status.reason = "rebuilding"
  /\ cancelling' = TRUE
  /\ UNCHANGED <<status, admitted, membership, cancel, fired, op, build, anki, history>>

CancelFires ==
  /\ cancelling
  /\ fired' = fired \cup {cancel}
  /\ cancelling' = FALSE
  /\ UNCHANGED <<status, admitted, membership, cancel, op, build, anki, history>>

\* The user makes a deck of that name.
UserMakesDeck ==
  /\ deck = NoDeck
  /\ deck' = [id |-> Foreign, cards |-> Cards]
  /\ UNCHANGED <<status, admitted, membership, events, op, build, marker, made, loose, adapter, history>>

Crash ==
  /\ crashes < MaxCrashes
  /\ crashes' = crashes + 1
  /\ status' = Ended("not_started")
  /\ admitted' = None
  /\ membership' = {}
  /\ fired' = {}
  /\ cancelling' = FALSE
  /\ op' = [w \in Workers |-> Idle]
  /\ build' = [t \in Threads |-> Free]
  /\ UNCHANGED <<cancel, anki, disturbed>>

\* The steps of one request, once it has begun.
Serve(w) ==
  \/ Inspect(w) \/ (op[w].kind = "start" /\ Select(w)) \/ FinishStart(w)
  \/ Submit(w) \/ Collect(w) \/ Timeout(w)
  \/ AdmitReads(w) \/ AdmitBuilt(w) \/ Admitted(w) \/ Refused(w) \/ TopFails(w)
  \/ Restored(w)
  \/ FindOwned(w) \/ EmptyDeck(w) \/ DeleteDeck(w) \/ DropMarker(w) \/ CleanupFails(w)
  \/ FinishEnd(w) \/ NameEnd(w)

Build(t) ==
  \/ BuildBegin(t) \/ BuildCreate(t) \/ BuildDraft(t) \/ BuildMark(t)
  \/ BuildFill(t) \/ BuildFillDraft(t) \/ BuildReport(t) \/ BuildFails(t)

Next ==
  \/ \E w \in Workers : Start(w) \/ Admit(w) \/ Restore(w) \/ End(w) \/ Serve(w)
  \/ \E t \in Threads : Build(t)
  \/ CancelSeen \/ CancelFires
  \/ UserMakesDeck
  \/ Crash

Spec == Init /\ [][Next]_vars

-----------------------------------------------------------------------------
(* Properties.                                                             *)

Quiet == /\ \A w \in Workers : op[w] = Idle
         /\ \A t \in Threads : build[t] = Free

\* Between requests, a session that is announced as running over a filtered deck
\* has that deck in Anki, owned, holding exactly its cards, if create makes the
\* deck it is asked for: no failed build, no cancellation, crash or timeout makes
\* the announcement false, nor a build that outlives its timeout, works on beside
\* its caller's cleanup and ends after it. A failed cleanup and requests that begin
\* beside another request or such a build can.
AnnouncedDeckStands ==
  Saving /\ ~disturbed /\ (\A w \in Workers : op[w] = Idle)
  /\ status.active /\ status.created =>
    Owned /\ deck.cards = status.cards

\* ANKIGTA never fills, empties or deletes a deck the user made, even when
\* the deck appears between a check and the act it guards.
ForeignDeckUntouched ==
  [][deck # NoDeck /\ deck.id = Foreign => deck' = deck]_vars

\* However the request of an admission Anki refuses ends, the session has its whole
\* membership back: it runs on it, over the deck that holds it, or, when the build
\* that restores it failed, was cancelled or timed out, is still being rebuilt from
\* it. The refused card never stays as the session nor as the admitted card.
RefusalRestores ==
  [][\A w \in Workers :
       op[w] # Idle /\ op[w].kind = "refuse" /\ op'[w] = Idle
       /\ ~disturbed /\ crashes' = crashes
       => /\ status'.cards = op[w].full
          /\ admitted' = None
          /\ ~status'.active => status'.reason = "rebuilding"
          /\ status'.active /\ Saving /\ op[w].full # {} =>
                Owned' /\ deck'.cards = op[w].full]_vars

\* Cards are only ever in a deck ANKIGTA can recognise as its own, if create makes
\* the deck it is asked for: a crash or a failure between creating the deck, marking
\* it and filling it, or between emptying, deleting and unmarking it, or a build
\* that goes on after its timeout, leaves no card where cleanup will not look.
CardsStayFindable ==
  ~disturbed /\ deck # NoDeck /\ deck.id # Foreign /\ deck.cards # {} => Owned

\* Once study has ended and everything has settled, no card is left in the
\* owned deck (lifecycle_study.py:3-7).
NothingStranded ==
  Quiet /\ ~disturbed /\ status.reason \in Endings => ~(Owned /\ deck.cards # {})

\* Nor in any other filtered deck ANKIGTA made: every card is back in its home
\* deck (lifecycle_study.py:3-7).
CardsGoHome ==
  Quiet /\ ~disturbed /\ status.reason \in Endings => loose = {}
=============================================================================

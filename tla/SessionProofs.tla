--------------------------- MODULE SessionProofs ---------------------------
(***************************************************************************)
(* Proofs about SessionCoordinator, for every set of workers, threads and  *)
(* cards, for both adapters and for every number of requests, decks and    *)
(* crashes.                                                                *)
(***************************************************************************)
EXTENDS SessionCoordinator, FiniteSetTheorems, TLAPS

-----------------------------------------------------------------------------
(* The inductive invariant.                                                *)

\* Which requests reach which step, with what.
Shape(o) ==
  /\ o.pc = "inspect" => o.kind = "start"
  /\ o.pc = "select" => o.kind \in {"start", "admit"}
  /\ o.pc \in {"submit", "wait"} => o.kind \in Building
  /\ o.pc = "top" => o.kind = "admit"
  /\ o.pc = "name" => o.kind \in Endings
  /\ o.pc \in {"find", "empty", "delete", "unmark"} =>
       o.kind \in Endings \/ (o.kind = "start" /\ o.cards = {})
  /\ o.pc = "wait" => o.thread \in Threads
  /\ o.pc \in {"empty", "delete"} => o.deck \in 1 .. MaxDecks
Shaped == \A w \in Workers : op[w] # Idle => Shape(op[w])

\* What is marked, or about to be, is what create returned: a deck of ANKIGTA's
\* own, or a draft, which is no deck of that name.
OwnMarker == marker \in Handles \cup {None}
OwnBuild(b) == b # Free /\ b.pc \in {"mark", "fill"} => b.deck \in Handles
NotOurs == deck = NoDeck \/ deck.id = Foreign
OwnDeck == ~Saving => NotOurs
OwnDecks == OwnMarker /\ OwnDeck /\ \A t \in Threads : OwnBuild(build[t])

\* Requests that are to take a new cancel Event.
Takes(o) == o # Idle /\ (o.pc = "inspect" \/ (o.pc = "select" /\ o.kind = "start"))
Takers == {v \in Workers : Takes(op[v])}
Counted == cancel + Cardinality(Takers) <= MaxStarts

\* A request that waits has a thread to itself.
Waiting ==
  \A w \in Workers : InOp(w, "wait") =>
    /\ build[op[w].thread] # Free /\ ~build[op[w].thread].abandoned
    /\ \A v \in Workers : InOp(v, "wait") /\ op[v].thread = op[w].thread => v = w

\* As long as nothing was disturbed there is one request at a time and one build:
\* the one the request waits for, or one whose request has given it up and failed.
Alone ==
  ~disturbed =>
    /\ \A v, w \in Workers : op[v] # Idle /\ op[w] # Idle => v = w
    /\ \A t, u \in Threads : build[t] # Free /\ build[u] # Free => t = u
    /\ \A t \in Threads : build[t] # Free /\ ~build[t].abandoned =>
         \E w \in Workers : InOp(w, "wait") /\ op[w].thread = t
    /\ \A t \in Threads : build[t] # Free /\ build[t].abandoned =>
         \A w \in Workers : op[w] = Idle \/ op[w].failed

\* The owned deck holds these cards, if the adapter has one.
Stands(cards) == Saving => Owned /\ deck.cards = cards
StatusTrue == status.active /\ status.created => Stands(status.cards)

\* What a build has done of what its request wants.
Works(b, o) ==
  /\ b.pc \notin {"done", "failed"} => b.cards = o.cards
  /\ b.pc = "begin" => b.event = cancel
  /\ b.pc = "create" => NotOurs
  /\ b.pc = "mark" => b.deck = Draft \/ (deck # NoDeck /\ deck.id = b.deck)
  /\ b.pc = "fill" => marker = b.deck
  /\ b.pc \in {"report", "done"} => Stands(o.cards)
Built == ~disturbed => \A w \in Workers : InOp(w, "wait") => Works(build[op[w].thread], op[w])

\* What a build that nobody waits for any more can still do: neither make a deck
\* while its request is deleting one, nor fill one that is not marked.
Cleaning(o) == o # Idle /\ o.pc \in {"empty", "delete", "unmark"}
Lags(b) ==
  /\ ~status.active
  /\ b.pc = "begin" => b.event \in fired
  /\ b.pc = "create" => NotOurs /\ \A w \in Workers : ~Cleaning(op[w])
  /\ b.pc = "mark" => NotOurs \/ deck.id = b.deck
  /\ b.pc = "fill" => NotOurs \/ (deck.id = b.deck => marker = b.deck)
Late == ~disturbed => \A t \in Threads : build[t] # Free /\ build[t].abandoned => Lags(build[t])

\* What a request knows of the status and the deck when it may return, and on the
\* way there.
Told(o) ==
  /\ o.pc = "inspect" => StatusTrue
  /\ o.pc = "wait" => status = Rebuilding(o.cards)
  /\ o.failed => ~status.active /\ o.pc \in {"find", "empty", "delete", "unmark"}
  /\ o.pc = "top" => Stands(o.cards)
  /\ o.pc = "finish" /\ o.kind = "admit" =>
       Stands(o.cards) /\ status = Running(o.cards) /\ membership = o.full
  /\ o.pc = "finish" /\ o.kind \in Building /\ o.cards # {} => Stands(o.cards)
  /\ o.kind \in {"admit", "refuse"} => admitted = None
  /\ o.kind = "refuse" => o.cards = o.full
  /\ o.pc = "unmark" => NotOurs
Announced ==
  ~disturbed => /\ (\A w \in Workers : op[w] = Idle) => StatusTrue
                /\ \A w \in Workers : op[w] # Idle => Told(op[w])

IInv == TypeOK /\ Shaped /\ OwnDecks /\ Counted /\ Waiting /\ Alone /\ Built /\ Late
        /\ Announced /\ CardsStayFindable

-----------------------------------------------------------------------------
(* Decks, statuses and requests.                                           *)

LEMMA DeckFacts ==
  /\ NoDeck \notin Decks /\ None \notin DeckIds /\ Draft \notin DeckIds
  /\ \A d \in Decks : d.id \in DeckIds
  /\ NoDeck.id = None
  /\ 1 .. MaxDecks \subseteq DeckIds
  /\ Foreign \in DeckIds /\ Foreign \notin 1 .. MaxDecks
BY BoundAssumption DEF NoDeck, Decks, DeckIds, Foreign, Draft

LEMMA NotIdle == Idle \notin Ops
<1>1. "idle" \notin Building \cup Endings
  BY EndingAssumption DEF Building
<1> QED
  BY <1>1 DEF Idle, Ops

LEMMA NotFree == Free \notin Builds
BY DEF Free, Builds

LEMMA KindFacts ==
  /\ \A kind \in Endings : kind \notin Building /\ kind \in Reasons
BY EndingAssumption DEF Building, Reasons

LEMMA StatusType ==
  /\ \A cards \in SUBSET Cards :
       /\ Running(cards) \in Statuses /\ Rebuilding(cards) \in Statuses
       /\ ~Rebuilding(cards).active
       /\ Running(cards).cards = cards /\ Running(cards).created = (cards # {})
  /\ \A reason \in Reasons : Ended(reason) \in Statuses /\ ~Ended(reason).active
BY DEF Running, Rebuilding, Ended, Statuses, Reasons

LEMMA SetStep ==
  ASSUME TypeOK, NEW w \in Workers, NEW o \in Ops \cup {Idle}, Set(w, o)
  PROVE  /\ op' \in [Workers -> Ops \cup {Idle}]
         /\ op'[w] = o
         /\ \A v \in Workers \ {w} : op'[v] = op[v]
BY DEF TypeOK, Set

LEMMA InOpType ==
  ASSUME TypeOK, NEW w \in Workers
  PROVE  /\ op[w] # Idle <=> op[w] \in Ops
         /\ \A pc : InOp(w, pc) => op[w] \in Ops /\ op[w].pc = pc
BY NotIdle DEF TypeOK, InOp

LEMMA BuildType ==
  ASSUME TypeOK, NEW t \in Threads
  PROVE  /\ build[t] # Free <=> build[t] \in Builds
         /\ \A pc : InBuild(t, pc) => build[t] \in Builds /\ build[t].pc = pc
BY NotFree DEF TypeOK, InBuild

\* The marker never names a deck the user made, nor the draft a deck.
LEMMA OwnedDeck ==
  ASSUME TypeOK, OwnMarker, Owned
  PROVE  deck \in Decks /\ deck.id = marker /\ deck.id \in 1 .. MaxDecks /\ ~NotOurs
BY DeckFacts DEF TypeOK, OwnMarker, Owned, Handles, NotOurs

\* What create returns is a deck of ANKIGTA's own, unless it is a draft.
LEMMA HandleFacts ==
  /\ Handles \subseteq DeckIds \cup {Draft}
  /\ \A d \in Handles : d # Foreign /\ (d \in DeckIds => d \in 1 .. MaxDecks /\ Saving)
  /\ Saving => Handles = 1 .. MaxDecks
  /\ ~Saving => Handles = {Draft}
BY DeckFacts DEF Handles

\* The adapter is chosen once.
LEMMA SameAdapter ==
  ASSUME adapter' = adapter
  PROVE  Handles' = Handles /\ Saving' = Saving
BY DEF Handles, Saving

-----------------------------------------------------------------------------
(* Cancel Events are not used up.                                          *)

LEMMA TakersFinite ==
  /\ IsFiniteSet(Takers) /\ Cardinality(Takers) \in Nat
BY WorkerAssumption, FS_Subset, FS_CardinalityType DEF Takers

LEMMA FewerTakers ==
  ASSUME TypeOK, Counted, cancel' = cancel,
         \A v \in Workers : Takes(op'[v]) => Takes(op[v])
  PROVE  Counted'
<1>1. Takers' \subseteq Takers
  BY DEF Takers, Takes
<1>2. Cardinality(Takers') <= Cardinality(Takers) /\ Cardinality(Takers') \in Nat
  BY <1>1, TakersFinite, FS_Subset, FS_CardinalityType
<1> QED
  BY <1>2, TakersFinite, BoundAssumption DEF Counted, TypeOK

LEMMA MoreTakers ==
  ASSUME TypeOK, cancel + Cardinality(Takers) < MaxStarts, cancel' = cancel,
         NEW w \in Workers, ~Takes(op[w]), \A v \in Workers \ {w} : op'[v] = op[v]
  PROVE  Counted'
<1>1. Takers' \subseteq Takers \cup {w}
  BY DEF Takers, Takes
<1>2. IsFiniteSet(Takers \cup {w}) /\ Cardinality(Takers \cup {w}) = Cardinality(Takers) + 1
  BY TakersFinite, FS_AddElement DEF Takers
<1>3. Cardinality(Takers') <= Cardinality(Takers) + 1 /\ Cardinality(Takers') \in Nat
  BY <1>1, <1>2, FS_Subset, FS_CardinalityType
<1> QED
  BY <1>3, TakersFinite, BoundAssumption DEF Counted, TypeOK

LEMMA OneTaken ==
  ASSUME TypeOK, Counted, cancel' = cancel + 1,
         NEW w \in Workers, Takes(op[w]), ~Takes(op'[w]), \A v \in Workers \ {w} : op'[v] = op[v]
  PROVE  Counted' /\ cancel' \in 0 .. MaxStarts
<1>1. Takers' = Takers \ {w} /\ w \in Takers
  BY DEF Takers, Takes
<1>2. Cardinality(Takers') = Cardinality(Takers) - 1 /\ Cardinality(Takers) # 0
  BY <1>1, TakersFinite, FS_RemoveElement, FS_EmptySet
<1> QED
  BY <1>2, TakersFinite, BoundAssumption DEF Counted, TypeOK

-----------------------------------------------------------------------------
(* A step of one request, of one build.                                    *)

\* With nothing disturbed, no other request is under way, and no build but the
\* one this request waits for or the one it has given up.
LEMMA Solo ==
  ASSUME TypeOK, Alone, ~disturbed, NEW w \in Workers, op[w] # Idle
  PROVE  /\ \A v \in Workers \ {w} : op[v] = Idle
         /\ \A t \in Threads : build[t] # Free =>
              \/ ~build[t].abandoned /\ InOp(w, "wait") /\ op[w].thread = t
              \/ build[t].abandoned /\ op[w].failed
BY DEF Alone, InOp

LEMMA ToldNow ==
  ASSUME IInv, ~disturbed, NEW w \in Workers, op[w] # Idle
  PROVE  Told(op[w])
BY DEF IInv, Announced

\* A request that waits for no build and has not failed is alone with the deck.
LEMMA NoBuild ==
  ASSUME IInv, ~disturbed, NEW w \in Workers, op[w] # Idle,
         op[w].pc \notin {"wait", "find", "empty", "delete", "unmark"}
  PROVE  \A t \in Threads : build[t] = Free
<1>1. ~op[w].failed
  BY ToldNow DEF Told
<1> QED
  BY <1>1, Solo DEF IInv, InOp

LEMMA Moved ==
  ASSUME IInv, NEW w \in Workers, op[w] # Idle, op[w].pc # "wait",
         op' \in [Workers -> Ops \cup {Idle}], \A v \in Workers \ {w} : op'[v] = op[v],
         (op[w] # Idle => Shape(op[w]) /\ op[w].pc # "wait")',
         UNCHANGED <<build, loose, adapter, crashes>>,
         status' \in Statuses, admitted' \in Cards \cup {None}, membership' \in SUBSET Cards,
         cancel' \in 0 .. MaxStarts, fired' \subseteq 0 .. MaxStarts, cancelling' \in BOOLEAN,
         deck' \in Decks \cup {NoDeck}, OwnMarker', OwnDeck', made' \in 0 .. MaxDecks,
         disturbed' \in BOOLEAN, Counted', disturbed => disturbed',
         ~disturbed' => (op[w] = Idle => StatusTrue)' /\ (op[w] # Idle => Told(op[w]))',
         ~disturbed' => CardsStayFindable',
         ~disturbed' => \A t \in Threads : build[t] # Free =>
                          (op'[w] = Idle \/ op'[w].failed) /\ Lags(build[t])'
  PROVE  IInv'
<1> USE DEF IInv
<1>1. TypeOK'
  BY HandleFacts, SameAdapter DEF TypeOK, OwnMarker
<1>2. Shaped' /\ OwnDecks'
  <2>1. Shaped'
    BY DEF Shaped
  <2> QED
    BY <2>1, SameAdapter DEF OwnDecks, OwnBuild
<1>3. \A v \in Workers : InOp(v, "wait")' => v # w /\ InOp(v, "wait") /\ op'[v] = op[v]
  BY DEF InOp
<1>4. Waiting'
  BY <1>3 DEF Waiting
<1>5. ~disturbed' => /\ \A v \in Workers \ {w} : op[v] = Idle /\ op'[v] = Idle
                     /\ \A t \in Threads : build[t] # Free => build[t].abandoned
  BY Solo DEF InOp
<1>6. Alone' /\ Built' /\ Late'
  <2>1. Alone'
    <3> SUFFICES ASSUME ~disturbed' PROVE Alone'
      BY DEF Alone
    <3>1. \A t, u \in Threads : build[t] # Free /\ build[u] # Free => t = u
      BY DEF Alone
    <3>2. \A t \in Threads : build[t] # Free => \A v \in Workers : op'[v] = Idle \/ op'[v].failed
      BY <1>5
    <3> QED
      BY <1>5, <3>1, <3>2 DEF Alone
  <2>2. ~disturbed' => \A v \in Workers : ~InOp(v, "wait")'
    BY <1>3, <1>5 DEF InOp
  <2>3. Late'
    BY DEF Late
  <2> QED
    BY <2>1, <2>2, <2>3 DEF Built
<1>7. Announced'
  BY <1>5 DEF Announced
<1>8. CardsStayFindable'
  BY DEF CardsStayFindable
<1> QED
  BY <1>1, <1>2, <1>4, <1>6, <1>7, <1>8

LEMMA Worked ==
  ASSUME IInv, NEW t \in Threads, build[t] # Free,
         build' \in [Threads -> Builds \cup {Free}], \A u \in Threads \ {t} : build'[u] = build[u],
         build'[t] = Free => build[t].abandoned,
         build'[t] # Free => build'[t].abandoned = build[t].abandoned,
         OwnBuild(build[t])',
         UNCHANGED <<op, admitted, membership, cancel, fired, cancelling, adapter, disturbed, crashes>>,
         status' \in Statuses, deck' \in Decks \cup {NoDeck}, OwnMarker', OwnDeck',
         made' \in 0 .. MaxDecks, loose' \in SUBSET Cards,
         status' = status \/ (status' = Rebuilding(build[t].cards) /\ build[t].pc = "report"),
         ~disturbed => CardsStayFindable',
         NotOurs => NotOurs' \/ build[t].pc = "create",
         ~disturbed => \A w \in Workers : InOp(w, "wait") /\ op[w].thread = t =>
                         Works(build[t], op[w])',
         ~disturbed /\ build[t].abandoned /\ build'[t] # Free /\ ~status'.active => Lags(build[t])'
  PROVE  IInv'
<1> USE DEF IInv
<1>1. TypeOK'
  BY HandleFacts, SameAdapter DEF TypeOK, OwnMarker
<1>2. Shaped' /\ OwnDecks' /\ Counted'
  <2>1. Shaped' /\ Counted'
    BY DEF Shaped, Counted, Takers
  <2> QED
    BY <2>1, SameAdapter DEF OwnDecks, OwnBuild
<1>3. Waiting'
  <2> SUFFICES ASSUME NEW w \in Workers, InOp(w, "wait")
               PROVE  /\ build'[op[w].thread] # Free /\ ~build'[op[w].thread].abandoned
                      /\ \A v \in Workers : InOp(v, "wait") /\ op[v].thread = op[w].thread => v = w
    BY DEF Waiting, InOp
  <2>1. op[w].thread \in Threads
    BY DEF Shaped, Shape, InOp
  <2> QED
    BY <2>1 DEF Waiting
<1>4. CASE disturbed
  BY <1>1, <1>2, <1>3, <1>4 DEF Alone, Built, Late, Announced, CardsStayFindable
<1>5. ~Rebuilding(build[t].cards).active
  BY DEF Rebuilding
<1>6. ASSUME ~disturbed PROVE \A u \in Threads \ {t} : build[u] = Free /\ build'[u] = Free
  BY <1>6 DEF Alone
<1>7. Alone'
  BY <1>6 DEF Alone, InOp
<1>8. CASE ~disturbed /\ build[t].abandoned
  <2>1. \A v \in Workers : op[v] # Idle => op[v].failed /\ Told(op[v])
    BY <1>8, ToldNow DEF Alone
  <2>2. \A v \in Workers : ~InOp(v, "wait")
    BY <2>1 DEF Told, InOp
  <2>3. Lags(build[t])
    BY <1>8 DEF Late
  <2>4. ~status'.active
    BY <1>5, <2>3 DEF Lags
  <2>5. Late' /\ Built'
    BY <1>6, <1>8, <2>2, <2>4 DEF Late, Built, InOp
  <2>6. ASSUME NEW v \in Workers, op[v] # Idle PROVE Told(op[v])'
    <3>1. op[v].pc = "unmark" => NotOurs'
      BY <2>1, <2>3, <2>6 DEF Told, Lags, Cleaning
    <3>2. op[v].failed /\ op[v].pc \in {"find", "empty", "delete", "unmark"} /\ Told(op[v])
      BY <2>1, <2>6 DEF Told
    <3> QED
      BY <2>4, <3>1, <3>2 DEF Told
  <2>7. Announced'
    BY <2>4, <2>6 DEF Announced, StatusTrue
  <2> QED
    BY <1>1, <1>2, <1>3, <1>7, <1>8, <2>5, <2>7
<1>9. CASE ~disturbed /\ ~build[t].abandoned
  <2>1. PICK w \in Workers : InOp(w, "wait") /\ op[w].thread = t
    BY <1>9 DEF Alone
  <2>2. \A v \in Workers \ {w} : op[v] = Idle
    BY <1>9, <2>1, Solo DEF InOp
  <2>3. Built'
    BY <1>9, <2>1, <2>2 DEF Built, InOp
  <2>4. Late'
    BY <1>6, <1>9 DEF Late
  <2>5. Announced'
    <3>1. Told(op[w]) /\ op[w] # Idle /\ op[w].pc = "wait"
      BY <1>9, <2>1 DEF Announced, InOp
    <3>2. build[t].pc = "report" => build[t].cards = op[w].cards
      BY <1>9, <2>1 DEF Built, Works
    <3>3. status' = Rebuilding(op[w].cards)
      BY <3>1, <3>2 DEF Told
    <3>4. ~op[w].failed /\ (op[w].kind \in {"admit", "refuse"} => admitted = None)
          /\ (op[w].kind = "refuse" => op[w].cards = op[w].full)
      BY <3>1 DEF Told
    <3>5. Told(op[w])'
      BY <3>1, <3>3, <3>4 DEF Told
    <3> QED
      BY <2>2, <3>1, <3>5 DEF Announced
  <2> QED
    BY <1>1, <1>2, <1>3, <1>7, <1>9, <2>3, <2>4, <2>5
<1> QED
  BY <1>4, <1>8, <1>9

LEMMA Began ==
  ASSUME IInv, NEW w \in Workers, NEW kind \in Building \cup Endings, NEW cards \in SUBSET Cards,
         NEW pc \in {"inspect", "select", "submit", "find", "finish"}, Begin(w, kind, cards, pc),
         UNCHANGED <<status, admitted, membership, cancel, fired, cancelling>>,
         Counted',
         pc = "inspect" => kind = "start", pc = "select" => kind \in {"start", "admit"},
         pc = "submit" => kind \in Building, pc = "find" => kind \in Endings,
         pc = "finish" => kind \notin Building \/ (kind # "admit" /\ cards = {}),
         kind # "refuse", kind = "admit" => admitted = None
  PROVE  IInv'
<1> USE DEF IInv, anki
<1>1. op[w] = Idle /\ UNCHANGED <<build, deck, marker, made, loose, adapter, crashes>>
      /\ disturbed' = (Others(w) # {} \/ Abandoned # {} \/ disturbed)
  BY DEF Begin
<1>2. /\ op' \in [Workers -> Ops \cup {Idle}]
      /\ op'[w] = [kind |-> kind, cards |-> cards, full |-> {}, pc |-> pc, thread |-> None,
                   deck |-> None, failed |-> FALSE]
      /\ op'[w] \in Ops
      /\ \A v \in Workers \ {w} : op'[v] = op[v]
  <2> DEFINE o == [kind |-> kind, cards |-> cards, full |-> {}, pc |-> pc, thread |-> None,
                   deck |-> None, failed |-> FALSE]
  <2>1. o \in Ops
    BY DEF Ops
  <2>2. Set(w, o)
    BY DEF Begin
  <2> HIDE DEF o
  <2> QED
    BY <2>1, <2>2, SetStep DEF o
<1>3. /\ op'[w] # Idle /\ op'[w].pc = pc /\ op'[w].kind = kind /\ op'[w].cards = cards
      /\ op'[w].failed = FALSE
  <2>1. op'[w] # Idle
    BY <1>2, NotIdle
  <2> QED
    BY <1>2, <2>1
<1>4. TypeOK'
  BY <1>1, <1>2 DEF TypeOK
<1>5. Shape(op[w])'
  BY <1>3 DEF Shape
<1>6. Shaped' /\ OwnDecks'
  <2>1. Shaped'
    BY <1>2, <1>5 DEF Shaped
  <2> QED
    BY <1>1, <2>1, SameAdapter DEF OwnDecks, OwnMarker, OwnDeck, NotOurs, OwnBuild
<1>7. \A v \in Workers : InOp(v, "wait")' => v # w /\ InOp(v, "wait") /\ op'[v] = op[v]
  BY <1>2, <1>3 DEF InOp
<1>8. Waiting'
  BY <1>1, <1>7 DEF Waiting
<1>9. CASE disturbed'
  BY <1>4, <1>6, <1>8, <1>9 DEF Alone, Built, Late, Announced, CardsStayFindable
<1>10. CASE ~disturbed'
  <2>1. ~disturbed /\ \A v \in Workers : op[v] = Idle
    BY <1>1, <1>10 DEF Others
  <2>2. \A t \in Threads : build[t] = Free /\ build'[t] = Free
    BY <1>1, <1>10, <2>1 DEF Alone, InOp, Abandoned
  <2>3. StatusTrue'
    BY <1>1, <2>1 DEF Announced, StatusTrue, Stands, Owned, Saving
  <2>4. Alone' /\ Built' /\ Late'
    BY <1>1, <1>2, <1>7, <2>1, <2>2 DEF Alone, Built, Late, InOp
  <2>5. Told(op[w])'
    BY <1>3, <2>3 DEF Told, Building
  <2>6. Announced' /\ CardsStayFindable'
    BY <1>1, <1>2, <1>3, <2>1, <2>5 DEF Announced, CardsStayFindable, Owned
  <2> QED
    BY <1>4, <1>6, <1>8, <2>4, <2>6
<1> QED
  BY <1>9, <1>10

\* A step that leaves Anki, the builds and the Event alone.
LEMMA Stepped ==
  ASSUME IInv, NEW w \in Workers, op[w] # Idle,
         op[w].pc \notin {"wait", "empty", "delete", "unmark"},
         NEW o \in Ops \cup {Idle}, Set(w, o),
         o # Idle => Shape(o) /\ o.pc # "wait" /\ (Takes(o) => Takes(op[w])),
         op[w].pc = "find" => /\ status' = status
                              /\ op[w].failed /\ o # Idle => o.failed /\ Owned,
         UNCHANGED <<cancel, build, deck, marker, made, loose, adapter, disturbed, crashes, fired,
                     cancelling>>,
         status' \in Statuses, admitted' \in Cards \cup {None}, membership' \in SUBSET Cards,
         ~disturbed => (op[w] = Idle => StatusTrue)' /\ (op[w] # Idle => Told(op[w]))'
  PROVE  IInv'
<1> USE DEF IInv
<1>1. /\ op' \in [Workers -> Ops \cup {Idle}] /\ op'[w] = o
      /\ \A v \in Workers \ {w} : op'[v] = op[v]
  BY SetStep
<1>2. \A v \in Workers : Takes(op'[v]) => Takes(op[v])
  BY <1>1 DEF Takes
<1>3. Counted'
  BY <1>2, FewerTakers
<1>4. /\ cancel' \in 0 .. MaxStarts /\ fired' \subseteq 0 .. MaxStarts /\ cancelling' \in BOOLEAN
      /\ deck' \in Decks \cup {NoDeck} /\ OwnMarker' /\ OwnDeck' /\ made' \in 0 .. MaxDecks
      /\ disturbed' \in BOOLEAN /\ (~disturbed' => CardsStayFindable')
  BY SameAdapter DEF TypeOK, OwnDecks, OwnMarker, OwnDeck, NotOurs, CardsStayFindable, Owned
<1>5. (op[w] # Idle => Shape(op[w]) /\ op[w].pc # "wait")'
  BY <1>1 DEF Shape
<1>6. ASSUME ~disturbed, NEW t \in Threads, build[t] # Free
      PROVE  (op'[w] = Idle \/ op'[w].failed) /\ Lags(build[t])'
  <2>1. op[w].pc = "find"
    BY <1>6, NoBuild
  <2>2. /\ build[t].abandoned /\ op[w].failed
        /\ \A v \in Workers \ {w} : op'[v] = Idle
    BY <1>1, <1>6, Solo DEF InOp
  <2>3. Lags(build[t])
    BY <1>6, <2>2 DEF Late
  <2>4. op'[w] = Idle \/ (op'[w].failed /\ ~NotOurs)
    BY <1>1, <2>1, <2>2, OwnedDeck DEF OwnDecks
  <2>5. NotOurs => \A v \in Workers : ~Cleaning(op'[v])
    BY <2>2, <2>4 DEF Cleaning
  <2> QED
    BY <2>1, <2>3, <2>4, <2>5 DEF Lags, NotOurs, Cleaning
<1> QED
  BY <1>1, <1>3, <1>4, <1>5, <1>6, Moved

-----------------------------------------------------------------------------
(* Requests begin.                                                         *)

LEMMA StartInv ==
  ASSUME IInv, NEW w \in Workers, Start(w)
  PROVE  IInv'
<1> USE DEF IInv, events, anki
<1>1. Begin(w, "start", {}, "inspect") /\ UNCHANGED <<status, admitted, membership, cancel, fired, cancelling>>
  BY DEF Start
<1>2. cancel + Cardinality(Takers) < MaxStarts
  <2>1. Takers = {v \in Workers : InOp(v, "inspect") \/ (InOp(v, "select") /\ op[v].kind = "start")}
    BY DEF Takers, Takes, InOp
  <2> QED
    BY <2>1 DEF Start, Started
<1>3. ~Takes(op[w]) /\ \A v \in Workers \ {w} : op'[v] = op[v]
  BY <1>1 DEF Begin, Set, TypeOK, Takes
<1>4. Counted'
  BY <1>1, <1>2, <1>3, MoreTakers
<1>5. "start" \in Building
  BY DEF Building
<1> QED
  BY <1>1, <1>4, <1>5, Began

LEMMA BeganElse ==
  ASSUME IInv, NEW w \in Workers, NEW kind \in (Building \cup Endings) \ {"start"}, NEW cards,
         NEW pc \in {"select", "submit", "find", "finish"}, Begin(w, kind, cards, pc), cancel' = cancel
  PROVE  Counted'
<1> USE DEF IInv
<1>1. ~Takes(op'[w]) /\ \A v \in Workers \ {w} : op'[v] = op[v]
  BY DEF Begin, Set, TypeOK, Takes
<1>2. \A v \in Workers : Takes(op'[v]) => Takes(op[v])
  BY <1>1
<1> QED
  BY <1>2, FewerTakers

LEMMA AdmitInv ==
  ASSUME IInv, NEW w \in Workers, Admit(w)
  PROVE  IInv'
<1> USE DEF events
<1>1. PICK card \in Cards : Begin(w, "admit", {card}, "select")
  BY DEF Admit
<1>2. UNCHANGED <<status, admitted, membership, cancel, fired, cancelling>>
  BY DEF Admit
<1>3. "admit" \notin Endings /\ admitted = None
  BY KindFacts DEF Admit, Building
<1>4. "admit" \in (Building \cup Endings) \ {"start"} /\ {card} \in SUBSET Cards
  BY DEF Building
<1>5. Counted'
  BY <1>1, <1>2, <1>4, BeganElse
<1> QED
  BY <1>1, <1>2, <1>4, <1>5, <1>3, Began

LEMMA RestoreInv ==
  ASSUME IInv, NEW w \in Workers, Restore(w)
  PROVE  IInv'
<1> USE DEF events
<1> DEFINE pc == IF membership = {} THEN "finish" ELSE "submit"
<1>1. /\ Begin(w, "restore", membership, pc) /\ pc \in {"submit", "finish"}
      /\ UNCHANGED <<status, admitted, membership, cancel, fired, cancelling>>
      /\ (pc = "finish" => membership = {})
  BY DEF Restore
<1>2. "restore" \in Building /\ "restore" \in (Building \cup Endings) \ {"start"} /\ membership \in SUBSET Cards
  BY DEF Building, IInv, TypeOK
<1> HIDE DEF pc
<1>3. Counted'
  BY <1>1, <1>2, BeganElse
<1> QED
  BY <1>1, <1>2, <1>3, Began

LEMMA EndInv ==
  ASSUME IInv, NEW w \in Workers, End(w)
  PROVE  IInv'
<1> USE DEF events
<1> DEFINE pc == IF status.created THEN "find" ELSE "finish"
<1>1. PICK kind \in Endings : Begin(w, kind, {}, pc)
  BY DEF End
<1>2. /\ UNCHANGED <<status, admitted, membership, cancel, fired, cancelling>>
      /\ pc \in {"find", "finish"}
  BY DEF End
<1>3. kind \in (Building \cup Endings) \ {"start"} /\ kind \notin Building /\ kind \notin {"admit", "refuse"}
  BY KindFacts DEF Building
<1> HIDE DEF pc
<1>4. Counted'
  BY <1>1, <1>2, <1>3, BeganElse
<1>5. {} \in SUBSET Cards
  OBVIOUS
<1> QED
  BY <1>1, <1>2, <1>3, <1>4, <1>5, Began

-----------------------------------------------------------------------------
(* start and rebuild.                                                      *)

LEMMA InspectInv ==
  ASSUME IInv, NEW w \in Workers, Inspect(w)
  PROVE  IInv'
<1> USE DEF IInv, events, anki, history
<1>1. /\ op[w] # Idle /\ op[w] \in Ops /\ op[w].pc = "inspect" /\ op[w].kind = "start" /\ Takes(op[w])
      /\ UNCHANGED <<status, admitted, membership, cancel, fired, cancelling, build, deck, marker, made, loose, adapter,
                     disturbed, crashes>>
  BY InOpType DEF Inspect, InOp, Shaped, Shape, Takes
<1>2. ~disturbed => StatusTrue /\ StatusTrue' /\ op[w].failed = FALSE
  BY <1>1, ToldNow DEF Told, StatusTrue, Stands, Owned, Saving, Ops
<1>3. status' \in Statuses /\ admitted' \in Cards \cup {None} /\ membership' \in SUBSET Cards
  BY <1>1 DEF TypeOK
<1>4. CASE Return(w)
  <2>1. Set(w, Idle) /\ op'[w] = Idle
    BY <1>4, SetStep DEF Return
  <2> QED
    BY <1>1, <1>2, <1>3, <2>1, Stepped
<1>5. CASE Set(w, [op[w] EXCEPT !.pc = "select", !.deck = deck.id])
  <2> DEFINE o == [op[w] EXCEPT !.pc = "select", !.deck = deck.id]
  <2>1. deck.id \in DeckIds \cup {None}
    BY DeckFacts DEF TypeOK
  <2>2. o \in Ops /\ o.pc = "select" /\ o.kind = "start" /\ o.failed = op[w].failed
    BY <1>1, <2>1 DEF Ops
  <2>3. Shape(o) /\ (Takes(o) => Takes(op[w]))
    BY <1>1, <2>2 DEF Shape
  <2>4. Set(w, o)
    BY <1>5
  <2> HIDE DEF o
  <2>5. op'[w] = o
    BY <2>2, <2>4, SetStep
  <2>6. ~disturbed => Told(op[w])'
    BY <1>2, <2>2, <2>5 DEF Told
  <2>7. op'[w] # Idle
    BY <2>2, <2>5, NotIdle
  <2> QED
    BY <1>1, <1>3, <2>2, <2>3, <2>4, <2>6, <2>7, Stepped
<1> QED
  BY <1>4, <1>5 DEF Inspect

LEMMA SelectInv ==
  ASSUME IInv, NEW w \in Workers, op[w].kind = "start", Select(w)
  PROVE  IInv'
<1> USE DEF IInv, anki, history
<1>1. /\ op[w] # Idle /\ op[w] \in Ops /\ op[w].pc = "select" /\ Takes(op[w])
      /\ cancel' = cancel + 1
      /\ UNCHANGED <<status, admitted, membership, fired, cancelling, build, deck, marker, made, loose, adapter,
                     disturbed, crashes>>
  BY InOpType DEF Select, InOp, Takes
<1>2. PICK cards \in SUBSET Cards :
        Set(w, [op[w] EXCEPT !.cards = cards, !.deck = None,
                  !.pc = CASE cards # {} -> "submit"
                           [] cards = {} /\ op[w].deck # None -> "find"
                           [] OTHER -> "finish"])
  BY Zenon DEF Select
<1> DEFINE pc == CASE cards # {} -> "submit"
                   [] cards = {} /\ op[w].deck # None -> "find"
                   [] OTHER -> "finish"
           o == [op[w] EXCEPT !.cards = cards, !.deck = None, !.pc = pc]
<1>3. pc \in {"submit", "find", "finish"} /\ (pc \in {"find", "finish"} => cards = {})
  OBVIOUS
<1>4. Set(w, o)
  BY <1>2, Zenon
<1> HIDE DEF pc
<1>5. o \in Ops /\ o.pc = pc /\ o.kind = "start" /\ o.failed = op[w].failed /\ o.cards = cards
  BY <1>1, <1>3 DEF Ops
<1> HIDE DEF o
<1>6. op' \in [Workers -> Ops \cup {Idle}] /\ op'[w] = o /\ \A v \in Workers \ {w} : op'[v] = op[v]
  BY <1>5, <1>4, SetStep
<1>7. Counted' /\ cancel' \in 0 .. MaxStarts
  <2>1. ~Takes(op'[w])
    BY <1>3, <1>5, <1>6 DEF Takes
  <2> QED
    BY <1>1, <1>6, <2>1, OneTaken
<1>8. (op[w] # Idle => Shape(op[w]) /\ op[w].pc # "wait")'
  BY <1>3, <1>5, <1>6 DEF Shape, Building
<1>9. ~disturbed => op[w].failed = FALSE
  BY <1>1, ToldNow DEF Told, Ops
<1>10. ~disturbed => (op[w] # Idle => Told(op[w]))'
  BY <1>3, <1>5, <1>6, <1>9 DEF Told
<1>11. op'[w] # Idle
  BY <1>5, <1>6, NotIdle
<1>12. /\ status' \in Statuses /\ admitted' \in Cards \cup {None} /\ membership' \in SUBSET Cards
       /\ fired' \subseteq 0 .. MaxStarts /\ cancelling' \in BOOLEAN
       /\ deck' \in Decks \cup {NoDeck} /\ OwnMarker' /\ OwnDeck' /\ made' \in 0 .. MaxDecks
       /\ disturbed' \in BOOLEAN /\ CardsStayFindable'
  BY <1>1, SameAdapter DEF TypeOK, OwnDecks, OwnMarker, OwnDeck, NotOurs, CardsStayFindable, Owned
<1>13. ~disturbed => \A t \in Threads : build[t] = Free
  BY <1>1, NoBuild
<1> QED
  BY <1>1, <1>6, <1>7, <1>8, <1>10, <1>11, <1>12, <1>13, Moved

LEMMA FinishStartInv ==
  ASSUME IInv, NEW w \in Workers, FinishStart(w)
  PROVE  IInv'
<1> USE DEF IInv, events, anki, history
<1>1. /\ op[w] # Idle /\ op[w] \in Ops /\ op[w].pc = "finish" /\ op[w].kind = "start"
      /\ Set(w, Idle) /\ status' = Running(op[w].cards)
      /\ UNCHANGED <<admitted, membership, cancel, fired, cancelling, build, deck, marker, made, loose, adapter,
                     disturbed, crashes>>
  BY InOpType DEF FinishStart, InOp, Return
<1>2. status' \in Statuses /\ status'.cards = op[w].cards /\ (status'.created => op[w].cards # {})
  BY <1>1, StatusType DEF Ops
<1>3. ~disturbed => StatusTrue'
  BY <1>1, <1>2, ToldNow DEF Told, StatusTrue, Stands, Owned, Saving, Building
<1>4. op'[w] = Idle /\ admitted' \in Cards \cup {None} /\ membership' \in SUBSET Cards
  BY <1>1, SetStep DEF TypeOK
<1> QED
  BY <1>1, <1>2, <1>3, <1>4, Stepped

-----------------------------------------------------------------------------
(* A build is started, collected or abandoned.                             *)

LEMMA SubmitInv ==
  ASSUME IInv, NEW w \in Workers, Submit(w)
  PROVE  IInv'
<1>1. PICK t \in Threads :
        /\ build[t] = Free
        /\ build' = [build EXCEPT ![t] = [pc |-> "begin", event |-> cancel,
                       cards |-> op[w].cards, deck |-> None, abandoned |-> FALSE]]
        /\ Set(w, [op[w] EXCEPT !.pc = "wait", !.thread = t])
  BY Zenon DEF Submit
<1> USE DEF IInv, events, anki, history
<1>2. /\ op[w] # Idle /\ op[w] \in Ops /\ op[w].pc = "submit" /\ op[w].kind \in Building
      /\ status' = Rebuilding(op[w].cards)
      /\ UNCHANGED <<admitted, membership, cancel, fired, cancelling, deck, marker, made, loose, adapter,
                     disturbed, crashes>>
  BY InOpType DEF Submit, InOp, Shaped, Shape
<1> DEFINE b == [pc |-> "begin", event |-> cancel, cards |-> op[w].cards, deck |-> None,
                 abandoned |-> FALSE]
           o == [op[w] EXCEPT !.pc = "wait", !.thread = t]
<1>3. /\ b \in Builds /\ b # Free /\ b.pc = "begin" /\ ~b.abandoned /\ b.cards = op[w].cards
      /\ b.event = cancel
  <2>1. op[w].cards \in SUBSET Cards /\ cancel \in 0 .. MaxStarts
    BY <1>2 DEF Ops, TypeOK
  <2>2. b \in Builds /\ b.pc = "begin" /\ ~b.abandoned /\ b.cards = op[w].cards /\ b.event = cancel
    BY <2>1 DEF Builds
  <2> HIDE DEF b
  <2> QED
    BY <2>2, NotFree
<1>4. /\ o \in Ops /\ o # Idle /\ o.pc = "wait" /\ o.thread = t /\ o.kind = op[w].kind
      /\ o.cards = op[w].cards /\ o.full = op[w].full /\ o.failed = op[w].failed
  <2>1. o \in Ops /\ o.pc = "wait" /\ o.thread = t /\ o.kind = op[w].kind
        /\ o.cards = op[w].cards /\ o.full = op[w].full /\ o.failed = op[w].failed
    BY <1>2 DEF Ops
  <2> HIDE DEF o
  <2> QED
    BY <2>1, NotIdle
<1>5. /\ build' \in [Threads -> Builds \cup {Free}] /\ build'[t] = b
      /\ \A u \in Threads \ {t} : build'[u] = build[u]
  BY <1>1, <1>3 DEF TypeOK
<1>6. Set(w, o)
  BY <1>1
<1> HIDE DEF b, o
<1>7. op' \in [Workers -> Ops \cup {Idle}] /\ op'[w] = o /\ \A v \in Workers \ {w} : op'[v] = op[v]
  BY <1>4, <1>6, SetStep
<1>8. status' \in Statuses /\ ~status'.active
  BY <1>2, StatusType DEF Ops
<1>9. TypeOK'
  BY <1>2, <1>5, <1>7, <1>8 DEF TypeOK
<1>10. Shaped' /\ OwnDecks'
  <2>1. Shape(o)
    BY <1>2, <1>4 DEF Shape
  <2>2. Shaped'
    BY <1>7, <2>1 DEF Shaped, Shape
  <2> QED
    BY <1>2, <1>3, <1>5, <2>2, SameAdapter DEF OwnDecks, OwnMarker, OwnDeck, NotOurs, OwnBuild
<1>11. Counted'
  <2>1. \A v \in Workers : Takes(op'[v]) => Takes(op[v])
    BY <1>4, <1>7 DEF Takes
  <2> QED
    BY <1>2, <2>1, FewerTakers
<1>12. ASSUME NEW v \in Workers \ {w}, InOp(v, "wait")'
       PROVE  InOp(v, "wait") /\ op'[v] = op[v] /\ op[v].thread \in Threads \ {t}
  <2>1. op'[v] = op[v] /\ InOp(v, "wait")
    BY <1>7, <1>12 DEF InOp
  <2>2. op[v].thread \in Threads /\ build[op[v].thread] # Free
    BY <2>1 DEF Waiting, InOp, Shaped, Shape
  <2> QED
    BY <1>1, <2>1, <2>2
<1>13. Waiting'
  <2> SUFFICES ASSUME NEW v \in Workers, InOp(v, "wait")'
               PROVE  /\ build'[op'[v].thread] # Free /\ ~build'[op'[v].thread].abandoned
                      /\ \A x \in Workers : InOp(x, "wait")' /\ op'[x].thread = op'[v].thread => x = v
    BY DEF Waiting
  <2>1. CASE v = w
    BY <1>3, <1>4, <1>5, <1>7, <1>12, <2>1
  <2>2. CASE v # w
    <3>1. InOp(v, "wait") /\ op'[v] = op[v] /\ op[v].thread \in Threads \ {t}
      BY <1>12, <2>2
    <3>2. build'[op'[v].thread] # Free /\ ~build'[op'[v].thread].abandoned
      BY <1>5, <3>1 DEF Waiting
    <3>3. ASSUME NEW x \in Workers, InOp(x, "wait")', op'[x].thread = op'[v].thread PROVE x = v
      <4>1. x # w
        BY <1>4, <1>7, <3>1, <3>3
      <4> QED
        BY <1>12, <3>1, <3>3, <4>1 DEF Waiting
    <3> QED
      BY <3>2, <3>3
  <2> QED
    BY <2>1, <2>2
<1>14. ~disturbed => /\ \A v \in Workers \ {w} : op[v] = Idle /\ op'[v] = Idle
                     /\ \A u \in Threads : build[u] = Free
  BY <1>2, <1>7, Solo, NoBuild DEF InOp
<1>15. Alone' /\ Late'
  <2> SUFFICES ASSUME ~disturbed PROVE Alone' /\ Late'
    BY <1>2 DEF Alone, Late
  <2>1. op'[w].pc = "wait" /\ op'[w].thread = t /\ op'[w] # Idle
    BY <1>4, <1>7
  <2>2. \A u \in Threads : build'[u] # Free => u = t /\ ~build'[u].abandoned
    BY <1>3, <1>5, <1>14
  <2> QED
    BY <1>14, <2>1, <2>2 DEF Alone, Late, InOp
<1>16. Built'
  <2>1. Works(build[op[w].thread], op[w])'
    BY <1>2, <1>3, <1>4, <1>5, <1>7 DEF Works
  <2> QED
    BY <1>2, <1>14, <2>1 DEF Built, InOp
<1>17. Announced'
  <2>1. ~disturbed => Told(op[w])
    BY <1>2, ToldNow
  <2>2. ~disturbed => Told(op[w])'
    BY <1>2, <1>4, <1>7, <1>8, <2>1 DEF Told
  <2> QED
    BY <1>2, <1>4, <1>7, <1>14, <2>2 DEF Announced
<1>18. CardsStayFindable'
  BY <1>2 DEF CardsStayFindable, Owned
<1> QED
  BY <1>9, <1>10, <1>11, <1>13, <1>15, <1>16, <1>17, <1>18

LEMMA FailStep ==
  ASSUME TypeOK, NEW w \in Workers, op[w] \in Ops, Fail(w)
  PROVE  \E o \in Ops \cup {Idle} :
           /\ Set(w, o)
           /\ o # Idle => o.pc = "find" /\ o.failed /\ o.kind = "start" /\ o.cards = {}
<1>1. CASE op[w].kind = "start"
  <2> DEFINE o == [op[w] EXCEPT !.pc = "find", !.failed = TRUE, !.thread = None, !.cards = {}]
  <2>1. o \in Ops /\ o.pc = "find" /\ o.failed /\ o.kind = "start" /\ o.cards = {}
    BY <1>1 DEF Ops
  <2>2. Set(w, o)
    BY <1>1 DEF Fail
  <2> HIDE DEF o
  <2> QED
    BY <2>1, <2>2
<1>2. CASE op[w].kind # "start"
  BY <1>2 DEF Fail, Return
<1> QED
  BY <1>1, <1>2

\* A request no longer waits for its thread.
LEMMA LeftThread ==
  ASSUME IInv, NEW w \in Workers, InOp(w, "wait"), NEW t \in Threads, op[w].thread = t,
         NEW o \in Ops \cup {Idle}, Set(w, o), o # Idle => Shape(o) /\ o.pc \in {"find", "top", "finish"},
         build' \in [Threads -> Builds \cup {Free}],
         \A u \in Threads \ {t} : build'[u] = build[u], OwnBuild(build[t])',
         UNCHANGED <<status, admitted, membership, cancel, cancelling, deck, marker, made, loose, adapter,
                     disturbed, crashes>>,
         fired' \subseteq 0 .. MaxStarts,
         ~disturbed => \/ build'[t] = Free
                       \/ /\ build'[t].abandoned /\ (op'[w] = Idle \/ op'[w].failed)
                          /\ Lags(build[t])',
         ~disturbed => (op[w] = Idle => StatusTrue)' /\ (op[w] # Idle => Told(op[w]))'
  PROVE  IInv'
<1> USE DEF IInv
<1>1. op[w] # Idle /\ op[w].pc = "wait"
  BY DEF InOp
<1>2. op' \in [Workers -> Ops \cup {Idle}] /\ op'[w] = o /\ \A v \in Workers \ {w} : op'[v] = op[v]
  BY SetStep
<1>3. TypeOK'
  BY <1>2 DEF TypeOK
<1>4. Shaped' /\ OwnDecks'
  <2>1. Shaped'
    BY <1>2 DEF Shaped, Shape
  <2>2. ASSUME NEW u \in Threads PROVE OwnBuild(build[u])'
    BY SameAdapter DEF OwnDecks, OwnBuild
  <2> QED
    BY <2>1, <2>2, SameAdapter DEF OwnDecks, OwnMarker, OwnDeck, NotOurs
<1>5. Counted'
  <2>1. \A v \in Workers : Takes(op'[v]) => Takes(op[v])
    BY <1>2 DEF Takes
  <2> QED
    BY <2>1, FewerTakers
<1>6. ASSUME NEW v \in Workers, InOp(v, "wait")'
      PROVE  v # w /\ InOp(v, "wait") /\ op'[v] = op[v] /\ op[v].thread \in Threads \ {t}
  <2>1. v # w /\ op'[v] = op[v] /\ InOp(v, "wait")
    BY <1>2, <1>6 DEF InOp
  <2>2. op[v].thread \in Threads
    BY <2>1 DEF InOp, Shaped, Shape
  <2> QED
    BY <1>1, <2>1, <2>2 DEF Waiting
<1>7. Waiting'
  <2> SUFFICES ASSUME NEW v \in Workers, InOp(v, "wait")'
               PROVE  /\ build'[op'[v].thread] # Free /\ ~build'[op'[v].thread].abandoned
                      /\ \A x \in Workers : InOp(x, "wait")' /\ op'[x].thread = op'[v].thread => x = v
    BY DEF Waiting
  <2>1. build'[op'[v].thread] = build[op[v].thread] /\ InOp(v, "wait") /\ op'[v] = op[v]
    BY <1>6
  <2> QED
    BY <1>6, <2>1 DEF Waiting
<1>8. CASE disturbed
  BY <1>3, <1>4, <1>5, <1>7, <1>8 DEF Alone, Built, Late, Announced, CardsStayFindable
<1>9. CASE ~disturbed
  <2>1. \A v \in Workers \ {w} : op[v] = Idle /\ op'[v] = Idle
    BY <1>1, <1>2, <1>9, Solo
  <2>2. \A u \in Threads \ {t} : build'[u] = Free
    BY <1>9 DEF Alone, Waiting
  <2>3. Alone' /\ Late'
    BY <1>9, <2>1, <2>2 DEF Alone, Late
  <2>4. Built'
    BY <1>6, <2>1 DEF Built, InOp
  <2>5. Announced'
    BY <1>9, <2>1 DEF Announced
  <2>6. CardsStayFindable'
    BY <1>9 DEF CardsStayFindable, Owned
  <2> QED
    BY <1>3, <1>4, <1>5, <1>7, <2>3, <2>4, <2>5, <2>6
<1> QED
  BY <1>8, <1>9

LEMMA CollectInv ==
  ASSUME IInv, NEW w \in Workers, Collect(w)
  PROVE  IInv'
<1> USE DEF IInv, events, anki, history
<1>1. PICK t \in Threads : t = op[w].thread
  BY DEF Collect, InOp, Shaped, Shape
<1>2. /\ InOp(w, "wait") /\ op[w] # Idle /\ op[w] \in Ops /\ op[w].pc = "wait" /\ op[w].kind \in Building
      /\ build[t].pc \in {"done", "failed"}
      /\ build' = [build EXCEPT ![t] = Free]
      /\ UNCHANGED <<status, admitted, membership, cancel, fired, cancelling, deck, marker, made, loose, adapter,
                     disturbed, crashes>>
  BY <1>1, InOpType DEF Collect, InOp, Shaped, Shape
<1>3. /\ build' \in [Threads -> Builds \cup {Free}] /\ build'[t] = Free
      /\ \A u \in Threads \ {t} : build'[u] = build[u]
      /\ OwnBuild(build[t])'
  BY <1>2 DEF TypeOK, OwnBuild
<1>4. fired' \subseteq 0 .. MaxStarts /\ disturbed' \in BOOLEAN
  BY <1>2 DEF TypeOK
<1>5. ~disturbed => /\ status = Rebuilding(op[w].cards) /\ ~status.active /\ op[w].failed = FALSE
                    /\ op[w].kind = "refuse" => op[w].cards = op[w].full
                    /\ op[w].kind \in {"admit", "refuse"} => admitted = None
                    /\ build[t].pc = "done" => Stands(op[w].cards)
  BY <1>1, <1>2, ToldNow DEF Told, Built, Works, Ops, Rebuilding
<1>6. CASE Fail(w)
  <2>1. PICK o \in Ops \cup {Idle} : Set(w, o) /\ (o # Idle => o.pc = "find" /\ o.failed /\ o.kind = "start" /\ o.cards = {})
    BY <1>2, <1>6, FailStep
  <2>2. op'[w] = o
    BY <2>1, SetStep
  <2>3. ~disturbed => StatusTrue' /\ (op[w] # Idle => Told(op[w]))'
    BY <1>2, <1>5, <2>1, <2>2 DEF StatusTrue, Told
  <2>4. o # Idle => Shape(o)
    BY <2>1 DEF Shape
  <2> QED
    BY <1>1, <1>2, <1>3, <1>4, <2>1, <2>3, <2>4, LeftThread
<1>7. CASE build[t].pc = "done" /\ Set(w, [op[w] EXCEPT !.pc = IF op[w].kind = "admit" THEN "top" ELSE "finish",
                                                !.thread = None])
  <2> DEFINE pc == IF op[w].kind = "admit" THEN "top" ELSE "finish"
             o == [op[w] EXCEPT !.pc = pc, !.thread = None]
  <2>1. pc \in {"top", "finish"} /\ (pc = "top" <=> op[w].kind = "admit")
    OBVIOUS
  <2> HIDE DEF pc
  <2>2. o \in Ops /\ o.pc = pc /\ o.kind = op[w].kind /\ o.cards = op[w].cards /\ o.full = op[w].full
        /\ o.failed = op[w].failed
    BY <1>2, <2>1 DEF Ops
  <2>3. Set(w, o)
    BY <1>7 DEF pc
  <2> HIDE DEF o
  <2>4. Shape(o)
    BY <1>2, <2>1, <2>2 DEF Shape
  <2>5. op'[w] = o
    BY <2>2, <2>3, SetStep
  <2>6. ~disturbed => Stands(op[w].cards)'
    BY <1>2, <1>5, <1>7, <2>2, <2>5 DEF Stands, Owned, Saving
  <2>7. ~disturbed => Told(op[w])'
    BY <1>2, <1>5, <2>1, <2>2, <2>5, <2>6 DEF Told
  <2>8. op'[w] # Idle
    BY <2>2, <2>5, NotIdle
  <2> QED
    BY <1>1, <1>2, <1>3, <1>4, <2>1, <2>2, <2>3, <2>4, <2>7, <2>8, LeftThread
<1> QED
  BY <1>1, <1>2, <1>6, <1>7 DEF Collect

LEMMA TimeoutInv ==
  ASSUME IInv, NEW w \in Workers, Timeout(w)
  PROVE  IInv'
<1> USE DEF IInv, events, anki, history
<1>1. PICK t \in Threads : t = op[w].thread
  BY DEF Timeout, InOp, Shaped, Shape
<1>2. /\ InOp(w, "wait") /\ op[w] # Idle /\ op[w] \in Ops /\ op[w].pc = "wait"
      /\ build[t].pc \notin {"done", "failed"}
      /\ build' = [build EXCEPT ![t].abandoned = TRUE] /\ Fail(w)
      /\ fired' = fired \cup {cancel}
      /\ UNCHANGED <<status, admitted, membership, cancel, cancelling, deck, marker, made, loose, adapter,
                     disturbed, crashes>>
  BY <1>1, InOpType DEF Timeout, InOp
<1>3. build[t] \in Builds
  BY <1>1, <1>2, BuildType DEF Waiting
<1>4. [build[t] EXCEPT !.abandoned = TRUE] \in Builds
  BY <1>3 DEF Builds
<1>5. /\ build' \in [Threads -> Builds \cup {Free}]
      /\ \A u \in Threads \ {t} : build'[u] = build[u]
      /\ build'[t] = [build[t] EXCEPT !.abandoned = TRUE]
  BY <1>2, <1>4 DEF TypeOK
<1>6. build'[t].pc = build[t].pc /\ build'[t].deck = build[t].deck /\ build'[t].event = build[t].event
      /\ build'[t].abandoned
  BY <1>3, <1>5 DEF Builds
<1>7. OwnBuild(build[t])'
  BY <1>2, <1>3, <1>6, NotFree, SameAdapter DEF OwnDecks, OwnBuild
<1>8. fired' \subseteq 0 .. MaxStarts
  BY <1>2 DEF TypeOK
<1>9. PICK o \in Ops \cup {Idle} : Set(w, o) /\ (o # Idle => o.pc = "find" /\ o.failed /\ o.kind = "start" /\ o.cards = {})
  BY <1>2, FailStep
<1>10. (o # Idle => Shape(o)) /\ op'[w] = o /\ \A v \in Workers \ {w} : op'[v] = op[v]
  BY <1>9, SetStep DEF Shape
<1>11. ASSUME ~disturbed
       PROVE  ~status'.active /\ Lags(build[t])'
  <2>1. Works(build[t], op[w]) /\ status = Rebuilding(op[w].cards)
    BY <1>1, <1>2, <1>11, ToldNow DEF Built, Told
  <2>2. ~status'.active
    BY <1>2, <2>1 DEF Rebuilding
  <2>3. \A v \in Workers : ~Cleaning(op'[v])
    BY <1>2, <1>9, <1>10, <1>11, Solo DEF Cleaning
  <2>4. build[t].pc = "mark" => NotOurs \/ deck.id = build[t].deck
    <3>1. CASE build[t].pc = "mark" /\ build[t].deck = Draft
      <4>1. ~Saving
        BY <1>3, <3>1, DeckFacts, NotFree, HandleFacts DEF OwnDecks, OwnBuild, Draft, Handles
      <4> QED
        BY <4>1 DEF OwnDecks, OwnDeck
    <3> QED
      BY <2>1, <3>1 DEF Works
  <2>5. /\ NotOurs' = NotOurs
        /\ build[t].pc = "begin" => build[t].event \in fired'
        /\ build[t].pc = "create" => NotOurs
        /\ build[t].pc = "fill" => marker = build[t].deck
    BY <1>2, <2>1 DEF Works, NotOurs
  <2> QED
    BY <1>2, <1>6, <2>2, <2>3, <2>4, <2>5 DEF Lags
<1>12. ~disturbed => (op[w] = Idle => StatusTrue)' /\ (op[w] # Idle => Told(op[w]))'
  BY <1>9, <1>10, <1>11 DEF StatusTrue, Told
<1>13. /\ o # Idle => Shape(o) /\ o.pc \in {"find", "top", "finish"}
       /\ ~disturbed => /\ build'[t].abandoned /\ (op'[w] = Idle \/ op'[w].failed)
                        /\ Lags(build[t])'
  BY <1>6, <1>9, <1>10, <1>11
<1> QED
  BY <1>1, <1>2, <1>5, <1>7, <1>8, <1>9, <1>12, <1>13, LeftThread

-----------------------------------------------------------------------------
(* admit and restore.                                                      *)

LEMMA AdmitReadsInv ==
  ASSUME IInv, NEW w \in Workers, AdmitReads(w)
  PROVE  IInv'
<1> USE DEF IInv, events, anki, history
<1>1. /\ op[w] # Idle /\ op[w] \in Ops /\ op[w].pc = "select" /\ op[w].kind = "admit"
      /\ UNCHANGED <<status, admitted, membership, cancel, fired, cancelling, build, deck, marker, made, loose, adapter,
                     disturbed, crashes>>
  BY InOpType DEF AdmitReads, InOp
<1> DEFINE o == [op[w] EXCEPT !.full = status.cards, !.pc = "submit"]
<1>2. status.cards \in SUBSET Cards
  BY DEF TypeOK, Statuses
<1>3. o \in Ops /\ o.pc = "submit" /\ o.kind = "admit" /\ o.failed = op[w].failed
  BY <1>1, <1>2 DEF Ops
<1>4. Set(w, o)
  BY DEF AdmitReads
<1> HIDE DEF o
<1>5. op'[w] = o /\ op'[w] # Idle
  <2>1. op'[w] = o
    BY <1>3, <1>4, SetStep
  <2> QED
    BY <1>3, <2>1, NotIdle
<1>6. Shape(o) /\ ~Takes(o)
  BY <1>3 DEF Shape, Takes, Building
<1>7. ~disturbed => op[w].failed = FALSE /\ admitted = None
  BY <1>1, ToldNow DEF Told, Ops
<1>8. ~disturbed => Told(op[w])'
  BY <1>1, <1>3, <1>5, <1>7 DEF Told
<1>9. status' \in Statuses /\ admitted' \in Cards \cup {None} /\ membership' \in SUBSET Cards
  BY <1>1 DEF TypeOK
<1> QED
  BY <1>1, <1>3, <1>4, <1>5, <1>6, <1>8, <1>9, Stepped

LEMMA AdmitBuiltInv ==
  ASSUME IInv, NEW w \in Workers, AdmitBuilt(w)
  PROVE  IInv'
<1> USE DEF IInv, events, anki, history
<1>1. /\ op[w] # Idle /\ op[w] \in Ops /\ op[w].pc = "top" /\ op[w].kind = "admit"
      /\ status' = Running(op[w].cards) /\ membership' = op[w].full
      /\ UNCHANGED <<admitted, cancel, fired, cancelling, build, deck, marker, made, loose, adapter,
                     disturbed, crashes>>
  BY InOpType DEF AdmitBuilt, InOp, Shaped, Shape
<1> DEFINE o == [op[w] EXCEPT !.pc = "finish"]
<1>2. /\ o \in Ops /\ o.pc = "finish" /\ o.kind = "admit" /\ o.failed = op[w].failed
      /\ o.cards = op[w].cards /\ o.full = op[w].full
  BY <1>1 DEF Ops
<1>3. Set(w, o)
  BY DEF AdmitBuilt, Goto
<1> HIDE DEF o
<1>4. op'[w] = o /\ op'[w] # Idle
  <2>1. op'[w] = o
    BY <1>2, <1>3, SetStep
  <2> QED
    BY <1>2, <2>1, NotIdle
<1>5. Shape(o) /\ ~Takes(o)
  BY <1>2 DEF Shape, Takes
<1>6. ~disturbed => op[w].failed = FALSE /\ Stands(op[w].cards) /\ admitted = None
  BY <1>1, ToldNow DEF Told, Ops
<1>7. ~disturbed => Stands(op[w].cards)'
  BY <1>1, <1>2, <1>4, <1>6 DEF Stands, Owned, Saving
<1>8. ~disturbed => Told(op[w])'
  BY <1>1, <1>2, <1>4, <1>6, <1>7 DEF Told
<1>9. status' \in Statuses /\ admitted' \in Cards \cup {None} /\ membership' \in SUBSET Cards
  BY <1>1, StatusType DEF TypeOK, Ops
<1> QED
  BY <1>1, <1>2, <1>3, <1>4, <1>5, <1>8, <1>9, Stepped

LEMMA AdmittedInv ==
  ASSUME IInv, NEW w \in Workers, Admitted(w)
  PROVE  IInv'
<1> USE DEF IInv, events, anki, history
<1>1. /\ op[w] # Idle /\ op[w] \in Ops /\ op[w].pc = "finish" /\ op[w].kind = "admit"
      /\ Set(w, Idle) /\ admitted' \in op[w].cards
      /\ UNCHANGED <<status, membership, cancel, fired, cancelling, build, deck, marker, made, loose, adapter,
                     disturbed, crashes>>
  BY InOpType DEF Admitted, InOp, Return
<1>2. op'[w] = Idle
  BY <1>1, SetStep
<1>3. ~disturbed => Stands(op[w].cards) /\ status = Running(op[w].cards)
  BY <1>1, ToldNow DEF Told
<1>4. ~disturbed => StatusTrue'
  BY <1>1, <1>3 DEF StatusTrue, Stands, Owned, Saving, Running
<1>5. status' \in Statuses /\ admitted' \in Cards \cup {None} /\ membership' \in SUBSET Cards
  BY <1>1 DEF TypeOK, Ops
<1> QED
  BY <1>1, <1>2, <1>4, <1>5, Stepped

LEMMA RefusedInv ==
  ASSUME IInv, NEW w \in Workers, Refused(w)
  PROVE  IInv'
<1> USE DEF IInv, events, anki, history
<1>1. /\ op[w] # Idle /\ op[w] \in Ops /\ op[w].pc = "finish" /\ op[w].kind = "admit"
      /\ UNCHANGED <<status, admitted, membership, cancel, fired, cancelling, build, deck, marker, made, loose, adapter,
                     disturbed, crashes>>
  BY InOpType DEF Refused, InOp
<1> DEFINE pc == IF membership = {} THEN "finish" ELSE "submit"
           o == [op[w] EXCEPT !.kind = "refuse", !.cards = membership, !.pc = pc]
<1>2. pc \in {"finish", "submit"} /\ (pc = "finish" => membership = {})
  OBVIOUS
<1> HIDE DEF pc
<1>3. /\ o \in Ops /\ o.pc = pc /\ o.kind = "refuse" /\ o.failed = op[w].failed
      /\ o.cards = membership /\ o.full = op[w].full
  BY <1>1, <1>2 DEF Ops, TypeOK, Building
<1>4. Set(w, o)
  BY DEF Refused, pc
<1> HIDE DEF o
<1>5. op'[w] = o /\ op'[w] # Idle
  <2>1. op'[w] = o
    BY <1>3, <1>4, SetStep
  <2> QED
    BY <1>3, <2>1, NotIdle
<1>6. Shape(o) /\ o.pc # "wait" /\ ~Takes(o)
  BY <1>2, <1>3 DEF Shape, Takes, Building
<1>7. ~disturbed => op[w].failed = FALSE /\ membership = op[w].full /\ admitted = None
  BY <1>1, ToldNow DEF Told, Ops
<1>8. ~disturbed => Told(op[w])'
  BY <1>1, <1>2, <1>3, <1>5, <1>7 DEF Told
<1>9. status' \in Statuses /\ admitted' \in Cards \cup {None} /\ membership' \in SUBSET Cards
  BY <1>1 DEF TypeOK
<1> QED
  BY <1>1, <1>3, <1>4, <1>5, <1>6, <1>8, <1>9, Stepped

LEMMA TopFailsInv ==
  ASSUME IInv, NEW w \in Workers, TopFails(w)
  PROVE  IInv'
<1> USE DEF IInv, events, anki, history
<1>1. /\ op[w] # Idle /\ op[w].pc = "finish" /\ op[w].kind = "admit" /\ Set(w, Idle)
      /\ UNCHANGED <<status, admitted, membership, cancel, fired, cancelling, build, deck, marker, made,
                     loose, adapter, disturbed, crashes>>
  BY DEF TopFails, InOp, Return
<1>2. op'[w] = Idle
  BY <1>1, SetStep
<1>3. ~disturbed => Stands(op[w].cards) /\ status = Running(op[w].cards)
  BY <1>1, ToldNow DEF Told
<1>4. ~disturbed => StatusTrue'
  BY <1>1, <1>3 DEF StatusTrue, Stands, Owned, Saving, Running
<1>5. status' \in Statuses /\ admitted' \in Cards \cup {None} /\ membership' \in SUBSET Cards
  BY <1>1 DEF TypeOK
<1> QED
  BY <1>1, <1>2, <1>4, <1>5, Stepped

LEMMA RestoredInv ==
  ASSUME IInv, NEW w \in Workers, Restored(w)
  PROVE  IInv'
<1> USE DEF IInv, events, anki, history
<1>1. /\ op[w] # Idle /\ op[w] \in Ops /\ op[w].pc = "finish" /\ op[w].kind \in Building
      /\ Set(w, Idle) /\ status' = Running(op[w].cards) /\ admitted' = None /\ membership' = {}
      /\ UNCHANGED <<cancel, fired, cancelling, build, deck, marker, made, loose, adapter, disturbed, crashes>>
  BY InOpType DEF Restored, InOp, Return, Building
<1>2. status' \in Statuses /\ status'.cards = op[w].cards /\ (status'.created => op[w].cards # {})
  BY <1>1, StatusType DEF Ops
<1>3. ~disturbed => StatusTrue'
  BY <1>1, <1>2, ToldNow DEF Told, StatusTrue, Stands, Owned, Saving
<1>4. op'[w] = Idle /\ admitted' \in Cards \cup {None} /\ membership' \in SUBSET Cards
  BY <1>1, SetStep
<1> QED
  BY <1>1, <1>2, <1>3, <1>4, Stepped
-----------------------------------------------------------------------------
(* pause, stop, and the cleanup of the deck.                               *)

LEMMA FindOwnedInv ==
  ASSUME IInv, NEW w \in Workers, FindOwned(w)
  PROVE  IInv'
<1> USE DEF IInv, events, anki, history
<1>1. /\ op[w] # Idle /\ op[w] \in Ops /\ op[w].pc = "find"
      /\ UNCHANGED <<status, admitted, membership, cancel, fired, cancelling, build, deck, marker, made, loose, adapter,
                     disturbed, crashes>>
  BY InOpType DEF FindOwned, InOp
<1>2. op[w].kind \in Endings \/ (op[w].kind = "start" /\ op[w].cards = {})
  BY <1>1 DEF Shaped, Shape
<1>3. ~disturbed => (op[w].failed => ~status.active)
  BY <1>1, ToldNow DEF Told
<1>4. status' \in Statuses /\ admitted' \in Cards \cup {None} /\ membership' \in SUBSET Cards
  BY <1>1 DEF TypeOK
<1>5. CASE Owned /\ Set(w, [op[w] EXCEPT !.pc = "empty", !.deck = deck.id])
  <2> DEFINE o == [op[w] EXCEPT !.pc = "empty", !.deck = deck.id]
  <2>1. deck.id \in DeckIds /\ deck.id \in 1 .. MaxDecks
    BY <1>5, OwnedDeck, DeckFacts DEF OwnDecks
  <2>2. /\ o \in Ops /\ o.pc = "empty" /\ o.kind = op[w].kind /\ o.failed = op[w].failed
        /\ o.cards = op[w].cards /\ o.deck \in 1 .. MaxDecks
    BY <1>1, <2>1 DEF Ops
  <2>3. Set(w, o)
    BY <1>5
  <2> HIDE DEF o
  <2>4. Shape(o) /\ ~Takes(o)
    BY <1>2, <2>2 DEF Shape, Takes
  <2>5. op'[w] = o
    BY <2>2, <2>3, SetStep
  <2>6. op'[w] # Idle
    BY <2>2, <2>5, NotIdle
  <2>7. o.kind \notin {"admit", "refuse"}
    BY <1>2, <2>2, KindFacts DEF Building
  <2>8. ~disturbed => Told(op[w])'
    BY <1>1, <1>3, <2>2, <2>5, <2>7 DEF Told
  <2> QED
    BY <1>1, <1>4, <1>5, <2>2, <2>3, <2>4, <2>6, <2>8, Stepped
<1>6. CASE op[w].failed /\ Return(w)
  <2>1. Set(w, Idle) /\ op'[w] = Idle
    BY <1>6, SetStep DEF Return
  <2>2. ~disturbed => StatusTrue'
    BY <1>1, <1>3, <1>6 DEF StatusTrue
  <2> QED
    BY <1>1, <1>4, <2>1, <2>2, Stepped
<1>7. CASE ~op[w].failed /\ Goto(w, "finish")
  <2> DEFINE o == [op[w] EXCEPT !.pc = "finish"]
  <2>1. /\ o \in Ops /\ o.pc = "finish" /\ o.kind = op[w].kind /\ o.failed = FALSE
        /\ o.cards = op[w].cards
    BY <1>1, <1>7 DEF Ops
  <2>2. Set(w, o)
    BY <1>7 DEF Goto
  <2> HIDE DEF o
  <2>3. Shape(o) /\ ~Takes(o)
    BY <1>2, <2>1 DEF Shape, Takes
  <2>4. op'[w] = o
    BY <2>1, <2>2, SetStep
  <2>5. op'[w] # Idle
    BY <2>1, <2>4, NotIdle
  <2>6. o.kind # "refuse" /\ o.kind # "admit" /\ (o.kind \in Building => o.cards = {})
    BY <1>2, <2>1, KindFacts DEF Building
  <2>7. ~disturbed => Told(op[w])'
    BY <2>1, <2>4, <2>6 DEF Told
  <2> QED
    BY <1>1, <1>4, <1>7, <2>1, <2>2, <2>3, <2>5, <2>7, Stepped
<1> QED
  BY <1>5, <1>6, <1>7 DEF FindOwned

\* A request that goes on to its next step: who it is does not change.
LEMMA GoneTo ==
  ASSUME TypeOK, NEW w \in Workers, op[w] \in Ops,
         NEW pc \in {"empty", "delete", "unmark", "finish", "name"}, Goto(w, pc)
  PROVE  /\ op' \in [Workers -> Ops \cup {Idle}] /\ op'[w] # Idle /\ op'[w] \in Ops
         /\ \A v \in Workers \ {w} : op'[v] = op[v]
         /\ op'[w].pc = pc /\ op'[w].kind = op[w].kind /\ op'[w].failed = op[w].failed
         /\ op'[w].cards = op[w].cards /\ op'[w].full = op[w].full /\ op'[w].deck = op[w].deck
<1> DEFINE o == [op[w] EXCEPT !.pc = pc]
<1>1. /\ o \in Ops /\ o.pc = pc /\ o.kind = op[w].kind /\ o.failed = op[w].failed
      /\ o.cards = op[w].cards /\ o.full = op[w].full /\ o.deck = op[w].deck
  BY DEF Ops
<1>2. Set(w, o)
  BY DEF Goto
<1> HIDE DEF o
<1> QED
  BY <1>1, <1>2, SetStep, NotIdle

\* A cleanup beside the build its request gave up.
LEMMA Cleans ==
  ASSUME IInv, ~disturbed, NEW w \in Workers, op[w] # Idle, Cleaning(op[w]),
         NEW t \in Threads, build[t] # Free
  PROVE  /\ op[w].failed /\ Lags(build[t]) /\ build[t].pc # "create"
         /\ \A v \in Workers \ {w} : op[v] = Idle
<1> USE DEF IInv
<1>1. build[t].abandoned /\ op[w].failed /\ \A v \in Workers \ {w} : op[v] = Idle
  BY Solo DEF Cleaning, InOp
<1> QED
  BY <1>1 DEF Late, Lags

LEMMA EmptyDeckInv ==
  ASSUME IInv, NEW w \in Workers, EmptyDeck(w)
  PROVE  IInv'
<1> USE DEF IInv, events, anki, history
<1>1. /\ op[w] # Idle /\ op[w] \in Ops /\ op[w].pc = "empty" /\ op[w].deck \in 1 .. MaxDecks
      /\ deck.id = op[w].deck /\ deck' = [deck EXCEPT !.cards = {}] /\ Goto(w, "delete")
      /\ UNCHANGED <<status, admitted, membership, cancel, fired, cancelling, build, marker, made, loose, adapter,
                     disturbed, crashes>>
  BY InOpType DEF EmptyDeck, InOp, Shaped, Shape
<1>2. op[w].kind \in Endings \/ (op[w].kind = "start" /\ op[w].cards = {})
  BY <1>1 DEF Shaped, Shape
<1>3. deck \in Decks
  BY <1>1, DeckFacts DEF TypeOK
<1>4. deck' \in Decks /\ deck'.cards = {} /\ deck'.id = deck.id
  BY <1>1, <1>3 DEF Decks
<1>5. /\ op' \in [Workers -> Ops \cup {Idle}] /\ op'[w] # Idle
      /\ \A v \in Workers \ {w} : op'[v] = op[v]
      /\ op'[w].pc = "delete" /\ op'[w].kind = op[w].kind /\ op'[w].failed = op[w].failed
      /\ op'[w].cards = op[w].cards /\ op'[w].deck = op[w].deck
  BY <1>1, GoneTo
<1>6. (op[w] # Idle => Shape(op[w]) /\ op[w].pc # "wait")'
  BY <1>1, <1>2, <1>5 DEF Shape
<1>7. Counted'
  <2>1. \A v \in Workers : Takes(op'[v]) => Takes(op[v])
    BY <1>5 DEF Takes
  <2> QED
    BY <1>1, <2>1, FewerTakers
<1>8. ~disturbed => Told(op[w])'
  <2>1. op[w].kind \notin {"admit", "refuse"}
    BY <1>2, KindFacts DEF Building
  <2>2. ~disturbed => (op[w].failed => ~status.active)
    BY <1>1, ToldNow DEF Told
  <2> QED
    BY <1>1, <1>5, <2>1, <2>2 DEF Told
<1>9. CardsStayFindable'
  BY <1>4 DEF CardsStayFindable
<1>10. /\ status' \in Statuses /\ admitted' \in Cards \cup {None} /\ membership' \in SUBSET Cards
       /\ cancel' \in 0 .. MaxStarts /\ fired' \subseteq 0 .. MaxStarts /\ cancelling' \in BOOLEAN
       /\ OwnMarker' /\ made' \in 0 .. MaxDecks /\ disturbed' \in BOOLEAN
  BY <1>1, SameAdapter DEF TypeOK, OwnDecks, OwnMarker
<1>11. NotOurs' = NotOurs
  BY <1>3, <1>4, DeckFacts DEF NotOurs
<1>12. OwnDeck'
  BY <1>1, <1>11, SameAdapter DEF OwnDecks, OwnDeck
<1>13. ASSUME ~disturbed, NEW t \in Threads, build[t] # Free
       PROVE  op'[w].failed /\ Lags(build[t])'
  <2>1. op[w].failed /\ Lags(build[t]) /\ build[t].pc # "create"
    BY <1>1, <1>13, Cleans DEF Cleaning
  <2> QED
    BY <1>1, <1>4, <1>5, <1>11, <2>1 DEF Lags
<1> QED
  BY <1>1, <1>4, <1>5, <1>6, <1>7, <1>8, <1>9, <1>10, <1>12, <1>13, Moved

LEMMA DeleteDeckInv ==
  ASSUME IInv, NEW w \in Workers, DeleteDeck(w)
  PROVE  IInv'
<1> USE DEF IInv, events, anki, history
<1>1. /\ op[w] # Idle /\ op[w] \in Ops /\ op[w].pc = "delete"
      /\ deck' = NoDeck /\ Goto(w, "unmark")
      /\ UNCHANGED <<status, admitted, membership, cancel, fired, cancelling, build, marker, made, loose, adapter,
                     disturbed, crashes>>
  BY InOpType DEF DeleteDeck, InOp
<1>2. op[w].kind \in Endings \/ (op[w].kind = "start" /\ op[w].cards = {})
  BY <1>1 DEF Shaped, Shape
<1>3. /\ op' \in [Workers -> Ops \cup {Idle}] /\ op'[w] # Idle
      /\ \A v \in Workers \ {w} : op'[v] = op[v]
      /\ op'[w].pc = "unmark" /\ op'[w].kind = op[w].kind /\ op'[w].failed = op[w].failed
      /\ op'[w].cards = op[w].cards
  BY <1>1, GoneTo
<1>4. (op[w] # Idle => Shape(op[w]) /\ op[w].pc # "wait")'
  BY <1>1, <1>2, <1>3 DEF Shape
<1>5. Counted'
  <2>1. \A v \in Workers : Takes(op'[v]) => Takes(op[v])
    BY <1>3 DEF Takes
  <2> QED
    BY <1>1, <2>1, FewerTakers
<1>6. ~disturbed => Told(op[w])'
  <2>1. op[w].kind \notin {"admit", "refuse"} /\ NotOurs'
    BY <1>1, <1>2, KindFacts DEF Building, NotOurs
  <2>2. ~disturbed => (op[w].failed => ~status.active)
    BY <1>1, ToldNow DEF Told
  <2> QED
    BY <1>1, <1>3, <2>1, <2>2 DEF Told
<1>7. CardsStayFindable'
  BY <1>1 DEF CardsStayFindable
<1>8. /\ status' \in Statuses /\ admitted' \in Cards \cup {None} /\ membership' \in SUBSET Cards
      /\ cancel' \in 0 .. MaxStarts /\ fired' \subseteq 0 .. MaxStarts /\ cancelling' \in BOOLEAN
      /\ OwnMarker' /\ OwnDeck' /\ made' \in 0 .. MaxDecks /\ disturbed' \in BOOLEAN
  BY <1>1, SameAdapter DEF TypeOK, OwnDecks, OwnMarker, OwnDeck, NotOurs
<1>9. ASSUME ~disturbed, NEW t \in Threads, build[t] # Free
      PROVE  op'[w].failed /\ Lags(build[t])'
  <2>1. op[w].failed /\ Lags(build[t]) /\ build[t].pc # "create"
    BY <1>1, <1>9, Cleans DEF Cleaning
  <2> QED
    BY <1>1, <1>3, <2>1 DEF Lags, NotOurs
<1> QED
  BY <1>1, <1>3, <1>4, <1>5, <1>6, <1>7, <1>8, <1>9, Moved

LEMMA DropMarkerInv ==
  ASSUME IInv, NEW w \in Workers, DropMarker(w)
  PROVE  IInv'
<1> USE DEF IInv, events, anki, history
<1>1. /\ op[w] # Idle /\ op[w] \in Ops /\ op[w].pc = "unmark" /\ marker' = None
      /\ UNCHANGED <<status, admitted, membership, cancel, fired, cancelling, build, deck, made, loose, adapter,
                     disturbed, crashes>>
  BY InOpType DEF DropMarker, InOp
<1>2. op[w].kind \in Endings \/ (op[w].kind = "start" /\ op[w].cards = {})
  BY <1>1 DEF Shaped, Shape
<1>3. ~disturbed => /\ op[w].failed => ~status.active
                    /\ NotOurs
  BY <1>1, ToldNow DEF Told
<1>4. PICK o \in Ops \cup {Idle} :
        /\ Set(w, o)
        /\ o = Idle => op[w].failed
        /\ o # Idle => o.pc = "finish" /\ ~o.failed /\ o.kind = op[w].kind /\ o.cards = op[w].cards
  <2>1. CASE op[w].failed
    BY <2>1 DEF DropMarker, Return
  <2>2. CASE ~op[w].failed
    <3> DEFINE o == [op[w] EXCEPT !.pc = "finish", !.deck = None]
    <3>1. o \in Ops /\ o.pc = "finish" /\ ~o.failed /\ o.kind = op[w].kind /\ o.cards = op[w].cards
      BY <1>1, <2>2 DEF Ops
    <3>2. Set(w, o)
      BY <2>2 DEF DropMarker
    <3> HIDE DEF o
    <3>3. o # Idle
      BY <3>1, NotIdle
    <3> QED
      BY <3>1, <3>2, <3>3
  <2> QED
    BY <2>1, <2>2
<1>5. op' \in [Workers -> Ops \cup {Idle}] /\ op'[w] = o /\ \A v \in Workers \ {w} : op'[v] = op[v]
  BY <1>4, SetStep
<1>6. (op[w] # Idle => Shape(op[w]) /\ op[w].pc # "wait")'
  BY <1>2, <1>4, <1>5 DEF Shape
<1>7. Counted'
  <2>1. \A v \in Workers : Takes(op'[v]) => Takes(op[v])
    BY <1>4, <1>5 DEF Takes
  <2> QED
    BY <1>1, <2>1, FewerTakers
<1>8. ~disturbed => (op[w] = Idle => StatusTrue)'
  BY <1>1, <1>3, <1>4, <1>5 DEF StatusTrue
<1>9. ~disturbed => (op[w] # Idle => Told(op[w]))'
  <2>1. op[w].kind # "refuse" /\ op[w].kind # "admit" /\ (op[w].kind \in Building => op[w].cards = {})
    BY <1>2, KindFacts DEF Building
  <2> QED
    BY <1>4, <1>5, <2>1 DEF Told
<1>10. ~disturbed => CardsStayFindable'
  BY <1>1, <1>3 DEF CardsStayFindable, NotOurs
<1>11. /\ status' \in Statuses /\ admitted' \in Cards \cup {None} /\ membership' \in SUBSET Cards
       /\ cancel' \in 0 .. MaxStarts /\ fired' \subseteq 0 .. MaxStarts /\ cancelling' \in BOOLEAN
       /\ deck' \in Decks \cup {NoDeck} /\ OwnMarker' /\ OwnDeck' /\ made' \in 0 .. MaxDecks
       /\ disturbed' \in BOOLEAN
  BY <1>1, SameAdapter DEF TypeOK, OwnDecks, OwnMarker, OwnDeck, NotOurs
<1>12. ASSUME ~disturbed, NEW t \in Threads, build[t] # Free
       PROVE  op'[w] = Idle /\ Lags(build[t])'
  <2>1. op[w].failed /\ Lags(build[t]) /\ build[t].pc # "create"
    BY <1>1, <1>12, Cleans DEF Cleaning
  <2>2. NotOurs'
    BY <1>1, <1>3, <1>12 DEF NotOurs
  <2>3. op'[w] = Idle
    BY <1>1, <2>1, SetStep DEF DropMarker, Return
  <2> QED
    BY <1>1, <2>1, <2>2, <2>3 DEF Lags
<1> QED
  BY <1>1, <1>5, <1>6, <1>7, <1>8, <1>9, <1>10, <1>11, <1>12, Moved

LEMMA CleanupFailsInv ==
  ASSUME IInv, NEW w \in Workers, CleanupFails(w)
  PROVE  IInv'
<1> USE DEF IInv, events, anki
<1>1. /\ op[w] # Idle /\ op[w].pc # "wait" /\ Set(w, Idle) /\ disturbed' = TRUE
      /\ UNCHANGED <<status, admitted, membership, cancel, fired, cancelling, build, deck, marker, made, loose, adapter,
                     crashes>>
  BY DEF CleanupFails, Return
<1>2. op' \in [Workers -> Ops \cup {Idle}] /\ op'[w] = Idle /\ \A v \in Workers \ {w} : op'[v] = op[v]
  BY <1>1, SetStep
<1>3. Counted'
  <2>1. \A v \in Workers : Takes(op'[v]) => Takes(op[v])
    BY <1>2 DEF Takes
  <2> QED
    BY <1>1, <2>1, FewerTakers
<1>4. /\ status' \in Statuses /\ admitted' \in Cards \cup {None} /\ membership' \in SUBSET Cards
      /\ cancel' \in 0 .. MaxStarts /\ fired' \subseteq 0 .. MaxStarts /\ cancelling' \in BOOLEAN
      /\ deck' \in Decks \cup {NoDeck} /\ OwnMarker' /\ OwnDeck' /\ made' \in 0 .. MaxDecks
  BY <1>1, SameAdapter DEF TypeOK, OwnDecks, OwnMarker, OwnDeck, NotOurs
<1> QED
  BY <1>1, <1>2, <1>3, <1>4, Moved

LEMMA FinishEndInv ==
  ASSUME IInv, NEW w \in Workers, FinishEnd(w)
  PROVE  IInv'
<1> USE DEF IInv, events, anki, history
<1>1. /\ op[w] # Idle /\ op[w] \in Ops /\ op[w].pc = "finish" /\ op[w].kind \in Endings
      /\ status' = Ended("paused")
      /\ UNCHANGED <<admitted, membership, cancel, fired, cancelling, build, deck, marker, made, loose, adapter,
                     disturbed, crashes>>
  BY InOpType DEF FinishEnd, InOp
<1>2. status' \in Statuses /\ ~status'.active
  BY <1>1, StatusType DEF Reasons
<1>3. admitted' \in Cards \cup {None} /\ membership' \in SUBSET Cards
  BY <1>1 DEF TypeOK
<1>4. CASE Return(w)
  <2>1. Set(w, Idle) /\ op'[w] = Idle
    BY <1>4, SetStep DEF Return
  <2> QED
    BY <1>1, <1>2, <1>3, <2>1, Stepped DEF StatusTrue
<1>5. CASE Goto(w, "name")
  <2> DEFINE o == [op[w] EXCEPT !.pc = "name"]
  <2>1. o \in Ops /\ o.pc = "name" /\ o.kind = op[w].kind /\ o.failed = op[w].failed
    BY <1>1 DEF Ops
  <2>2. Set(w, o)
    BY <1>5 DEF Goto
  <2> HIDE DEF o
  <2>3. Shape(o) /\ ~Takes(o)
    BY <1>1, <2>1 DEF Shape, Takes
  <2>4. op'[w] = o
    BY <2>1, <2>2, SetStep
  <2>5. op'[w] # Idle
    BY <2>1, <2>4, NotIdle
  <2>6. o.kind \notin {"admit", "refuse"}
    BY <1>1, <2>1, KindFacts DEF Building
  <2>7. ~disturbed => op[w].failed = FALSE
    BY <1>1, ToldNow DEF Told, Ops
  <2>8. ~disturbed => Told(op[w])'
    BY <2>1, <2>4, <2>6, <2>7 DEF Told
  <2> QED
    BY <1>1, <1>2, <1>3, <2>1, <2>2, <2>3, <2>5, <2>8, Stepped
<1> QED
  BY <1>4, <1>5 DEF FinishEnd

LEMMA NameEndInv ==
  ASSUME IInv, NEW w \in Workers, NameEnd(w)
  PROVE  IInv'
<1> USE DEF IInv, events, anki, history
<1>1. /\ op[w] # Idle /\ op[w].pc = "name" /\ op[w].kind \in Endings
      /\ status' = Ended(op[w].kind) /\ Set(w, Idle)
      /\ UNCHANGED <<admitted, membership, cancel, fired, cancelling, build, deck, marker, made, loose, adapter,
                     disturbed, crashes>>
  BY DEF NameEnd, InOp, Return, Shaped, Shape
<1>2. status' \in Statuses /\ ~status'.active
  BY <1>1, StatusType, KindFacts
<1>3. admitted' \in Cards \cup {None} /\ membership' \in SUBSET Cards
  BY <1>1 DEF TypeOK
<1>4. op'[w] = Idle
  BY <1>1, SetStep
<1> QED
  BY <1>1, <1>2, <1>3, <1>4, Stepped DEF StatusTrue
-----------------------------------------------------------------------------
(* The build threads.                                                      *)

LEMMA Ending ==
  ASSUME TypeOK, NEW t \in Threads, build[t] \in Builds, NEW pc \in {"done", "failed"},
         EndBuild(t, pc)
  PROVE  /\ build' \in [Threads -> Builds \cup {Free}]
         /\ \A u \in Threads \ {t} : build'[u] = build[u]
         /\ build'[t] = Free <=> build[t].abandoned
         /\ build'[t] # Free => build'[t].abandoned = build[t].abandoned /\ build'[t].pc = pc
         /\ OwnBuild(build[t])'
<1>1. CASE build[t].abandoned
  BY <1>1 DEF EndBuild, TypeOK, OwnBuild
<1>2. CASE ~build[t].abandoned
  <2> DEFINE b == [build[t] EXCEPT !.pc = pc, !.deck = None, !.cards = {}]
  <2>1. b \in Builds /\ b.pc = pc /\ b.abandoned = build[t].abandoned
    BY DEF Builds
  <2>2. build' = [build EXCEPT ![t] = b]
    BY <1>2 DEF EndBuild, TypeOK
  <2> HIDE DEF b
  <2>3. build' \in [Threads -> Builds \cup {Free}] /\ build'[t] = b
        /\ \A u \in Threads \ {t} : build'[u] = build[u]
    BY <2>1, <2>2 DEF TypeOK
  <2>4. build'[t] # Free
    BY <2>1, <2>3, NotFree
  <2>5. OwnBuild(build[t])'
    BY <2>1, <2>3 DEF OwnBuild
  <2> QED
    BY <1>2, <2>1, <2>3, <2>4, <2>5
<1> QED
  BY <1>1, <1>2

\* What is known of a build a request waits for.
LEMMA WorkedFor ==
  ASSUME IInv, ~disturbed, NEW w \in Workers, InOp(w, "wait"), NEW t \in Threads, op[w].thread = t
  PROVE  Works(build[t], op[w]) /\ build[t] # Free /\ ~build[t].abandoned
BY DEF IInv, Built, Waiting

\* What is known of a build nobody waits for any more.
LEMMA LateFor ==
  ASSUME IInv, ~disturbed, NEW t \in Threads, build[t] # Free, build[t].abandoned
  PROVE  Lags(build[t])
BY DEF IInv, Late

\* A build that ends.
LEMMA EndedBuild ==
  ASSUME IInv, NEW t \in Threads, build[t] # Free, NEW pc \in {"done", "failed"}, EndBuild(t, pc),
         UNCHANGED <<admitted, membership, cancel, fired, cancelling, op, deck, marker, made,
                     loose, adapter, disturbed, crashes>>,
         status' \in Statuses,
         status' = status \/ (status' = Rebuilding(build[t].cards) /\ build[t].pc = "report"),
         pc = "done" => build[t].pc = "report"
  PROVE  IInv'
<1> USE DEF IInv
<1>1. build[t] \in Builds
  BY BuildType
<1>2. /\ build' \in [Threads -> Builds \cup {Free}]
      /\ \A u \in Threads \ {t} : build'[u] = build[u]
      /\ build'[t] = Free <=> build[t].abandoned
      /\ build'[t] # Free => build'[t].abandoned = build[t].abandoned /\ build'[t].pc = pc
      /\ OwnBuild(build[t])'
  BY <1>1, Ending
<1>3. ASSUME ~disturbed, NEW w \in Workers, InOp(w, "wait"), op[w].thread = t
      PROVE  Works(build[t], op[w])'
  <2>1. build'[t].pc = pc
    BY <1>2, <1>3, WorkedFor
  <2>2. pc = "done" => Stands(op[w].cards)
    BY <1>3, WorkedFor DEF Works
  <2>3. pc = "done" => Stands(op[w].cards)'
    BY <2>2 DEF Stands, Owned, Saving
  <2> QED
    BY <2>1, <2>3 DEF Works
<1>4. /\ deck' \in Decks \cup {NoDeck} /\ OwnMarker' /\ OwnDeck' /\ made' \in 0 .. MaxDecks
      /\ loose' \in SUBSET Cards /\ CardsStayFindable' /\ NotOurs' = NotOurs
  BY SameAdapter DEF TypeOK, OwnDecks, OwnMarker, OwnDeck, NotOurs, CardsStayFindable, Owned
<1>5. ~(build[t].abandoned /\ build'[t] # Free)
  BY <1>2
<1> QED
  BY <1>2, <1>3, <1>4, <1>5, Worked

LEMMA FailedBuild ==
  ASSUME IInv, NEW t \in Threads, build[t] # Free, EndBuild(t, "failed"),
         UNCHANGED <<status, admitted, membership, cancel, fired, cancelling, op, deck, marker, made,
                     loose, adapter, disturbed, crashes>>
  PROVE  IInv'
<1>1. status' \in Statuses
  BY DEF IInv, TypeOK
<1> QED
  BY <1>1, EndedBuild

\* A build that goes on: its event, its cards and who waits for it do not change.
LEMMA GoneOn ==
  ASSUME TypeOK, NEW t \in Threads, build[t] \in Builds,
         NEW pc \in {"create", "mark", "fill", "report"}, NEW d \in DeckIds \cup {Draft, None},
         build' = [build EXCEPT ![t].pc = pc, ![t].deck = d]
  PROVE  /\ build' \in [Threads -> Builds \cup {Free}] /\ build'[t] # Free
         /\ \A u \in Threads \ {t} : build'[u] = build[u]
         /\ build'[t].pc = pc /\ build'[t].deck = d /\ build'[t].cards = build[t].cards
         /\ build'[t].abandoned = build[t].abandoned
<1> DEFINE b == [build[t] EXCEPT !.pc = pc, !.deck = d]
<1>1. /\ b \in Builds /\ b.pc = pc /\ b.deck = d /\ b.cards = build[t].cards
      /\ b.abandoned = build[t].abandoned
  BY DEF Builds
<1>2. build' = [build EXCEPT ![t] = b]
  BY DEF TypeOK
<1> HIDE DEF b
<1>3. build' \in [Threads -> Builds \cup {Free}] /\ build'[t] = b
      /\ \A u \in Threads \ {t} : build'[u] = build[u]
  BY <1>1, <1>2 DEF TypeOK
<1> QED
  BY <1>1, <1>3, NotFree

LEMMA BuildBeginInv ==
  ASSUME IInv, NEW t \in Threads, BuildBegin(t)
  PROVE  IInv'
<1> USE DEF IInv, events, anki, history
<1>1. /\ build[t] # Free /\ build[t] \in Builds /\ build[t].pc = "begin"
      /\ UNCHANGED <<status, admitted, membership, cancel, fired, cancelling, op, deck, marker, made,
                     loose, adapter, disturbed, crashes>>
  BY BuildType DEF BuildBegin, InBuild
<1>2. CASE EndBuild(t, "failed")
  BY <1>1, <1>2, FailedBuild
<1>3. CASE ~EndBuild(t, "failed")
  <2>1. build[t].event \notin fired /\ (NotOurs \/ Owned) /\ ~(deck # NoDeck /\ ~Owned)
    BY <1>3 DEF BuildBegin, NotOurs
  <2>2. PICK pc \in {"create", "fill"}, d \in DeckIds \cup {Draft, None} :
          /\ build' = [build EXCEPT ![t].pc = pc, ![t].deck = d]
          /\ pc = "fill" => Owned /\ d = deck.id
          /\ pc = "create" => deck = NoDeck
    <3>1. CASE Owned
      <4>1. deck.id \in DeckIds
        BY <3>1, OwnedDeck, DeckFacts DEF OwnDecks
      <4>2. build' = [build EXCEPT ![t].pc = "fill", ![t].deck = deck.id]
        BY <1>3, <2>1, <3>1 DEF BuildBegin
      <4> QED
        BY <3>1, <4>1, <4>2
    <3>2. CASE ~Owned
      <4>1. build' = [build EXCEPT ![t].pc = "create"]
        BY <1>3, <2>1, <3>2 DEF BuildBegin
      <4>2. build[t].deck \in DeckIds \cup {Draft, None}
        BY <1>1 DEF Builds
      <4>3. build' = [build EXCEPT ![t].pc = "create", ![t].deck = build[t].deck]
        BY <1>1, <4>1 DEF TypeOK, Builds
      <4> QED
        BY <2>1, <3>2, <4>2, <4>3
    <3> QED
      BY <3>1, <3>2
  <2>3. /\ build' \in [Threads -> Builds \cup {Free}] /\ build'[t] # Free
        /\ \A u \in Threads \ {t} : build'[u] = build[u]
        /\ build'[t].pc = pc /\ build'[t].deck = d /\ build'[t].cards = build[t].cards
        /\ build'[t].abandoned = build[t].abandoned
    BY <1>1, <2>2, GoneOn
  <2>4. OwnBuild(build[t])'
    <3>1. pc = "fill" => d \in Handles
      <4>1. pc = "fill" => Owned /\ d = deck.id /\ marker = deck.id
        BY <2>2 DEF Owned
      <4>2. Owned => deck.id \in 1 .. MaxDecks
        BY OwnedDeck DEF OwnDecks
      <4>3. marker \in Handles \cup {None}
        BY DEF OwnDecks, OwnMarker
      <4> QED
        BY <4>1, <4>2, <4>3, BoundAssumption
    <3> QED
      BY <1>1, <2>3, <3>1, SameAdapter DEF OwnBuild
  <2>5. ASSUME ~disturbed, NEW w \in Workers, InOp(w, "wait"), op[w].thread = t
        PROVE  Works(build[t], op[w])'
    <3>1. build[t].cards = op[w].cards
      BY <1>1, <2>5, WorkedFor DEF Works
    <3>2. pc = "fill" => marker = d
      BY <2>2 DEF Owned
    <3> QED
      BY <1>1, <2>2, <2>3, <3>1, <3>2 DEF Works, NotOurs
  <2>6. /\ status' \in Statuses /\ deck' \in Decks \cup {NoDeck} /\ OwnMarker' /\ OwnDeck'
        /\ made' \in 0 .. MaxDecks /\ loose' \in SUBSET Cards /\ CardsStayFindable'
        /\ NotOurs' = NotOurs
    BY <1>1, SameAdapter DEF TypeOK, OwnDecks, OwnMarker, OwnDeck, NotOurs, CardsStayFindable, Owned
  <2>7. ~disturbed => ~build[t].abandoned
    BY <1>1, <2>1, LateFor DEF Lags
  <2> QED
    BY <1>1, <2>3, <2>4, <2>5, <2>6, <2>7, Worked
<1> QED
  BY <1>2, <1>3

LEMMA BuildCreateInv ==
  ASSUME IInv, NEW t \in Threads, BuildCreate(t)
  PROVE  IInv'
<1> USE DEF IInv, events, anki, history
<1>1. /\ build[t] # Free /\ build[t] \in Builds /\ build[t].pc = "create" /\ Saving
      /\ made' = made + 1 /\ made < MaxDecks /\ deck' = [id |-> made', cards |-> {}]
      /\ build' = [build EXCEPT ![t].pc = "mark", ![t].deck = made']
      /\ UNCHANGED <<status, admitted, membership, cancel, fired, cancelling, op, marker,
                     loose, adapter, disturbed, crashes>>
  BY BuildType DEF BuildCreate, InBuild
<1>2. made' \in 1 .. MaxDecks /\ made' \in DeckIds /\ made' \in 0 .. MaxDecks /\ made' \in Handles'
  BY <1>1, BoundAssumption, HandleFacts, SameAdapter DEF TypeOK, DeckIds
<1>3. deck' \in Decks /\ deck'.id = made' /\ deck'.cards = {} /\ deck' # NoDeck
  <2>1. deck' \in Decks /\ deck'.id = made' /\ deck'.cards = {}
    BY <1>1, <1>2 DEF Decks
  <2> QED
    BY <2>1, DeckFacts
<1>4. /\ build' \in [Threads -> Builds \cup {Free}] /\ build'[t] # Free
      /\ \A u \in Threads \ {t} : build'[u] = build[u]
      /\ build'[t].pc = "mark" /\ build'[t].deck = made' /\ build'[t].cards = build[t].cards
      /\ build'[t].abandoned = build[t].abandoned
  <2>1. PICK d \in DeckIds \cup {Draft, None} : d = made'
    BY <1>2
  <2>2. build' = [build EXCEPT ![t].pc = "mark", ![t].deck = d]
    BY <1>1, <2>1
  <2> QED
    BY <1>1, <2>1, <2>2, GoneOn
<1>5. OwnBuild(build[t])' /\ OwnMarker' /\ OwnDeck'
  BY <1>1, <1>2, <1>4, SameAdapter DEF OwnBuild, OwnDecks, OwnMarker, OwnDeck
<1>6. ASSUME ~disturbed, NEW w \in Workers, InOp(w, "wait"), op[w].thread = t
      PROVE  Works(build[t], op[w])'
  <2>1. build[t].cards = op[w].cards
    BY <1>1, <1>6, WorkedFor DEF Works
  <2> QED
    BY <1>1, <1>3, <1>4, <2>1 DEF Works
<1>7. CardsStayFindable' /\ status' \in Statuses /\ loose' \in SUBSET Cards
  BY <1>1, <1>3 DEF CardsStayFindable, TypeOK
<1>8. ~status'.active => Lags(build[t])'
  BY <1>3, <1>4 DEF Lags
<1> QED
  BY <1>1, <1>2, <1>3, <1>4, <1>5, <1>6, <1>7, <1>8, Worked

LEMMA BuildDraftInv ==
  ASSUME IInv, NEW t \in Threads, BuildDraft(t)
  PROVE  IInv'
<1> USE DEF IInv, events, anki, history
<1>1. /\ build[t] # Free /\ build[t] \in Builds /\ build[t].pc = "create" /\ ~Saving
      /\ build' = [build EXCEPT ![t].pc = "mark", ![t].deck = Draft]
      /\ UNCHANGED <<status, admitted, membership, cancel, fired, cancelling, op, deck, marker, made,
                     loose, adapter, disturbed, crashes>>
  BY BuildType DEF BuildDraft, InBuild
<1>2. /\ build' \in [Threads -> Builds \cup {Free}] /\ build'[t] # Free
      /\ \A u \in Threads \ {t} : build'[u] = build[u]
      /\ build'[t].pc = "mark" /\ build'[t].deck = Draft /\ build'[t].cards = build[t].cards
      /\ build'[t].abandoned = build[t].abandoned
  BY <1>1, GoneOn
<1>3. OwnBuild(build[t])'
  BY <1>1, <1>2, HandleFacts, SameAdapter DEF OwnBuild
<1>4. ASSUME ~disturbed, NEW w \in Workers, InOp(w, "wait"), op[w].thread = t
      PROVE  Works(build[t], op[w])'
  <2>1. build[t].cards = op[w].cards
    BY <1>1, <1>4, WorkedFor DEF Works
  <2> QED
    BY <1>1, <1>2, <2>1 DEF Works
<1>5. /\ status' \in Statuses /\ deck' \in Decks \cup {NoDeck} /\ OwnMarker' /\ OwnDeck'
      /\ made' \in 0 .. MaxDecks /\ loose' \in SUBSET Cards /\ CardsStayFindable' /\ NotOurs'
  BY <1>1, SameAdapter DEF TypeOK, OwnDecks, OwnMarker, OwnDeck, NotOurs, CardsStayFindable, Owned
<1>6. ~status'.active => Lags(build[t])'
  BY <1>2, <1>5 DEF Lags
<1> QED
  BY <1>1, <1>2, <1>3, <1>4, <1>5, <1>6, Worked

LEMMA BuildMarkInv ==
  ASSUME IInv, NEW t \in Threads, BuildMark(t)
  PROVE  IInv'
<1> USE DEF IInv, events, anki, history
<1>1. /\ build[t] # Free /\ build[t] \in Builds /\ build[t].pc = "mark"
      /\ marker' = build[t].deck /\ build' = [build EXCEPT ![t].pc = "fill"]
      /\ UNCHANGED <<status, admitted, membership, cancel, fired, cancelling, op, deck, made,
                     loose, adapter, disturbed, crashes>>
  BY BuildType DEF BuildMark, InBuild
<1>2. build[t].deck \in Handles /\ build[t].deck \in DeckIds \cup {Draft, None}
  BY <1>1, HandleFacts DEF OwnDecks, OwnBuild
<1>3. build' = [build EXCEPT ![t].pc = "fill", ![t].deck = build[t].deck]
  BY <1>1 DEF TypeOK, Builds
<1>4. /\ build' \in [Threads -> Builds \cup {Free}] /\ build'[t] # Free
      /\ \A u \in Threads \ {t} : build'[u] = build[u]
      /\ build'[t].pc = "fill" /\ build'[t].deck = build[t].deck /\ build'[t].cards = build[t].cards
      /\ build'[t].abandoned = build[t].abandoned
  BY <1>1, <1>2, <1>3, GoneOn
<1>5. OwnBuild(build[t])' /\ OwnMarker' /\ OwnDeck' /\ NotOurs' = NotOurs
  BY <1>1, <1>2, <1>4, SameAdapter DEF OwnBuild, OwnDecks, OwnMarker, OwnDeck, NotOurs
<1>6. ASSUME ~disturbed, NEW w \in Workers, InOp(w, "wait"), op[w].thread = t
      PROVE  Works(build[t], op[w])'
  <2>1. build[t].cards = op[w].cards
    BY <1>1, <1>6, WorkedFor DEF Works
  <2> QED
    BY <1>1, <1>4, <2>1 DEF Works
<1>7. ASSUME ~disturbed PROVE NotOurs \/ deck.id = build[t].deck
  <2>1. CASE build[t].abandoned
    BY <1>1, <1>7, <2>1, LateFor DEF Lags
  <2>2. CASE ~build[t].abandoned
    <3>1. PICK w \in Workers : InOp(w, "wait") /\ op[w].thread = t
      BY <1>1, <1>7, <2>2 DEF Alone
    <3>2. build[t].deck = Draft \/ deck.id = build[t].deck
      BY <1>1, <1>7, <3>1, WorkedFor DEF Works
    <3>3. build[t].deck = Draft => ~Saving
      BY <1>2, DeckFacts, HandleFacts DEF Draft, Handles
    <3> QED
      BY <3>2, <3>3 DEF OwnDecks, OwnDeck
  <2> QED
    BY <2>1, <2>2
<1>8. ~disturbed => CardsStayFindable'
  BY <1>1, <1>7 DEF CardsStayFindable, Owned, NotOurs
<1>9. /\ status' \in Statuses /\ deck' \in Decks \cup {NoDeck} /\ made' \in 0 .. MaxDecks
      /\ loose' \in SUBSET Cards
  BY <1>1 DEF TypeOK
<1>10. ~status'.active => Lags(build[t])'
  BY <1>1, <1>4 DEF Lags
<1> QED
  BY <1>1, <1>4, <1>5, <1>6, <1>8, <1>9, <1>10, Worked

LEMMA BuildFillInv ==
  ASSUME IInv, NEW t \in Threads, BuildFill(t)
  PROVE  IInv'
<1> USE DEF IInv, events, anki, history
<1>1. /\ build[t] # Free /\ build[t] \in Builds /\ build[t].pc = "fill" /\ deck.id = build[t].deck
      /\ deck' = [deck EXCEPT !.cards = build[t].cards] /\ build' = [build EXCEPT ![t].pc = "report"]
      /\ UNCHANGED <<status, admitted, membership, cancel, fired, cancelling, op, marker, made,
                     loose, adapter, disturbed, crashes>>
  BY BuildType DEF BuildFill, InBuild
<1>2. build[t].deck \in Handles /\ build[t].deck \in DeckIds \cup {Draft, None}
      /\ build[t].cards \in SUBSET Cards
  BY <1>1, HandleFacts DEF OwnDecks, OwnBuild, Builds
<1>3. build' = [build EXCEPT ![t].pc = "report", ![t].deck = build[t].deck]
  BY <1>1 DEF TypeOK, Builds
<1>4. /\ build' \in [Threads -> Builds \cup {Free}] /\ build'[t] # Free
      /\ \A u \in Threads \ {t} : build'[u] = build[u]
      /\ build'[t].pc = "report" /\ build'[t].cards = build[t].cards
      /\ build'[t].abandoned = build[t].abandoned
  BY <1>1, <1>2, <1>3, GoneOn
<1>5. deck \in Decks /\ ~NotOurs
  <2>1. deck.id # None /\ deck.id # Foreign
    BY <1>1, <1>2, HandleFacts, DeckFacts, BoundAssumption DEF Draft
  <2> QED
    BY <2>1, DeckFacts DEF TypeOK, NotOurs
<1>6. deck' \in Decks /\ deck'.id = deck.id /\ deck'.cards = build[t].cards
  BY <1>1, <1>2, <1>5 DEF Decks
<1>7. OwnBuild(build[t])' /\ OwnMarker' /\ OwnDeck'
  BY <1>1, <1>4, <1>5, SameAdapter DEF OwnBuild, OwnDecks, OwnMarker, OwnDeck
<1>8. ~disturbed => Owned'
  <2> SUFFICES ASSUME ~disturbed PROVE marker = build[t].deck
    BY <1>1, <1>6, DeckFacts DEF Owned
  <2>1. CASE build[t].abandoned
    BY <1>1, <1>5, <2>1, LateFor DEF Lags
  <2>2. CASE ~build[t].abandoned
    <3>1. PICK w \in Workers : InOp(w, "wait") /\ op[w].thread = t
      BY <1>1, <2>2 DEF Alone
    <3> QED
      BY <1>1, <3>1, WorkedFor DEF Works
  <2> QED
    BY <2>1, <2>2
<1>9. ASSUME ~disturbed, NEW w \in Workers, InOp(w, "wait"), op[w].thread = t
      PROVE  Works(build[t], op[w])'
  <2>1. build[t].cards = op[w].cards
    BY <1>1, <1>9, WorkedFor DEF Works
  <2> QED
    BY <1>1, <1>4, <1>6, <1>8, <1>9, <2>1 DEF Works, Stands
<1>10. ~disturbed => CardsStayFindable'
  BY <1>8 DEF CardsStayFindable
<1>11. status' \in Statuses /\ made' \in 0 .. MaxDecks /\ loose' \in SUBSET Cards
  BY <1>1 DEF TypeOK
<1>12. ~status'.active => Lags(build[t])'
  BY <1>4 DEF Lags
<1> QED
  BY <1>1, <1>4, <1>5, <1>6, <1>7, <1>9, <1>10, <1>11, <1>12, Worked

LEMMA BuildFillDraftInv ==
  ASSUME IInv, NEW t \in Threads, BuildFillDraft(t)
  PROVE  IInv'
<1> USE DEF IInv, events, anki, history
<1>1. /\ build[t] # Free /\ build[t] \in Builds /\ build[t].pc = "fill" /\ build[t].deck = Draft
      /\ loose' = loose \cup build[t].cards /\ build' = [build EXCEPT ![t].pc = "report"]
      /\ UNCHANGED <<status, admitted, membership, cancel, fired, cancelling, op, deck, marker, made,
                     adapter, disturbed, crashes>>
  BY BuildType DEF BuildFillDraft, InBuild
<1>2. ~Saving
  BY <1>1, DeckFacts, HandleFacts DEF OwnDecks, OwnBuild, Draft, Handles
<1>3. build' = [build EXCEPT ![t].pc = "report", ![t].deck = Draft]
  BY <1>1 DEF TypeOK, Builds
<1>4. /\ build' \in [Threads -> Builds \cup {Free}] /\ build'[t] # Free
      /\ \A u \in Threads \ {t} : build'[u] = build[u]
      /\ build'[t].pc = "report" /\ build'[t].cards = build[t].cards
      /\ build'[t].abandoned = build[t].abandoned
  <2>1. PICK d \in DeckIds \cup {Draft, None} : d = Draft
    OBVIOUS
  <2>2. build' = [build EXCEPT ![t].pc = "report", ![t].deck = d]
    BY <1>3, <2>1
  <2> QED
    BY <1>1, <2>2, GoneOn
<1>5. OwnBuild(build[t])'
  BY <1>4 DEF OwnBuild
<1>6. ASSUME ~disturbed, NEW w \in Workers, InOp(w, "wait"), op[w].thread = t
      PROVE  Works(build[t], op[w])'
  <2>1. build[t].cards = op[w].cards /\ ~Saving'
    BY <1>1, <1>2, <1>6, WorkedFor, SameAdapter DEF Works
  <2> QED
    BY <1>1, <1>4, <2>1 DEF Works, Stands
<1>7. /\ status' \in Statuses /\ deck' \in Decks \cup {NoDeck} /\ OwnMarker' /\ OwnDeck'
      /\ made' \in 0 .. MaxDecks /\ loose' \in SUBSET Cards /\ CardsStayFindable' /\ NotOurs'
  BY <1>1, <1>2, SameAdapter DEF TypeOK, OwnDecks, OwnMarker, OwnDeck, NotOurs, CardsStayFindable,
     Owned, Builds
<1>8. ~status'.active => Lags(build[t])'
  BY <1>4 DEF Lags
<1> QED
  BY <1>1, <1>4, <1>5, <1>6, <1>7, <1>8, Worked

LEMMA BuildReportInv ==
  ASSUME IInv, NEW t \in Threads, BuildReport(t)
  PROVE  IInv'
<1> USE DEF IInv, events, anki, history
<1>1. /\ build[t] # Free /\ build[t] \in Builds /\ build[t].pc = "report"
      /\ status' = Rebuilding(build[t].cards) /\ EndBuild(t, "done")
      /\ UNCHANGED <<admitted, membership, cancel, fired, cancelling, op, deck, marker, made,
                     loose, adapter, disturbed, crashes>>
  BY BuildType DEF BuildReport, InBuild
<1>2. status' \in Statuses
  BY <1>1, StatusType DEF Builds
<1> QED
  BY <1>1, <1>2, EndedBuild

LEMMA BuildFailsInv ==
  ASSUME IInv, NEW t \in Threads, BuildFails(t)
  PROVE  IInv'
BY FailedBuild DEF BuildFails, events, anki, history

-----------------------------------------------------------------------------
(* cancel_rebuild, the user and the process.                               *)

\* Only the Event and who is about to set it change.
LEMMA EventInv ==
  ASSUME IInv, fired' \subseteq 0 .. MaxStarts, fired \subseteq fired', cancelling' \in BOOLEAN,
         UNCHANGED <<status, admitted, membership, cancel, op, build, deck, marker, made, loose, adapter,
                     disturbed, crashes>>
  PROVE  IInv'
<1> USE DEF IInv
<1>1. TypeOK' /\ Shaped' /\ OwnDecks' /\ Counted'
  <2>1. TypeOK' /\ Shaped' /\ Counted'
    BY DEF TypeOK, Shaped, Counted, Takers
  <2> QED
    BY <2>1, SameAdapter DEF OwnDecks, OwnMarker, OwnDeck, NotOurs, OwnBuild
<1>2. Waiting' /\ Alone'
  BY DEF Waiting, Alone, InOp
<1>3. \A cards : Stands(cards) => Stands(cards)'
  BY DEF Stands, Owned, Saving
<1>4. StatusTrue => StatusTrue'
  BY DEF StatusTrue, Stands, Owned, Saving
<1>5. Built' /\ Late'
  <2>1. Built'
    BY DEF Built, Works, InOp, Stands, Owned, Saving, NotOurs
  <2>2. \A t \in Threads : Lags(build[t]) => Lags(build[t])'
    BY DEF Lags, NotOurs, Cleaning
  <2> QED
    BY <2>1, <2>2 DEF Late
<1>6. Announced' /\ CardsStayFindable'
  BY <1>4 DEF Announced, Told, CardsStayFindable, Stands, Owned, Saving, NotOurs
<1> QED
  BY <1>1, <1>2, <1>5, <1>6

LEMMA CancelInv ==
  ASSUME IInv, CancelSeen \/ CancelFires
  PROVE  IInv'
<1> USE DEF anki, history
<1>1. cancel \in 0 .. MaxStarts /\ fired \subseteq 0 .. MaxStarts
  BY DEF IInv, TypeOK
<1>2. CASE CancelSeen
  BY <1>1, <1>2, EventInv DEF CancelSeen
<1>3. CASE CancelFires
  BY <1>1, <1>3, EventInv DEF CancelFires
<1> QED
  BY <1>2, <1>3

LEMMA UserInv ==
  ASSUME IInv, UserMakesDeck
  PROVE  IInv'
<1> USE DEF IInv, events, history
<1>1. /\ deck = NoDeck /\ deck' = [id |-> Foreign, cards |-> Cards]
      /\ UNCHANGED <<status, admitted, membership, cancel, fired, cancelling, op, build, marker, made, loose, adapter,
                     disturbed, crashes>>
  BY DEF UserMakesDeck
<1>2. deck' \in Decks /\ deck'.id = Foreign
  BY <1>1, DeckFacts DEF Decks
<1>3. NotOurs' /\ \A cards : Stands(cards) => Stands(cards)'
  BY <1>1, <1>2 DEF NotOurs, Stands, Owned, Saving
<1>4. TypeOK' /\ Shaped' /\ OwnDecks' /\ Counted'
  <2>1. TypeOK' /\ Shaped' /\ Counted'
    BY <1>1, <1>2 DEF TypeOK, Shaped, Counted, Takers
  <2> QED
    BY <1>1, <1>3, <2>1, SameAdapter DEF OwnDecks, OwnMarker, OwnDeck, OwnBuild
<1>5. Waiting' /\ Alone'
  BY <1>1 DEF Waiting, Alone, InOp
<1>6. Built' /\ Late'
  <2>1. ASSUME ~disturbed, NEW w \in Workers, InOp(w, "wait")
        PROVE  Works(build[op[w].thread], op[w])'
    <3>1. Works(build[op[w].thread], op[w])
      BY <2>1 DEF Built
    <3> QED
      BY <1>1, <1>3, <3>1 DEF Works
  <2>2. \A t \in Threads : Lags(build[t]) => Lags(build[t])'
    BY <1>1, <1>3 DEF Lags, Cleaning
  <2> QED
    BY <1>1, <2>1, <2>2 DEF Built, Late, InOp
<1>7. StatusTrue => StatusTrue'
  BY <1>1, <1>3 DEF StatusTrue
<1>8. Announced'
  <2>1. ASSUME ~disturbed, NEW w \in Workers, op[w] # Idle PROVE Told(op[w])'
    <3>1. Told(op[w])
      BY <2>1, ToldNow
    <3> QED
      BY <1>1, <1>3, <1>7, <3>1 DEF Told
  <2> QED
    BY <1>1, <1>7, <2>1 DEF Announced
<1>9. CardsStayFindable'
  BY <1>2 DEF CardsStayFindable
<1> QED
  BY <1>4, <1>5, <1>6, <1>8, <1>9

LEMMA CrashInv ==
  ASSUME IInv, Crash
  PROVE  IInv'
<1> USE DEF IInv, anki
<1>1. /\ crashes < MaxCrashes /\ crashes' = crashes + 1 /\ status' = Ended("not_started")
      /\ admitted' = None /\ membership' = {} /\ fired' = {} /\ cancelling' = FALSE
      /\ op' = [w \in Workers |-> Idle] /\ build' = [t \in Threads |-> Free]
      /\ UNCHANGED <<cancel, deck, marker, made, loose, adapter, disturbed>>
  BY DEF Crash
<1>2. status' \in Statuses /\ ~status'.active
  BY <1>1, StatusType DEF Reasons
<1>3. crashes' \in 0 .. MaxCrashes
  BY <1>1, BoundAssumption DEF TypeOK
<1>4. TypeOK'
  BY <1>1, <1>2, <1>3 DEF TypeOK
<1>5. Shaped' /\ OwnDecks'
  BY <1>1, SameAdapter DEF Shaped, OwnDecks, OwnMarker, OwnDeck, NotOurs, OwnBuild
<1>6. Counted'
  <2>1. \A v \in Workers : Takes(op'[v]) => Takes(op[v])
    BY <1>1 DEF Takes
  <2> QED
    BY <1>1, <2>1, FewerTakers
<1>7. Waiting' /\ Alone' /\ Built' /\ Late' /\ Announced'
  BY <1>1, <1>2 DEF Waiting, Alone, Built, Late, Announced, InOp, StatusTrue
<1>8. CardsStayFindable'
  BY <1>1 DEF CardsStayFindable, Owned
<1> QED
  BY <1>4, <1>5, <1>6, <1>7, <1>8

-----------------------------------------------------------------------------
(* Theorems.                                                               *)

LEMMA InitInv == Init => IInv
<1> SUFFICES ASSUME Init PROVE IInv
  OBVIOUS
<1> USE DEF Init
<1>1. status \in Statuses /\ ~status.active
  BY StatusType DEF Reasons
<1>2. 0 \in 0 .. MaxStarts /\ 0 \in 0 .. MaxDecks /\ 0 \in 0 .. MaxCrashes
  BY BoundAssumption
<1>3. TypeOK
  BY <1>1, <1>2 DEF TypeOK
<1>4. Shaped /\ OwnDecks /\ Waiting /\ Alone /\ Built /\ Late /\ Announced /\ CardsStayFindable
  BY <1>1 DEF Shaped, OwnDecks, OwnMarker, OwnDeck, NotOurs, OwnBuild, Waiting, Alone, Built, Late,
              Announced, CardsStayFindable, InOp, StatusTrue
<1>5. Counted
  <2>1. Takers = {}
    BY DEF Takers, Takes
  <2> QED
    BY <2>1, FS_EmptySet, BoundAssumption DEF Counted
<1> QED
  BY <1>3, <1>4, <1>5 DEF IInv

LEMMA StepInv == IInv /\ [Next]_vars => IInv'
<1> SUFFICES ASSUME IInv, [Next]_vars PROVE IInv'
  OBVIOUS
<1>1. CASE UNCHANGED vars
  BY <1>1, EventInv DEF vars, IInv, TypeOK
<1>2. ASSUME NEW w \in Workers, Start(w) \/ Admit(w) \/ Restore(w) \/ End(w) PROVE IInv'
  BY <1>2, StartInv, AdmitInv, RestoreInv, EndInv
<1>3. ASSUME NEW w \in Workers, Serve(w) PROVE IInv'
  <2>1. CASE Inspect(w) \/ (op[w].kind = "start" /\ Select(w)) \/ FinishStart(w)
    BY <2>1, InspectInv, SelectInv, FinishStartInv
  <2>2. CASE Submit(w) \/ Collect(w) \/ Timeout(w)
    BY <2>2, SubmitInv, CollectInv, TimeoutInv
  <2>3. CASE AdmitReads(w) \/ AdmitBuilt(w) \/ Admitted(w) \/ Refused(w) \/ TopFails(w) \/ Restored(w)
    BY <2>3, AdmitReadsInv, AdmitBuiltInv, AdmittedInv, RefusedInv, TopFailsInv, RestoredInv
  <2>4. CASE FindOwned(w) \/ EmptyDeck(w) \/ DeleteDeck(w) \/ DropMarker(w) \/ CleanupFails(w)
    BY <2>4, FindOwnedInv, EmptyDeckInv, DeleteDeckInv, DropMarkerInv, CleanupFailsInv
  <2>5. CASE FinishEnd(w) \/ NameEnd(w)
    BY <2>5, FinishEndInv, NameEndInv
  <2> QED
    BY <1>3, <2>1, <2>2, <2>3, <2>4, <2>5 DEF Serve
<1>4. ASSUME NEW t \in Threads, Build(t) PROVE IInv'
  BY <1>4, BuildBeginInv, BuildCreateInv, BuildDraftInv, BuildMarkInv, BuildFillInv,
     BuildFillDraftInv, BuildReportInv, BuildFailsInv DEF Build
<1>5. CASE CancelSeen \/ CancelFires \/ UserMakesDeck \/ Crash
  BY <1>5, CancelInv, UserInv, CrashInv
<1> QED
  BY <1>1, <1>2, <1>3, <1>4, <1>5 DEF Next

\* The inductive invariant holds in every state of the session.
THEOREM Inductive == Spec => []IInv
BY InitInv, StepInv, PTL DEF Spec

\* Every variable of the session coordinator keeps its type.
THEOREM TypeCorrect == Spec => []TypeOK
<1>1. IInv => TypeOK
  BY DEF IInv
<1> QED
  BY <1>1, Inductive, PTL

\* Between requests, with an adapter whose create makes the deck and nothing
\* disturbed, a session that is announced as running over a filtered deck
\* (session.py, status) has that deck in Anki, owned, with exactly its cards,
\* also while a build that outlived its timeout works on.
THEOREM AnnouncementIsTrue == Spec => []AnnouncedDeckStands
<1>1. IInv => AnnouncedDeckStands
  BY DEF IInv, AnnouncedDeckStands, Announced, StatusTrue, Stands
<1> QED
  BY <1>1, Inductive, PTL

\* With an adapter whose create makes the deck, no interruption of a build or a
\* cleanup, and no build that outlives its timeout, leaves cards in a deck the
\* marker in Anki's configuration does not name: the next cleanup finds them.
THEOREM CardsAreFound == Spec => []CardsStayFindable
<1>1. IInv => CardsStayFindable
  BY DEF IInv
<1> QED
  BY <1>1, Inductive, PTL

\* With either adapter, ANKIGTA never changes a deck the user made under the
\* session's name, whenever that deck appears (AnkiFilteredDeckBackend.build and
\* cleanup).
THEOREM ForeignDeckStays == Spec => ForeignDeckUntouched
<1>1. ASSUME IInv, [Next]_vars, deck # NoDeck, deck.id = Foreign PROVE deck' = deck
  <2> USE DEF anki
  <2>1. CASE UNCHANGED vars
    BY <2>1 DEF vars
  <2>2. ASSUME NEW w \in Workers, Start(w) \/ Admit(w) \/ Restore(w) \/ End(w) PROVE deck' = deck
    BY <2>2 DEF Start, Admit, Restore, End, Begin
  <2>3. ASSUME NEW w \in Workers, EmptyDeck(w) \/ DeleteDeck(w) PROVE FALSE
    <3>1. op[w].deck \in 1 .. MaxDecks /\ deck.id = op[w].deck
      BY <1>1, <2>3 DEF EmptyDeck, DeleteDeck, InOp, IInv, Shaped, Shape
    <3> QED
      BY <1>1, <3>1, DeckFacts
  <2>4. ASSUME NEW w \in Workers, Serve(w) PROVE deck' = deck
    <3>1. CASE Inspect(w) \/ Select(w) \/ FinishStart(w) \/ Submit(w) \/ Collect(w) \/ Timeout(w)
      BY <3>1, Zenon DEF Inspect, Select, FinishStart, Submit, Collect, Timeout, anki
    <3>2. CASE AdmitReads(w) \/ AdmitBuilt(w) \/ Admitted(w) \/ Refused(w) \/ TopFails(w) \/ Restored(w)
      BY <3>2 DEF AdmitReads, AdmitBuilt, Admitted, Refused, TopFails, Restored
    <3>3. CASE FindOwned(w) \/ DropMarker(w) \/ CleanupFails(w) \/ FinishEnd(w) \/ NameEnd(w)
      BY <3>3 DEF FindOwned, DropMarker, CleanupFails, FinishEnd, NameEnd
    <3> QED
      BY <2>3, <2>4, <3>1, <3>2, <3>3 DEF Serve
  <2>5. ASSUME NEW t \in Threads, BuildCreate(t) \/ BuildFill(t) PROVE FALSE
    <3>1. InBuild(t, "fill") /\ deck.id = build[t].deck
      BY <1>1, <2>5 DEF BuildCreate, BuildFill
    <3>2. build[t].deck \in Handles
      BY <1>1, <3>1 DEF InBuild, IInv, OwnDecks, OwnBuild
    <3> QED
      BY <1>1, <3>1, <3>2, HandleFacts
  <2>6. ASSUME NEW t \in Threads, Build(t) PROVE deck' = deck
    BY <2>5, <2>6 DEF Build, BuildBegin, BuildDraft, BuildMark, BuildFillDraft, BuildReport, BuildFails
  <2>7. CASE CancelSeen \/ CancelFires \/ UserMakesDeck \/ Crash
    BY <1>1, <2>7 DEF CancelSeen, CancelFires, UserMakesDeck, Crash
  <2> QED
    BY <1>1, <2>1, <2>2, <2>4, <2>6, <2>7 DEF Next
<1> QED
  BY <1>1, Inductive, PTL DEF Spec, ForeignDeckUntouched

\* Of the requests of an admission, the steps that end them.
LEMMA RefusalEnds ==
  ASSUME IInv, Next, NEW w \in Workers, op[w] # Idle, op[w].kind = "refuse", op'[w] = Idle,
         ~disturbed, crashes' = crashes
  PROVE  Restored(w) \/ Collect(w) \/ Timeout(w)
<1>1. ASSUME NEW v \in Workers, Start(v) \/ Admit(v) \/ Restore(v) \/ End(v) PROVE FALSE
  <2>1. op[v] = Idle /\ \E o : op' = [op EXCEPT ![v] = o]
    BY <1>1 DEF Start, Admit, Restore, End, Begin, Set
  <2> QED
    BY <2>1 DEF IInv, TypeOK
<1>2. ASSUME NEW v \in Workers, Serve(v) PROVE Restored(w) \/ Collect(w) \/ Timeout(w)
  <2>1. op[v] # Idle
    <3>1. CASE Inspect(v) \/ Select(v) \/ FinishStart(v) \/ Submit(v) \/ Collect(v) \/ Timeout(v)
      BY <3>1, Zenon DEF Inspect, Select, FinishStart, Submit, Collect, Timeout, InOp
    <3>2. CASE AdmitReads(v) \/ AdmitBuilt(v) \/ Admitted(v) \/ Refused(v) \/ TopFails(v) \/ Restored(v)
      BY <3>2 DEF AdmitReads, AdmitBuilt, Admitted, Refused, TopFails, Restored, InOp
    <3>3. CASE FindOwned(v) \/ EmptyDeck(v) \/ DeleteDeck(v) \/ DropMarker(v) \/ CleanupFails(v)
               \/ FinishEnd(v) \/ NameEnd(v)
      BY <3>3 DEF FindOwned, EmptyDeck, DeleteDeck, DropMarker, CleanupFails, FinishEnd, NameEnd, InOp
    <3> QED
      BY <1>2, <3>1, <3>2, <3>3 DEF Serve
  <2>2. v = w
    BY <2>1, Solo DEF IInv
  <2>3. op[w].kind \notin Endings /\ op[w].kind \in Building
    BY KindFacts DEF Building
  <2>4. Shape(op[w]) /\ op[w] \in Ops
    BY InOpType DEF IInv, Shaped
  <2>5. op[w].pc \in {"submit", "wait", "finish"}
    BY <2>3, <2>4 DEF Shape, Ops
  <2>6. op[w].pc = "submit" => ~Submit(w)
    <3> SUFFICES ASSUME Submit(w) PROVE FALSE
      OBVIOUS
    <3>1. PICK t \in Threads : op' = [op EXCEPT ![w] = [op[w] EXCEPT !.pc = "wait", !.thread = t]]
      BY Zenon DEF Submit, Set
    <3>2. [op[w] EXCEPT !.pc = "wait", !.thread = t] \in Ops
      BY <2>4 DEF Ops
    <3> QED
      BY <3>1, <3>2, NotIdle DEF IInv, TypeOK
  <2>7. ~Submit(w)
    BY <2>6, Zenon DEF Submit, InOp
  <2>8. ~(Inspect(w) \/ Select(w) \/ FinishStart(w))
    <3>1. op[w].pc # "inspect" /\ op[w].pc # "select" /\ op[w].kind # "start"
      BY <2>5
    <3> QED
      BY <3>1, Zenon DEF Inspect, Select, FinishStart, InOp
  <2>9. ~(AdmitReads(w) \/ AdmitBuilt(w) \/ Admitted(w) \/ Refused(w) \/ TopFails(w))
    BY <2>3, <2>5 DEF AdmitReads, AdmitBuilt, Admitted, Refused, TopFails, InOp
  <2>10. ~(FindOwned(w) \/ EmptyDeck(w) \/ DeleteDeck(w) \/ DropMarker(w) \/ CleanupFails(w))
    BY <2>5 DEF FindOwned, EmptyDeck, DeleteDeck, DropMarker, CleanupFails, InOp
  <2>11. ~(FinishEnd(w) \/ NameEnd(w))
    BY <2>3, <2>5 DEF FinishEnd, NameEnd, InOp
  <2> QED
    BY <1>2, <2>2, <2>7, <2>8, <2>9, <2>10, <2>11 DEF Serve
<1>3. ASSUME NEW t \in Threads, Build(t) PROVE FALSE
  <2>1. op' = op
    BY <1>3 DEF Build, BuildBegin, BuildCreate, BuildDraft, BuildMark, BuildFill, BuildFillDraft,
       BuildReport, BuildFails
  <2> QED
    BY <2>1
<1>4. ASSUME CancelSeen \/ CancelFires \/ UserMakesDeck \/ Crash PROVE FALSE
  <2>1. ~Crash
    BY BoundAssumption DEF Crash, IInv, TypeOK
  <2>2. op' = op
    BY <1>4, <2>1 DEF CancelSeen, CancelFires, UserMakesDeck
  <2> QED
    BY <2>2
<1> QED
  BY <1>1, <1>2, <1>3, <1>4 DEF Next

\* However the request of an admission Anki refuses ends, with its restoring build
\* done, failed, cancelled or timed out, the session is back on the cards it had
\* before, or still being rebuilt from them (_refuse, _restore_membership).
THEOREM RefusalGivesBack == Spec => RefusalRestores
<1>1. ASSUME IInv, Next, NEW w \in Workers, op[w] # Idle, op[w].kind = "refuse", op'[w] = Idle,
             ~disturbed, crashes' = crashes
      PROVE  /\ status'.cards = op[w].full
             /\ admitted' = None
             /\ ~status'.active => status'.reason = "rebuilding"
             /\ status'.active /\ Saving /\ op[w].full # {} =>
                  Owned' /\ deck'.cards = op[w].full
  <2>1. Told(op[w]) /\ op[w].cards = op[w].full /\ admitted = None /\ op[w].cards \in SUBSET Cards
    BY <1>1, ToldNow, InOpType DEF IInv, Ops, Told
  <2>2. CASE Restored(w)
    <3>1. status' = Running(op[w].cards) /\ admitted' = None /\ deck' = deck /\ marker' = marker
      BY <2>2 DEF Restored, anki
    <3>2. Saving /\ op[w].full # {} => Owned /\ deck.cards = op[w].full
      BY <1>1, <2>1, <2>2 DEF Restored, InOp, Told, Stands, Building
    <3> QED
      BY <2>1, <3>1, <3>2 DEF Running, Owned
  <2>3. CASE Collect(w) \/ Timeout(w)
    <3>1. status' = Rebuilding(op[w].cards) /\ admitted' = None
      BY <1>1, <2>1, <2>3 DEF Collect, Timeout, InOp, Told
    <3> QED
      BY <2>1, <3>1 DEF Rebuilding
  <2> QED
    BY <1>1, <2>2, <2>3, RefusalEnds
<1>2. ASSUME IInv, [Next]_vars, NEW w \in Workers, op[w] # Idle, op'[w] = Idle PROVE Next
  BY <1>2 DEF vars
<1>3. ASSUME IInv, [Next]_vars
      PROVE  \A w \in Workers :
               op[w] # Idle /\ op[w].kind = "refuse" /\ op'[w] = Idle
               /\ ~disturbed /\ crashes' = crashes
               => /\ status'.cards = op[w].full
                  /\ admitted' = None
                  /\ ~status'.active => status'.reason = "rebuilding"
                  /\ status'.active /\ Saving /\ op[w].full # {} =>
                       Owned' /\ deck'.cards = op[w].full
  BY <1>1, <1>2, <1>3
<1> QED
  BY <1>3, Inductive, PTL DEF Spec, RefusalRestores

=============================================================================

---------------------------- MODULE StoreProofs -----------------------------
(***************************************************************************)
(* Proofs about Store, for all Map Entities, maps, cards and values, every *)
(* limit of the history and every number of changes and other writes.      *)
(***************************************************************************)
EXTENDS Store, SequenceTheorems, FiniteSetTheorems, TLAPS

-----------------------------------------------------------------------------
(* What an entry of the history says.                                      *)

LinkStates == [locator : Locators, link : Links \cup {None}]
Views == [entities : SUBSET Entities, link : [Entities -> Links \cup {None}],
          locator : [Maps -> Locators \cup {None}], setting : Values \cup {None},
          meta : [Entities -> Metas]]

\* Each operation: the states it wrote, and the views of the store they are part of.
IsLink(en) ==
  /\ en.operation = "spatial_link" /\ en.target \in Entities
  /\ en.before \in LinkStates /\ en.after \in LinkStates
  /\ en.before.link = None => en.after.link # None
  /\ en.was.link[en.target] = en.before.link
  /\ en.was.locator[MapOf[en.target]] = en.before.locator
  /\ en.became = [en.was EXCEPT !.link[en.target] = en.after.link,
                                !.locator[MapOf[en.target]] = en.after.locator]
IsLocator(en) ==
  /\ en.operation = "map_locator" /\ en.target \in Maps
  /\ en.before \in Locators /\ en.after \in Locators
  /\ en.was.locator[en.target] = en.before
  /\ en.became = [en.was EXCEPT !.locator[en.target] = en.after]
IsMetadata(en) ==
  /\ en.operation = "entity_metadata" /\ en.target \in Entities
  /\ en.before \in Metas \cup {None} /\ en.after \in Metas
  /\ en.was.meta[en.target] = IF en.before = None THEN NoMeta ELSE en.before
  /\ en.became = [en.was EXCEPT !.meta[en.target] = en.after]
IsClear(en) ==
  /\ en.operation = "clear_entity_overrides"
  /\ en.before \in [{e \in Entities : en.was.meta[e].override # None} -> Values]
  /\ \A e \in DOMAIN en.before : en.was.meta[e].override = en.before[e]
  /\ en.after = <<>>
  /\ en.became = [en.was EXCEPT !.meta = [e \in Entities |-> [en.was.meta[e] EXCEPT !.override = None]]]
IsSetting(en) ==
  /\ en.operation = "user_setting"
  /\ en.before \in Values \cup {None} /\ en.after \in Values
  /\ en.was.setting = en.before
  /\ en.became = [en.was EXCEPT !.setting = en.after]
IsRelink(en) ==
  /\ en.operation = "relink_entity" /\ en.target \in Entities
  /\ en.before \in [target : Entities \ {en.target}, source : Metas, link : Links, replaced : Metas]
  /\ en.before.source.presence = "entity_missing" /\ en.before.link.state = "active"
  /\ en.after = [target |-> en.before.target, moved |-> Identified(en.before.source),
                 link |-> en.before.link]
  /\ en.was.meta[en.target] = en.before.source /\ en.was.meta[en.before.target] = en.before.replaced
  /\ en.was.link[en.target] = en.before.link /\ en.was.link[en.before.target] = None
  /\ en.became = [en.was EXCEPT !.meta[en.before.target] = en.after.moved,
                                !.link[en.before.target] = en.before.link, !.link[en.target] = None]
IsForget(en) ==
  /\ en.operation = "forget_map_entity" /\ en.target \in Entities
  /\ en.before \in [exists : {TRUE}, meta : Metas, link : Links \cup {None}]
  /\ en.after = [exists |-> FALSE, meta |-> None, link |-> None]
  /\ en.target \in en.was.entities
  /\ en.was.meta[en.target] = en.before.meta /\ en.was.link[en.target] = en.before.link
  /\ en.became = [en.was EXCEPT !.entities = @ \ {en.target}, !.meta[en.target] = NoMeta,
                                !.link[en.target] = None]

Says(en) ==
  /\ en.was \in Views /\ en.became \in Views
  /\ IsLink(en) \/ IsLocator(en) \/ IsMetadata(en) \/ IsClear(en) \/ IsSetting(en) \/ IsRelink(en)
     \/ IsForget(en)

-----------------------------------------------------------------------------
(* The inductive invariant: the history as a list.                         *)

Ordered ==
  /\ history \in Seq({history[i] : i \in DOMAIN history})
  /\ Len(history) <= HISTORY_LIMIT
  /\ \A i \in 1 .. Len(history) : Says(history[i]) /\ history[i].id \in 1 .. lastId
  /\ \A i, j \in 1 .. Len(history) : i < j => history[i].id < history[j].id

\* The cursor is on the c-th entry, or before all.
Stands(c) == c \in 0 .. Len(history) /\ cursor = IF c = 0 THEN 0 ELSE history[c].id

\* OneLine, where the cursor stands.
Unbroken(c) ==
  events = 0 =>
    /\ \A i \in 1 .. Len(history) - 1 : history[i].became = history[i + 1].was
    /\ c # 0 => View(db) = history[c].became
    /\ c < Len(history) => View(db) = history[c + 1].was

-----------------------------------------------------------------------------
(* The inductive invariant: what Undo and Redo may rely on.                *)

\* An entry that removes an entity, one that is about an entity, one that gives
\* it a link, and one that found it with a link.
Forgets(en, e)   == en.operation = "forget_map_entity" /\ en.target = e
About(en, e)     == \/ en.operation \in {"spatial_link", "entity_metadata"} /\ en.target = e
                    \/ en.operation = "relink_entity" /\ e \in {en.target, en.before.target}
GivesLink(en, e) == \/ en.operation = "spatial_link" /\ en.target = e /\ en.after.link # None
                    \/ en.operation = "relink_entity" /\ e = en.before.target
HadLink(en, e)   == \/ /\ en.operation \in {"spatial_link", "forget_map_entity"}
                       /\ en.target = e /\ en.before.link # None
                    \/ en.operation = "relink_entity" /\ e = en.target

\* The same of its metadata: an entry that gives it a row, and one that found it
\* with an override.
GivesRow(en, e)    == \/ en.operation = "entity_metadata" /\ en.target = e
                      \/ en.operation = "relink_entity" /\ e = en.before.target
Clears(en, e)      == en.operation = "clear_entity_overrides" /\ e \in DOMAIN en.before
HadOverride(en, e) ==
  \/ /\ en.operation = "entity_metadata" /\ en.target = e
     /\ en.before # None /\ en.before.override # None
  \/ en.operation = "relink_entity" /\ e = en.target /\ en.before.source.override # None
  \/ en.operation = "relink_entity" /\ e = en.before.target /\ en.before.replaced.override # None
  \/ en.operation = "forget_map_entity" /\ en.target = e /\ en.before.meta.override # None
  \/ Clears(en, e)

Unforgotten(e, i, k) == \A n \in i .. k : ~Forgets(history[n], e)

\* After the k-th entry, e has what some entry gave it and none took away since:
\* one of the history, or one from before the history begins.
LinkBacked(e, k) == \/ Unforgotten(e, 1, k)
                    \/ \E j \in 1 .. k : GivesLink(history[j], e) /\ Unforgotten(e, j + 1, k)
RowBacked(e, k)  == \/ Unforgotten(e, 1, k)
                    \/ \E j \in 1 .. k : GivesRow(history[j], e) /\ Unforgotten(e, j + 1, k)

\* An entity is in the store while an entry that is about it stands and none that
\* removed it, before the first such entry as well as after it.
EntityStays(c) == \A e \in Entities, i \in 1 .. Len(history) : About(history[i], e) =>
  /\ i <= c /\ Unforgotten(e, i + 1, c) => e \in db.entities
  /\ Unforgotten(e, 1, i - 1) /\ Unforgotten(e, 1, c) => e \in db.entities
LinksBacked(c) ==
  /\ \A e \in Entities, i \in 1 .. Len(history) : HadLink(history[i], e) => LinkBacked(e, i - 1)
  /\ \A e \in Entities : db.link[e] # None => LinkBacked(e, c)
Placed ==
  \A e \in Entities, i \in 1 .. Len(history) :
    About(history[i], e) \/ Forgets(history[i], e) => db.locator[MapOf[e]] # None

\* And its metadata row, of an entity whose override was cleared.
RowStays(c) == \A e \in Entities, i \in 1 .. Len(history) :
  /\ GivesRow(history[i], e) \/ Clears(history[i], e) =>
       /\ i <= c /\ Unforgotten(e, i + 1, c) => db.meta[e] # None
       /\ \A j \in i + 1 .. Len(history) :
            IsMetadata(history[j]) /\ history[j].target = e /\ Unforgotten(e, i + 1, j - 1) =>
              history[j].before # None
  /\ /\ Clears(history[i], e) /\ Unforgotten(e, 1, i - 1) /\ Unforgotten(e, 1, c)
     /\ \A j \in 1 .. i - 1 : ~GivesRow(history[j], e)
     => db.meta[e] # None
RowsBacked(c) ==
  /\ \A e \in Entities, i \in 1 .. Len(history) : HadOverride(history[i], e) => RowBacked(e, i - 1)
  /\ \A e \in Entities : db.meta[e] # None /\ db.meta[e].override # None => RowBacked(e, c)

IInv == /\ TypeOK /\ Ordered /\ Placed
        /\ \E c \in 0 .. Len(history) :
             /\ Stands(c) /\ Unbroken(c)
             /\ EntityStays(c) /\ LinksBacked(c) /\ RowStays(c) /\ RowsBacked(c)

-----------------------------------------------------------------------------
(* Places in the history.                                                  *)

LEMMA Listed ==
  ASSUME Ordered
  PROVE  Len(history) \in Nat /\ DOMAIN history = 1 .. Len(history)
BY LenProperties DEF Ordered

LEMMA ById ==
  ASSUME Ordered, lastId \in Nat, NEW i \in 1 .. Len(history)
  PROVE  /\ At(history[i].id) = history[i] /\ history[i].id \in Ids
         /\ history[i].id \in Nat \ {0} /\ history[i].id <= lastId
<1>1. Len(history) \in Nat /\ DOMAIN history = 1 .. Len(history)
  BY Listed
<1>2. \A j \in 1 .. Len(history) : history[j].id \in Nat \ {0} /\ history[j].id <= lastId
  BY DEF Ordered
<1>3. \A j \in DOMAIN history : history[j].id = history[i].id => j = i
  <2> TAKE j \in DOMAIN history
  <2>1. j < i \/ i < j \/ i = j
    BY <1>1
  <2> QED
    BY <1>1, <1>2, <2>1 DEF Ordered
<1>4. (CHOOSE j \in DOMAIN history : history[j].id = history[i].id) = i
  BY <1>1, <1>3
<1> QED
  BY <1>1, <1>2, <1>4 DEF At, Ids

\* The entries up to the cursor are the first ones, and the neighbours of the
\* cursor those next to it.
LEMMA Position ==
  ASSUME Ordered, lastId \in Nat, NEW c, Stands(c)
  PROVE  /\ Cardinality(Past) = c /\ c \in Nat /\ c <= Len(history)
         /\ cursor = 0 <=> c = 0
         /\ c # 0 => /\ cursor \in Ids /\ At(cursor) = history[c]
                     /\ PreviousId(cursor) = IF c = 1 THEN 0 ELSE history[c - 1].id
         /\ Future # {} <=> c < Len(history)
         /\ c < Len(history) => NextId = history[c + 1].id /\ At(NextId) = history[c + 1]
<1>1. /\ Len(history) \in Nat /\ DOMAIN history = 1 .. Len(history)
      /\ c \in Nat /\ c <= Len(history) /\ cursor = IF c = 0 THEN 0 ELSE history[c].id
  BY Listed DEF Stands
<1>2. \A i \in 1 .. Len(history) : history[i].id \in Nat \ {0} /\ history[i].id \in Ids
  BY ById
<1>3. \A i, j \in 1 .. Len(history) : i < j => history[i].id < history[j].id
  BY DEF Ordered
<1>4. \A i \in 1 .. Len(history) : (history[i].id <= cursor <=> i <= c)
                                   /\ (history[i].id < cursor <=> i < c)
  <2> TAKE i \in 1 .. Len(history)
  <2>1. CASE c = 0
    BY <1>1, <1>2, <2>1
  <2>2. CASE c # 0
    <3>1. c \in 1 .. Len(history) /\ cursor = history[c].id
      BY <1>1, <2>2
    <3>2. history[i].id \in Nat /\ history[c].id \in Nat
      BY <1>2, <3>1
    <3>3. i < c \/ i = c \/ c < i
      BY <1>1
    <3>4. i < c => history[i].id < history[c].id
      BY <1>3, <3>1
    <3>5. c < i => history[c].id < history[i].id
      BY <1>3, <3>1
    <3> QED
      BY <1>1, <3>1, <3>2, <3>3, <3>4, <3>5
  <2> QED
    BY <2>1, <2>2
<1>5. Cardinality(Past) = c
  <2>1. Past = 1 .. c
    BY <1>1, <1>4 DEF Past
  <2> QED
    BY <1>1, <2>1, FS_Interval
<1>6. cursor = 0 <=> c = 0
  BY <1>1, <1>2
<1>7. ASSUME c # 0
      PROVE  /\ cursor \in Ids /\ At(cursor) = history[c]
             /\ PreviousId(cursor) = IF c = 1 THEN 0 ELSE history[c - 1].id
  <2>1. c \in 1 .. Len(history) /\ cursor = history[c].id
    BY <1>1, <1>7
  <2>2. cursor \in Ids /\ At(cursor) = history[c]
    BY <2>1, ById
  <2> DEFINE earlier == {i \in Ids : i < cursor}
  <2>3. \A id \in earlier : \E j \in 1 .. Len(history) : id = history[j].id /\ j < c
    BY <1>1, <1>4 DEF Ids
  <2>4. CASE c = 1
    <3>1. earlier = {}
      BY <1>1, <2>3, <2>4
    <3> QED
      BY <2>2, <2>4, <3>1 DEF PreviousId
  <2>5. CASE c # 1
    <3>1. c - 1 \in 1 .. Len(history) /\ c - 1 < c
      BY <2>1, <2>5
    <3>2. history[c - 1].id \in earlier
      BY <1>2, <1>4, <3>1
    <3>3. \A id \in earlier : id \in Nat /\ id <= history[c - 1].id
      <4> TAKE id \in earlier
      <4>1. PICK j \in 1 .. Len(history) : id = history[j].id /\ j < c
        BY <2>3
      <4>2. j = c - 1 \/ j < c - 1
        BY <1>1, <4>1
      <4>3. history[j].id \in Nat /\ history[c - 1].id \in Nat
        BY <1>2, <3>1
      <4> QED
        BY <1>3, <3>1, <4>1, <4>2, <4>3
    <3>4. \A id \in earlier : (\A other \in earlier : other <= id) => id = history[c - 1].id
      BY <1>2, <3>1, <3>2, <3>3
    <3>5. (CHOOSE id \in earlier : \A other \in earlier : other <= id) = history[c - 1].id
      BY <3>2, <3>3, <3>4
    <3> QED
      BY <2>2, <2>5, <3>2, <3>5 DEF PreviousId
  <2> QED
    BY <2>2, <2>4, <2>5
<1>8. \A id \in Future : \E j \in 1 .. Len(history) : id = history[j].id /\ c < j
  <2> SUFFICES ASSUME NEW j \in 1 .. Len(history), history[j].id > cursor
               PROVE  c < j
    BY <1>1 DEF Future, Ids
  <2>1. history[j].id \in Nat /\ cursor \in Nat
    BY <1>1, <1>2
  <2> QED
    BY <1>1, <1>4, <2>1
<1>9. ASSUME c < Len(history)
      PROVE  history[c + 1].id \in Future /\ NextId = history[c + 1].id /\ At(NextId) = history[c + 1]
  <2>1. c + 1 \in 1 .. Len(history) /\ ~(c + 1 <= c)
    BY <1>1, <1>9
  <2>2. history[c + 1].id \in Future
    <3>1. history[c + 1].id \in Nat /\ cursor \in Nat
      BY <1>1, <1>2, <2>1
    <3> QED
      BY <1>2, <1>4, <2>1, <3>1 DEF Future
  <2>3. \A id \in Future : id \in Nat /\ history[c + 1].id <= id
    <3> TAKE id \in Future
    <3>1. PICK j \in 1 .. Len(history) : id = history[j].id /\ c < j
      BY <1>8
    <3>2. j = c + 1 \/ c + 1 < j
      BY <1>1, <3>1
    <3>3. history[j].id \in Nat /\ history[c + 1].id \in Nat
      BY <1>2, <2>1
    <3> QED
      BY <1>3, <2>1, <3>1, <3>2, <3>3
  <2>4. \A id \in Future : (\A other \in Future : id <= other) => id = history[c + 1].id
    BY <1>2, <2>1, <2>2, <2>3
  <2>5. NextId = history[c + 1].id
    BY <2>2, <2>3, <2>4 DEF NextId
  <2> QED
    BY <2>1, <2>2, <2>5, ById
<1>10. Future # {} => c < Len(history)
  BY <1>1, <1>8
<1> QED
  BY <1>1, <1>5, <1>6, <1>7, <1>9, <1>10

\* A change leaves the entries up to the cursor, but for the oldest when the
\* limit is passed, and adds its own.
LEMMA Committed ==
  ASSUME Ordered, lastId \in Nat, NEW c, Stands(c), NEW en,
         history' = Keep(Append(SubSeq(history, 1, Cardinality(Past)), en)),
         lastId' = lastId + 1, cursor' = lastId + 1, en.id = lastId + 1, Says(en)
  PROVE  \E d \in 0 .. 1 :
           /\ d <= c /\ Len(history') = c + 1 - d /\ history'[c + 1 - d] = en
           /\ \A i \in 1 .. c - d : i + d \in 1 .. Len(history) /\ history'[i] = history[i + d]
           /\ Ordered' /\ Stands(c + 1 - d)'
           /\ d = 1 => c = HISTORY_LIMIT
<1>1. /\ Len(history) \in Nat /\ c \in Nat /\ c <= Len(history)
      /\ c \in Int /\ 1 \in Int
  BY Listed, Position
<1>2. HISTORY_LIMIT \in Nat \ {0} /\ Len(history) <= HISTORY_LIMIT
  BY LimitAssumption DEF Ordered
<1> DEFINE S    == {history[i] : i \in DOMAIN history} \cup {en}
           past == SubSeq(history, 1, c)
           all  == Append(past, en)
           n    == c + 1
<1>3. /\ past \in Seq(S) /\ Len(past) = c /\ \A i \in 1 .. c : past[i] = history[i]
  <2>1. \A i \in 1 .. c : history[i] \in S
    BY <1>1, Listed
  <2> HIDE DEF S
  <2>2. /\ past \in Seq(S) /\ Len(past) = (IF 1 <= c THEN c - 1 + 1 ELSE 0)
        /\ \A i \in 1 .. c - 1 + 1 : past[i] = history[1 + i - 1]
    BY <1>1, <2>1, SubSeqProperties
  <2> QED
    BY <1>1, <2>2
<1>4. /\ all \in Seq(S) /\ Len(all) = n /\ all[n] = en /\ \A i \in 1 .. c : all[i] = history[i]
      /\ \A i \in 1 .. n : all[i] \in S
  <2>1. en \in S
    OBVIOUS
  <2> HIDE DEF S, past
  <2>2. /\ all \in Seq(S) /\ Len(all) = Len(past) + 1 /\ all[Len(past) + 1] = en
        /\ \A i \in 1 .. Len(past) : all[i] = past[i]
    BY <1>3, <2>1, AppendProperties
  <2>3. \A i \in 1 .. n : all[i] \in S
    BY <1>1, <1>3, <2>2, ElementOfSeq
  <2> QED
    BY <1>3, <2>2, <2>3
<1>5. history' = Keep(all)
  BY Position
<1> HIDE DEF S, past, all
<1>6. PICK d \in 0 .. 1 : /\ d = IF n <= HISTORY_LIMIT THEN 0 ELSE 1
                          /\ d = 1 => c = HISTORY_LIMIT
                          /\ d <= c /\ n - d <= HISTORY_LIMIT
  <2>1. CASE n <= HISTORY_LIMIT
    BY <1>1, <2>1
  <2>2. CASE ~(n <= HISTORY_LIMIT)
    BY <1>1, <1>2, <2>2
  <2> QED
    BY <2>1, <2>2
<1>7. /\ history' \in Seq(S) /\ Len(history') = n - d
      /\ \A i \in 1 .. n - d : history'[i] = all[i + d]
  <2>1. CASE n <= HISTORY_LIMIT
    <3>1. history' = all /\ d = 0
      BY <1>4, <1>5, <1>6, <2>1 DEF Keep
    <3> QED
      BY <1>1, <1>4, <3>1
  <2>2. CASE ~(n <= HISTORY_LIMIT)
    <3>1. d = 1 /\ c = HISTORY_LIMIT
      BY <1>6, <2>2
    <3>2. history' = SubSeq(all, 2, n)
      <4>1. n - HISTORY_LIMIT + 1 = 2
        BY <1>1, <3>1
      <4> QED
        BY <1>4, <1>5, <2>2, <4>1 DEF Keep
    <3>3. \A i \in 2 .. n : all[i] \in S
      BY <1>1, <1>4
    <3>4. /\ SubSeq(all, 2, n) \in Seq(S) /\ Len(SubSeq(all, 2, n)) = (IF 2 <= n THEN n - 2 + 1 ELSE 0)
          /\ \A i \in 1 .. n - 2 + 1 : SubSeq(all, 2, n)[i] = all[2 + i - 1]
      <4>1. n \in Int /\ 2 \in Int
        BY <1>1
      <4> QED
        BY <3>3, <4>1, SubSeqProperties
    <3>5. Len(history') = n - d
      BY <1>1, <1>2, <3>1, <3>2, <3>4
    <3>6. ASSUME NEW i \in 1 .. n - d PROVE history'[i] = all[i + d]
      <4>1. i \in 1 .. n - 2 + 1 /\ 2 + i - 1 = i + d
        BY <1>1, <3>1
      <4> QED
        BY <3>2, <3>4, <4>1
    <3> QED
      BY <3>2, <3>4, <3>5, <3>6
  <2> QED
    BY <2>1, <2>2
<1>8. /\ Len(history') = c + 1 - d /\ history'[c + 1 - d] = en
      /\ \A i \in 1 .. c - d : i + d \in 1 .. Len(history) /\ history'[i] = history[i + d]
  <2>1. c + 1 - d \in 1 .. n - d /\ c + 1 - d + d = n
    BY <1>1, <1>6
  <2>2. history'[c + 1 - d] = en
    BY <1>4, <1>7, <2>1
  <2>3. ASSUME NEW i \in 1 .. c - d
        PROVE  i + d \in 1 .. Len(history) /\ history'[i] = history[i + d]
    <3>1. i \in 1 .. n - d /\ i + d \in 1 .. c /\ i + d \in 1 .. Len(history)
      BY <1>1, <1>6
    <3> QED
      BY <1>4, <1>7, <3>1
  <2>4. Len(history') = c + 1 - d
    BY <1>1, <1>6, <1>7
  <2> QED
    BY <2>2, <2>3, <2>4
<1>9. Ordered'
  <2>1. history' \in Seq({history'[i] : i \in DOMAIN history'})
    <3>1. DOMAIN history' = 1 .. Len(history') /\ Len(history') \in Nat
      BY <1>7, LenProperties
    <3>2. history' = [i \in 1 .. Len(history') |-> history'[i]]
      BY <1>7, <3>1
    <3> DEFINE h == history'
               V == {h[i] : i \in DOMAIN h}
    <3>3. h \in [1 .. Len(h) -> V]
      BY <3>1, <3>2
    <3> QED
      BY <3>1, <3>3
  <2>2. \A i \in 1 .. Len(history') :
          \/ i = c + 1 - d /\ history'[i] = en
          \/ i \in 1 .. c - d /\ i + d \in 1 .. Len(history) /\ history'[i] = history[i + d]
    BY <1>1, <1>6, <1>8
  <2>3. Len(history') <= HISTORY_LIMIT
    BY <1>6, <1>7
  <2>4. \A i \in 1 .. Len(history') : Says(history'[i]) /\ history'[i].id \in 1 .. lastId'
    <3> TAKE i \in 1 .. Len(history')
    <3>1. CASE history'[i] = en
      BY <3>1
    <3>2. CASE i + d \in 1 .. Len(history) /\ history'[i] = history[i + d]
      BY <3>2 DEF Ordered
    <3> QED
      BY <2>2, <3>1, <3>2
  <2>5. \A i, j \in 1 .. Len(history') : i < j => history'[i].id < history'[j].id
    <3> SUFFICES ASSUME NEW i \in 1 .. Len(history'), NEW j \in 1 .. Len(history'), i < j
                 PROVE  history'[i].id < history'[j].id
      OBVIOUS
    <3>1. i \in 1 .. c - d /\ i + d \in 1 .. Len(history) /\ history'[i] = history[i + d]
      BY <1>1, <1>6, <1>8
    <3>2. history[i + d].id \in Nat /\ history[i + d].id <= lastId
      BY <3>1, ById
    <3>3. CASE history'[j] = en
      BY <3>1, <3>2, <3>3
    <3>4. CASE j + d \in 1 .. Len(history) /\ history'[j] = history[j + d]
      <4>1. i + d < j + d
        BY <1>1, <1>6, <1>7
      <4> QED
        BY <3>1, <3>4, <4>1 DEF Ordered
    <3> QED
      BY <2>2, <3>3, <3>4
  <2>6. \A i \in 1 .. Len(history') : Says(history[i])'
    BY <2>4 DEF Says, IsLink, IsLocator, IsMetadata, IsClear, IsSetting, IsRelink, IsForget
  <2> QED
    BY <2>1, <2>3, <2>4, <2>5, <2>6 DEF Ordered
<1>10. Stands(c + 1 - d)'
  BY <1>1, <1>6, <1>8 DEF Stands
<1> QED
  BY <1>6, <1>8, <1>9, <1>10

-----------------------------------------------------------------------------
(* The tables, and what a player sees of them.                             *)

LEMMA SameView ==
  ASSUME NEW v \in Views, NEW w \in Views,
         v.entities = w.entities, v.setting = w.setting, v.link = w.link, v.locator = w.locator,
         \A e \in Entities : v.meta[e] = w.meta[e]
  PROVE  v = w
<1>1. v.meta = w.meta
  BY DEF Views
<1> QED
  BY <1>1 DEF Views

LEMMA MetaTyped == NoMeta \in Metas /\ NoMeta.override = None /\ NoMeta.presence = "identified"
BY DEF NoMeta, Metas, Presences, Empty

LEMMA Viewed ==
  ASSUME NEW d \in Tables
  PROVE  /\ View(d) \in Views
         /\ View(d).entities = d.entities /\ View(d).link = d.link
         /\ View(d).locator = d.locator /\ View(d).setting = d.setting
         /\ \A e \in Entities : View(d).meta[e] = IF d.meta[e] = None THEN NoMeta ELSE d.meta[e]
<1>1. \A e \in Entities : d.meta[e] \in Metas \cup {None}
  BY DEF Tables
<1>2. [e \in Entities |-> IF d.meta[e] = None THEN NoMeta ELSE d.meta[e]] \in [Entities -> Metas]
  BY <1>1, MetaTyped
<1> QED
  BY <1>2 DEF View, Views, Tables
-----------------------------------------------------------------------------
(* What applying a state does: the tables, and what of them is seen.       *)

LEMMA LinkApplied ==
  ASSUME db \in Tables, NEW t \in Entities, NEW state \in LinkStates
  PROVE  LET new == Applied("spatial_link", t, state)
         IN /\ new \in Tables /\ new.entities = db.entities /\ new.meta = db.meta
            /\ new.collisions = db.collisions /\ new.setting = db.setting
            /\ new.link = [db.link EXCEPT ![t] = state.link]
            /\ new.locator = [db.locator EXCEPT ![MapOf[t]] = state.locator]
<1>1. MapOf[t] \in Maps /\ state.link \in Links \cup {None} /\ state.locator \in Locators
  BY MapAssumption DEF LinkStates
<1>2. Applied("spatial_link", t, state) = ApplyLink(t, state)
  BY DEF Applied
<1> DEFINE new == [db EXCEPT !.locator = [db.locator EXCEPT ![MapOf[t]] = state.locator],
                          !.link = [db.link EXCEPT ![t] = state.link]]
<1>3. Located(db, MapOf[t], state.locator) =
        [db EXCEPT !.locator = [db.locator EXCEPT ![MapOf[t]] = state.locator]]
  BY DEF Located, Tables
<1>4. ApplyLink(t, state) = new
  BY <1>3 DEF ApplyLink, Tables
<1>5. new \in Tables
  BY <1>1 DEF Tables
<1>6. /\ new.entities = db.entities /\ new.collisions = db.collisions /\ new.setting = db.setting
      /\ new.meta = db.meta /\ new.link = [db.link EXCEPT ![t] = state.link]
      /\ new.locator = [db.locator EXCEPT ![MapOf[t]] = state.locator]
  BY DEF Tables
<1> HIDE DEF new
<1> QED
  BY <1>2, <1>4, <1>5, <1>6

LEMMA LocatorApplied ==
  ASSUME db \in Tables, NEW m \in Maps, NEW state \in Locators
  PROVE  LET new == Applied("map_locator", m, state)
         IN /\ new \in Tables /\ new.entities = db.entities /\ new.meta = db.meta
            /\ new.collisions = db.collisions /\ new.setting = db.setting
            /\ new.link = db.link /\ new.locator = [db.locator EXCEPT ![m] = state]
<1>1. Applied("map_locator", m, state) = Located(db, m, state)
  BY DEF Applied
<1> QED
  BY <1>1 DEF Located, Tables

LEMMA MetadataApplied ==
  ASSUME db \in Tables, NEW t \in Entities, NEW state \in Metas \cup {None}
  PROVE  LET new == Applied("entity_metadata", t, state)
         IN /\ new \in Tables /\ new.entities = db.entities
            /\ new.meta = [db.meta EXCEPT ![t] = state]
            /\ new.collisions = db.collisions /\ new.setting = db.setting
            /\ new.link = db.link /\ new.locator = db.locator
<1>1. Applied("entity_metadata", t, state) = [db EXCEPT !.meta[t] = state]
  BY DEF Applied
<1> QED
  BY <1>1 DEF Tables

LEMMA SettingApplied ==
  ASSUME db \in Tables, NEW t, NEW state \in Values \cup {None}
  PROVE  LET new == Applied("user_setting", t, state)
         IN /\ new \in Tables /\ new.entities = db.entities /\ new.meta = db.meta
            /\ new.collisions = db.collisions /\ new.setting = state
            /\ new.link = db.link /\ new.locator = db.locator
<1>1. Applied("user_setting", t, state) = [db EXCEPT !.setting = state]
  BY DEF Applied
<1> QED
  BY <1>1 DEF Tables

OnOverride(meta, value) == [meta EXCEPT !.override = value]

LEMMA ClearApplied ==
  ASSUME db \in Tables, NEW t, NEW D \in SUBSET Entities, NEW state \in [D -> Values]
  PROVE  LET new == Applied("clear_entity_overrides", t, state)
         IN /\ new \in Tables /\ new.entities = db.entities
            /\ \A e \in Entities : new.meta[e] = IF db.meta[e] = None THEN None
                 ELSE OnOverride(db.meta[e], IF e \in D THEN state[e] ELSE None)
            /\ new.collisions = db.collisions /\ new.setting = db.setting
            /\ new.link = db.link /\ new.locator = db.locator
<1> DEFINE meta == [e \in Entities |-> IF db.meta[e] = None THEN None
                     ELSE [db.meta[e] EXCEPT !.override = IF e \in DOMAIN state THEN state[e] ELSE None]]
<1>1. Applied("clear_entity_overrides", t, state) = [db EXCEPT !.meta = meta]
  BY DEF Applied, Overrides
<1>2. ASSUME NEW e \in Entities, db.meta[e] # None
      PROVE  [db.meta[e] EXCEPT !.override = IF e \in DOMAIN state THEN state[e] ELSE None] \in Metas
  BY <1>2 DEF Tables, Metas
<1>3. meta \in [Entities -> Metas \cup {None}]
  BY <1>2
<1>4. \A e \in Entities : meta[e] = IF db.meta[e] = None THEN None
        ELSE OnOverride(db.meta[e], IF e \in D THEN state[e] ELSE None)
  BY DEF OnOverride
<1> HIDE DEF meta
<1> QED
  BY <1>1, <1>3, <1>4 DEF Tables

LEMMA GoneTyped ==
  ASSUME db \in Tables, NEW t \in Entities
  PROVE  LET new == Gone(db, t)
         IN /\ new \in Tables /\ new.entities = db.entities \ {t}
            /\ new.meta = [db.meta EXCEPT ![t] = None]
            /\ new.collisions = db.collisions \ {t} /\ new.setting = db.setting
            /\ new.link = [db.link EXCEPT ![t] = None] /\ new.locator = db.locator
<1> DEFINE new == [db EXCEPT !.entities = db.entities \ {t}, !.meta = [db.meta EXCEPT ![t] = None],
                          !.link = [db.link EXCEPT ![t] = None],
                          !.collisions = db.collisions \ {t}]
<1>1. Gone(db, t) = new
  BY DEF Gone, Tables
<1>2. new \in Tables
  BY DEF Tables
<1>3. /\ new.entities = db.entities \ {t} /\ new.meta = [db.meta EXCEPT ![t] = None]
      /\ new.collisions = db.collisions \ {t} /\ new.setting = db.setting
      /\ new.link = [db.link EXCEPT ![t] = None] /\ new.locator = db.locator
  BY DEF Tables
<1> HIDE DEF new
<1> QED
  BY <1>1, <1>2, <1>3

\* Its undo, a state that says an entity exists, and its redo, one that does not.
LEMMA ForgetUndone ==
  ASSUME db \in Tables, NEW t \in Entities,
         NEW state \in [exists : {TRUE}, meta : Metas, link : Links \cup {None}]
  PROVE  LET new == Applied("forget_map_entity", t, state)
         IN /\ new \in Tables /\ new.entities = db.entities \cup {t}
            /\ new.meta = [db.meta EXCEPT ![t] = state.meta]
            /\ new.collisions = db.collisions \ {t} /\ new.setting = db.setting
            /\ new.link = [db.link EXCEPT ![t] = state.link] /\ new.locator = db.locator
<1>1. Applied("forget_map_entity", t, state) =
        [Gone(db, t) EXCEPT !.entities = @ \cup {t}, !.meta[t] = state.meta, !.link[t] = state.link]
  BY DEF Applied, ApplyForget
<1>2. state.meta \in Metas /\ state.link \in Links \cup {None}
  OBVIOUS
<1> DEFINE gone == Gone(db, t)
           new  == [gone EXCEPT !.entities = gone.entities \cup {t},
                                !.meta = [gone.meta EXCEPT ![t] = state.meta],
                                !.link = [gone.link EXCEPT ![t] = state.link]]
<1>3. /\ gone \in Tables /\ gone.entities = db.entities \ {t}
      /\ gone.meta = [db.meta EXCEPT ![t] = None]
      /\ gone.collisions = db.collisions \ {t} /\ gone.setting = db.setting
      /\ gone.link = [db.link EXCEPT ![t] = None] /\ gone.locator = db.locator
  BY GoneTyped
<1> HIDE DEF gone
<1>4. Applied("forget_map_entity", t, state) = new
  BY <1>1, <1>3 DEF gone, Tables
<1>5. new \in Tables
  BY <1>2, <1>3 DEF Tables
<1>6. /\ new.entities = gone.entities \cup {t} /\ new.meta = [gone.meta EXCEPT ![t] = state.meta]
      /\ new.link = [gone.link EXCEPT ![t] = state.link] /\ new.collisions = gone.collisions
      /\ new.setting = gone.setting /\ new.locator = gone.locator
  BY <1>3 DEF Tables
<1> HIDE DEF new
<1>7. new.meta = [db.meta EXCEPT ![t] = state.meta]
  BY <1>3, <1>6 DEF Tables
<1>8. new.link = [db.link EXCEPT ![t] = state.link]
  BY <1>3, <1>6 DEF Tables
<1> QED
  BY <1>3, <1>4, <1>5, <1>6, <1>7, <1>8

LEMMA ForgetRedone ==
  ASSUME db \in Tables, NEW t \in Entities
  PROVE  LET new == Applied("forget_map_entity", t, [exists |-> FALSE, meta |-> None, link |-> None])
         IN /\ new = Gone(db, t)
            /\ new \in Tables /\ new.entities = db.entities \ {t}
            /\ new.meta = [db.meta EXCEPT ![t] = None]
            /\ new.collisions = db.collisions \ {t} /\ new.setting = db.setting
            /\ new.link = [db.link EXCEPT ![t] = None] /\ new.locator = db.locator
<1>1. Applied("forget_map_entity", t, [exists |-> FALSE, meta |-> None, link |-> None]) = Gone(db, t)
  BY DEF Applied, ApplyForget
<1> DEFINE gone == Gone(db, t)
           new  == Applied("forget_map_entity", t, [exists |-> FALSE, meta |-> None, link |-> None])
<1>2. /\ gone \in Tables /\ gone.entities = db.entities \ {t}
      /\ gone.meta = [db.meta EXCEPT ![t] = None]
      /\ gone.collisions = db.collisions \ {t} /\ gone.setting = db.setting
      /\ gone.link = [db.link EXCEPT ![t] = None] /\ gone.locator = db.locator
  BY GoneTyped
<1>3. new = gone
  BY <1>1
<1>4. gone = Gone(db, t)
  OBVIOUS
<1> HIDE DEF new, gone
<1> QED
  BY <1>2, <1>3, <1>4 DEF new

LEMMA RelinkUndone ==
  ASSUME db \in Tables, NEW s \in Entities,
         NEW state \in [target : Entities \ {s}, source : Metas, link : Links, replaced : Metas]
  PROVE  LET new == Applied("relink_entity", s, state)
         IN /\ new \in Tables /\ new.entities = db.entities
            /\ new.meta = [db.meta EXCEPT ![s] = state.source, ![state.target] = state.replaced]
            /\ new.collisions = db.collisions /\ new.setting = db.setting
            /\ new.link = [db.link EXCEPT ![s] = state.link, ![state.target] = None]
            /\ new.locator = db.locator
<1>1. Applied("relink_entity", s, state) = UndoRelink(s, state)
  BY DEF Applied
<1>2. /\ state.target \in Entities /\ state.target # s
      /\ state.source \in Metas /\ state.link \in Links /\ state.replaced \in Metas
  OBVIOUS
<1> DEFINE new == [db EXCEPT
             !.meta = [db.meta EXCEPT ![s] = state.source, ![state.target] = state.replaced],
             !.link = [db.link EXCEPT ![s] = state.link, ![state.target] = None]]
<1>3. UndoRelink(s, state) = new
  BY DEF UndoRelink, Tables
<1>4. new \in Tables
  BY <1>2 DEF Tables
<1>5. /\ new.entities = db.entities /\ new.collisions = db.collisions /\ new.setting = db.setting
      /\ new.meta = [db.meta EXCEPT ![s] = state.source, ![state.target] = state.replaced]
      /\ new.link = [db.link EXCEPT ![s] = state.link, ![state.target] = None]
      /\ new.locator = db.locator
  BY DEF Tables
<1> HIDE DEF new
<1> QED
  BY <1>1, <1>3, <1>4, <1>5

LEMMA RelinkRedone ==
  ASSUME db \in Tables, NEW s \in Entities, NEW t \in Entities \ {s}, NEW moved \in Metas,
         NEW link \in Links, link.state = "active"
  PROVE  LET new == Applied("relink_entity", s, [target |-> t, moved |-> moved, link |-> link])
         IN /\ new \in Tables /\ new.entities = db.entities
            /\ new.meta = [db.meta EXCEPT ![t] = moved, ![s] = IF @ = None THEN None ELSE Missing(@)]
            /\ new.collisions = db.collisions /\ new.setting = db.setting
            /\ new.link = [db.link EXCEPT ![t] = link, ![s] = None]
            /\ new.locator = db.locator
<1>1. Applied("relink_entity", s, [target |-> t, moved |-> moved, link |-> link]) =
        RedoRelink(s, [target |-> t, moved |-> moved, link |-> link])
  BY DEF Applied
<1>2. [link EXCEPT !.state = "active"] = link
  BY DEF Links
<1>3. db.meta[s] # None => Missing(db.meta[s]) \in Metas
  BY DEF Missing, Tables, Metas, Presences
<1> DEFINE after == IF db.meta[s] = None THEN None ELSE Missing(db.meta[s])
<1>4. after \in Metas \cup {None}
  BY <1>3
<1>5. RedoRelink(s, [target |-> t, moved |-> moved, link |-> link]) =
        [db EXCEPT !.meta = [db.meta EXCEPT ![t] = moved, ![s] = after],
                   !.link = [db.link EXCEPT ![t] = link, ![s] = None]]
  BY <1>2 DEF RedoRelink, Tables
<1> HIDE DEF after
<1>6. [db.meta EXCEPT ![t] = moved, ![s] = after] \in [Entities -> Metas \cup {None}]
  BY <1>4 DEF Tables
<1>7. [db.link EXCEPT ![t] = link, ![s] = None] \in [Entities -> Links \cup {None}]
  BY DEF Tables
<1>8. [db.meta EXCEPT ![t] = moved, ![s] = after] =
        [db.meta EXCEPT ![t] = moved, ![s] = IF @ = None THEN None ELSE Missing(@)]
  BY DEF after, Tables
<1> DEFINE new == [db EXCEPT !.meta = [db.meta EXCEPT ![t] = moved, ![s] = after],
                          !.link = [db.link EXCEPT ![t] = link, ![s] = None]]
<1>9. new \in Tables
  BY <1>6, <1>7 DEF Tables
<1>10. /\ new.entities = db.entities /\ new.collisions = db.collisions /\ new.setting = db.setting
       /\ new.meta = [db.meta EXCEPT ![t] = moved, ![s] = after]
       /\ new.link = [db.link EXCEPT ![t] = link, ![s] = None] /\ new.locator = db.locator
  BY DEF Tables
<1> HIDE DEF new
<1> QED
  BY <1>1, <1>5, <1>8, <1>9, <1>10 DEF new

-----------------------------------------------------------------------------
(* What is seen of it.                                                     *)

LEMMA LinkSeen ==
  ASSUME db \in Tables, NEW t \in Entities, NEW state \in LinkStates
  PROVE  View(Applied("spatial_link", t, state)) =
           [View(db) EXCEPT !.link[t] = state.link, !.locator[MapOf[t]] = state.locator]
<1> DEFINE new == Applied("spatial_link", t, state)
           v   == View(db)
           w   == [v EXCEPT !.link = [v.link EXCEPT ![t] = state.link],
                            !.locator = [v.locator EXCEPT ![MapOf[t]] = state.locator]]
<1>1. MapOf[t] \in Maps /\ state.link \in Links \cup {None} /\ state.locator \in Locators
  BY MapAssumption DEF LinkStates
<1>2. /\ new \in Tables /\ new.entities = db.entities /\ new.meta = db.meta
      /\ new.setting = db.setting /\ new.link = [db.link EXCEPT ![t] = state.link]
      /\ new.locator = [db.locator EXCEPT ![MapOf[t]] = state.locator]
  BY LinkApplied
<1> HIDE DEF new
<1>3. View(new) \in Views /\ v \in Views
  BY <1>2, Viewed
<1>4. /\ View(new).entities = v.entities /\ View(new).setting = v.setting
      /\ View(new).link = [v.link EXCEPT ![t] = state.link]
      /\ View(new).locator = [v.locator EXCEPT ![MapOf[t]] = state.locator]
      /\ \A e \in Entities : View(new).meta[e] = v.meta[e]
  BY <1>2, Viewed
<1> HIDE DEF v
<1>5. /\ w \in Views /\ w.entities = v.entities /\ w.setting = v.setting /\ w.meta = v.meta
      /\ w.link = [v.link EXCEPT ![t] = state.link]
      /\ w.locator = [v.locator EXCEPT ![MapOf[t]] = state.locator]
  BY <1>1, <1>3 DEF Views
<1>6. w = [v EXCEPT !.link[t] = state.link, !.locator[MapOf[t]] = state.locator]
  BY <1>3 DEF Views
<1> HIDE DEF w
<1>7. View(new) = w
  BY <1>3, <1>4, <1>5, SameView
<1> QED
  BY <1>6, <1>7 DEF new, v

LEMMA LocatorSeen ==
  ASSUME db \in Tables, NEW m \in Maps, NEW state \in Locators
  PROVE  View(Applied("map_locator", m, state)) = [View(db) EXCEPT !.locator[m] = state]
<1> DEFINE new == Applied("map_locator", m, state)
           v   == View(db)
           w   == [v EXCEPT !.locator[m] = state]
<1>1. /\ new \in Tables /\ new.entities = db.entities /\ new.meta = db.meta
      /\ new.setting = db.setting /\ new.link = db.link
      /\ new.locator = [db.locator EXCEPT ![m] = state]
  BY LocatorApplied
<1> HIDE DEF new
<1>2. View(new) \in Views /\ v \in Views
  BY <1>1, Viewed
<1>3. /\ View(new).entities = v.entities /\ View(new).setting = v.setting
      /\ View(new).link = v.link /\ View(new).locator = [v.locator EXCEPT ![m] = state]
      /\ \A e \in Entities : View(new).meta[e] = v.meta[e]
  BY <1>1, Viewed
<1> HIDE DEF v
<1>4. /\ w \in Views /\ w.entities = v.entities /\ w.setting = v.setting /\ w.meta = v.meta
      /\ w.link = v.link /\ w.locator = [v.locator EXCEPT ![m] = state]
  BY <1>2 DEF Views
<1> HIDE DEF w
<1>5. View(new) = w
  BY <1>2, <1>3, <1>4, SameView
<1> QED
  BY <1>5 DEF new, v, w

LEMMA MetadataSeen ==
  ASSUME db \in Tables, NEW t \in Entities, NEW state \in Metas \cup {None}
  PROVE  View(Applied("entity_metadata", t, state)) =
           [View(db) EXCEPT !.meta[t] = IF state = None THEN NoMeta ELSE state]
<1> DEFINE new == Applied("entity_metadata", t, state)
           v   == View(db)
           x   == IF state = None THEN NoMeta ELSE state
           w   == [v EXCEPT !.meta[t] = x]
<1>1. /\ new \in Tables /\ new.entities = db.entities
      /\ new.meta = [db.meta EXCEPT ![t] = state]
      /\ new.setting = db.setting /\ new.link = db.link /\ new.locator = db.locator
  BY MetadataApplied
<1>2. x \in Metas
  BY MetaTyped
<1> HIDE DEF new
<1>3. View(new) \in Views /\ v \in Views
  BY <1>1, Viewed
<1>4. /\ View(new).entities = v.entities /\ View(new).setting = v.setting
      /\ View(new).link = v.link /\ View(new).locator = v.locator
  BY <1>1, Viewed
<1>5. \A e \in Entities : View(new).meta[e] = IF e = t THEN x ELSE v.meta[e]
  <2> TAKE e \in Entities
  <2>1. new.meta[e] = IF e = t THEN state ELSE db.meta[e]
    BY <1>1 DEF Tables
  <2>2. View(new).meta[e] = IF new.meta[e] = None THEN NoMeta ELSE new.meta[e]
    BY <1>1, Viewed
  <2>3. v.meta[e] = IF db.meta[e] = None THEN NoMeta ELSE db.meta[e]
    BY Viewed
  <2> HIDE DEF v
  <2> QED
    BY <2>1, <2>2, <2>3
<1> HIDE DEF v, x
<1>6. /\ w \in Views /\ w.entities = v.entities /\ w.setting = v.setting
      /\ w.meta = [v.meta EXCEPT ![t] = x] /\ w.link = v.link /\ w.locator = v.locator
  BY <1>2, <1>3 DEF Views
<1> HIDE DEF w
<1>7. \A e \in Entities : View(new).meta[e] = w.meta[e]
  BY <1>3, <1>5, <1>6 DEF Views
<1>8. View(new) = w
  <2>1. /\ View(new) \in Views /\ w \in Views
        /\ View(new).entities = w.entities /\ View(new).setting = w.setting
        /\ View(new).link = w.link /\ View(new).locator = w.locator
    BY <1>3, <1>4, <1>6
  <2>2. \A e \in Entities : View(new).meta[e] = w.meta[e]
    BY <1>4, <1>6, <1>7
  <2> QED
    BY <2>1, <2>2, SameView
<1> QED
  BY <1>8 DEF new, v, w, x

LEMMA SettingSeen ==
  ASSUME db \in Tables, NEW t, NEW state \in Values \cup {None}
  PROVE  View(Applied("user_setting", t, state)) = [View(db) EXCEPT !.setting = state]
<1> DEFINE new == Applied("user_setting", t, state)
           v   == View(db)
           w   == [v EXCEPT !.setting = state]
<1>1. /\ new \in Tables /\ new.entities = db.entities /\ new.meta = db.meta
      /\ new.setting = state /\ new.link = db.link /\ new.locator = db.locator
  BY SettingApplied
<1> HIDE DEF new
<1>2. View(new) \in Views /\ v \in Views
  BY <1>1, Viewed
<1>3. /\ View(new).entities = v.entities /\ View(new).setting = state
      /\ View(new).link = v.link /\ View(new).locator = v.locator
      /\ \A e \in Entities : View(new).meta[e] = v.meta[e]
  BY <1>1, Viewed
<1> HIDE DEF v
<1>4. /\ w \in Views /\ w.entities = v.entities /\ w.setting = state /\ w.meta = v.meta
      /\ w.link = v.link /\ w.locator = v.locator
  BY <1>2 DEF Views
<1> HIDE DEF w
<1>5. View(new) = w
  <2>1. /\ View(new) \in Views /\ w \in Views
        /\ View(new).entities = w.entities /\ View(new).setting = w.setting
        /\ View(new).link = w.link /\ View(new).locator = w.locator
    BY <1>2, <1>3, <1>4
  <2>2. \A e \in Entities : View(new).meta[e] = w.meta[e]
    BY <1>3, <1>4
  <2> QED
    BY <2>1, <2>2, SameView
<1> QED
  BY <1>5 DEF new, v, w

\* The views after a clear or its undo, a forgetting undone, a relink and its undo.
WithOverrides(v, D, state) ==
  [v EXCEPT !.meta = [e \in Entities |->
     [v.meta[e] EXCEPT !.override = IF e \in D THEN state[e] ELSE None]]]
Restored(v, t, state) ==
  [v EXCEPT !.entities = @ \cup {t}, !.meta[t] = state.meta, !.link[t] = state.link]
Relinked(v, s, t, moved, link) ==
  [v EXCEPT !.meta[t] = moved, !.link[t] = link, !.link[s] = None]
RelinkedBack(v, s, state) ==
  [v EXCEPT !.meta[s] = state.source, !.meta[state.target] = state.replaced,
            !.link[s] = state.link, !.link[state.target] = None]

LEMMA ClearSeen ==
  ASSUME db \in Tables, NEW t, NEW D \in SUBSET Entities, NEW state \in [D -> Values],
         \A e \in D : db.meta[e] # None
  PROVE  View(Applied("clear_entity_overrides", t, state)) = WithOverrides(View(db), D, state)
<1> DEFINE new == Applied("clear_entity_overrides", t, state)
           v   == View(db)
           meta == [e \in Entities |-> [v.meta[e] EXCEPT !.override = IF e \in D THEN state[e] ELSE None]]
           w   == [v EXCEPT !.meta = meta]
<1>1. /\ new \in Tables /\ new.entities = db.entities
      /\ \A e \in Entities : new.meta[e] = IF db.meta[e] = None THEN None
           ELSE OnOverride(db.meta[e], IF e \in D THEN state[e] ELSE None)
      /\ new.setting = db.setting /\ new.link = db.link /\ new.locator = db.locator
  BY ClearApplied
<1> HIDE DEF new
<1>2. View(new) \in Views /\ v \in Views
  BY <1>1, Viewed
<1>3. /\ View(new).entities = v.entities /\ View(new).setting = v.setting
      /\ View(new).link = v.link /\ View(new).locator = v.locator
  BY <1>1, Viewed
<1>4. meta \in [Entities -> Metas]
  <2>1. ASSUME NEW e \in Entities
        PROVE  [v.meta[e] EXCEPT !.override = IF e \in D THEN state[e] ELSE None] \in Metas
    <3>1. v.meta[e] \in Metas
      BY <1>2 DEF Views
    <3> HIDE DEF v
    <3> QED
      BY <3>1 DEF Metas
  <2> QED
    BY <2>1
<1>5. \A e \in Entities : View(new).meta[e] = meta[e]
  <2> TAKE e \in Entities
  <2>1. View(new).meta[e] = IF new.meta[e] = None THEN NoMeta ELSE new.meta[e]
    BY <1>1, Viewed
  <2>2. v.meta[e] = IF db.meta[e] = None THEN NoMeta ELSE db.meta[e]
    BY Viewed
  <2>3. meta[e] = [v.meta[e] EXCEPT !.override = IF e \in D THEN state[e] ELSE None]
    OBVIOUS
  <2> HIDE DEF v, meta
  <2>4. CASE db.meta[e] = None
    <3>1. e \notin D /\ new.meta[e] = None /\ v.meta[e] = NoMeta
      BY <1>1, <2>2, <2>4
    <3>2. [NoMeta EXCEPT !.override = None] = NoMeta
      BY MetaTyped DEF Metas
    <3> QED
      BY <2>1, <2>3, <3>1, <3>2
  <2>5. CASE db.meta[e] # None
    <3>1. new.meta[e] = [db.meta[e] EXCEPT !.override = IF e \in D THEN state[e] ELSE None]
      BY <1>1, <2>5 DEF OnOverride
    <3>2. new.meta[e] = meta[e]
      BY <2>2, <2>3, <2>5, <3>1
    <3>3. meta[e] # None
      BY <1>4, RowAssumption
    <3> QED
      BY <2>1, <3>2, <3>3
  <2> QED
    BY <2>4, <2>5
<1>6. meta = [e \in Entities |->
                [View(db).meta[e] EXCEPT !.override = IF e \in D THEN state[e] ELSE None]]
  OBVIOUS
<1> HIDE DEF v, meta
<1>7. /\ w \in Views /\ w.entities = v.entities /\ w.setting = v.setting /\ w.meta = meta
      /\ w.link = v.link /\ w.locator = v.locator
  BY <1>2, <1>4 DEF Views
<1> HIDE DEF w
<1>8. View(new) = w
  <2>1. /\ View(new) \in Views /\ w \in Views
        /\ View(new).entities = w.entities /\ View(new).setting = w.setting
        /\ View(new).link = w.link /\ View(new).locator = w.locator
    BY <1>2, <1>3, <1>7
  <2>2. \A e \in Entities : View(new).meta[e] = w.meta[e]
    BY <1>3, <1>5, <1>7
  <2> QED
    BY <2>1, <2>2, SameView
<1> QED
  BY <1>6, <1>8 DEF new, v, w, WithOverrides

LEMMA ForgetUndoneSeen ==
  ASSUME db \in Tables, NEW t \in Entities,
         NEW state \in [exists : {TRUE}, meta : Metas, link : Links \cup {None}]
  PROVE  View(Applied("forget_map_entity", t, state)) = Restored(View(db), t, state)
<1> DEFINE new == Applied("forget_map_entity", t, state)
           v   == View(db)
           w   == [v EXCEPT !.entities = v.entities \cup {t}, !.meta = [v.meta EXCEPT ![t] = state.meta],
                            !.link = [v.link EXCEPT ![t] = state.link]]
<1>1. /\ new \in Tables /\ new.entities = db.entities \cup {t}
      /\ new.meta = [db.meta EXCEPT ![t] = state.meta] /\ new.setting = db.setting
      /\ new.link = [db.link EXCEPT ![t] = state.link] /\ new.locator = db.locator
  BY ForgetUndone
<1>2. state.meta \in Metas /\ state.meta # None /\ state.link \in Links \cup {None}
  BY RowAssumption
<1> HIDE DEF new
<1>3. View(new) \in Views /\ v \in Views
  BY <1>1, Viewed
<1>4. /\ View(new).entities = v.entities \cup {t} /\ View(new).setting = v.setting
      /\ View(new).link = [v.link EXCEPT ![t] = state.link] /\ View(new).locator = v.locator
  BY <1>1, Viewed
<1>5. \A e \in Entities : View(new).meta[e] = IF e = t THEN state.meta ELSE v.meta[e]
  <2> TAKE e \in Entities
  <2>1. new.meta[e] = IF e = t THEN state.meta ELSE db.meta[e]
    BY <1>1 DEF Tables
  <2>2. View(new).meta[e] = IF new.meta[e] = None THEN NoMeta ELSE new.meta[e]
    <3>1. new \in Tables
      BY <1>1
    <3> QED
      BY <3>1, Viewed
  <2>3. v.meta[e] = IF db.meta[e] = None THEN NoMeta ELSE db.meta[e]
    BY Viewed
  <2> HIDE DEF v
  <2> QED
    BY <1>2, <2>1, <2>2, <2>3
<1> HIDE DEF v
<1>6. w = [v EXCEPT !.entities = @ \cup {t}, !.meta[t] = state.meta, !.link[t] = state.link]
  BY <1>3 DEF Views
<1>7. /\ w \in Views /\ w.entities = v.entities \cup {t} /\ w.setting = v.setting
      /\ w.meta = [v.meta EXCEPT ![t] = state.meta] /\ w.link = [v.link EXCEPT ![t] = state.link]
      /\ w.locator = v.locator
  BY <1>2, <1>3 DEF Views
<1> HIDE DEF w
<1>8. \A e \in Entities : View(new).meta[e] = w.meta[e]
  BY <1>3, <1>5, <1>7 DEF Views
<1>9. View(new) = w
  <2>1. /\ View(new) \in Views /\ w \in Views
        /\ View(new).entities = w.entities /\ View(new).setting = w.setting
        /\ View(new).link = w.link /\ View(new).locator = w.locator
    BY <1>3, <1>4, <1>7
  <2>2. \A e \in Entities : View(new).meta[e] = w.meta[e]
    BY <1>4, <1>7, <1>8
  <2> QED
    BY <2>1, <2>2, SameView
<1> QED
  BY <1>6, <1>9 DEF new, v, Restored

LEMMA ForgetRedoneSeen ==
  ASSUME db \in Tables, NEW t \in Entities
  PROVE  View(Applied("forget_map_entity", t, [exists |-> FALSE, meta |-> None, link |-> None])) =
           [View(db) EXCEPT !.entities = @ \ {t}, !.meta[t] = NoMeta, !.link[t] = None]
<1> DEFINE new == Applied("forget_map_entity", t, [exists |-> FALSE, meta |-> None, link |-> None])
           v   == View(db)
           w   == [v EXCEPT !.entities = v.entities \ {t}, !.meta = [v.meta EXCEPT ![t] = NoMeta],
                            !.link = [v.link EXCEPT ![t] = None]]
<1>1. /\ new \in Tables /\ new.entities = db.entities \ {t}
      /\ new.meta = [db.meta EXCEPT ![t] = None] /\ new.setting = db.setting
      /\ new.link = [db.link EXCEPT ![t] = None] /\ new.locator = db.locator
  BY ForgetRedone
<1> HIDE DEF new
<1>2. View(new) \in Views /\ v \in Views
  BY <1>1, Viewed
<1>3. /\ View(new).entities = v.entities \ {t} /\ View(new).setting = v.setting
      /\ View(new).link = [v.link EXCEPT ![t] = None] /\ View(new).locator = v.locator
  BY <1>1, Viewed
<1>4. \A e \in Entities : View(new).meta[e] = IF e = t THEN NoMeta ELSE v.meta[e]
  <2> TAKE e \in Entities
  <2>1. new.meta[e] = IF e = t THEN None ELSE db.meta[e]
    BY <1>1 DEF Tables
  <2>2. View(new).meta[e] = IF new.meta[e] = None THEN NoMeta ELSE new.meta[e]
    BY <1>1, Viewed
  <2>3. v.meta[e] = IF db.meta[e] = None THEN NoMeta ELSE db.meta[e]
    BY Viewed
  <2> HIDE DEF v
  <2> QED
    BY <2>1, <2>2, <2>3
<1> HIDE DEF v
<1>5. w = [v EXCEPT !.entities = @ \ {t}, !.meta[t] = NoMeta, !.link[t] = None]
  BY <1>2 DEF Views
<1>6. /\ w \in Views /\ w.entities = v.entities \ {t} /\ w.setting = v.setting
      /\ w.meta = [v.meta EXCEPT ![t] = NoMeta] /\ w.link = [v.link EXCEPT ![t] = None]
      /\ w.locator = v.locator
  BY <1>2, MetaTyped DEF Views
<1> HIDE DEF w
<1>7. \A e \in Entities : View(new).meta[e] = w.meta[e]
  BY <1>2, <1>4, <1>6 DEF Views
<1>8. View(new) = w
  <2>1. /\ View(new) \in Views /\ w \in Views
        /\ View(new).entities = w.entities /\ View(new).setting = w.setting
        /\ View(new).link = w.link /\ View(new).locator = w.locator
    BY <1>2, <1>3, <1>6
  <2>2. \A e \in Entities : View(new).meta[e] = w.meta[e]
    BY <1>3, <1>6, <1>7
  <2> QED
    BY <2>1, <2>2, SameView
<1> QED
  BY <1>5, <1>8 DEF new, v

LEMMA RelinkUndoneSeen ==
  ASSUME db \in Tables, NEW s \in Entities,
         NEW state \in [target : Entities \ {s}, source : Metas, link : Links, replaced : Metas]
  PROVE  View(Applied("relink_entity", s, state)) = RelinkedBack(View(db), s, state)
<1> DEFINE new == Applied("relink_entity", s, state)
           t   == state.target
           v   == View(db)
           w   == [v EXCEPT !.meta = [v.meta EXCEPT ![s] = state.source, ![t] = state.replaced],
                            !.link = [v.link EXCEPT ![s] = state.link, ![t] = None]]
<1>1. /\ new \in Tables /\ new.entities = db.entities
      /\ new.meta = [db.meta EXCEPT ![s] = state.source, ![t] = state.replaced]
      /\ new.setting = db.setting
      /\ new.link = [db.link EXCEPT ![s] = state.link, ![t] = None] /\ new.locator = db.locator
  BY RelinkUndone
<1>2. /\ t \in Entities /\ t # s /\ state.link \in Links
      /\ state.source \in Metas /\ state.source # None
      /\ state.replaced \in Metas /\ state.replaced # None
  BY RowAssumption
<1> HIDE DEF new
<1>3. View(new) \in Views /\ v \in Views
  BY <1>1, Viewed
<1>4. /\ View(new).entities = v.entities /\ View(new).setting = v.setting
      /\ View(new).link = [v.link EXCEPT ![s] = state.link, ![t] = None]
      /\ View(new).locator = v.locator
  BY <1>1, Viewed
<1>5. w = [v EXCEPT !.meta[s] = state.source, !.meta[t] = state.replaced,
                    !.link[s] = state.link, !.link[t] = None]
  <2> HIDE DEF v
  <2> QED
    BY <1>3 DEF Views
<1> HIDE DEF t
<1>6. \A e \in Entities : View(new).meta[e] =
        IF e = t THEN state.replaced ELSE IF e = s THEN state.source ELSE v.meta[e]
  <2> TAKE e \in Entities
  <2>1. new.meta[e] = IF e = t THEN state.replaced ELSE IF e = s THEN state.source ELSE db.meta[e]
    BY <1>1 DEF Tables
  <2>2. View(new).meta[e] = IF new.meta[e] = None THEN NoMeta ELSE new.meta[e]
    BY <1>1, Viewed
  <2>3. v.meta[e] = IF db.meta[e] = None THEN NoMeta ELSE db.meta[e]
    BY Viewed
  <2> HIDE DEF v
  <2> QED
    BY <1>2, <2>1, <2>2, <2>3
<1> HIDE DEF v
<1>7. /\ w \in Views /\ w.entities = v.entities /\ w.setting = v.setting
      /\ w.meta = [v.meta EXCEPT ![s] = state.source, ![t] = state.replaced]
      /\ w.link = [v.link EXCEPT ![s] = state.link, ![t] = None] /\ w.locator = v.locator
  BY <1>2, <1>3 DEF Views
<1> HIDE DEF w
<1>8. \A e \in Entities : View(new).meta[e] = w.meta[e]
  BY <1>3, <1>6, <1>7 DEF Views
<1>9. View(new) = w
  <2>1. /\ View(new) \in Views /\ w \in Views
        /\ View(new).entities = w.entities /\ View(new).setting = w.setting
        /\ View(new).link = w.link /\ View(new).locator = w.locator
    BY <1>3, <1>4, <1>7
  <2>2. \A e \in Entities : View(new).meta[e] = w.meta[e]
    BY <1>4, <1>7, <1>8
  <2> QED
    BY <2>1, <2>2, SameView
<1> QED
  BY <1>5, <1>9 DEF new, v, t, RelinkedBack

LEMMA RelinkRedoneSeen ==
  ASSUME db \in Tables, NEW s \in Entities, NEW t \in Entities \ {s}, NEW moved \in Metas,
         NEW link \in Links, link.state = "active",
         View(db).meta[s].presence = "entity_missing"
  PROVE  View(Applied("relink_entity", s, [target |-> t, moved |-> moved, link |-> link])) =
           Relinked(View(db), s, t, moved, link)
<1> DEFINE new == Applied("relink_entity", s, [target |-> t, moved |-> moved, link |-> link])
           v   == View(db)
           w   == [v EXCEPT !.meta = [v.meta EXCEPT ![t] = moved],
                            !.link = [v.link EXCEPT ![t] = link, ![s] = None]]
<1>1. /\ new \in Tables /\ new.entities = db.entities
      /\ new.meta = [db.meta EXCEPT ![t] = moved, ![s] = IF @ = None THEN None ELSE Missing(@)]
      /\ new.setting = db.setting
      /\ new.link = [db.link EXCEPT ![t] = link, ![s] = None] /\ new.locator = db.locator
  BY RelinkRedone
<1>2. moved # None /\ t # s
  BY RowAssumption
<1>3. db.meta[s] # None /\ Missing(db.meta[s]) = db.meta[s]
  <2>1. View(db).meta[s] = IF db.meta[s] = None THEN NoMeta ELSE db.meta[s]
    BY Viewed
  <2>2. db.meta[s] # None /\ db.meta[s].presence = "entity_missing"
    BY <2>1, MetaTyped
  <2>3. db.meta[s] \in Metas
    BY <2>2 DEF Tables
  <2> QED
    BY <2>2, <2>3 DEF Missing, Metas
<1> HIDE DEF new
<1>4. View(new) \in Views /\ v \in Views
  BY <1>1, Viewed
<1>5. /\ View(new).entities = v.entities /\ View(new).setting = v.setting
      /\ View(new).link = [v.link EXCEPT ![t] = link, ![s] = None] /\ View(new).locator = v.locator
  BY <1>1, Viewed
<1>6. \A e \in Entities : View(new).meta[e] = IF e = t THEN moved ELSE v.meta[e]
  <2> TAKE e \in Entities
  <2>1. new.meta[e] = IF e = t THEN moved ELSE db.meta[e]
    BY <1>1, <1>2, <1>3 DEF Tables
  <2>2. View(new).meta[e] = IF new.meta[e] = None THEN NoMeta ELSE new.meta[e]
    BY <1>1, Viewed
  <2>3. v.meta[e] = IF db.meta[e] = None THEN NoMeta ELSE db.meta[e]
    BY Viewed
  <2> HIDE DEF v
  <2> QED
    BY <1>2, <2>1, <2>2, <2>3
<1> HIDE DEF v
<1>7. w = [v EXCEPT !.meta[t] = moved, !.link[t] = link, !.link[s] = None]
  BY <1>4 DEF Views
<1>8. /\ w \in Views /\ w.entities = v.entities /\ w.setting = v.setting
      /\ w.meta = [v.meta EXCEPT ![t] = moved]
      /\ w.link = [v.link EXCEPT ![t] = link, ![s] = None] /\ w.locator = v.locator
  BY <1>4 DEF Views
<1> HIDE DEF w
<1>9. \A e \in Entities : View(new).meta[e] = w.meta[e]
  BY <1>4, <1>6, <1>8 DEF Views
<1>10. View(new) = w
  <2>1. /\ View(new) \in Views /\ w \in Views
        /\ View(new).entities = w.entities /\ View(new).setting = w.setting
        /\ View(new).link = w.link /\ View(new).locator = w.locator
    BY <1>4, <1>5, <1>8
  <2>2. \A e \in Entities : View(new).meta[e] = w.meta[e]
    BY <1>5, <1>8, <1>9
  <2> QED
    BY <2>1, <2>2, SameView
<1> QED
  BY <1>7, <1>10 DEF new, v, Relinked

-----------------------------------------------------------------------------
(* Undo and Redo, of what an entry says.                                   *)

Undoing(en) == Applied(en.operation, en.target, en.before)
Redoing(en) == Applied(en.operation, en.target, en.after)

LEMMA NoOverrides == <<>> \in [{} -> Values]
OBVIOUS

\* Redo of a change takes the store from what was seen before it to what was
\* seen after it.
LEMMA RedoReverses ==
  ASSUME db \in Tables, NEW en, Says(en), View(db) = en.was
  PROVE  View(Redoing(en)) = en.became
<1>1. CASE IsLink(en)
  <2>1. en.operation = "spatial_link" /\ en.target \in Entities /\ en.after \in LinkStates
    BY <1>1 DEF IsLink
  <2>2. View(Applied("spatial_link", en.target, en.after)) =
          [View(db) EXCEPT !.link[en.target] = en.after.link,
                           !.locator[MapOf[en.target]] = en.after.locator]
    BY <2>1, LinkSeen
  <2> QED
    BY <1>1, <2>1, <2>2 DEF IsLink, Redoing
<1>2. CASE IsLocator(en)
  <2>1. en.operation = "map_locator" /\ en.target \in Maps /\ en.after \in Locators
    BY <1>2 DEF IsLocator
  <2>2. View(Applied("map_locator", en.target, en.after)) =
          [View(db) EXCEPT !.locator[en.target] = en.after]
    BY <2>1, LocatorSeen
  <2> QED
    BY <1>2, <2>1, <2>2 DEF IsLocator, Redoing
<1>3. CASE IsMetadata(en)
  <2>1. en.operation = "entity_metadata" /\ en.target \in Entities /\ en.after \in Metas
        /\ en.after # None
    BY <1>3, RowAssumption DEF IsMetadata
  <2>2. View(Applied("entity_metadata", en.target, en.after)) =
          [View(db) EXCEPT !.meta[en.target] = en.after]
    BY <2>1, MetadataSeen
  <2> QED
    BY <1>3, <2>1, <2>2 DEF IsMetadata, Redoing
<1>4. CASE IsClear(en)
  <2>1. en.operation = "clear_entity_overrides" /\ en.after = <<>>
    BY <1>4 DEF IsClear
  <2>2. View(Applied("clear_entity_overrides", en.target, <<>>)) =
          WithOverrides(View(db), {}, <<>>)
    <3>1. {} \in SUBSET Entities /\ \A e \in {} : db.meta[e] # None
      OBVIOUS
    <3> QED
      BY <3>1, NoOverrides, ClearSeen
  <2>3. [e \in Entities |-> [View(db).meta[e] EXCEPT !.override = IF e \in {} THEN <<>>[e] ELSE None]]
          = [e \in Entities |-> [View(db).meta[e] EXCEPT !.override = None]]
    OBVIOUS
  <2> QED
    BY <1>4, <2>1, <2>2, <2>3 DEF IsClear, Redoing, WithOverrides
<1>5. CASE IsSetting(en)
  <2>1. en.operation = "user_setting" /\ en.after \in Values
    BY <1>5 DEF IsSetting
  <2>2. View(Applied("user_setting", en.target, en.after)) = [View(db) EXCEPT !.setting = en.after]
    BY <2>1, SettingSeen
  <2> QED
    BY <1>5, <2>1, <2>2 DEF IsSetting, Redoing
<1>6. CASE IsRelink(en)
  <2> DEFINE t == en.before.target
             moved == Identified(en.before.source)
  <2>1. /\ en.operation = "relink_entity" /\ en.target \in Entities /\ t \in Entities \ {en.target}
        /\ en.before.source \in Metas /\ en.before.source.presence = "entity_missing"
        /\ en.before.link \in Links /\ en.before.link.state = "active"
        /\ en.after = [target |-> t, moved |-> moved, link |-> en.before.link]
        /\ en.was.meta[en.target] = en.before.source
    BY <1>6 DEF IsRelink
  <2>2. moved \in Metas
    BY <2>1 DEF Identified, Metas, Presences
  <2>3. en.became = [en.was EXCEPT !.meta[t] = moved, !.link[t] = en.before.link,
                                   !.link[en.target] = None]
    BY <1>6, <2>1 DEF IsRelink
  <2> HIDE DEF t, moved
  <2>4. View(Applied("relink_entity", en.target,
                     [target |-> t, moved |-> moved, link |-> en.before.link])) =
          Relinked(View(db), en.target, t, moved, en.before.link)
    <3>1. View(db).meta[en.target].presence = "entity_missing"
      BY <2>1
    <3> QED
      BY <2>1, <2>2, <3>1, RelinkRedoneSeen
  <2> QED
    BY <2>1, <2>3, <2>4 DEF Redoing, Relinked
<1>7. CASE IsForget(en)
  <2>1. en.operation = "forget_map_entity" /\ en.target \in Entities
        /\ en.after = [exists |-> FALSE, meta |-> None, link |-> None]
    BY <1>7 DEF IsForget
  <2>2. View(Applied("forget_map_entity", en.target, [exists |-> FALSE, meta |-> None, link |-> None])) =
          [View(db) EXCEPT !.entities = @ \ {en.target}, !.meta[en.target] = NoMeta,
                           !.link[en.target] = None]
    BY <2>1, ForgetRedoneSeen
  <2> QED
    BY <1>7, <2>1, <2>2 DEF IsForget, Redoing
<1> QED
  BY <1>1, <1>2, <1>3, <1>4, <1>5, <1>6, <1>7 DEF Says

\* A view whose changed parts are put back.
LEMMA Overwritten ==
  ASSUME NEW v \in Views, NEW u \in Views, u.setting = v.setting
  PROVE  /\ u.entities = v.entities /\ u.meta = v.meta =>
              [u EXCEPT !.link = v.link, !.locator = v.locator] = v
         /\ u.entities = v.entities /\ u.locator = v.locator =>
              [u EXCEPT !.meta = v.meta, !.link = v.link] = v
         /\ u.locator = v.locator =>
              [u EXCEPT !.entities = v.entities, !.meta = v.meta, !.link = v.link] = v
BY DEF Views

\* And Undo takes it back; it needs the rows whose overrides it puts back.
LEMMA UndoReverses ==
  ASSUME db \in Tables, NEW en, Says(en), View(db) = en.became,
         \A e \in Entities : Clears(en, e) => db.meta[e] # None
  PROVE  View(Undoing(en)) = en.was
<1> DEFINE v == en.was
           u == en.became
<1>0. v \in Views /\ u \in Views /\ View(db) = u
  BY DEF Says
<1>1. CASE IsLink(en)
  <2> DEFINE t == en.target
             m == MapOf[t]
             w == [u EXCEPT !.link[t] = en.before.link, !.locator[m] = en.before.locator]
  <2>1. /\ en.operation = "spatial_link" /\ t \in Entities /\ en.before \in LinkStates
        /\ u = [v EXCEPT !.link[t] = en.after.link, !.locator[m] = en.after.locator]
        /\ v.link[t] = en.before.link /\ v.locator[m] = en.before.locator
    BY <1>1 DEF IsLink
  <2>2. m \in Maps
    BY <2>1, MapAssumption
  <2>3. View(Applied("spatial_link", t, en.before)) =
          [View(db) EXCEPT !.link[t] = en.before.link, !.locator[MapOf[t]] = en.before.locator]
    <3> HIDE DEF t
    <3> QED
      BY <2>1, LinkSeen
  <2>4. [View(db) EXCEPT !.link[t] = en.before.link, !.locator[MapOf[t]] = en.before.locator] = w
    BY <1>0
  <2> HIDE DEF v, u, t, m
  <2>5. /\ u.link = [v.link EXCEPT ![t] = en.after.link]
        /\ u.locator = [v.locator EXCEPT ![m] = en.after.locator]
        /\ u.entities = v.entities /\ u.meta = v.meta /\ u.setting = v.setting
    BY <1>0, <2>1 DEF Views
  <2>6. /\ [u.link EXCEPT ![t] = en.before.link] = v.link
        /\ [u.locator EXCEPT ![m] = en.before.locator] = v.locator
    <3>1. [u.link EXCEPT ![t] = v.link[t]] = v.link
      BY <1>0, <2>1, <2>5 DEF Views
    <3>2. [u.locator EXCEPT ![m] = v.locator[m]] = v.locator
      BY <1>0, <2>2, <2>5 DEF Views
    <3> QED
      BY <2>1, <3>1, <3>2
  <2>7. w = [u EXCEPT !.link = v.link, !.locator = v.locator]
    BY <1>0, <2>6 DEF Views
  <2> HIDE DEF w
  <2>8. w = v
    BY <1>0, <2>5, <2>7, Overwritten
  <2> QED
    BY <2>1, <2>3, <2>4, <2>8 DEF Undoing, t, v
<1>2. CASE IsLocator(en)
  <2> DEFINE m == en.target
             w == [u EXCEPT !.locator[m] = en.before]
  <2>1. /\ en.operation = "map_locator" /\ m \in Maps /\ en.before \in Locators
        /\ u = [v EXCEPT !.locator[m] = en.after] /\ v.locator[m] = en.before
    BY <1>2 DEF IsLocator
  <2>2. View(Applied("map_locator", m, en.before)) = w
    <3>1. View(Applied("map_locator", m, en.before)) = [View(db) EXCEPT !.locator[m] = en.before]
      <4> HIDE DEF m
      <4> QED
        BY <2>1, LocatorSeen
    <3> QED
      BY <1>0, <3>1
  <2> HIDE DEF v, u, m
  <2>3. w = v
    <3>1. /\ u.locator = [v.locator EXCEPT ![m] = en.after] /\ u.link = v.link
          /\ u.entities = v.entities /\ u.meta = v.meta /\ u.setting = v.setting
      BY <1>0, <2>1 DEF Views
    <3>2. [u.locator EXCEPT ![m] = v.locator[m]] = v.locator
      BY <1>0, <2>1, <3>1 DEF Views
    <3>3. w = [u EXCEPT !.link = v.link, !.locator = v.locator]
      BY <1>0, <2>1, <3>1, <3>2 DEF Views
    <3> QED
      BY <1>0, <3>1, <3>3, Overwritten
  <2> HIDE DEF w
  <2> QED
    BY <2>1, <2>2, <2>3 DEF Undoing, m, v
<1>3. CASE IsMetadata(en)
  <2> DEFINE t == en.target
             x == IF en.before = None THEN NoMeta ELSE en.before
             w == [u EXCEPT !.meta[t] = x]
  <2>1. /\ en.operation = "entity_metadata" /\ t \in Entities /\ en.before \in Metas \cup {None}
        /\ u = [v EXCEPT !.meta[t] = en.after] /\ v.meta[t] = x
    BY <1>3 DEF IsMetadata
  <2>2. View(Applied("entity_metadata", t, en.before)) = w
    <3>1. View(Applied("entity_metadata", t, en.before)) =
            [View(db) EXCEPT !.meta[t] = IF en.before = None THEN NoMeta ELSE en.before]
      <4> HIDE DEF t
      <4> QED
        BY <2>1, MetadataSeen
    <3> QED
      BY <1>0, <3>1
  <2> HIDE DEF v, u, t, x
  <2>3. w = v
    <3>1. /\ u.meta = [v.meta EXCEPT ![t] = en.after] /\ u.link = v.link
          /\ u.entities = v.entities /\ u.locator = v.locator /\ u.setting = v.setting
      BY <1>0, <2>1 DEF Views
    <3>2. [u.meta EXCEPT ![t] = v.meta[t]] = v.meta
      BY <1>0, <2>1, <3>1 DEF Views
    <3>3. w = [u EXCEPT !.meta = v.meta, !.link = v.link]
      BY <1>0, <2>1, <3>1, <3>2 DEF Views
    <3> QED
      BY <1>0, <3>1, <3>3, Overwritten
  <2> HIDE DEF w
  <2> QED
    BY <2>1, <2>2, <2>3 DEF Undoing, t, v
<1>4. CASE IsClear(en)
  <2> DEFINE D == {e \in Entities : v.meta[e].override # None}
             back == [e \in Entities |->
                        [u.meta[e] EXCEPT !.override = IF e \in D THEN en.before[e] ELSE None]]
             w == [u EXCEPT !.meta = back]
  <2>1. /\ en.operation = "clear_entity_overrides" /\ en.before \in [D -> Values]
        /\ \A e \in D : v.meta[e].override = en.before[e]
        /\ u = [v EXCEPT !.meta = [e \in Entities |-> [v.meta[e] EXCEPT !.override = None]]]
    BY <1>4 DEF IsClear
  <2>2. \A e \in D : db.meta[e] # None
    BY <2>1 DEF Clears
  <2>3. D \in SUBSET Entities
    OBVIOUS
  <2>4. \A e \in Entities : e \in D <=> v.meta[e].override # None
    OBVIOUS
  <2> HIDE DEF v, u, D
  <2>5. View(Applied("clear_entity_overrides", en.target, en.before)) =
          WithOverrides(View(db), D, en.before)
    BY <2>1, <2>2, <2>3, ClearSeen
  <2>6. View(Applied("clear_entity_overrides", en.target, en.before)) = w
    BY <1>0, <2>5 DEF WithOverrides
  <2>7. \A e \in Entities : back[e] = v.meta[e]
    <3> TAKE e \in Entities
    <3>1. u.meta[e] = [v.meta[e] EXCEPT !.override = None]
      BY <1>0, <2>1 DEF Views
    <3>2. v.meta[e] \in Metas
      BY <1>0 DEF Views
    <3>3. back[e] = [u.meta[e] EXCEPT !.override = v.meta[e].override]
      BY <2>1, <2>4
    <3> QED
      BY <3>1, <3>2, <3>3 DEF Metas
  <2>8. back = v.meta
    <3>1. v.meta = [e \in Entities |-> v.meta[e]]
      BY <1>0 DEF Views
    <3> QED
      BY <2>7, <3>1
  <2> HIDE DEF back
  <2>9. w = v
    BY <1>0, <2>1, <2>8 DEF Views
  <2> HIDE DEF w
  <2> QED
    BY <2>1, <2>6, <2>9 DEF Undoing, v
<1>5. CASE IsSetting(en)
  <2> DEFINE w == [u EXCEPT !.setting = en.before]
  <2>1. /\ en.operation = "user_setting" /\ en.before \in Values \cup {None}
        /\ u = [v EXCEPT !.setting = en.after] /\ v.setting = en.before
    BY <1>5 DEF IsSetting
  <2>2. View(Applied("user_setting", en.target, en.before)) = w
    BY <2>1, SettingSeen
  <2> HIDE DEF v, u
  <2>3. w = v
    BY <1>0, <2>1 DEF Views
  <2> HIDE DEF w
  <2> QED
    BY <2>1, <2>2, <2>3 DEF Undoing, v
<1>6. CASE IsRelink(en)
  <2> DEFINE s == en.target
             t == en.before.target
             moved == en.after.moved
             w == [u EXCEPT !.meta[s] = en.before.source, !.meta[t] = en.before.replaced,
                            !.link[s] = en.before.link, !.link[t] = None]
  <2>1. /\ en.operation = "relink_entity" /\ s \in Entities /\ t \in Entities /\ t # s
        /\ en.before \in [target : Entities \ {s}, source : Metas, link : Links, replaced : Metas]
        /\ u = [v EXCEPT !.meta[t] = moved, !.link[t] = en.before.link, !.link[s] = None]
        /\ v.meta[s] = en.before.source /\ v.meta[t] = en.before.replaced
        /\ v.link[s] = en.before.link /\ v.link[t] = None
    BY <1>6 DEF IsRelink
  <2>2. View(Applied("relink_entity", s, en.before)) = w
    <3>1. View(Applied("relink_entity", s, en.before)) =
            RelinkedBack(View(db), s, en.before)
      <4> HIDE DEF s
      <4> QED
        BY <2>1, RelinkUndoneSeen
    <3> QED
      BY <1>0, <3>1 DEF RelinkedBack
  <2> HIDE DEF v, u, s, t, moved
  <2>3. w = [u EXCEPT !.meta = [u.meta EXCEPT ![s] = v.meta[s], ![t] = v.meta[t]],
                      !.link = [u.link EXCEPT ![s] = v.link[s], ![t] = v.link[t]]]
    BY <1>0, <2>1 DEF Views
  <2>4. /\ u.meta = [v.meta EXCEPT ![t] = moved]
        /\ u.link = [v.link EXCEPT ![t] = en.before.link, ![s] = None]
        /\ u.entities = v.entities /\ u.locator = v.locator /\ u.setting = v.setting
    BY <1>0, <2>1 DEF Views
  <2>5. [u.meta EXCEPT ![s] = v.meta[s], ![t] = v.meta[t]] = v.meta
    BY <1>0, <2>1, <2>4 DEF Views
  <2>6. [u.link EXCEPT ![s] = v.link[s], ![t] = v.link[t]] = v.link
    BY <1>0, <2>1, <2>4 DEF Views
  <2> HIDE DEF w
  <2>7. w = v
    <3>1. w = [u EXCEPT !.meta = v.meta, !.link = v.link]
      BY <2>3, <2>5, <2>6
    <3> QED
      BY <1>0, <2>4, <3>1, Overwritten
  <2> QED
    BY <2>1, <2>2, <2>7 DEF Undoing, s, v
<1>7. CASE IsForget(en)
  <2> DEFINE t == en.target
             w == [u EXCEPT !.entities = @ \cup {t}, !.meta[t] = en.before.meta,
                            !.link[t] = en.before.link]
  <2>1. /\ en.operation = "forget_map_entity" /\ t \in Entities
        /\ en.before \in [exists : {TRUE}, meta : Metas, link : Links \cup {None}]
        /\ u = [v EXCEPT !.entities = @ \ {t}, !.meta[t] = NoMeta, !.link[t] = None]
        /\ t \in v.entities /\ v.meta[t] = en.before.meta /\ v.link[t] = en.before.link
    BY <1>7 DEF IsForget
  <2>2. View(Applied("forget_map_entity", t, en.before)) = w
    <3>1. View(Applied("forget_map_entity", t, en.before)) =
            Restored(View(db), t, en.before)
      <4> HIDE DEF t
      <4> QED
        BY <2>1, ForgetUndoneSeen
    <3> QED
      BY <1>0, <3>1 DEF Restored
  <2> HIDE DEF v, u, t
  <2>3. w = [u EXCEPT !.entities = u.entities \cup {t}, !.meta = [u.meta EXCEPT ![t] = v.meta[t]],
                      !.link = [u.link EXCEPT ![t] = v.link[t]]]
    BY <1>0, <2>1 DEF Views
  <2>4. /\ u.meta = [v.meta EXCEPT ![t] = NoMeta] /\ u.link = [v.link EXCEPT ![t] = None]
        /\ u.entities = v.entities \ {t} /\ u.locator = v.locator /\ u.setting = v.setting
    BY <1>0, <2>1 DEF Views
  <2>5. [u.meta EXCEPT ![t] = v.meta[t]] = v.meta /\ [u.link EXCEPT ![t] = v.link[t]] = v.link
    BY <1>0, <2>1, <2>4 DEF Views
  <2>6. u.entities \cup {t} = v.entities
    BY <2>1, <2>4
  <2> HIDE DEF w
  <2>7. w = v
    <3>1. w = [u EXCEPT !.entities = v.entities, !.meta = v.meta, !.link = v.link]
      BY <2>3, <2>5, <2>6
    <3> QED
      BY <1>0, <2>4, <3>1, Overwritten
  <2> QED
    BY <2>1, <2>2, <2>7 DEF Undoing, t, v
<1> QED
  BY <1>1, <1>2, <1>3, <1>4, <1>5, <1>6, <1>7 DEF Says

-----------------------------------------------------------------------------
(* What a step does to the tables, as far as the invariant can tell.       *)

HasOverride(d, e) == d.meta[e] # None /\ d.meta[e].override # None
Placeable(old, new) ==
  \A e \in Entities : old.locator[MapOf[e]] # None => new.locator[MapOf[e]] # None

\* The change an entry stands for, made now or made again.
Ahead(en, old, new) ==
  /\ Placeable(old, new)
  /\ \A e \in Entities :
       /\ e \in old.entities /\ ~Forgets(en, e) => e \in new.entities
       /\ About(en, e) => e \in new.entities
       /\ new.link[e] # None => GivesLink(en, e) \/ (old.link[e] # None /\ ~Forgets(en, e))
       /\ old.meta[e] # None /\ ~Forgets(en, e) => new.meta[e] # None
       /\ GivesRow(en, e) \/ Clears(en, e) => new.meta[e] # None
       /\ HasOverride(new, e) => GivesRow(en, e) \/ (HasOverride(old, e) /\ ~Forgets(en, e))

\* What the store was like when it was made first.
Found(en, old) ==
  /\ en.was = View(old)
  /\ \A e \in Entities :
       /\ About(en, e) \/ Forgets(en, e) => old.locator[MapOf[e]] # None
       /\ HadLink(en, e) => old.link[e] # None
       /\ HadOverride(en, e) => HasOverride(old, e)
       /\ IsMetadata(en) /\ en.target = e => en.before = old.meta[e]

\* And the change taken back.
Back(en, old, new) ==
  /\ Placeable(old, new)
  /\ \A e \in Entities :
       /\ e \in old.entities \/ Forgets(en, e) => e \in new.entities
       /\ new.link[e] # None => HadLink(en, e) \/ (old.link[e] # None /\ ~GivesLink(en, e))
       /\ old.meta[e] # None /\ ~(IsMetadata(en) /\ en.target = e /\ en.before = None)
            => new.meta[e] # None
       /\ Forgets(en, e) => new.meta[e] # None
       /\ HasOverride(new, e) => HadOverride(en, e) \/ (HasOverride(old, e) /\ ~GivesRow(en, e))

\* A write that is not journalled.
Beside(old, new) ==
  /\ Placeable(old, new)
  /\ \A e \in Entities :
       /\ e \in old.entities => e \in new.entities
       /\ new.link[e] # None => old.link[e] # None
       /\ old.meta[e] # None => new.meta[e] # None
       /\ HasOverride(new, e) => HasOverride(old, e)

\* The invariant with its cursor.
Stood(c) == /\ Ordered /\ Placed /\ Stands(c) /\ Unbroken(c)
            /\ EntityStays(c) /\ LinksBacked(c) /\ RowStays(c) /\ RowsBacked(c)

LEMMA OrderedStays ==
  ASSUME Ordered, UNCHANGED <<history, lastId>>
  PROVE  Ordered'
<1>1. \A i \in 1 .. Len(history') : Says(history'[i])
  BY DEF Ordered
<1>2. \A i \in 1 .. Len(history') : Says(history[i])'
  BY <1>1 DEF Says, IsLink, IsLocator, IsMetadata, IsClear, IsSetting, IsRelink, IsForget
<1>3. history' \in Seq({history'[i] : i \in DOMAIN history'})
  BY DEF Ordered
<1> QED
  BY <1>2, <1>3 DEF Ordered

LEMMA BesideInv ==
  ASSUME lastId \in Nat, events \in Nat, NEW c, Stood(c), Beside(db, db'),
         events' = events + 1, UNCHANGED <<history, cursor, lastId>>
  PROVE  Stood(c)'
<1>1. Ordered'
  BY OrderedStays DEF Stood
<1>2. Placed'
  BY DEF Stood, Placed, Beside, Placeable, About, Forgets
<1>3. Stands(c)' /\ Unbroken(c)'
  BY DEF Stood, Stands, Unbroken
<1>4. EntityStays(c)'
  BY DEF Stood, EntityStays, Beside, About, Unforgotten, Forgets
<1>5. LinksBacked(c)'
  BY DEF Stood, LinksBacked, Beside, LinkBacked, HadLink, GivesLink, Unforgotten, Forgets
<1>6. RowsBacked(c)'
  BY DEF Stood, RowsBacked, Beside, HasOverride, RowBacked, HadOverride, GivesRow, Clears,
         Unforgotten, Forgets
<1>7. RowStays(c)'
  <2>1. RowStays(c) /\ \A e \in Entities : db.meta[e] # None => db'.meta[e] # None
    BY DEF Stood, Beside
  <2> QED
    BY <2>1 DEF RowStays, GivesRow, Clears, Unforgotten, Forgets, IsMetadata
<1> QED
  BY <1>1, <1>2, <1>3, <1>4, <1>5, <1>6, <1>7 DEF Stood

LEMMA RedoInv ==
  ASSUME lastId \in Nat, NEW c, Stood(c), c < Len(history),
         NEW en, en = history[c + 1], Ahead(en, db, db'), cursor' = en.id,
         View(db) = en.was => View(db') = en.became,
         UNCHANGED <<history, lastId, events>>
  PROVE  Stood(c + 1)'
<1>1. /\ Len(history) \in Nat /\ c \in Nat /\ c + 1 \in 1 .. Len(history) /\ c + 1 # 0
  BY Listed DEF Stood, Stands
<1>2. Ordered'
  BY OrderedStays DEF Stood
<1>3. Placed'
  BY DEF Stood, Placed, Ahead, Placeable, About, Forgets
<1>4. Stands(c + 1)'
  BY <1>1 DEF Stands
<1>5. Unbroken(c + 1)'
  BY <1>1 DEF Stood, Unbroken
<1>6. \A e \in Entities, i \in Nat : Unforgotten(e, i, c + 1)' =>
        Unforgotten(e, i, c) /\ (i <= c + 1 => ~Forgets(en, e))
  BY <1>1 DEF Unforgotten, Forgets
<1>7. \A e \in Entities, i, k \in Nat : Unforgotten(e, i, k)' <=> Unforgotten(e, i, k)
  BY DEF Unforgotten, Forgets
<1>8. EntityStays(c + 1)'
  <2> SUFFICES ASSUME NEW e \in Entities, NEW i \in 1 .. Len(history), About(history[i], e),
                      \/ i <= c + 1 /\ Unforgotten(e, i + 1, c + 1)'
                      \/ Unforgotten(e, 1, i - 1) /\ Unforgotten(e, 1, c + 1)'
               PROVE  e \in db'.entities
    BY <1>1, <1>7 DEF EntityStays, About
  <2>1. CASE i = c + 1
    BY <2>1 DEF Ahead
  <2>2. CASE i <= c /\ Unforgotten(e, i + 1, c + 1)'
    <3>1. Unforgotten(e, i + 1, c) /\ ~Forgets(en, e)
      BY <1>1, <1>6, <2>2
    <3> QED
      BY <2>2, <3>1 DEF Stood, EntityStays, Ahead
  <2>3. CASE Unforgotten(e, 1, i - 1) /\ Unforgotten(e, 1, c + 1)'
    <3>1. Unforgotten(e, 1, c) /\ ~Forgets(en, e)
      BY <1>1, <1>6, <2>3
    <3> QED
      BY <2>3, <3>1 DEF Stood, EntityStays, Ahead
  <2> QED
    BY <1>1, <2>1, <2>2, <2>3
<1>9. LinksBacked(c + 1)'
  <2>1. \A e \in Entities, k \in Nat : LinkBacked(e, k)' <=> LinkBacked(e, k)
    BY DEF LinkBacked, Unforgotten, GivesLink, Forgets
  <2>2. ASSUME NEW e \in Entities, NEW i \in 1 .. Len(history), HadLink(history[i], e)
        PROVE  LinkBacked(e, i - 1)'
    <3>1. i - 1 \in Nat
      BY <1>1
    <3> QED
      BY <2>1, <2>2, <3>1 DEF Stood, LinksBacked
  <2>3. ASSUME NEW e \in Entities, db'.link[e] # None
        PROVE  LinkBacked(e, c + 1)'
    <3>1. CASE GivesLink(en, e)
      <4>1. c + 1 \in 1 .. c + 1 /\ c + 1 + 1 .. c + 1 = {}
        BY <1>1
      <4> QED
        BY <1>1, <3>1, <4>1 DEF LinkBacked, Unforgotten, GivesLink
    <3>2. CASE db.link[e] # None /\ ~Forgets(en, e)
      <4>1. LinkBacked(e, c)
        BY <3>2 DEF Stood, LinksBacked
      <4>2. \A i \in Nat \ {0} : Unforgotten(e, i, c) => Unforgotten(e, i, c + 1)
        BY <1>1, <3>2 DEF Unforgotten
      <4>3. 1 .. c \subseteq 1 .. c + 1 /\ \A j \in 1 .. c : j + 1 \in Nat \ {0}
        BY <1>1
      <4>4. LinkBacked(e, c + 1)
        BY <4>1, <4>2, <4>3 DEF LinkBacked
      <4> QED
        BY <1>1, <2>1, <4>4
    <3> QED
      BY <2>3, <3>1, <3>2 DEF Ahead
  <2> QED
    BY <2>2, <2>3 DEF LinksBacked, HadLink
<1>10. RowsBacked(c + 1)'
  <2>1. \A e \in Entities, k \in Nat : RowBacked(e, k)' <=> RowBacked(e, k)
    BY DEF RowBacked, Unforgotten, GivesRow, Forgets
  <2>2. ASSUME NEW e \in Entities, NEW i \in 1 .. Len(history), HadOverride(history[i], e)
        PROVE  RowBacked(e, i - 1)'
    <3>1. i - 1 \in Nat
      BY <1>1
    <3> QED
      BY <2>1, <2>2, <3>1 DEF Stood, RowsBacked
  <2>3. ASSUME NEW e \in Entities, HasOverride(db', e)
        PROVE  RowBacked(e, c + 1)'
    <3>1. CASE GivesRow(en, e)
      <4>1. c + 1 \in 1 .. c + 1 /\ c + 1 + 1 .. c + 1 = {}
        BY <1>1
      <4> QED
        BY <1>1, <3>1, <4>1 DEF RowBacked, Unforgotten, GivesRow
    <3>2. CASE HasOverride(db, e) /\ ~Forgets(en, e)
      <4>1. RowBacked(e, c)
        BY <3>2 DEF Stood, RowsBacked, HasOverride
      <4>2. \A i \in Nat \ {0} : Unforgotten(e, i, c) => Unforgotten(e, i, c + 1)
        BY <1>1, <3>2 DEF Unforgotten
      <4>3. 1 .. c \subseteq 1 .. c + 1 /\ \A j \in 1 .. c : j + 1 \in Nat \ {0}
        BY <1>1
      <4>4. RowBacked(e, c + 1)
        BY <4>1, <4>2, <4>3 DEF RowBacked
      <4> QED
        BY <1>1, <2>1, <4>4
    <3> QED
      BY <2>3, <3>1, <3>2 DEF Ahead
  <2>4. \A e \in Entities : db'.meta[e] # None /\ db'.meta[e].override # None => RowBacked(e, c + 1)'
    BY <2>3 DEF HasOverride
  <2> QED
    BY <2>2, <2>4 DEF RowsBacked, HadOverride, Clears
<1>11. RowStays(c + 1)'
  <2>1. ASSUME NEW e \in Entities, NEW i \in 1 .. Len(history),
               GivesRow(history[i], e) \/ Clears(history[i], e),
               i <= c + 1, Unforgotten(e, i + 1, c + 1)'
        PROVE  db'.meta[e] # None
    <3>1. CASE i = c + 1
      BY <2>1, <3>1 DEF Ahead
    <3>2. CASE i <= c
      <4>1. Unforgotten(e, i + 1, c) /\ ~Forgets(en, e)
        BY <1>1, <1>6, <2>1, <3>2
      <4> QED
        BY <2>1, <3>2, <4>1 DEF Stood, RowStays, Ahead
    <3> QED
      BY <1>1, <2>1, <3>1, <3>2
  <2>2. ASSUME NEW e \in Entities, NEW i \in 1 .. Len(history), NEW j \in i + 1 .. Len(history),
               GivesRow(history[i], e) \/ Clears(history[i], e),
               IsMetadata(history[j]), history[j].target = e, Unforgotten(e, i + 1, j - 1)'
        PROVE  history[j].before # None
    <3>1. Unforgotten(e, i + 1, j - 1)
      BY <1>1, <1>7, <2>2
    <3> QED
      BY <2>2, <3>1 DEF Stood, RowStays
  <2>3. ASSUME NEW e \in Entities, NEW i \in 1 .. Len(history), Clears(history[i], e),
               Unforgotten(e, 1, i - 1)', Unforgotten(e, 1, c + 1)',
               \A j \in 1 .. i - 1 : ~GivesRow(history[j], e)
        PROVE  db'.meta[e] # None
    <3>1. Unforgotten(e, 1, i - 1) /\ Unforgotten(e, 1, c) /\ ~Forgets(en, e)
      BY <1>1, <1>6, <1>7, <2>3
    <3>2. RowStays(c)
      BY DEF Stood
    <3>3. db.meta[e] # None
      BY <2>3, <3>1, <3>2 DEF RowStays
    <3> QED
      BY <3>1, <3>3 DEF Ahead
  <2>4. \A e \in Entities, i \in 1 .. Len(history) : \A j \in i + 1 .. Len(history) :
          /\ GivesRow(history[i], e) \/ Clears(history[i], e)
          /\ IsMetadata(history[j]) /\ history[j].target = e /\ Unforgotten(e, i + 1, j - 1)'
          => history[j].before # None
    BY <2>2
  <2>5. \A e \in Entities, i \in 1 .. Len(history) : \A j \in i + 1 .. Len(history) :
          /\ GivesRow(history[i], e)' \/ Clears(history[i], e)'
          /\ IsMetadata(history[j])' /\ history'[j].target = e /\ Unforgotten(e, i + 1, j - 1)'
          => history'[j].before # None
    <3>1. \A e \in Entities, i \in 1 .. Len(history) :
            /\ GivesRow(history[i], e)' <=> GivesRow(history[i], e)
            /\ Clears(history[i], e)' <=> Clears(history[i], e)
      BY DEF GivesRow, Clears
    <3>2. \A e \in Entities, i \in 1 .. Len(history) : \A j \in i + 1 .. Len(history) :
            IsMetadata(history[j])' <=> IsMetadata(history[j])
      BY DEF IsMetadata
    <3> QED
      BY <2>4, <3>1, <3>2
  <2>6. \A e \in Entities, i \in 1 .. Len(history) :
          GivesRow(history[i], e)' \/ Clears(history[i], e)' =>
            (i <= c + 1 /\ Unforgotten(e, i + 1, c + 1)' => db'.meta[e] # None)
    BY <2>1 DEF GivesRow, Clears
  <2>7. \A e \in Entities, i \in 1 .. Len(history) :
          /\ Clears(history[i], e)' /\ Unforgotten(e, 1, i - 1)' /\ Unforgotten(e, 1, c + 1)'
          /\ \A j \in 1 .. i - 1 : ~GivesRow(history[j], e)'
          => db'.meta[e] # None
    BY <2>3 DEF GivesRow, Clears
  <2> QED
    BY <2>5, <2>6, <2>7 DEF RowStays
<1> QED
  BY <1>2, <1>3, <1>4, <1>5, <1>8, <1>9, <1>10, <1>11 DEF Stood

LEMMA UndoInv ==
  ASSUME lastId \in Nat, NEW c, Stood(c), c # 0,
         NEW en, en = history[c], Back(en, db, db'),
         cursor' = IF c = 1 THEN 0 ELSE history[c - 1].id,
         View(db) = en.became => View(db') = en.was,
         UNCHANGED <<history, lastId, events>>
  PROVE  Stood(c - 1)'
<1>1. /\ Len(history) \in Nat /\ c \in Nat /\ c \in 1 .. Len(history) /\ c - 1 \in 0 .. Len(history)
      /\ c - 1 \in Nat
  BY Listed DEF Stood, Stands
<1>2. Ordered'
  BY OrderedStays DEF Stood
<1>3. Placed'
  BY DEF Stood, Placed, Back, Placeable, About, Forgets
<1>4. Stands(c - 1)'
  BY <1>1 DEF Stands
<1>5. Unbroken(c - 1)'
  <2> SUFFICES ASSUME events = 0
               PROVE  /\ \A i \in 1 .. Len(history) - 1 : history[i].became = history[i + 1].was
                      /\ c - 1 # 0 => View(db') = history[c - 1].became
                      /\ c - 1 < Len(history) => View(db') = history[c - 1 + 1].was
    BY DEF Unbroken, View
  <2>1. /\ \A i \in 1 .. Len(history) - 1 : history[i].became = history[i + 1].was
        /\ View(db) = en.became
    BY DEF Stood, Unbroken
  <2>2. c - 1 + 1 = c
    BY <1>1
  <2>3. c - 1 # 0 => c - 1 \in 1 .. Len(history) - 1
    BY <1>1
  <2> QED
    BY <2>1, <2>2, <2>3
<1>6. \A e \in Entities, i \in Nat : Unforgotten(e, i, c - 1)' /\ ~Forgets(en, e) => Unforgotten(e, i, c)
  BY <1>1 DEF Unforgotten, Forgets
<1>7. \A e \in Entities, i, k \in Nat : Unforgotten(e, i, k)' <=> Unforgotten(e, i, k)
  BY DEF Unforgotten, Forgets
<1>8. EntityStays(c - 1)'
  <2> SUFFICES ASSUME NEW e \in Entities, NEW i \in 1 .. Len(history), About(history[i], e),
                      \/ i <= c - 1 /\ Unforgotten(e, i + 1, c - 1)'
                      \/ Unforgotten(e, 1, i - 1) /\ Unforgotten(e, 1, c - 1)'
               PROVE  e \in db'.entities
    BY <1>1, <1>7 DEF EntityStays, About
  <2>1. CASE Forgets(en, e)
    BY <2>1 DEF Back
  <2>2. CASE ~Forgets(en, e) /\ i <= c - 1 /\ Unforgotten(e, i + 1, c - 1)'
    <3>1. Unforgotten(e, i + 1, c) /\ i <= c
      BY <1>1, <1>6, <2>2
    <3> QED
      BY <3>1 DEF Stood, EntityStays, Back
  <2>3. CASE ~Forgets(en, e) /\ Unforgotten(e, 1, i - 1) /\ Unforgotten(e, 1, c - 1)'
    <3>1. Unforgotten(e, 1, c)
      BY <1>1, <1>6, <2>3
    <3> QED
      BY <2>3, <3>1 DEF Stood, EntityStays, Back
  <2> QED
    BY <2>1, <2>2, <2>3
<1>9. LinksBacked(c - 1)'
  <2>1. \A e \in Entities, k \in Nat : LinkBacked(e, k)' <=> LinkBacked(e, k)
    BY DEF LinkBacked, Unforgotten, GivesLink, Forgets
  <2>2. ASSUME NEW e \in Entities, NEW i \in 1 .. Len(history), HadLink(history[i], e)
        PROVE  LinkBacked(e, i - 1)'
    <3>1. i - 1 \in Nat
      BY <1>1
    <3> QED
      BY <2>1, <2>2, <3>1 DEF Stood, LinksBacked
  <2>3. ASSUME NEW e \in Entities, db'.link[e] # None
        PROVE  LinkBacked(e, c - 1)'
    <3>1. CASE HadLink(en, e)
      BY <1>1, <2>1, <3>1 DEF Stood, LinksBacked
    <3>2. CASE db.link[e] # None /\ ~GivesLink(en, e)
      <4>1. LinkBacked(e, c)
        BY <3>2 DEF Stood, LinksBacked
      <4>2. \A i \in Nat : Unforgotten(e, i, c) => Unforgotten(e, i, c - 1)
        BY <1>1 DEF Unforgotten
      <4>3. \A j \in 1 .. c : GivesLink(history[j], e) => j \in 1 .. c - 1 /\ j + 1 \in Nat
        BY <1>1, <3>2
      <4>4. LinkBacked(e, c - 1)
        BY <4>1, <4>2, <4>3 DEF LinkBacked
      <4> QED
        BY <1>1, <2>1, <4>4
    <3> QED
      BY <2>3, <3>1, <3>2 DEF Back
  <2> QED
    BY <2>2, <2>3 DEF LinksBacked, HadLink
<1>10. RowsBacked(c - 1)'
  <2>1. \A e \in Entities, k \in Nat : RowBacked(e, k)' <=> RowBacked(e, k)
    BY DEF RowBacked, Unforgotten, GivesRow, Forgets
  <2>2. ASSUME NEW e \in Entities, NEW i \in 1 .. Len(history), HadOverride(history[i], e)
        PROVE  RowBacked(e, i - 1)'
    <3>1. i - 1 \in Nat
      BY <1>1
    <3> QED
      BY <2>1, <2>2, <3>1 DEF Stood, RowsBacked
  <2>3. ASSUME NEW e \in Entities, HasOverride(db', e)
        PROVE  RowBacked(e, c - 1)'
    <3>1. CASE HadOverride(en, e)
      BY <1>1, <2>1, <3>1 DEF Stood, RowsBacked
    <3>2. CASE HasOverride(db, e) /\ ~GivesRow(en, e)
      <4>1. RowBacked(e, c)
        BY <3>2 DEF Stood, RowsBacked, HasOverride
      <4>2. \A i \in Nat : Unforgotten(e, i, c) => Unforgotten(e, i, c - 1)
        BY <1>1 DEF Unforgotten
      <4>3. \A j \in 1 .. c : GivesRow(history[j], e) => j \in 1 .. c - 1 /\ j + 1 \in Nat
        BY <1>1, <3>2
      <4>4. RowBacked(e, c - 1)
        BY <4>1, <4>2, <4>3 DEF RowBacked
      <4> QED
        BY <1>1, <2>1, <4>4
    <3> QED
      BY <2>3, <3>1, <3>2 DEF Back
  <2>4. \A e \in Entities : db'.meta[e] # None /\ db'.meta[e].override # None => RowBacked(e, c - 1)'
    BY <2>3 DEF HasOverride
  <2> QED
    BY <2>2, <2>4 DEF RowsBacked, HadOverride, Clears
<1>11. RowStays(c - 1)'
  <2>0. RowStays(c)
    BY DEF Stood
  <2>1. ASSUME NEW e \in Entities, NEW i \in 1 .. Len(history),
               GivesRow(history[i], e) \/ Clears(history[i], e),
               i <= c - 1, Unforgotten(e, i + 1, c - 1)'
        PROVE  db'.meta[e] # None
    <3>1. CASE Forgets(en, e)
      BY <3>1 DEF Back
    <3>2. CASE ~Forgets(en, e)
      <4>1. Unforgotten(e, i + 1, c) /\ i <= c
        BY <1>1, <1>6, <2>1, <3>2
      <4>2. db.meta[e] # None
        BY <2>0, <2>1, <4>1 DEF RowStays
      <4>3. Unforgotten(e, i + 1, c - 1) /\ c \in i + 1 .. Len(history)
        BY <1>1, <1>7, <2>1
      <4>4. ~(IsMetadata(en) /\ en.target = e /\ en.before = None)
        BY <2>0, <2>1, <4>3 DEF RowStays
      <4> QED
        BY <4>2, <4>4 DEF Back
    <3> QED
      BY <3>1, <3>2
  <2>2. ASSUME NEW e \in Entities, NEW i \in 1 .. Len(history), NEW j \in i + 1 .. Len(history),
               GivesRow(history[i], e) \/ Clears(history[i], e),
               IsMetadata(history[j]), history[j].target = e, Unforgotten(e, i + 1, j - 1)'
        PROVE  history[j].before # None
    <3>1. Unforgotten(e, i + 1, j - 1)
      BY <1>1, <1>7, <2>2
    <3> QED
      BY <2>0, <2>2, <3>1 DEF RowStays
  <2>3. ASSUME NEW e \in Entities, NEW i \in 1 .. Len(history), Clears(history[i], e),
               Unforgotten(e, 1, i - 1)', Unforgotten(e, 1, c - 1)',
               \A j \in 1 .. i - 1 : ~GivesRow(history[j], e)
        PROVE  db'.meta[e] # None
    <3>1. CASE Forgets(en, e)
      BY <3>1 DEF Back
    <3>2. CASE ~Forgets(en, e)
      <4>1. Unforgotten(e, 1, i - 1) /\ Unforgotten(e, 1, c)
        BY <1>1, <1>6, <1>7, <2>3, <3>2
      <4>2. db.meta[e] # None
        BY <2>0, <2>3, <4>1 DEF RowStays
      <4>3. ~(IsMetadata(en) /\ en.target = e /\ en.before = None)
        <5> SUFFICES ASSUME IsMetadata(en), en.target = e
                     PROVE  en.before # None
          OBVIOUS
        <5>1. GivesRow(en, e)
          BY DEF IsMetadata, GivesRow
        <5>2. c # i
          BY <2>3 DEF IsMetadata, Clears
        <5>3. c \in i + 1 .. Len(history)
          BY <1>1, <2>3, <5>1, <5>2
        <5>4. Unforgotten(e, i + 1, c - 1)
          BY <1>1, <4>1 DEF Unforgotten
        <5> QED
          BY <2>0, <2>3, <5>3, <5>4 DEF RowStays
      <4> QED
        BY <4>2, <4>3 DEF Back
    <3> QED
      BY <3>1, <3>2
  <2>4. \A e \in Entities, i \in 1 .. Len(history) : \A j \in i + 1 .. Len(history) :
          /\ GivesRow(history[i], e) \/ Clears(history[i], e)
          /\ IsMetadata(history[j]) /\ history[j].target = e /\ Unforgotten(e, i + 1, j - 1)'
          => history[j].before # None
    BY <2>2
  <2>5. \A e \in Entities, i \in 1 .. Len(history) : \A j \in i + 1 .. Len(history) :
          /\ GivesRow(history[i], e)' \/ Clears(history[i], e)'
          /\ IsMetadata(history[j])' /\ history'[j].target = e /\ Unforgotten(e, i + 1, j - 1)'
          => history'[j].before # None
    <3>1. \A e \in Entities, i \in 1 .. Len(history) :
            /\ GivesRow(history[i], e)' <=> GivesRow(history[i], e)
            /\ Clears(history[i], e)' <=> Clears(history[i], e)
      BY DEF GivesRow, Clears
    <3>2. \A e \in Entities, i \in 1 .. Len(history) : \A j \in i + 1 .. Len(history) :
            IsMetadata(history[j])' <=> IsMetadata(history[j])
      BY DEF IsMetadata
    <3> QED
      BY <2>4, <3>1, <3>2
  <2>6. \A e \in Entities, i \in 1 .. Len(history) :
          GivesRow(history[i], e)' \/ Clears(history[i], e)' =>
            (i <= c - 1 /\ Unforgotten(e, i + 1, c - 1)' => db'.meta[e] # None)
    BY <2>1 DEF GivesRow, Clears
  <2>7. \A e \in Entities, i \in 1 .. Len(history) :
          /\ Clears(history[i], e)' /\ Unforgotten(e, 1, i - 1)' /\ Unforgotten(e, 1, c - 1)'
          /\ \A j \in 1 .. i - 1 : ~GivesRow(history[j], e)'
          => db'.meta[e] # None
    BY <2>3 DEF GivesRow, Clears
  <2> QED
    BY <2>5, <2>6, <2>7 DEF RowStays
<1> QED
  BY <1>2, <1>3, <1>4, <1>5, <1>8, <1>9, <1>10, <1>11 DEF Stood

\* A change that is made: the entries that stay keep their order, one place
\* lower when the limit drops the oldest, and the new one is the last.
LEMMA CommitInv ==
  ASSUME lastId \in Nat, NEW c, Stood(c), NEW en, Says(en), en.id = lastId + 1,
         Found(en, db), Ahead(en, db, db'), en.became = View(db'),
         history' = Keep(Append(SubSeq(history, 1, Cardinality(Past)), en)),
         lastId' = lastId + 1, cursor' = lastId + 1, UNCHANGED events
  PROVE  \E n \in 0 .. Len(history') : Stood(n)'
<1>1. Ordered /\ Stands(c)
  BY DEF Stood
<1>2. PICK d \in 0 .. 1 :
        /\ d <= c /\ Len(history') = c + 1 - d /\ history'[c + 1 - d] = en
        /\ \A i \in 1 .. c - d : i + d \in 1 .. Len(history) /\ history'[i] = history[i + d]
        /\ Ordered' /\ Stands(c + 1 - d)'
        /\ d = 1 => c = HISTORY_LIMIT
  BY <1>1, Committed
<1>3. Len(history) \in Nat /\ c \in Nat /\ c <= Len(history)
  BY <1>1, Listed, Position
<1>4. PICK n \in Nat : n = c + 1 - d
  BY <1>2, <1>3
<1>5. /\ n \in Nat \ {0} /\ Len(history') = n /\ history'[n] = en /\ n \in 1 .. n /\ n + d = c + 1
      /\ n - 1 = c - d
  BY <1>2, <1>3, <1>4
<1>6. \A i \in 1 .. n - 1 : i + d \in 1 .. c /\ i + d \in 1 .. Len(history) /\ history'[i] = history[i + d]
  <2> TAKE i \in 1 .. n - 1
  <2>1. i \in 1 .. c - d /\ i + d \in 1 .. c
    BY <1>2, <1>3, <1>5
  <2> QED
    BY <1>2, <2>1
<1>7. \A i \in 1 .. n : i = n \/ i \in 1 .. n - 1
  BY <1>5
\* What was not forgotten, before and after.
<1>8. \A e \in Entities, i \in Nat \ {0}, k \in 0 .. n - 1 :
        Unforgotten(e, i, k)' <=> Unforgotten(e, i + d, k + d)
  <2> SUFFICES ASSUME NEW e \in Entities, NEW i \in Nat \ {0}, NEW k \in 0 .. n - 1
               PROVE  (\A m \in i .. k : ~Forgets(history'[m], e))
                        <=> (\A m \in i + d .. k + d : ~Forgets(history[m], e))
    BY DEF Unforgotten, Forgets
  <2>1. \A m \in i .. k : history'[m] = history[m + d] /\ m + d \in i + d .. k + d
    <3> TAKE m \in i .. k
    <3>1. m \in 1 .. n - 1 /\ m + d \in i + d .. k + d
      BY <1>2, <1>5
    <3> QED
      BY <1>6, <3>1
  <2>2. \A m \in i + d .. k + d : m - d \in i .. k /\ m - d + d = m
    BY <1>2, <1>5
  <2> QED
    BY <2>1, <2>2
<1>9. \A e \in Entities, i \in 1 .. n : Unforgotten(e, i, n)' =>
        ~Forgets(en, e) /\ Unforgotten(e, i, n - 1)' /\ Unforgotten(e, i + d, c)
  <2> SUFFICES ASSUME NEW e \in Entities, NEW i \in 1 .. n, Unforgotten(e, i, n)'
               PROVE  ~Forgets(en, e) /\ Unforgotten(e, i, n - 1)' /\ Unforgotten(e, i + d, c)
    OBVIOUS
  <2>1. \A m \in i .. n : ~Forgets(history'[m], e)
    BY DEF Unforgotten, Forgets
  <2>2. ~Forgets(en, e)
    BY <1>5, <2>1
  <2>3. Unforgotten(e, i, n - 1)'
    <3>1. \A m \in i .. n - 1 : ~Forgets(history'[m], e)
      BY <1>5, <2>1
    <3> QED
      BY <3>1 DEF Unforgotten, Forgets
  <2>4. n - 1 \in 0 .. n - 1 /\ n - 1 + d = c /\ i \in Nat \ {0}
    BY <1>2, <1>3, <1>5
  <2> QED
    BY <1>8, <2>2, <2>3, <2>4
<1>10. \A e \in Entities, i \in Nat : ~Forgets(en, e) /\ Unforgotten(e, i, n - 1)' => Unforgotten(e, i, n)'
  <2> SUFFICES ASSUME NEW e \in Entities, NEW i \in Nat, ~Forgets(en, e), Unforgotten(e, i, n - 1)'
               PROVE  \A m \in i .. n : ~Forgets(history'[m], e)
    BY DEF Unforgotten, Forgets
  <2>1. \A m \in i .. n - 1 : ~Forgets(history'[m], e)
    BY DEF Unforgotten, Forgets
  <2> QED
    BY <1>5, <2>1
<1>11. \A e \in Entities, i \in 1 .. n : Unforgotten(e, 1, n)' => Unforgotten(e, i + 1, n)'
  BY DEF Unforgotten, Forgets
<1>12. \A e \in Entities : Unforgotten(e, n + 1, n)'
  BY <1>5 DEF Unforgotten
<1>13. Placed'
  <2> SUFFICES ASSUME NEW e \in Entities, NEW i \in 1 .. n,
                      About(history'[i], e) \/ Forgets(history'[i], e)
               PROVE  db.locator[MapOf[e]] # None
    BY <1>5 DEF Placed, About, Forgets, Ahead, Placeable
  <2>1. CASE i = n
    BY <1>5, <2>1 DEF Found
  <2>2. CASE i \in 1 .. n - 1
    BY <1>6, <2>2 DEF Stood, Placed
  <2> QED
    BY <1>7, <2>1, <2>2
<1>14. Unbroken(n)'
  <2> SUFFICES ASSUME events = 0
               PROVE  \A i \in 1 .. n - 1 : history'[i].became = history'[i + 1].was
    BY <1>5 DEF Unbroken, View
  <2> TAKE i \in 1 .. n - 1
  <2>1. /\ \A j \in 1 .. Len(history) - 1 : history[j].became = history[j + 1].was
        /\ c # 0 => View(db) = history[c].became
    BY DEF Stood, Unbroken
  <2>2. CASE i = n - 1
    <3>1. i + d = c /\ c # 0 /\ i + 1 = n
      BY <1>2, <1>3, <1>5, <2>2
    <3> QED
      BY <1>5, <1>6, <2>1, <3>1 DEF Found
  <2>3. CASE i # n - 1
    <3>1. i + 1 \in 1 .. n - 1 /\ i + 1 + d = i + d + 1 /\ i + d \in 1 .. Len(history) - 1
      BY <1>2, <1>3, <1>5, <2>3
    <3> QED
      BY <1>6, <2>1, <3>1
  <2> QED
    BY <2>2, <2>3
<1>15. EntityStays(n)'
  <2> SUFFICES ASSUME NEW e \in Entities, NEW i \in 1 .. n, About(history'[i], e),
                      Unforgotten(e, i + 1, n)' \/ Unforgotten(e, 1, n)'
               PROVE  e \in db'.entities
    BY <1>5 DEF EntityStays, About
  <2>1. CASE i = n
    BY <1>5, <2>1 DEF Ahead
  <2>2. CASE i \in 1 .. n - 1
    <3>1. i + 1 \in 1 .. n /\ i + 1 + d = i + d + 1
      BY <1>2, <1>5, <2>2
    <3>2. ~Forgets(en, e) /\ Unforgotten(e, i + d + 1, c)
      BY <1>9, <1>11, <3>1
    <3>3. i + d \in 1 .. Len(history) /\ i + d <= c /\ About(history[i + d], e)
      BY <1>3, <1>6, <2>2
    <3>4. e \in db.entities
      BY <3>2, <3>3 DEF Stood, EntityStays
    <3> QED
      BY <3>2, <3>4 DEF Ahead
  <2> QED
    BY <1>7, <2>1, <2>2
<1>16. ASSUME NEW e \in Entities, NEW k \in 0 .. n - 1, LinkBacked(e, k + d)
       PROVE  LinkBacked(e, k)'
  <2>1. CASE Unforgotten(e, 1, k + d)
    <3>1. Unforgotten(e, 1 + d, k + d)
      BY <1>2, <2>1 DEF Unforgotten
    <3> QED
      BY <1>8, <3>1 DEF LinkBacked
  <2>2. ASSUME NEW j \in 1 .. k + d, GivesLink(history[j], e), Unforgotten(e, j + 1, k + d)
        PROVE  LinkBacked(e, k)'
    <3>1. CASE j <= d
      <4>1. Unforgotten(e, 1 + d, k + d)
        BY <1>2, <2>2, <3>1 DEF Unforgotten
      <4> QED
        BY <1>8, <4>1 DEF LinkBacked
    <3>2. CASE ~(j <= d)
      <4>1. PICK m \in 1 .. k : m = j - d
        BY <1>2, <3>2
      <4>2. m \in 1 .. n - 1 /\ m + d = j /\ m + 1 + d = j + 1 /\ m + 1 \in Nat \ {0}
        BY <1>2, <1>5, <4>1
      <4>3. GivesLink(history'[m], e)
        BY <1>6, <2>2, <4>2
      <4>4. Unforgotten(e, m + 1, k)'
        BY <1>8, <2>2, <4>2
      <4> QED
        BY <4>3, <4>4 DEF LinkBacked, GivesLink
    <3> QED
      BY <3>1, <3>2
  <2> QED
    BY <1>16, <2>1, <2>2 DEF LinkBacked
<1>17. LinksBacked(n)'
  <2>1. ASSUME NEW e \in Entities, db.link[e] # None
        PROVE  LinkBacked(e, n - 1)'
    <3>1. LinkBacked(e, c) /\ n - 1 \in 0 .. n - 1 /\ n - 1 + d = c
      BY <1>2, <1>3, <1>5, <2>1 DEF Stood, LinksBacked
    <3> QED
      BY <1>16, <3>1
  <2>2. ASSUME NEW e \in Entities, NEW i \in 1 .. n, HadLink(history'[i], e)
        PROVE  LinkBacked(e, i - 1)'
    <3>1. CASE i = n
      BY <1>5, <2>1, <2>2, <3>1 DEF Found
    <3>2. CASE i \in 1 .. n - 1
      <4>1. i + d \in 1 .. Len(history) /\ HadLink(history[i + d], e)
        BY <1>6, <2>2, <3>2
      <4>2. LinkBacked(e, i + d - 1)
        BY <4>1 DEF Stood, LinksBacked
      <4>3. i - 1 \in 0 .. n - 1 /\ i - 1 + d = i + d - 1
        BY <1>2, <1>5
      <4> QED
        BY <1>16, <4>2, <4>3
    <3> QED
      BY <1>7, <3>1, <3>2
  <2>3. ASSUME NEW e \in Entities, db'.link[e] # None
        PROVE  LinkBacked(e, n)'
    <3>1. CASE GivesLink(en, e)
      BY <1>5, <1>12, <3>1 DEF LinkBacked, GivesLink
    <3>2. CASE db.link[e] # None /\ ~Forgets(en, e)
      <4>1. LinkBacked(e, n - 1)'
        BY <2>1, <3>2
      <4>2. CASE Unforgotten(e, 1, n - 1)'
        BY <1>10, <3>2, <4>2 DEF LinkBacked
      <4>3. ASSUME NEW j \in 1 .. n - 1, GivesLink(history[j], e)', Unforgotten(e, j + 1, n - 1)'
            PROVE  LinkBacked(e, n)'
        <5>1. j + 1 \in Nat /\ j \in 1 .. n
          BY <1>5
        <5>2. Unforgotten(e, j + 1, n)'
          BY <1>10, <3>2, <4>3, <5>1
        <5> QED
          BY <4>3, <5>1, <5>2 DEF LinkBacked
      <4> QED
        BY <4>1, <4>2, <4>3 DEF LinkBacked
    <3> QED
      BY <2>3, <3>1, <3>2 DEF Ahead
  <2> QED
    BY <1>5, <2>2, <2>3 DEF LinksBacked, HadLink
<1>18. ASSUME NEW e \in Entities, NEW k \in 0 .. n - 1, RowBacked(e, k + d)
       PROVE  RowBacked(e, k)'
  <2>1. CASE Unforgotten(e, 1, k + d)
    <3>1. Unforgotten(e, 1 + d, k + d)
      BY <1>2, <2>1 DEF Unforgotten
    <3> QED
      BY <1>8, <3>1 DEF RowBacked
  <2>2. ASSUME NEW j \in 1 .. k + d, GivesRow(history[j], e), Unforgotten(e, j + 1, k + d)
        PROVE  RowBacked(e, k)'
    <3>1. CASE j <= d
      <4>1. Unforgotten(e, 1 + d, k + d)
        BY <1>2, <2>2, <3>1 DEF Unforgotten
      <4> QED
        BY <1>8, <4>1 DEF RowBacked
    <3>2. CASE ~(j <= d)
      <4>1. PICK m \in 1 .. k : m = j - d
        BY <1>2, <3>2
      <4>2. m \in 1 .. n - 1 /\ m + d = j /\ m + 1 + d = j + 1 /\ m + 1 \in Nat \ {0}
        BY <1>2, <1>5, <4>1
      <4>3. GivesRow(history'[m], e)
        BY <1>6, <2>2, <4>2
      <4>4. Unforgotten(e, m + 1, k)'
        BY <1>8, <2>2, <4>2
      <4> QED
        BY <4>3, <4>4 DEF RowBacked, GivesRow
    <3> QED
      BY <3>1, <3>2
  <2> QED
    BY <1>18, <2>1, <2>2 DEF RowBacked
<1>19. RowsBacked(n)'
  <2>1. ASSUME NEW e \in Entities, HasOverride(db, e)
        PROVE  RowBacked(e, n - 1)'
    <3>1. RowBacked(e, c) /\ n - 1 \in 0 .. n - 1 /\ n - 1 + d = c
      BY <1>2, <1>3, <1>5, <2>1 DEF Stood, RowsBacked, HasOverride
    <3> QED
      BY <1>18, <3>1
  <2>2. ASSUME NEW e \in Entities, NEW i \in 1 .. n, HadOverride(history'[i], e)
        PROVE  RowBacked(e, i - 1)'
    <3>1. CASE i = n
      BY <1>5, <2>1, <2>2, <3>1 DEF Found
    <3>2. CASE i \in 1 .. n - 1
      <4>1. i + d \in 1 .. Len(history) /\ HadOverride(history[i + d], e)
        BY <1>6, <2>2, <3>2
      <4>2. RowBacked(e, i + d - 1)
        BY <4>1 DEF Stood, RowsBacked
      <4>3. i - 1 \in 0 .. n - 1 /\ i - 1 + d = i + d - 1
        BY <1>2, <1>5
      <4> QED
        BY <1>18, <4>2, <4>3
    <3> QED
      BY <1>7, <3>1, <3>2
  <2>3. ASSUME NEW e \in Entities, HasOverride(db', e)
        PROVE  RowBacked(e, n)'
    <3>1. CASE GivesRow(en, e)
      BY <1>5, <1>12, <3>1 DEF RowBacked, GivesRow
    <3>2. CASE HasOverride(db, e) /\ ~Forgets(en, e)
      <4>1. RowBacked(e, n - 1)'
        BY <2>1, <3>2
      <4>2. CASE Unforgotten(e, 1, n - 1)'
        BY <1>10, <3>2, <4>2 DEF RowBacked
      <4>3. ASSUME NEW j \in 1 .. n - 1, GivesRow(history[j], e)', Unforgotten(e, j + 1, n - 1)'
            PROVE  RowBacked(e, n)'
        <5>1. j + 1 \in Nat /\ j \in 1 .. n
          BY <1>5
        <5>2. Unforgotten(e, j + 1, n)'
          BY <1>10, <3>2, <4>3, <5>1
        <5> QED
          BY <4>3, <5>1, <5>2 DEF RowBacked
      <4> QED
        BY <4>1, <4>2, <4>3 DEF RowBacked
    <3> QED
      BY <2>3, <3>1, <3>2 DEF Ahead
  <2>4. \A e \in Entities : db'.meta[e] # None /\ db'.meta[e].override # None => RowBacked(e, n)'
    BY <2>3 DEF HasOverride
  <2>5. \A e \in Entities, i \in 1 .. n : HadOverride(history[i], e)' => RowBacked(e, i - 1)'
    BY <2>2 DEF HadOverride, Clears
  <2> QED
    BY <1>5, <2>4, <2>5 DEF RowsBacked
<1>20. RowStays(n)'
  <2>0. RowStays(c)
    BY DEF Stood
  <2>1. ASSUME NEW e \in Entities, NEW i \in 1 .. n,
               GivesRow(history'[i], e) \/ Clears(history'[i], e), Unforgotten(e, i + 1, n)'
        PROVE  db'.meta[e] # None
    <3>1. CASE i = n
      BY <1>5, <2>1, <3>1 DEF Ahead
    <3>2. CASE i \in 1 .. n - 1
      <4>1. i + 1 \in 1 .. n /\ i + 1 + d = i + d + 1
        BY <1>2, <1>5, <3>2
      <4>2. ~Forgets(en, e) /\ Unforgotten(e, i + d + 1, c)
        BY <1>9, <2>1, <4>1
      <4>3. i + d \in 1 .. Len(history) /\ i + d <= c
            /\ (GivesRow(history[i + d], e) \/ Clears(history[i + d], e))
        BY <1>3, <1>6, <2>1, <3>2
      <4>4. db.meta[e] # None
        BY <2>0, <4>2, <4>3 DEF RowStays
      <4> QED
        BY <4>2, <4>4 DEF Ahead
    <3> QED
      BY <1>7, <3>1, <3>2
  <2>2. ASSUME NEW e \in Entities, NEW i \in 1 .. n, NEW j \in i + 1 .. n,
               GivesRow(history'[i], e) \/ Clears(history'[i], e),
               IsMetadata(history'[j]), history'[j].target = e, Unforgotten(e, i + 1, j - 1)'
        PROVE  history'[j].before # None
    <3>1. /\ i \in 1 .. n - 1 /\ i + 1 \in Nat \ {0} /\ j - 1 \in 0 .. n - 1
          /\ i + 1 + d = i + d + 1 /\ j - 1 + d = j + d - 1 /\ j \in 1 .. n
      BY <1>2, <1>5
    <3>2. Unforgotten(e, i + d + 1, j + d - 1)
      BY <1>8, <2>2, <3>1
    <3>3. i + d \in 1 .. Len(history) /\ i + d <= c
          /\ (GivesRow(history[i + d], e) \/ Clears(history[i + d], e))
      BY <1>3, <1>6, <2>2, <3>1
    <3>4. CASE j = n
      <4>1. j + d - 1 = c
        BY <1>2, <1>3, <1>5, <3>4
      <4>2. db.meta[e] # None
        BY <2>0, <3>2, <3>3, <4>1 DEF RowStays
      <4> QED
        BY <1>5, <2>2, <3>4, <4>2 DEF Found
    <3>5. CASE j \in 1 .. n - 1
      <4>1. j + d \in i + d + 1 .. Len(history) /\ history'[j] = history[j + d]
        BY <1>2, <1>3, <1>5, <1>6, <3>5
      <4> QED
        BY <2>0, <2>2, <3>2, <3>3, <4>1 DEF RowStays
    <3> QED
      BY <1>7, <3>1, <3>4, <3>5
  <2>3. \A e \in Entities, i \in 1 .. n :
          GivesRow(history[i], e)' \/ Clears(history[i], e)' =>
            (Unforgotten(e, i + 1, n)' => db'.meta[e] # None)
    BY <2>1 DEF GivesRow, Clears
  <2>4. \A e \in Entities, i \in 1 .. n :
          Clears(history[i], e)' /\ Unforgotten(e, 1, n)' => db'.meta[e] # None
    BY <1>11, <2>3
  <2>5. \A e \in Entities, i \in 1 .. n : \A j \in i + 1 .. n :
          /\ GivesRow(history[i], e)' \/ Clears(history[i], e)'
          /\ IsMetadata(history[j])' /\ history'[j].target = e /\ Unforgotten(e, i + 1, j - 1)'
          => history'[j].before # None
    <3>1. \A e \in Entities, i \in 1 .. n :
            /\ GivesRow(history[i], e)' <=> GivesRow(history'[i], e)
            /\ Clears(history[i], e)' <=> Clears(history'[i], e)
      BY DEF GivesRow, Clears
    <3>2. \A e \in Entities, i \in 1 .. n : \A j \in i + 1 .. n :
            IsMetadata(history[j])' <=> IsMetadata(history'[j])
      BY DEF IsMetadata
    <3> QED
      BY <2>2, <3>1, <3>2
  <2> QED
    BY <1>5, <2>3, <2>4, <2>5 DEF RowStays
<1>21. Stands(n)'
  BY <1>2, <1>4 DEF Stands
<1>22. Stood(n)'
  BY <1>2, <1>13, <1>14, <1>15, <1>17, <1>19, <1>20, <1>21 DEF Stood
<1>23. n \in 0 .. Len(history')
  BY <1>5
<1> QED
  BY <1>22, <1>23

-----------------------------------------------------------------------------
(* Each operation, made and taken back.                                    *)

LEMMA RedoingAhead ==
  ASSUME db \in Tables, NEW en, Says(en), NEW new, new = Redoing(en), ForeignKeys(new),
         \A e \in Entities : HadLink(en, e) /\ About(en, e) => e \in db.entities,
         \A e \in Entities : Clears(en, e) => db.meta[e] # None
  PROVE  new \in Tables /\ Ahead(en, db, new)
<1>0. \A e \in Entities : MapOf[e] \in Maps
  BY MapAssumption
<1>1. \A e \in Entities : new.link[e] # None \/ new.meta[e] # None => e \in new.entities
  BY DEF ForeignKeys
<1>2. CASE IsLink(en)
  <2>1. /\ en.operation = "spatial_link" /\ en.target \in Entities /\ en.after \in LinkStates
        /\ en.after.link # None \/ en.before.link # None
    BY <1>2 DEF IsLink
  <2>2. /\ new \in Tables /\ new.entities = db.entities /\ new.meta = db.meta
        /\ new.link = [db.link EXCEPT ![en.target] = en.after.link]
        /\ new.locator = [db.locator EXCEPT ![MapOf[en.target]] = en.after.locator]
    BY <2>1, LinkApplied DEF Redoing
  <2>3. en.after.locator # None
    BY <2>1, ValueAssumption DEF LinkStates
  <2>4. Placeable(db, new)
    BY <1>0, <2>2, <2>3 DEF Placeable, Tables
  <2>5. \A e \in Entities : new.link[e] = IF e = en.target THEN en.after.link ELSE db.link[e]
    BY <2>2 DEF Tables
  <2>6. \A e \in Entities : HadLink(en, e) <=> e = en.target /\ en.before.link # None
    BY <2>1 DEF HadLink
  <2>7. \A e \in Entities : About(en, e) => e \in new.entities
    BY <1>1, <2>1, <2>2, <2>5, <2>6 DEF About
  <2> QED
    BY <2>1, <2>2, <2>4, <2>5, <2>7 DEF Ahead, Forgets, GivesLink, GivesRow, Clears, HasOverride
<1>3. CASE IsLocator(en)
  <2>1. /\ en.operation = "map_locator" /\ en.target \in Maps /\ en.after \in Locators
    BY <1>3 DEF IsLocator
  <2>2. /\ new \in Tables /\ new.entities = db.entities /\ new.meta = db.meta
        /\ new.link = db.link /\ new.locator = [db.locator EXCEPT ![en.target] = en.after]
    BY <2>1, LocatorApplied DEF Redoing
  <2>3. en.after # None
    BY <2>1, ValueAssumption
  <2>4. Placeable(db, new)
    BY <1>0, <2>2, <2>3 DEF Placeable, Tables
  <2> QED
    BY <2>1, <2>2, <2>4 DEF Ahead, About, Forgets, GivesLink, GivesRow, Clears, HasOverride
<1>4. CASE IsMetadata(en)
  <2>1. /\ en.operation = "entity_metadata" /\ en.target \in Entities /\ en.after \in Metas
        /\ en.after # None /\ en.after \in Metas \cup {None}
    BY <1>4, RowAssumption DEF IsMetadata
  <2>2. /\ new \in Tables /\ new.entities = db.entities
        /\ new.meta = [db.meta EXCEPT ![en.target] = en.after]
        /\ new.link = db.link /\ new.locator = db.locator
    BY <2>1, MetadataApplied DEF Redoing
  <2>3. \A e \in Entities : new.meta[e] = IF e = en.target THEN en.after ELSE db.meta[e]
    BY <2>2 DEF Tables
  <2>4. Placeable(db, new)
    BY <2>2 DEF Placeable
  <2> QED
    BY <1>1, <2>1, <2>2, <2>3, <2>4
    DEF Ahead, About, Forgets, GivesLink, GivesRow, Clears, HasOverride
<1>5. CASE IsClear(en)
  <2>1. en.operation = "clear_entity_overrides" /\ en.after = <<>>
    BY <1>5 DEF IsClear
  <2>2. {} \in SUBSET Entities
    OBVIOUS
  <2>3. /\ new \in Tables /\ new.entities = db.entities
        /\ new.link = db.link /\ new.locator = db.locator
        /\ \A e \in Entities : new.meta[e] = IF db.meta[e] = None THEN None
             ELSE OnOverride(db.meta[e], None)
    <3>1. PICK D \in SUBSET Entities : D = {}
      BY <2>2
    <3>2. PICK none \in [D -> Values] : none = <<>>
      BY <3>1, NoOverrides
    <3> DEFINE now == Applied("clear_entity_overrides", en.target, none)
    <3>3. new = now
      BY <2>1, <3>2 DEF Redoing
    <3>4. /\ now \in Tables /\ now.entities = db.entities
          /\ now.link = db.link /\ now.locator = db.locator
          /\ \A e \in Entities : now.meta[e] = IF db.meta[e] = None THEN None
               ELSE OnOverride(db.meta[e], IF e \in D THEN none[e] ELSE None)
      BY ClearApplied
    <3> HIDE DEF now
    <3> QED
      BY <3>1, <3>3, <3>4
  <2>4. \A e \in Entities : (new.meta[e] = None <=> db.meta[e] = None) /\ ~HasOverride(new, e)
    <3> TAKE e \in Entities
    <3>1. CASE db.meta[e] = None
      BY <2>3, <3>1 DEF HasOverride
    <3>2. CASE db.meta[e] # None
      <4>1. db.meta[e] \in Metas
        BY <3>2 DEF Tables
      <4>2. [db.meta[e] EXCEPT !.override = None] \in Metas
            /\ [db.meta[e] EXCEPT !.override = None].override = None
        BY <4>1 DEF Metas
      <4>3. new.meta[e] = [db.meta[e] EXCEPT !.override = None]
        BY <2>3, <3>2 DEF OnOverride
      <4> QED
        BY <3>2, <4>2, <4>3, RowAssumption DEF HasOverride
    <3> QED
      BY <3>1, <3>2
  <2>5. Placeable(db, new)
    BY <2>3 DEF Placeable
  <2> QED
    BY <2>1, <2>3, <2>4, <2>5 DEF Ahead, About, Forgets, GivesLink, GivesRow
<1>6. CASE IsSetting(en)
  <2>1. en.operation = "user_setting" /\ en.after \in Values \cup {None}
    BY <1>6 DEF IsSetting
  <2>2. /\ new \in Tables /\ new.entities = db.entities /\ new.meta = db.meta
        /\ new.link = db.link /\ new.locator = db.locator
    BY <2>1, SettingApplied DEF Redoing
  <2> QED
    BY <2>1, <2>2 DEF Ahead, Placeable, About, Forgets, GivesLink, GivesRow, Clears, HasOverride
<1>7. CASE IsRelink(en)
  <2> DEFINE s == en.target
             t == en.before.target
             moved == Identified(en.before.source)
             link == en.before.link
  <2>1. /\ en.operation = "relink_entity" /\ s \in Entities /\ t \in Entities \ {s}
        /\ en.before.source \in Metas /\ link \in Links /\ link.state = "active"
        /\ en.after = [target |-> t, moved |-> moved, link |-> link]
    BY <1>7 DEF IsRelink
  <2>2. moved \in Metas
    BY <2>1 DEF Identified, Metas, Presences
  <2>3. moved # None /\ link # None
    BY <2>1, <2>2, RowAssumption
  <2> HIDE DEF moved, link, s, t
  <2>4. LET now == Applied("relink_entity", s, [target |-> t, moved |-> moved, link |-> link])
        IN /\ now \in Tables /\ now.entities = db.entities
           /\ now.meta = [db.meta EXCEPT ![t] = moved, ![s] = IF @ = None THEN None ELSE Missing(@)]
           /\ now.link = [db.link EXCEPT ![t] = link, ![s] = None] /\ now.locator = db.locator
    BY <2>1, <2>2, RelinkRedone
  <2>5. /\ new \in Tables /\ new.entities = db.entities
        /\ new.meta = [db.meta EXCEPT ![t] = moved, ![s] = IF @ = None THEN None ELSE Missing(@)]
        /\ new.link = [db.link EXCEPT ![t] = link, ![s] = None] /\ new.locator = db.locator
    BY <2>1, <2>4 DEF Redoing, s
  <2>6. \A e \in Entities :
          /\ new.link[e] = IF e = t THEN link ELSE IF e = s THEN None ELSE db.link[e]
          /\ new.meta[e] = IF e = t THEN moved ELSE
               IF e = s /\ db.meta[s] # None THEN Missing(db.meta[s]) ELSE db.meta[e]
    BY <2>1, <2>5 DEF Tables
  <2>7. db.meta[s] # None =>
          Missing(db.meta[s]) # None /\ Missing(db.meta[s]).override = db.meta[s].override
    <3> SUFFICES ASSUME db.meta[s] # None
                 PROVE  Missing(db.meta[s]) # None /\ Missing(db.meta[s]).override = db.meta[s].override
      OBVIOUS
    <3>1. db.meta[s] \in Metas
      BY <2>1 DEF Tables
    <3>2. Missing(db.meta[s]) \in Metas /\ Missing(db.meta[s]).override = db.meta[s].override
      BY <3>1 DEF Missing, Metas, Presences
    <3> QED
      BY <3>2, RowAssumption
  <2>8. \A e \in Entities :
          /\ About(en, e) <=> e \in {s, t}
          /\ GivesLink(en, e) <=> e = t
          /\ HadLink(en, e) <=> e = s
          /\ GivesRow(en, e) <=> e = t
          /\ ~Forgets(en, e) /\ ~Clears(en, e)
    BY <2>1 DEF About, GivesLink, HadLink, GivesRow, Forgets, Clears, s, t
  <2>9. \A e \in Entities : About(en, e) => e \in new.entities
    BY <1>1, <2>1, <2>3, <2>5, <2>6, <2>8
  <2>10. Placeable(db, new)
    BY <2>5 DEF Placeable
  <2>11. \A e \in Entities : HasOverride(new, e) => e = t \/ HasOverride(db, e)
    BY <2>6, <2>7 DEF HasOverride
  <2>12. \A e \in Entities : db.meta[e] # None \/ e = t => new.meta[e] # None
    BY <2>3, <2>6, <2>7
  <2>13. \A e \in Entities : new.link[e] # None => e = t \/ db.link[e] # None
    BY <2>6
  <2> QED
    BY <2>5, <2>8, <2>9, <2>10, <2>11, <2>12, <2>13 DEF Ahead
<1>8. CASE IsForget(en)
  <2>1. en.operation = "forget_map_entity" /\ en.target \in Entities
        /\ en.after = [exists |-> FALSE, meta |-> None, link |-> None]
    BY <1>8 DEF IsForget
  <2>2. /\ new \in Tables /\ new.entities = db.entities \ {en.target}
        /\ new.meta = [db.meta EXCEPT ![en.target] = None]
        /\ new.link = [db.link EXCEPT ![en.target] = None] /\ new.locator = db.locator
    BY <2>1, ForgetRedone DEF Redoing
  <2>3. \A e \in Entities :
          /\ new.meta[e] = IF e = en.target THEN None ELSE db.meta[e]
          /\ new.link[e] = IF e = en.target THEN None ELSE db.link[e]
    BY <2>2 DEF Tables
  <2>4. Placeable(db, new)
    BY <2>2 DEF Placeable
  <2> QED
    BY <2>1, <2>2, <2>3, <2>4 DEF Ahead, About, Forgets, GivesLink, GivesRow, Clears, HasOverride
<1> QED
  BY <1>2, <1>3, <1>4, <1>5, <1>6, <1>7, <1>8 DEF Says

LEMMA UndoingBack ==
  ASSUME db \in Tables, ForeignKeys(db), NEW en, Says(en), NEW new, new = Undoing(en),
         \A e \in Entities : About(en, e) => e \in db.entities,
         \A e \in Entities : About(en, e) \/ Forgets(en, e) => db.locator[MapOf[e]] # None
  PROVE  new \in Tables /\ ForeignKeys(new) /\ Back(en, db, new)
<1>0. \A e \in Entities : MapOf[e] \in Maps
  BY MapAssumption
<1>1. /\ db.collisions \subseteq db.entities /\ db.entities \subseteq Entities
      /\ \A e \in db.entities : db.locator[MapOf[e]] # None
      /\ \A e \in Entities : (db.link[e] # None \/ db.meta[e] # None) => e \in db.entities
  BY DEF ForeignKeys, Tables
<1>2. CASE IsLink(en)
  <2>1. /\ en.operation = "spatial_link" /\ en.target \in Entities /\ en.before \in LinkStates
        /\ en.after.link # None \/ en.before.link # None
    BY <1>2 DEF IsLink
  <2>2. /\ new \in Tables /\ new.entities = db.entities /\ new.meta = db.meta
        /\ new.collisions = db.collisions
        /\ new.link = [db.link EXCEPT ![en.target] = en.before.link]
        /\ new.locator = [db.locator EXCEPT ![MapOf[en.target]] = en.before.locator]
    BY <2>1, LinkApplied DEF Undoing
  <2>3. en.before.locator # None
    BY <2>1, ValueAssumption DEF LinkStates
  <2>4. Placeable(db, new)
    BY <1>0, <2>2, <2>3 DEF Placeable, Tables
  <2>5. \A e \in Entities : new.link[e] = IF e = en.target THEN en.before.link ELSE db.link[e]
    BY <2>2 DEF Tables
  <2>6. en.target \in db.entities
    BY <2>1 DEF About
  <2>7. \A e \in Entities :
          (GivesLink(en, e) <=> e = en.target /\ en.after.link # None)
          /\ (HadLink(en, e) <=> e = en.target /\ en.before.link # None)
    BY <2>1 DEF GivesLink, HadLink
  <2>8. ForeignKeys(new)
    <3>1. \A e \in new.entities : new.locator[MapOf[e]] # None
      BY <1>1, <2>2, <2>4 DEF Placeable
    <3> QED
      BY <1>1, <2>2, <2>5, <2>6, <3>1 DEF ForeignKeys
  <2>9. Back(en, db, new)
    BY <2>1, <2>2, <2>4, <2>5, <2>7 DEF Back, Forgets, GivesRow, HadOverride, HasOverride, IsMetadata
  <2> QED
    BY <2>2, <2>8, <2>9
<1>3. CASE IsLocator(en)
  <2>1. /\ en.operation = "map_locator" /\ en.target \in Maps /\ en.before \in Locators
    BY <1>3 DEF IsLocator
  <2>2. /\ new \in Tables /\ new.entities = db.entities /\ new.meta = db.meta
        /\ new.collisions = db.collisions
        /\ new.link = db.link /\ new.locator = [db.locator EXCEPT ![en.target] = en.before]
    BY <2>1, LocatorApplied DEF Undoing
  <2>3. en.before # None
    BY <2>1, ValueAssumption
  <2>4. Placeable(db, new)
    BY <1>0, <2>2, <2>3 DEF Placeable, Tables
  <2>5. ForeignKeys(new)
    <3>1. \A e \in new.entities : new.locator[MapOf[e]] # None
      BY <1>1, <2>2, <2>4 DEF Placeable
    <3> QED
      BY <1>1, <2>2, <3>1 DEF ForeignKeys
  <2>6. Back(en, db, new)
    BY <2>1, <2>2, <2>4
    DEF Back, Forgets, GivesLink, GivesRow, HasOverride, IsMetadata
  <2> QED
    BY <2>2, <2>5, <2>6
<1>4. CASE IsMetadata(en)
  <2>1. /\ en.operation = "entity_metadata" /\ en.target \in Entities
        /\ en.before \in Metas \cup {None}
    BY <1>4 DEF IsMetadata
  <2>2. /\ new \in Tables /\ new.entities = db.entities /\ new.collisions = db.collisions
        /\ new.meta = [db.meta EXCEPT ![en.target] = en.before]
        /\ new.link = db.link /\ new.locator = db.locator
    BY <2>1, MetadataApplied DEF Undoing
  <2>3. \A e \in Entities : new.meta[e] = IF e = en.target THEN en.before ELSE db.meta[e]
    BY <2>2 DEF Tables
  <2>4. Placeable(db, new)
    BY <2>2 DEF Placeable
  <2>5. en.target \in db.entities
    BY <2>1 DEF About
  <2>6. ForeignKeys(new)
    BY <1>1, <2>2, <2>3, <2>5 DEF ForeignKeys
  <2>7. \A e \in Entities :
          /\ GivesRow(en, e) <=> e = en.target
          /\ HadOverride(en, e) <=> e = en.target /\ en.before # None /\ en.before.override # None
          /\ ~Forgets(en, e) /\ ~GivesLink(en, e)
    BY <2>1 DEF GivesRow, HadOverride, Clears, Forgets, GivesLink
  <2>8. Back(en, db, new)
    BY <1>4, <2>2, <2>3, <2>4, <2>7 DEF Back, HasOverride
  <2> QED
    BY <2>2, <2>6, <2>8
<1>5. CASE IsClear(en)
  <2>1. PICK D \in SUBSET Entities : D = {e \in Entities : en.was.meta[e].override # None}
    OBVIOUS
  <2>2. en.operation = "clear_entity_overrides" /\ en.before \in [D -> Values]
    BY <1>5, <2>1 DEF IsClear
  <2>3. /\ new \in Tables /\ new.entities = db.entities /\ new.collisions = db.collisions
        /\ new.link = db.link /\ new.locator = db.locator
        /\ \A e \in Entities : new.meta[e] = IF db.meta[e] = None THEN None
             ELSE OnOverride(db.meta[e], IF e \in D THEN en.before[e] ELSE None)
    <3> DEFINE now == Applied("clear_entity_overrides", en.target, en.before)
    <3>1. new = now
      BY <2>2 DEF Undoing
    <3>2. /\ now \in Tables /\ now.entities = db.entities /\ now.collisions = db.collisions
          /\ now.link = db.link /\ now.locator = db.locator
          /\ \A e \in Entities : now.meta[e] = IF db.meta[e] = None THEN None
               ELSE OnOverride(db.meta[e], IF e \in D THEN en.before[e] ELSE None)
      BY <2>2, ClearApplied
    <3> HIDE DEF now
    <3> QED
      BY <3>1, <3>2
  <2>4. \A e \in Entities : (new.meta[e] = None <=> db.meta[e] = None)
                            /\ (HasOverride(new, e) => e \in D)
    <3> TAKE e \in Entities
    <3>1. CASE db.meta[e] = None
      BY <2>3, <3>1 DEF HasOverride
    <3>2. CASE db.meta[e] # None
      <4>1. db.meta[e] \in Metas
        BY <3>2 DEF Tables
      <4>2. \A x \in Values \cup {None} :
              OnOverride(db.meta[e], x) \in Metas /\ OnOverride(db.meta[e], x).override = x
        BY <4>1 DEF OnOverride, Metas
      <4>3. CASE e \in D
        <5>1. new.meta[e] = OnOverride(db.meta[e], en.before[e]) /\ en.before[e] \in Values
          BY <2>2, <2>3, <3>2, <4>3
        <5> QED
          BY <3>2, <4>2, <4>3, <5>1, RowAssumption
      <4>4. CASE e \notin D
        <5>1. new.meta[e] = OnOverride(db.meta[e], None)
          BY <2>3, <3>2, <4>4
        <5> QED
          BY <3>2, <4>2, <5>1, RowAssumption DEF HasOverride
      <4> QED
        BY <4>3, <4>4
    <3> QED
      BY <3>1, <3>2
  <2>5. Placeable(db, new)
    BY <2>3 DEF Placeable
  <2>6. ForeignKeys(new)
    BY <1>1, <2>3, <2>4 DEF ForeignKeys
  <2>7. \A e \in Entities : /\ HadOverride(en, e) <=> e \in D
                            /\ ~Forgets(en, e) /\ ~GivesLink(en, e) /\ ~GivesRow(en, e)
    BY <2>2 DEF HadOverride, Clears, Forgets, GivesLink, GivesRow
  <2>8. ~IsMetadata(en)
    BY <2>2 DEF IsMetadata
  <2>9. Back(en, db, new)
    BY <2>3, <2>4, <2>5, <2>7, <2>8 DEF Back
  <2> QED
    BY <2>3, <2>6, <2>9
<1>6. CASE IsSetting(en)
  <2>1. en.operation = "user_setting" /\ en.before \in Values \cup {None}
    BY <1>6 DEF IsSetting
  <2>2. /\ new \in Tables /\ new.entities = db.entities /\ new.meta = db.meta
        /\ new.collisions = db.collisions /\ new.link = db.link /\ new.locator = db.locator
    BY <2>1, SettingApplied DEF Undoing
  <2>3. ForeignKeys(new)
    BY <1>1, <2>2 DEF ForeignKeys
  <2>4. Back(en, db, new)
    BY <2>1, <2>2 DEF Back, Placeable, Forgets, GivesLink, GivesRow, HasOverride, IsMetadata
  <2> QED
    BY <2>2, <2>3, <2>4
<1>7. CASE IsRelink(en)
  <2> DEFINE s == en.target
             t == en.before.target
  <2>1. /\ en.operation = "relink_entity" /\ s \in Entities /\ t \in Entities /\ t # s
        /\ en.before \in [target : Entities \ {s}, source : Metas, link : Links, replaced : Metas]
        /\ en.before.source # None /\ en.before.replaced # None /\ en.before.link # None
    BY <1>7, RowAssumption DEF IsRelink
  <2>2. /\ new \in Tables /\ new.entities = db.entities /\ new.collisions = db.collisions
        /\ new.meta = [db.meta EXCEPT ![s] = en.before.source, ![t] = en.before.replaced]
        /\ new.link = [db.link EXCEPT ![s] = en.before.link, ![t] = None]
        /\ new.locator = db.locator
    BY <2>1, RelinkUndone DEF Undoing
  <2> HIDE DEF s, t
  <2>3. \A e \in Entities :
          /\ new.link[e] = IF e = t THEN None ELSE IF e = s THEN en.before.link ELSE db.link[e]
          /\ new.meta[e] = IF e = t THEN en.before.replaced ELSE
               IF e = s THEN en.before.source ELSE db.meta[e]
    BY <2>1, <2>2 DEF Tables
  <2>4. \A e \in Entities :
          /\ About(en, e) <=> e \in {s, t}
          /\ GivesLink(en, e) <=> e = t
          /\ HadLink(en, e) <=> e = s
          /\ GivesRow(en, e) <=> e = t
          /\ HadOverride(en, e) <=> \/ e = s /\ en.before.source.override # None
                                    \/ e = t /\ en.before.replaced.override # None
          /\ ~Forgets(en, e)
    BY <2>1 DEF About, GivesLink, HadLink, GivesRow, HadOverride, Clears, Forgets, s, t
  <2>5. ~IsMetadata(en)
    BY <2>1 DEF IsMetadata
  <2>6. s \in db.entities /\ t \in db.entities
    BY <2>1, <2>4
  <2>7. ForeignKeys(new)
    BY <1>1, <2>2, <2>3, <2>6 DEF ForeignKeys
  <2>8. Placeable(db, new)
    BY <2>2 DEF Placeable
  <2>9. \A e \in Entities : HasOverride(new, e) => HadOverride(en, e) \/ (HasOverride(db, e) /\ e # t)
    BY <2>1, <2>3, <2>4 DEF HasOverride
  <2>10. \A e \in Entities : db.meta[e] # None => new.meta[e] # None
    BY <2>1, <2>3
  <2> QED
    BY <2>2, <2>3, <2>4, <2>7, <2>8, <2>9, <2>10 DEF Back
<1>8. CASE IsForget(en)
  <2>1. /\ en.operation = "forget_map_entity" /\ en.target \in Entities
        /\ en.before \in [exists : {TRUE}, meta : Metas, link : Links \cup {None}]
        /\ en.before.meta # None
    BY <1>8, RowAssumption DEF IsForget
  <2>2. /\ new \in Tables /\ new.entities = db.entities \cup {en.target}
        /\ new.meta = [db.meta EXCEPT ![en.target] = en.before.meta]
        /\ new.collisions = db.collisions \ {en.target}
        /\ new.link = [db.link EXCEPT ![en.target] = en.before.link] /\ new.locator = db.locator
    <3> DEFINE now == Applied("forget_map_entity", en.target, en.before)
    <3>1. new = now
      BY <2>1 DEF Undoing
    <3>2. /\ now \in Tables /\ now.entities = db.entities \cup {en.target}
          /\ now.meta = [db.meta EXCEPT ![en.target] = en.before.meta]
          /\ now.collisions = db.collisions \ {en.target}
          /\ now.link = [db.link EXCEPT ![en.target] = en.before.link] /\ now.locator = db.locator
      BY <2>1, ForgetUndone
    <3> HIDE DEF now
    <3> QED
      BY <3>1, <3>2
  <2>3. \A e \in Entities :
          /\ new.meta[e] = IF e = en.target THEN en.before.meta ELSE db.meta[e]
          /\ new.link[e] = IF e = en.target THEN en.before.link ELSE db.link[e]
    BY <2>2 DEF Tables
  <2>4. Placeable(db, new)
    BY <2>2 DEF Placeable
  <2>5. \A e \in Entities :
          /\ Forgets(en, e) <=> e = en.target
          /\ HadLink(en, e) <=> e = en.target /\ en.before.link # None
          /\ HadOverride(en, e) <=> e = en.target /\ en.before.meta.override # None
          /\ ~GivesLink(en, e) /\ ~GivesRow(en, e)
    BY <2>1 DEF Forgets, HadLink, HadOverride, Clears, GivesLink, GivesRow
  <2>6. ~IsMetadata(en)
    BY <2>1 DEF IsMetadata
  <2>7. ForeignKeys(new)
    <3>1. db.locator[MapOf[en.target]] # None
      BY <2>1, <2>5
    <3> QED
      BY <1>1, <2>1, <2>2, <2>3, <3>1 DEF ForeignKeys
  <2>8. Back(en, db, new)
    BY <2>1, <2>2, <2>3, <2>4, <2>5, <2>6 DEF Back, HasOverride
  <2> QED
    BY <2>2, <2>7, <2>8
<1> QED
  BY <1>2, <1>3, <1>4, <1>5, <1>6, <1>7, <1>8 DEF Says

-----------------------------------------------------------------------------
(* Each operation keeps the invariant: the journalled ones.                *)

LEMMA Cursor == IInv <=> TypeOK /\ \E c \in 0 .. Len(history) : Stood(c)
BY DEF IInv, Stood

LEMMA CursorLater ==
  ASSUME TypeOK', NEW n, n \in 0 .. Len(history'), Stood(n)'
  PROVE  IInv'
BY DEF IInv, Stood

LEMMA Committing ==
  ASSUME IInv, NEW operation, NEW target, NEW before, NEW after, NEW new, NEW en,
         HistoryTransaction(operation, target, before, after, new),
         new = Applied(operation, target, after),
         en = Entry(operation, target, before, after, new), Says(en), Found(en, db)
  PROVE  IInv'
<1>1. PICK c \in 0 .. Len(history) : Stood(c)
  BY Cursor
<1>2. TypeOK /\ db \in Tables /\ ForeignKeys(db) /\ lastId \in Nat /\ lastId < MaxChanges
  BY BoundAssumption DEF IInv, TypeOK, HistoryTransaction
<1>3. /\ ForeignKeys(new) /\ db' = new /\ lastId' = lastId + 1 /\ cursor' = lastId + 1
      /\ UNCHANGED events
      /\ history' = Keep(Append(SubSeq(history, 1, Cardinality(Past)), en))
  BY DEF HistoryTransaction
<1>4. /\ en.id = lastId + 1 /\ en.operation = operation /\ en.target = target
      /\ en.after = after /\ en.became = View(new)
  BY DEF Entry
<1>5. new = Redoing(en)
  BY <1>4 DEF Redoing
<1>6. \A e \in Entities : HadLink(en, e) => e \in db.entities
  BY <1>2 DEF Found, ForeignKeys
<1>7. \A e \in Entities : Clears(en, e) => db.meta[e] # None
  BY DEF Found, HadOverride, HasOverride
<1>8. new \in Tables /\ Ahead(en, db, new)
  BY <1>2, <1>3, <1>5, <1>6, <1>7, RedoingAhead
<1>9. en.became = View(db')
  BY <1>3, <1>4
<1>10. PICK n \in 0 .. Len(history') : Stood(n)'
  BY <1>1, <1>2, <1>3, <1>4, <1>8, <1>9, CommitInv
<1>11. TypeOK'
  <2>1. db' \in Tables /\ ForeignKeys(db')
    BY <1>3, <1>8
  <2>2. ForeignKeys(db)'
    BY <2>1 DEF ForeignKeys
  <2>3. lastId' \in 0 .. MaxChanges /\ cursor' \in 0 .. MaxChanges
    BY <1>2, <1>3, BoundAssumption
  <2>4. events' \in 0 .. MaxEvents
    BY <1>2, <1>3 DEF TypeOK
  <2> QED
    BY <2>1, <2>2, <2>3, <2>4 DEF TypeOK, Tables, Metas, Links, Presences
<1> QED
  BY <1>10, <1>11, CursorLater

\* What the operations have in common.
LEMMA StoredFacts ==
  ASSUME TypeOK
  PROVE  /\ db \in Tables /\ View(db) \in Views
         /\ \A e \in Entities : /\ MapOf[e] \in Maps
                                /\ e \in db.entities => db.locator[MapOf[e]] \in Locators
                                                        /\ db.locator[MapOf[e]] # None
                                /\ db.link[e] # None => e \in db.entities /\ db.link[e] \in Links
                                /\ Meta(e) \in Metas /\ View(db).meta[e] = Meta(e)
                                /\ Meta(e).override # None => HasOverride(db, e)
                                /\ View(db).link[e] = db.link[e]
         /\ View(db).entities = db.entities /\ View(db).locator = db.locator
         /\ View(db).setting = db.setting /\ db.setting \in Values \cup {None}
<1>1. db \in Tables /\ ForeignKeys(db) /\ View(db) \in Views
  BY Viewed DEF TypeOK
<1>2. /\ View(db).entities = db.entities /\ View(db).locator = db.locator
      /\ View(db).setting = db.setting /\ View(db).link = db.link
      /\ \A e \in Entities : View(db).meta[e] = Meta(e)
  BY <1>1, Viewed DEF Meta
<1>3. \A e \in Entities : Meta(e) \in Metas
  BY <1>1, <1>2 DEF Views
<1>4. \A e \in Entities : Meta(e).override # None => HasOverride(db, e)
  BY MetaTyped DEF Meta, HasOverride
<1>5. \A e \in Entities : MapOf[e] \in Maps
  BY MapAssumption
<1>6. \A e \in Entities : e \in db.entities => db.locator[MapOf[e]] \in Locators
                                               /\ db.locator[MapOf[e]] # None
  BY <1>1, <1>5 DEF ForeignKeys, Tables
<1>7. \A e \in Entities : db.link[e] # None => e \in db.entities /\ db.link[e] \in Links
  BY <1>1 DEF ForeignKeys, Tables
<1>8. db.setting \in Values \cup {None}
  BY <1>1 DEF Tables
<1> QED
  BY <1>1, <1>2, <1>3, <1>4, <1>5, <1>6, <1>7, <1>8

LEMMA LinkMade ==
  ASSUME IInv, NEW e \in Entities, e \in db.entities, NEW before, NEW after \in LinkStates, NEW new,
         before = LinkState(e, db.link[e]), before.link = None => after.link # None,
         new = Applied("spatial_link", e, after),
         HistoryTransaction("spatial_link", e, before, after, new)
  PROVE  IInv'
<1> PICK en : en = Entry("spatial_link", e, before, after, new)
  OBVIOUS
<1>0. TypeOK
  BY DEF IInv
<1>1. before = [locator |-> db.locator[MapOf[e]], link |-> db.link[e]] /\ before \in LinkStates
  BY <1>0, StoredFacts DEF LinkState, LinkStates, Tables
<1>2. /\ en.operation = "spatial_link" /\ en.target = e /\ en.before = before /\ en.after = after
      /\ en.was = View(db) /\ en.became = View(new)
  BY DEF Entry
<1>3. View(new) = [View(db) EXCEPT !.link[e] = after.link, !.locator[MapOf[e]] = after.locator]
  BY <1>0, StoredFacts, LinkSeen
<1>4. new \in Tables
  BY <1>0, StoredFacts, LinkApplied
<1>5. IsLink(en)
  <2>1. en.became = [en.was EXCEPT !.link[en.target] = en.after.link,
                                   !.locator[MapOf[en.target]] = en.after.locator]
    BY <1>2, <1>3
  <2>2. View(db).link[e] = before.link /\ View(db).locator[MapOf[e]] = before.locator
    BY <1>0, <1>1, StoredFacts
  <2> QED
    BY <1>1, <1>2, <2>1, <2>2 DEF IsLink
<1>6. Says(en)
  BY <1>0, <1>2, <1>4, <1>5, StoredFacts, Viewed DEF Says
<1>7. Found(en, db)
  <2>1. db.locator[MapOf[e]] # None
    BY <1>0, StoredFacts
  <2>2. \A f \in Entities : /\ About(en, f) => f = e
                            /\ HadLink(en, f) => f = e /\ db.link[e] # None
                            /\ ~Forgets(en, f) /\ ~HadOverride(en, f)
    BY <1>1, <1>2 DEF About, HadLink, Forgets, HadOverride, Clears
  <2>3. ~IsMetadata(en)
    BY <1>2 DEF IsMetadata
  <2> QED
    BY <1>2, <2>1, <2>2, <2>3 DEF Found
<1> QED
  BY <1>6, <1>7, Committing

LEMMA ActivateInv ==
  ASSUME IInv, NEW e \in Entities, NEW card \in Cards, NEW locator \in Locators,
         NEW allowRename \in BOOLEAN, ActivateSpatialLink(e, card, locator, allowRename)
  PROVE  IInv'
<1> PICK before, after, new :
      /\ before = LinkState(e, None) /\ after = [locator |-> locator, link |-> Active(card)]
      /\ new = [Located(db, MapOf[e], locator) EXCEPT !.link[e] = Active(card)]
  OBVIOUS
<1>1. /\ e \in db.entities /\ before = LinkState(e, db.link[e])
      /\ HistoryTransaction("spatial_link", e, before, after, new)
  BY DEF ActivateSpatialLink
<1>2. Active(card) \in Links
  BY DEF Active, Links
<1>3. after \in LinkStates /\ after.link = Active(card) /\ after.link # None
  BY <1>2, RowAssumption DEF LinkStates
<1>4. new = Applied("spatial_link", e, after)
  BY <1>3 DEF Applied, ApplyLink
<1> QED
  BY <1>1, <1>3, <1>4, LinkMade

LEMMA UnlinkInv ==
  ASSUME IInv, NEW e \in Entities, UnlinkSpatialLink(e)
  PROVE  IInv'
<1> PICK before, after, new :
      /\ before = LinkState(e, db.link[e]) /\ after = LinkState(e, None)
      /\ new = [db EXCEPT !.link[e] = None]
  OBVIOUS
<1>0. TypeOK
  BY DEF IInv
<1>1. db.link[e] # None /\ HistoryTransaction("spatial_link", e, before, after, new)
  BY DEF UnlinkSpatialLink
<1>2. e \in db.entities /\ db.locator[MapOf[e]] \in Locators /\ db \in Tables /\ MapOf[e] \in Maps
  BY <1>0, <1>1, StoredFacts
<1>3. after \in LinkStates /\ before.link # None
  BY <1>1, <1>2 DEF LinkStates, LinkState
<1>4. new = Applied("spatial_link", e, after)
  <2>1. Located(db, MapOf[e], db.locator[MapOf[e]]) = db
    BY <1>2 DEF Located, Tables
  <2> QED
    BY <2>1 DEF Applied, ApplyLink, LinkState
<1> QED
  BY <1>1, <1>2, <1>3, <1>4, LinkMade

LEMMA ReplaceInv ==
  ASSUME IInv, NEW e \in Entities, NEW card \in Cards, ReplaceSpatialLink(e, card)
  PROVE  IInv'
<1> PICK before, after, new :
      /\ before = LinkState(e, db.link[e]) /\ after = LinkState(e, Active(card))
      /\ new = [db EXCEPT !.link[e] = Active(card)]
  OBVIOUS
<1>0. TypeOK
  BY DEF IInv
<1>1. db.link[e] # None /\ HistoryTransaction("spatial_link", e, before, after, new)
  BY DEF ReplaceSpatialLink
<1>2. e \in db.entities /\ db.locator[MapOf[e]] \in Locators /\ db \in Tables /\ MapOf[e] \in Maps
  BY <1>0, <1>1, StoredFacts
<1>3. after \in LinkStates /\ before.link # None
  BY <1>1, <1>2 DEF LinkStates, LinkState, Active, Links
<1>4. new = Applied("spatial_link", e, after)
  <2>1. Located(db, MapOf[e], db.locator[MapOf[e]]) = db
    BY <1>2 DEF Located, Tables
  <2> QED
    BY <2>1 DEF Applied, ApplyLink, LinkState
<1> QED
  BY <1>1, <1>2, <1>3, <1>4, LinkMade

LEMMA LocatorInv ==
  ASSUME IInv, NEW m \in Maps, NEW locator \in Locators, UpdateMapLocator(m, locator)
  PROVE  IInv'
<1> PICK before, new : before = db.locator[m] /\ new = Located(db, m, locator)
  OBVIOUS
<1> PICK en : en = Entry("map_locator", m, before, locator, new)
  OBVIOUS
<1>0. TypeOK
  BY DEF IInv
<1>1. before # None /\ HistoryTransaction("map_locator", m, before, locator, new)
  BY DEF UpdateMapLocator
<1>2. /\ en.operation = "map_locator" /\ en.target = m /\ en.before = before /\ en.after = locator
      /\ en.was = View(db) /\ en.became = View(new)
  BY DEF Entry
<1>3. new = Applied("map_locator", m, locator)
  BY DEF Applied
<1>4. new \in Tables /\ View(new) = [View(db) EXCEPT !.locator[m] = locator]
  <2>1. db \in Tables
    BY <1>0, StoredFacts
  <2>2. new \in Tables
    BY <1>3, <2>1, LocatorApplied
  <2>3. View(Applied("map_locator", m, locator)) = [View(db) EXCEPT !.locator[m] = locator]
    BY <2>1, LocatorSeen
  <2> QED
    BY <1>3, <2>2, <2>3
<1>5. IsLocator(en)
  BY <1>0, <1>1, <1>2, <1>4, StoredFacts DEF IsLocator, Tables
<1>6. Says(en)
  BY <1>0, <1>2, <1>4, <1>5, StoredFacts, Viewed DEF Says
<1>7. Found(en, db)
  BY <1>2 DEF Found, About, Forgets, HadLink, HadOverride, Clears, IsMetadata
<1> QED
  BY <1>1, <1>3, <1>6, <1>7, Committing

LEMMA MetadataInv ==
  ASSUME IInv, NEW e \in Entities, NEW text \in Texts \cup {Empty}, NEW override \in Values \cup {None},
         UpdateEntityMetadata(e, text, override)
  PROVE  IInv'
<1> PICK before, after, new :
      /\ before = db.meta[e]
      /\ after = [text |-> text, override |-> override, presence |-> Meta(e).presence]
      /\ new = [db EXCEPT !.meta[e] = after]
  OBVIOUS
<1> PICK en : en = Entry("entity_metadata", e, before, after, new)
  OBVIOUS
<1>0. TypeOK
  BY DEF IInv
<1>1. e \in db.entities /\ HistoryTransaction("entity_metadata", e, before, after, new)
  BY DEF UpdateEntityMetadata
<1>2. /\ en.operation = "entity_metadata" /\ en.target = e /\ en.before = before /\ en.after = after
      /\ en.was = View(db) /\ en.became = View(new)
  BY DEF Entry
<1>3. /\ before \in Metas \cup {None}
      /\ View(db).meta[e] = IF before = None THEN NoMeta ELSE before
  BY <1>0, StoredFacts DEF Tables, Meta
<1>4. after \in Metas /\ after # None
  <2>1. Meta(e).presence \in Presences
    BY <1>0, StoredFacts DEF Metas
  <2>2. after \in Metas
    BY <2>1 DEF Metas
  <2> QED
    BY <2>2, RowAssumption
<1>5. new = Applied("entity_metadata", e, after)
  BY DEF Applied
<1>6. new \in Tables /\ View(new) = [View(db) EXCEPT !.meta[e] = after]
  <2>1. db \in Tables /\ after \in Metas \cup {None}
    BY <1>0, <1>4, StoredFacts
  <2>2. new \in Tables
    <3> DEFINE now == Applied("entity_metadata", e, after)
    <3>1. now \in Tables
      BY <2>1, MetadataApplied
    <3> HIDE DEF now
    <3> QED
      BY <1>5, <3>1 DEF now
  <2>3. View(Applied("entity_metadata", e, after)) =
          [View(db) EXCEPT !.meta[e] = IF after = None THEN NoMeta ELSE after]
    BY <2>1, MetadataSeen
  <2> QED
    BY <1>4, <1>5, <2>2, <2>3
<1>7. IsMetadata(en)
  BY <1>2, <1>3, <1>4, <1>6 DEF IsMetadata
<1>8. Says(en)
  BY <1>0, <1>2, <1>6, <1>7, StoredFacts, Viewed DEF Says
<1>9. Found(en, db)
  <2>1. db.locator[MapOf[e]] # None
    BY <1>0, <1>1, StoredFacts
  <2>2. \A f \in Entities : /\ About(en, f) => f = e
                            /\ HadOverride(en, f) => f = e /\ before # None /\ before.override # None
                            /\ ~Forgets(en, f) /\ ~HadLink(en, f)
    BY <1>2 DEF About, HadLink, Forgets, HadOverride, Clears
  <2> QED
    BY <1>2, <2>1, <2>2 DEF Found, HasOverride
<1> QED
  BY <1>1, <1>5, <1>8, <1>9, Committing

LEMMA SettingInv ==
  ASSUME IInv, NEW value \in Values, SetUserSetting(value)
  PROVE  IInv'
<1> PICK before, new : before = db.setting /\ new = [db EXCEPT !.setting = value]
  OBVIOUS
<1> PICK en : en = Entry("user_setting", None, before, value, new)
  OBVIOUS
<1>0. TypeOK
  BY DEF IInv
<1>1. HistoryTransaction("user_setting", None, before, value, new)
  BY DEF SetUserSetting
<1>2. /\ en.operation = "user_setting" /\ en.target = None /\ en.before = before /\ en.after = value
      /\ en.was = View(db) /\ en.became = View(new)
  BY DEF Entry
<1>3. new = Applied("user_setting", None, value)
  BY DEF Applied
<1>4. new \in Tables /\ View(new) = [View(db) EXCEPT !.setting = value]
  <2>1. db \in Tables /\ value \in Values \cup {None}
    BY <1>0, StoredFacts
  <2>2. new \in Tables
    BY <1>3, <2>1, SettingApplied
  <2>3. View(Applied("user_setting", None, value)) = [View(db) EXCEPT !.setting = value]
    BY <2>1, SettingSeen
  <2> QED
    BY <1>3, <2>2, <2>3
<1>5. IsSetting(en)
  BY <1>0, <1>2, <1>4, StoredFacts DEF IsSetting
<1>6. Says(en)
  BY <1>0, <1>2, <1>4, <1>5, StoredFacts, Viewed DEF Says
<1>7. Found(en, db)
  BY <1>2 DEF Found, About, Forgets, HadLink, HadOverride, Clears, IsMetadata
<1> QED
  BY <1>1, <1>3, <1>6, <1>7, Committing

LEMMA ClearInv ==
  ASSUME IInv, ClearEntityOverrides
  PROVE  IInv'
<1> PICK D \in SUBSET Entities : D = Overridden
  BY DEF Overridden
<1> PICK before, none, new :
      /\ before = [e \in Overridden |-> db.meta[e].override]
      /\ none = <<>> /\ new = Overrides(db, <<>>)
  OBVIOUS
<1> PICK en : en = Entry("clear_entity_overrides", None, before, none, new)
  OBVIOUS
<1>0. TypeOK
  BY DEF IInv
<1>1. HistoryTransaction("clear_entity_overrides", None, before, none, new)
  BY DEF ClearEntityOverrides
<1>2. /\ en.operation = "clear_entity_overrides" /\ en.before = before /\ en.after = none
      /\ en.was = View(db) /\ en.became = View(new)
  BY DEF Entry
<1>3. \A e \in Entities : (e \in D <=> HasOverride(db, e))
                          /\ (e \in D <=> View(db).meta[e].override # None)
  <2> TAKE e \in Entities
  <2>1. View(db).meta[e] = Meta(e)
    BY <1>0, StoredFacts
  <2> QED
    BY <2>1, MetaTyped DEF Overridden, HasOverride, Meta
<1>4. before \in [D -> Values] /\ \A e \in D : before[e] = View(db).meta[e].override
  <2>1. \A e \in D : db.meta[e].override \in Values /\ View(db).meta[e] = db.meta[e]
    <3> TAKE e \in D
    <3>1. db.meta[e] # None /\ db.meta[e].override # None
      BY <1>3 DEF HasOverride
    <3>2. db.meta[e] \in Metas
      BY <1>0, <3>1, StoredFacts DEF Tables
    <3> QED
      BY <1>0, <3>1, <3>2, StoredFacts DEF Metas, Meta
  <2> QED
    BY <2>1
<1>5. new = Applied("clear_entity_overrides", None, none)
  BY DEF Applied
<1>6. PICK noone \in SUBSET Entities : noone = {}
  OBVIOUS
<1>7. none \in [noone -> Values]
  BY <1>6, NoOverrides
<1>8. db \in Tables
  BY <1>0, StoredFacts
<1>9. new \in Tables
  <2> DEFINE now == Applied("clear_entity_overrides", None, none)
  <2>1. now \in Tables
    BY <1>7, <1>8, ClearApplied
  <2> HIDE DEF now
  <2> QED
    BY <1>5, <2>1 DEF now
<1>10. View(new) = [View(db) EXCEPT !.meta = [e \in Entities |->
                      [View(db).meta[e] EXCEPT !.override = None]]]
  <2>1. View(Applied("clear_entity_overrides", None, none)) = WithOverrides(View(db), noone, none)
    BY <1>6, <1>7, <1>8, ClearSeen
  <2>2. WithOverrides(View(db), noone, none) =
          [View(db) EXCEPT !.meta = [e \in Entities |-> [View(db).meta[e] EXCEPT !.override = None]]]
    BY <1>6 DEF WithOverrides
  <2> QED
    BY <1>5, <2>1, <2>2
<1>11. IsClear(en)
  <2>1. D = {e \in Entities : View(db).meta[e].override # None}
    BY <1>3
  <2>2. DOMAIN before = D
    BY <1>4
  <2>3. en.became = [en.was EXCEPT !.meta = [e \in Entities |->
                       [en.was.meta[e] EXCEPT !.override = None]]]
    BY <1>2, <1>10
  <2> QED
    <3>1. en.before \in [{e \in Entities : en.was.meta[e].override # None} -> Values]
      <4>1. D = {e \in Entities : en.was.meta[e].override # None}
        BY <1>2, <2>1
      <4>2. en.before \in [D -> Values]
        BY <1>2, <1>4
      <4> QED
        BY <4>1, <4>2
    <3>2. \A e \in DOMAIN en.before : en.was.meta[e].override = en.before[e]
      BY <1>2, <1>4, <2>2
    <3>3. en.operation = "clear_entity_overrides" /\ en.after = <<>>
      BY <1>2
    <3> QED
      BY <2>3, <3>1, <3>2, <3>3 DEF IsClear
<1>12. Says(en)
  BY <1>0, <1>2, <1>9, <1>11, StoredFacts, Viewed DEF Says
<1>13. Found(en, db)
  <2>1. \A f \in Entities : /\ HadOverride(en, f) => f \in D
                            /\ ~About(en, f) /\ ~Forgets(en, f) /\ ~HadLink(en, f)
    BY <1>2, <1>4 DEF About, HadLink, Forgets, HadOverride, Clears
  <2>2. ~IsMetadata(en)
    BY <1>2 DEF IsMetadata
  <2> QED
    BY <1>2, <1>3, <2>1, <2>2 DEF Found
<1> QED
  BY <1>1, <1>5, <1>12, <1>13, Committing

LEMMA ForgetInv ==
  ASSUME IInv, NEW e \in Entities, ForgetMapEntity(e)
  PROVE  IInv'
<1> PICK before, after, new :
      /\ before = [exists |-> TRUE, meta |-> Meta(e), link |-> db.link[e]]
      /\ after = [exists |-> FALSE, meta |-> None, link |-> None]
      /\ new = Gone(db, e)
  OBVIOUS
<1> PICK en : en = Entry("forget_map_entity", e, before, after, new)
  OBVIOUS
<1>0. TypeOK
  BY DEF IInv
<1>1. e \in db.entities /\ HistoryTransaction("forget_map_entity", e, before, after, new)
  BY DEF ForgetMapEntity
<1>2. /\ en.operation = "forget_map_entity" /\ en.target = e /\ en.before = before /\ en.after = after
      /\ en.was = View(db) /\ en.became = View(new)
  BY DEF Entry
<1>3. /\ before \in [exists : {TRUE}, meta : Metas, link : Links \cup {None}]
      /\ before.meta = Meta(e) /\ before.link = db.link[e]
  <2>1. Meta(e) \in Metas /\ db.link[e] \in Links \cup {None}
    BY <1>0, StoredFacts
  <2> QED
    BY <2>1
<1>4. new = Applied("forget_map_entity", e, after)
  BY DEF Applied, ApplyForget
<1>5. db \in Tables
  BY <1>0, StoredFacts
<1>6. new \in Tables
  BY <1>5, GoneTyped
<1>7. View(new) = [View(db) EXCEPT !.entities = @ \ {e}, !.meta[e] = NoMeta, !.link[e] = None]
  BY <1>4, <1>5, ForgetRedoneSeen
<1>8. IsForget(en)
  <2>1. /\ View(db).meta[e] = before.meta /\ View(db).link[e] = before.link
        /\ e \in View(db).entities
    BY <1>0, <1>1, <1>3, StoredFacts
  <2>2. en.became = [en.was EXCEPT !.entities = @ \ {en.target}, !.meta[en.target] = NoMeta,
                                   !.link[en.target] = None]
    BY <1>2, <1>7
  <2> QED
    BY <1>2, <1>3, <2>1, <2>2 DEF IsForget
<1>9. Says(en)
  BY <1>0, <1>2, <1>6, <1>8, StoredFacts, Viewed DEF Says
<1>10. Found(en, db)
  <2>1. db.locator[MapOf[e]] # None /\ (Meta(e).override # None => HasOverride(db, e))
    BY <1>0, <1>1, StoredFacts
  <2>2. \A f \in Entities : /\ Forgets(en, f) => f = e
                            /\ HadLink(en, f) => f = e /\ db.link[e] # None
                            /\ HadOverride(en, f) => f = e /\ Meta(e).override # None
                            /\ ~About(en, f)
    BY <1>2, <1>3 DEF About, HadLink, Forgets, HadOverride, Clears
  <2>3. ~IsMetadata(en)
    BY <1>2 DEF IsMetadata
  <2> QED
    BY <1>2, <2>1, <2>2, <2>3 DEF Found
<1> QED
  BY <1>1, <1>4, <1>9, <1>10, Committing

LEMMA RelinkInv ==
  ASSUME IInv, NEW s \in Entities, NEW t \in Entities, RelinkEntity(s, t)
  PROVE  IInv'
<1> PICK source, replaced, moved, link :
      /\ source = Meta(s) /\ replaced = Meta(t) /\ moved = Identified(Meta(s)) /\ link = db.link[s]
  OBVIOUS
<1> PICK before, after, new :
      /\ before = [target |-> t, source |-> source, link |-> link, replaced |-> replaced]
      /\ after = [target |-> t, moved |-> moved, link |-> link]
      /\ new = [db EXCEPT !.meta[t] = moved, !.meta[s] = Missing(@), !.link[t] = link, !.link[s] = None]
  OBVIOUS
<1> PICK en : en = Entry("relink_entity", s, before, after, new)
  OBVIOUS
<1>0. TypeOK
  BY DEF IInv
<1>1. /\ s # t /\ s \in db.entities /\ t \in db.entities
      /\ source.presence = "entity_missing" /\ link # None /\ link.state = "active"
      /\ db.link[t] = None
      /\ HistoryTransaction("relink_entity", s, before, after, new)
  BY DEF RelinkEntity
<1>2. /\ en.operation = "relink_entity" /\ en.target = s /\ en.before = before /\ en.after = after
      /\ en.was = View(db) /\ en.became = View(new)
  BY DEF Entry
<1>3. /\ db \in Tables /\ link \in Links /\ source \in Metas /\ replaced \in Metas
      /\ t \in Entities \ {s}
  BY <1>0, <1>1, StoredFacts
<1>4. moved \in Metas /\ moved = Identified(source)
  BY <1>3 DEF Identified, Metas, Presences
<1>5. db.meta[s] # None
  BY <1>1, MetaTyped DEF Meta
<1>6. new = Applied("relink_entity", s, after)
  <2>1. Applied("relink_entity", s, after) = RedoRelink(s, after)
    BY DEF Applied
  <2>2. after.target = t /\ after.moved = moved /\ [after.link EXCEPT !.state = "active"] = link
    BY <1>1, <1>3 DEF Links
  <2>3. new = [db EXCEPT !.meta = [db.meta EXCEPT ![t] = moved, ![s] = Missing(db.meta[s])],
                         !.link = [db.link EXCEPT ![t] = link, ![s] = None]]
    BY <1>3 DEF Tables
  <2>4. RedoRelink(s, after) =
          [db EXCEPT !.meta = [db.meta EXCEPT ![t] = moved, ![s] = Missing(db.meta[s])],
                     !.link = [db.link EXCEPT ![t] = link, ![s] = None]]
    BY <1>3, <1>5, <2>2 DEF RedoRelink, Tables
  <2> QED
    BY <2>1, <2>3, <2>4
<1>7. new \in Tables
  <2> DEFINE now == Applied("relink_entity", s, [target |-> t, moved |-> moved, link |-> link])
  <2>1. now \in Tables
    BY <1>1, <1>3, <1>4, RelinkRedone
  <2> QED
    BY <1>6, <2>1
<1>8. View(new) = Relinked(View(db), s, t, moved, link)
  <2>1. View(db).meta[s].presence = "entity_missing"
    BY <1>0, <1>1, StoredFacts
  <2>2. View(Applied("relink_entity", s, [target |-> t, moved |-> moved, link |-> link])) =
          Relinked(View(db), s, t, moved, link)
    BY <1>1, <1>3, <1>4, <2>1, RelinkRedoneSeen
  <2> QED
    BY <1>6, <2>2
<1>9. IsRelink(en)
  <2>1. /\ View(db).meta[s] = source /\ View(db).meta[t] = replaced
        /\ View(db).link[s] = link /\ View(db).link[t] = None
    BY <1>0, <1>1, StoredFacts
  <2>2. en.became = [en.was EXCEPT !.meta[t] = moved, !.link[t] = link, !.link[s] = None]
    BY <1>2, <1>8 DEF Relinked
  <2>3. before \in [target : Entities \ {s}, source : Metas, link : Links, replaced : Metas]
    BY <1>3
  <2>4. /\ before.target = t /\ before.source = source /\ before.link = link
        /\ before.replaced = replaced /\ after.moved = moved
    OBVIOUS
  <2> QED
    <3>1. en.after = [target |-> en.before.target, moved |-> Identified(en.before.source),
                      link |-> en.before.link]
      BY <1>2, <1>4, <2>4
    <3>2. en.became = [en.was EXCEPT !.meta[en.before.target] = en.after.moved,
                                     !.link[en.before.target] = en.before.link,
                                     !.link[en.target] = None]
      <4>1. /\ en.before.target = t /\ en.after.moved = moved /\ en.before.link = link
            /\ en.target = s
        BY <1>2, <2>4
      <4> QED
        BY <2>2, <4>1
    <3>3. en.before \in [target : Entities \ {en.target}, source : Metas, link : Links, replaced : Metas]
          /\ en.operation = "relink_entity" /\ en.target \in Entities
      BY <1>2, <2>3
    <3>4. /\ en.was.meta[en.target] = en.before.source
          /\ en.was.meta[en.before.target] = en.before.replaced
          /\ en.was.link[en.target] = en.before.link /\ en.was.link[en.before.target] = None
      BY <1>2, <2>1, <2>4
    <3>5. en.before.source.presence = "entity_missing" /\ en.before.link.state = "active"
      BY <1>1, <1>2, <2>4
    <3> QED
      BY <3>1, <3>2, <3>3, <3>4, <3>5 DEF IsRelink
<1>10. Says(en)
  BY <1>0, <1>2, <1>7, <1>9, StoredFacts, Viewed DEF Says
<1>11. Found(en, db)
  <2>1. /\ db.locator[MapOf[s]] # None /\ db.locator[MapOf[t]] # None
        /\ (source.override # None => HasOverride(db, s))
        /\ (replaced.override # None => HasOverride(db, t))
    BY <1>0, <1>1, StoredFacts
  <2>2. before.target = t /\ before.source = source /\ before.replaced = replaced
    OBVIOUS
  <2>3. \A f \in Entities : /\ About(en, f) => f \in {s, t}
                            /\ HadLink(en, f) => f = s
                            /\ HadOverride(en, f) => \/ f = s /\ source.override # None
                                                     \/ f = t /\ replaced.override # None
                            /\ ~Forgets(en, f)
    BY <1>2, <2>2 DEF About, HadLink, Forgets, HadOverride, Clears
  <2>4. ~IsMetadata(en)
    BY <1>2 DEF IsMetadata
  <2> QED
    BY <1>1, <1>2, <2>1, <2>3, <2>4 DEF Found
<1> QED
  BY <1>1, <1>6, <1>10, <1>11, Committing

-----------------------------------------------------------------------------
(* Undo and Redo keep it.                                                  *)

\* What Undo would write now, of the entry the cursor is on.
LEMMA UndoneFacts ==
  ASSUME TypeOK, NEW c, Stood(c), c # 0, NEW en, en = history[c], NEW new, new = Undone
  PROVE  /\ cursor # 0 /\ At(cursor) = en /\ Says(en)
         /\ new \in Tables /\ ForeignKeys(new) /\ Back(en, db, new)
         /\ PreviousId(cursor) = IF c = 1 THEN 0 ELSE history[c - 1].id
         /\ View(db) = en.became => View(new) = en.was
<1>1. /\ db \in Tables /\ ForeignKeys(db) /\ lastId \in Nat /\ Ordered /\ Stands(c)
  BY BoundAssumption DEF TypeOK, Stood
<1>2. /\ c \in Nat /\ c \in 1 .. Len(history) /\ cursor # 0 /\ At(cursor) = en
      /\ PreviousId(cursor) = IF c = 1 THEN 0 ELSE history[c - 1].id
  BY <1>1, Listed, Position
<1>3. Says(en)
  BY <1>1, <1>2 DEF Ordered
<1>4. new = Undoing(en)
  BY <1>2 DEF Undone, Undoing
<1>5. \A e \in Entities : Unforgotten(e, c + 1, c)
  BY <1>2 DEF Unforgotten
<1>6. \A e \in Entities : About(en, e) => e \in db.entities
  BY <1>2, <1>5 DEF Stood, EntityStays
<1>7. \A e \in Entities : About(en, e) \/ Forgets(en, e) => db.locator[MapOf[e]] # None
  BY <1>2 DEF Stood, Placed
<1>8. new \in Tables /\ ForeignKeys(new) /\ Back(en, db, new)
  BY <1>1, <1>3, <1>4, <1>6, <1>7, UndoingBack
<1>9. \A e \in Entities : Clears(en, e) => db.meta[e] # None
  BY <1>2, <1>5 DEF Stood, RowStays
<1>10. View(db) = en.became => View(new) = en.was
  BY <1>1, <1>3, <1>4, <1>9, UndoReverses
<1> QED
  BY <1>2, <1>3, <1>8, <1>10

LEMMA UndoKept ==
  ASSUME IInv, Undo
  PROVE  IInv'
<1>1. PICK c \in 0 .. Len(history) : Stood(c)
  BY Cursor
<1>2. TypeOK /\ lastId \in Nat /\ lastId <= MaxChanges /\ Ordered /\ Stands(c)
  BY <1>1, BoundAssumption DEF IInv, TypeOK, Stood
<1>3. c # 0 /\ Len(history) \in Nat /\ c \in Nat
  BY <1>2, Listed, Position DEF Undo
<1> PICK en, new : en = history[c] /\ new = Undone
  OBVIOUS
<1>4. /\ cursor # 0 /\ At(cursor) = en /\ Says(en)
      /\ new \in Tables /\ ForeignKeys(new) /\ Back(en, db, new)
      /\ PreviousId(cursor) = IF c = 1 THEN 0 ELSE history[c - 1].id
      /\ View(db) = en.became => View(new) = en.was
  BY <1>1, <1>2, <1>3, UndoneFacts
<1>5. /\ db' = new /\ cursor' = (IF c = 1 THEN 0 ELSE history[c - 1].id)
      /\ UNCHANGED <<history, lastId, events>>
  BY <1>4 DEF Undo
<1>6. Back(en, db, db') /\ (View(db) = en.became => View(db') = en.was)
  BY <1>4, <1>5
<1>7. Stood(c - 1)'
  BY <1>1, <1>2, <1>3, <1>5, <1>6, UndoInv
<1>8. PICK n \in 0 .. Len(history) : n = c - 1
  BY <1>3
<1>9. Stood(n)' /\ n \in 0 .. Len(history')
  BY <1>5, <1>7, <1>8
<1>10. TypeOK'
  <2>1. db' \in Tables /\ ForeignKeys(db')
    BY <1>4, <1>5
  <2>2. ForeignKeys(db)'
    BY <2>1 DEF ForeignKeys
  <2>3. cursor' \in 0 .. MaxChanges
    <3>1. 0 \in 0 .. MaxChanges
      BY BoundAssumption
    <3>2. c # 1 => history[c - 1].id \in 0 .. MaxChanges
      <4> SUFFICES ASSUME c # 1 PROVE history[c - 1].id \in 0 .. MaxChanges
        OBVIOUS
      <4>1. c - 1 \in 1 .. Len(history)
        BY <1>1, <1>3
      <4>2. history[c - 1].id \in 1 .. lastId
        BY <1>2, <4>1 DEF Ordered
      <4> QED
        BY <1>2, <4>2, BoundAssumption
    <3> QED
      BY <1>5, <3>1, <3>2
  <2>4. lastId' \in 0 .. MaxChanges /\ events' \in 0 .. MaxEvents
    BY <1>2, <1>5 DEF TypeOK
  <2> QED
    BY <2>1, <2>2, <2>3, <2>4 DEF TypeOK, Tables, Metas, Links, Presences
<1> QED
  BY <1>9, <1>10, CursorLater

\* What Redo would write now, when the database takes it.
LEMMA RedoneFacts ==
  ASSUME TypeOK, NEW c, Stood(c), c < Len(history), NEW en, en = history[c + 1],
         NEW new, new = Redone, ForeignKeys(new)
  PROVE  /\ At(NextId) = en /\ NextId = en.id /\ Says(en)
         /\ new \in Tables /\ Ahead(en, db, new)
         /\ View(db) = en.was => View(new) = en.became
<1>1. /\ db \in Tables /\ ForeignKeys(db) /\ lastId \in Nat /\ Ordered /\ Stands(c)
  BY BoundAssumption DEF TypeOK, Stood
<1>2. /\ c \in Nat /\ c + 1 \in 1 .. Len(history) /\ At(NextId) = en /\ NextId = en.id
  BY <1>1, Listed, Position
<1>3. Says(en)
  BY <1>1, <1>2 DEF Ordered
<1>4. new = Redoing(en)
  BY <1>2 DEF Redone, Redoing
<1>5. c + 1 - 1 = c /\ \A j \in 1 .. c : j \in 1 .. Len(history) /\ j <= c
  BY <1>2, Listed, <1>1
<1>6. ASSUME NEW e \in Entities, HadLink(en, e), About(en, e)
      PROVE  e \in db.entities
  <2>1. LinkBacked(e, c)
    BY <1>2, <1>5, <1>6 DEF Stood, LinksBacked
  <2>2. CASE Unforgotten(e, 1, c)
    BY <1>2, <1>5, <1>6, <2>2 DEF Stood, EntityStays
  <2>3. ASSUME NEW j \in 1 .. c, GivesLink(history[j], e), Unforgotten(e, j + 1, c)
        PROVE  e \in db.entities
    <3>1. About(history[j], e)
      BY <2>3 DEF GivesLink, About
    <3> QED
      BY <1>5, <2>3, <3>1 DEF Stood, EntityStays
  <2> QED
    BY <2>1, <2>2, <2>3 DEF LinkBacked
<1>7. ASSUME NEW e \in Entities, Clears(en, e)
      PROVE  db.meta[e] # None
  <2>0. RowStays(c) /\ RowsBacked(c)
    BY DEF Stood
  <2>1. RowBacked(e, c)
    <3>1. HadOverride(en, e)
      BY <1>7 DEF HadOverride
    <3> QED
      BY <1>2, <1>5, <2>0, <3>1 DEF RowsBacked
  <2>2. ASSUME NEW j \in 1 .. c, GivesRow(history[j], e), Unforgotten(e, j + 1, c)
        PROVE  db.meta[e] # None
    BY <1>5, <2>0, <2>2 DEF RowStays
  <2>3. CASE Unforgotten(e, 1, c)
    <3>1. CASE \E j \in 1 .. c : GivesRow(history[j], e)
      <4>1. PICK j \in 1 .. c : GivesRow(history[j], e)
        BY <3>1
      <4>2. Unforgotten(e, j + 1, c)
        BY <1>2, <2>3 DEF Unforgotten
      <4> QED
        BY <2>2, <4>1, <4>2
    <3>2. CASE \A j \in 1 .. c : ~GivesRow(history[j], e)
      BY <1>2, <1>5, <1>7, <2>0, <2>3, <3>2 DEF RowStays
    <3> QED
      BY <3>1, <3>2
  <2> QED
    BY <2>1, <2>2, <2>3 DEF RowBacked
<1>8. new \in Tables /\ Ahead(en, db, new)
  BY <1>1, <1>3, <1>4, <1>6, <1>7, RedoingAhead
<1>9. View(db) = en.was => View(new) = en.became
  BY <1>1, <1>3, <1>4, RedoReverses
<1> QED
  BY <1>2, <1>3, <1>8, <1>9

LEMMA RedoKept ==
  ASSUME IInv, Redo
  PROVE  IInv'
<1>1. PICK c \in 0 .. Len(history) : Stood(c)
  BY Cursor
<1>2. TypeOK /\ lastId \in Nat /\ lastId <= MaxChanges /\ Ordered /\ Stands(c)
  BY <1>1, BoundAssumption DEF IInv, TypeOK, Stood
<1>3. c < Len(history) /\ Len(history) \in Nat /\ c \in Nat
  BY <1>2, Listed, Position DEF Redo
<1> PICK en, new : en = history[c + 1] /\ new = Redone
  OBVIOUS
<1>4. /\ At(NextId) = en /\ NextId = en.id /\ Says(en)
      /\ new \in Tables /\ ForeignKeys(new) /\ Ahead(en, db, new)
      /\ View(db) = en.was => View(new) = en.became
  <2>1. ForeignKeys(new)
    BY DEF Redo
  <2> QED
    BY <1>1, <1>2, <1>3, <2>1, RedoneFacts
<1>5. db' = new /\ cursor' = en.id /\ UNCHANGED <<history, lastId, events>>
  BY <1>4 DEF Redo
<1>6. Ahead(en, db, db') /\ (View(db) = en.was => View(db') = en.became)
  BY <1>4, <1>5
<1>7. Stood(c + 1)'
  BY <1>1, <1>2, <1>3, <1>5, <1>6, RedoInv
<1>8. PICK n \in 0 .. Len(history) : n = c + 1
  BY <1>3
<1>9. Stood(n)' /\ n \in 0 .. Len(history')
  BY <1>5, <1>7, <1>8
<1>10. TypeOK'
  <2>1. db' \in Tables /\ ForeignKeys(db')
    BY <1>4, <1>5
  <2>2. ForeignKeys(db)'
    BY <2>1 DEF ForeignKeys
  <2>3. cursor' \in 0 .. MaxChanges
    <3>1. c + 1 \in 1 .. Len(history)
      BY <1>3
    <3>2. en.id \in 1 .. lastId
      BY <1>2, <3>1 DEF Ordered
    <3> QED
      BY <1>2, <1>5, <3>2, BoundAssumption
  <2>4. lastId' \in 0 .. MaxChanges /\ events' \in 0 .. MaxEvents
    BY <1>2, <1>5 DEF TypeOK
  <2> QED
    BY <2>1, <2>2, <2>3, <2>4 DEF TypeOK, Tables, Metas, Links, Presences
<1> QED
  BY <1>9, <1>10, CursorLater

-----------------------------------------------------------------------------
(* And what is not journalled.                                             *)

LEMMA UnjournalledInv ==
  ASSUME IInv, NEW new \in Tables, ForeignKeys(new), Beside(db, new), Unjournalled(new)
  PROVE  IInv'
<1>1. PICK c \in 0 .. Len(history) : Stood(c)
  BY Cursor
<1>2. TypeOK /\ lastId \in Nat /\ events \in Nat
  BY BoundAssumption DEF IInv, TypeOK
<1>3. /\ db' = new /\ events' = events + 1 /\ events < MaxEvents
      /\ UNCHANGED <<history, cursor, lastId>>
  BY DEF Unjournalled
<1>4. Beside(db, db')
  BY <1>3
<1>5. Stood(c)' /\ c \in 0 .. Len(history')
  BY <1>1, <1>2, <1>3, <1>4, BesideInv
<1>6. TypeOK'
  <2>1. db' \in Tables /\ ForeignKeys(db')
    BY <1>3
  <2>2. ForeignKeys(db)'
    BY <2>1 DEF ForeignKeys
  <2>3. cursor' \in 0 .. MaxChanges /\ lastId' \in 0 .. MaxChanges
    BY <1>2, <1>3 DEF TypeOK
  <2>4. events' \in 0 .. MaxEvents
    BY <1>2, <1>3, BoundAssumption
  <2> QED
    BY <2>1, <2>2, <2>3, <2>4 DEF TypeOK, Tables, Metas, Links, Presences
<1> QED
  BY <1>5, <1>6, CursorLater

LEMMA AdoptInv ==
  ASSUME IInv, NEW e \in Entities, NEW locator \in Locators, AdoptMapEntity(e, locator)
  PROVE  IInv'
<1>0. TypeOK
  BY DEF IInv
<1>1. db \in Tables /\ ForeignKeys(db) /\ MapOf[e] \in Maps /\ locator # None
  BY <1>0, MapAssumption, ValueAssumption DEF TypeOK
<1> PICK place : place = IF db.locator[MapOf[e]] = None THEN locator ELSE db.locator[MapOf[e]]
  OBVIOUS
<1> PICK new : new = [db EXCEPT !.entities = db.entities \cup {e},
                                !.locator = [db.locator EXCEPT ![MapOf[e]] = place]]
  OBVIOUS
<1>2. place \in Locators \cup {None} /\ place # None
  BY <1>1 DEF Tables
<1>3. /\ new \in Tables /\ new.entities = db.entities \cup {e} /\ new.meta = db.meta
      /\ new.link = db.link /\ new.collisions = db.collisions
      /\ new.locator = [db.locator EXCEPT ![MapOf[e]] = place]
  BY <1>1, <1>2 DEF Tables
<1>4. \A f \in Entities : /\ db.locator[MapOf[f]] # None => new.locator[MapOf[f]] # None
                          /\ f = e => new.locator[MapOf[f]] # None
  BY <1>1, <1>2, <1>3, MapAssumption DEF Tables
<1>5. ForeignKeys(new)
  BY <1>1, <1>3, <1>4 DEF ForeignKeys, Tables
<1>6. Beside(db, new)
  BY <1>3, <1>4 DEF Beside, Placeable, HasOverride
<1>7. Unjournalled(new)
  <2>1. new = [db EXCEPT !.entities = @ \cup {e},
                         !.locator[MapOf[e]] = IF @ = None THEN locator ELSE @]
    BY <1>1 DEF Tables
  <2> QED
    BY <2>1 DEF AdoptMapEntity
<1> QED
  BY <1>3, <1>5, <1>6, <1>7, UnjournalledInv

LEMMA PresenceInv ==
  ASSUME IInv, NEW e \in Entities, NEW presence \in Presences, RefreshPresence(e, presence)
  PROVE  IInv'
<1>0. TypeOK
  BY DEF IInv
<1>1. db \in Tables /\ ForeignKeys(db) /\ e \in db.entities /\ Meta(e) \in Metas
  BY <1>0, StoredFacts DEF TypeOK, RefreshPresence
<1> PICK meta : meta = [Meta(e) EXCEPT !.presence = presence]
  OBVIOUS
<1> PICK new : new = [db EXCEPT !.meta[e] = meta]
  OBVIOUS
<1>2. meta \in Metas /\ meta.override = Meta(e).override
  BY <1>1 DEF Metas
<1>3. meta # None
  BY <1>2, RowAssumption
<1>4. /\ new \in Tables /\ new.entities = db.entities /\ new.meta = [db.meta EXCEPT ![e] = meta]
      /\ new.link = db.link /\ new.collisions = db.collisions /\ new.locator = db.locator
  BY <1>1, <1>2 DEF Tables
<1>5. \A f \in Entities : new.meta[f] = IF f = e THEN meta ELSE db.meta[f]
  BY <1>1, <1>4 DEF Tables
<1>6. ForeignKeys(new)
  BY <1>1, <1>4, <1>5 DEF ForeignKeys, Tables
<1>7. \A f \in Entities : HasOverride(new, f) => HasOverride(db, f)
  <2>1. meta.override # None => HasOverride(db, e)
    BY <1>0, <1>2, StoredFacts
  <2> QED
    BY <1>5, <2>1 DEF HasOverride
<1>8. Beside(db, new)
  BY <1>3, <1>4, <1>5, <1>7 DEF Beside, Placeable
<1>9. Unjournalled(new)
  BY DEF RefreshPresence
<1> QED
  BY <1>4, <1>6, <1>8, <1>9, UnjournalledInv

LEMMA CardStateInv ==
  ASSUME IInv, NEW card \in Cards, NEW state \in {"active", "card_missing"},
         RefreshSpatialLinkCardState(card, state)
  PROVE  IInv'
<1>1. db \in Tables /\ ForeignKeys(db)
  BY DEF IInv, TypeOK
<1> PICK refreshed : refreshed = [card |-> card, state |-> state]
  OBVIOUS
<1> PICK link : link = [e \in Entities |->
      IF db.link[e] # None /\ db.link[e].card = card THEN refreshed ELSE db.link[e]]
  OBVIOUS
<1> PICK new : new = [db EXCEPT !.link = link]
  OBVIOUS
<1>2. refreshed \in Links
  BY DEF Links
<1>3. link \in [Entities -> Links \cup {None}]
  BY <1>1, <1>2 DEF Tables
<1>4. \A e \in Entities : link[e] # None => db.link[e] # None
  OBVIOUS
<1>5. /\ new \in Tables /\ new.entities = db.entities /\ new.meta = db.meta
      /\ new.link = link /\ new.collisions = db.collisions /\ new.locator = db.locator
  BY <1>1, <1>3 DEF Tables
<1>6. ForeignKeys(new)
  BY <1>1, <1>4, <1>5 DEF ForeignKeys
<1>7. Beside(db, new)
  BY <1>4, <1>5 DEF Beside, Placeable, HasOverride
<1>8. Unjournalled(new)
  BY DEF RefreshSpatialLinkCardState
<1> QED
  BY <1>5, <1>6, <1>7, <1>8, UnjournalledInv

LEMMA CollisionInv ==
  ASSUME IInv, NEW e \in Entities, MarkEntityIdentityCollision(e) \/ ClearEntityIdentityCollision(e)
  PROVE  IInv'
<1>1. db \in Tables /\ ForeignKeys(db)
  BY DEF IInv, TypeOK
<1>2. PICK collisions \in SUBSET db.entities : Unjournalled([db EXCEPT !.collisions = collisions])
  <2>1. CASE MarkEntityIdentityCollision(e)
    <3>1. db.collisions \cup {e} \subseteq db.entities
      BY <1>1, <2>1 DEF MarkEntityIdentityCollision, ForeignKeys
    <3> QED
      BY <2>1, <3>1 DEF MarkEntityIdentityCollision
  <2>2. CASE ClearEntityIdentityCollision(e)
    <3>1. db.collisions \ {e} \subseteq db.entities
      BY <1>1 DEF ForeignKeys
    <3> QED
      BY <2>2, <3>1 DEF ClearEntityIdentityCollision
  <2> QED
    BY <2>1, <2>2
<1> PICK new : new = [db EXCEPT !.collisions = collisions]
  OBVIOUS
<1>3. /\ new \in Tables /\ new.entities = db.entities /\ new.meta = db.meta
      /\ new.link = db.link /\ new.collisions = collisions /\ new.locator = db.locator
  BY <1>1, <1>2 DEF Tables
<1>4. ForeignKeys(new)
  BY <1>1, <1>3 DEF ForeignKeys
<1>5. Beside(db, new)
  BY <1>3 DEF Beside, Placeable, HasOverride
<1> QED
  BY <1>2, <1>3, <1>4, <1>5, UnjournalledInv

-----------------------------------------------------------------------------
(* The theorems.                                                           *)

LEMMA InitInv == Init => IInv
<1> SUFFICES ASSUME Init PROVE IInv
  OBVIOUS
<1>1. /\ history = <<>> /\ cursor = 0 /\ lastId = 0 /\ events = 0 /\ ForeignKeys(db)
      /\ \A e \in Entities : db.meta[e] = None /\ db.link[e] = None
  BY DEF Init
<1>2. PICK taken, collisions \in SUBSET Entities, locator \in [Maps -> Locators \cup {None}] :
        db = [entities |-> taken, meta |-> [e \in Entities |-> None],
              link |-> [e \in Entities |-> None], collisions |-> collisions,
              locator |-> locator, setting |-> None]
  BY DEF Init
<1>3. [e \in Entities |-> None] \in [Entities -> Metas \cup {None}]
  OBVIOUS
<1>4. [e \in Entities |-> None] \in [Entities -> Links \cup {None}]
  OBVIOUS
<1>5. db \in Tables
  BY <1>2, <1>3, <1>4 DEF Tables
<1>6. TypeOK
  BY <1>1, <1>5, BoundAssumption DEF TypeOK
<1>7. Len(history) = 0 /\ 1 .. Len(history) = {} /\ 0 \in 0 .. Len(history)
  BY <1>1, EmptySeq
<1>8. Ordered
  <2>1. history \in Seq({history[i] : i \in DOMAIN history})
    BY <1>1, EmptySeq
  <2>2. Len(history) <= HISTORY_LIMIT
    BY <1>7, LimitAssumption
  <2> QED
    BY <1>7, <2>1, <2>2 DEF Ordered
<1>9. Placed /\ Stands(0) /\ EntityStays(0) /\ RowStays(0)
  BY <1>1, <1>7 DEF Placed, Stands, EntityStays, RowStays
<1>10. Unbroken(0)
  BY <1>7 DEF Unbroken
<1>11. LinksBacked(0) /\ RowsBacked(0)
  BY <1>1, <1>7 DEF LinksBacked, RowsBacked
<1> QED
  BY <1>6, <1>7, <1>8, <1>9, <1>10, <1>11 DEF IInv

\* Every history that a run of the store can reach is one that IInv describes:
\* what each entry says of the tables before and after it, where the cursor is on
\* it, and what Undo and Redo find when they come to it (store.lua).
THEOREM Inductive == Spec => []IInv
<1>1. IInv /\ [Next]_vars => IInv'
  <2> SUFFICES ASSUME IInv, [Next]_vars PROVE IInv'
    OBVIOUS
  <2>1. CASE UNCHANGED vars
    <3>1. UNCHANGED <<db, history, cursor, lastId, events>>
      BY <2>1 DEF vars
    <3>2. PICK c \in 0 .. Len(history) : Stood(c)
      BY Cursor
    <3>3. TypeOK'
      BY <3>1 DEF IInv, TypeOK, Tables, Metas, Links, Presences, ForeignKeys
    <3>4. Ordered'
      BY <3>1, OrderedStays DEF IInv
    <3>5. Placed' /\ Stands(c)'
      BY <3>1, <3>2 DEF IInv, Placed, Stands, Stood, About, Forgets
    <3>6. Unbroken(c)'
      BY <3>1, <3>2 DEF Unbroken, Stood, View
    <3>7. EntityStays(c)'
      BY <3>1, <3>2 DEF Stood, EntityStays, About, Unforgotten, Forgets
    <3>8. LinksBacked(c)'
      BY <3>1, <3>2 DEF Stood, LinksBacked, LinkBacked, HadLink, GivesLink, Unforgotten, Forgets
    <3>9. RowsBacked(c)'
      BY <3>1, <3>2 DEF Stood, RowsBacked, RowBacked, HadOverride, GivesRow, Clears,
                        Unforgotten, Forgets
    <3>10. RowStays(c)'
      <4>1. RowStays(c)
        BY <3>2 DEF Stood
      <4> QED
        BY <3>1, <4>1 DEF RowStays, GivesRow, Clears, Unforgotten, Forgets, IsMetadata
    <3>11. Stood(c)' /\ c \in 0 .. Len(history')
      BY <3>1, <3>4, <3>5, <3>6, <3>7, <3>8, <3>9, <3>10 DEF Stood
    <3> QED
      BY <3>3, <3>11, CursorLater
  <2>2. ASSUME NEW e \in Entities, NEW card \in Cards, NEW locator \in Locators,
               NEW allowRename \in BOOLEAN, ActivateSpatialLink(e, card, locator, allowRename)
        PROVE  IInv'
    BY <2>2, ActivateInv
  <2>3. ASSUME NEW e \in Entities, NEW locator \in Locators, AdoptMapEntity(e, locator)
        PROVE  IInv'
    BY <2>3, AdoptInv
  <2>4. ASSUME NEW e \in Entities, UnlinkSpatialLink(e) \/ ForgetMapEntity(e)
        PROVE  IInv'
    BY <2>4, UnlinkInv, ForgetInv
  <2>5. ASSUME NEW e \in Entities, NEW card \in Cards, ReplaceSpatialLink(e, card)
        PROVE  IInv'
    BY <2>5, ReplaceInv
  <2>6. ASSUME NEW e \in Entities, NEW t \in Entities, RelinkEntity(e, t)
        PROVE  IInv'
    BY <2>6, RelinkInv
  <2>7. ASSUME NEW e \in Entities, NEW text \in Texts \cup {Empty},
               NEW override \in Values \cup {None}, UpdateEntityMetadata(e, text, override)
        PROVE  IInv'
    BY <2>7, MetadataInv
  <2>8. ASSUME NEW e \in Entities, NEW presence \in Presences, RefreshPresence(e, presence)
        PROVE  IInv'
    BY <2>8, PresenceInv
  <2>9. ASSUME NEW e \in Entities, MarkEntityIdentityCollision(e) \/ ClearEntityIdentityCollision(e)
        PROVE  IInv'
    BY <2>9, CollisionInv
  <2>10. ASSUME NEW m \in Maps, NEW locator \in Locators, UpdateMapLocator(m, locator)
         PROVE  IInv'
    BY <2>10, LocatorInv
  <2>11. ASSUME NEW value \in Values, SetUserSetting(value)
         PROVE  IInv'
    BY <2>11, SettingInv
  <2>12. ASSUME NEW card \in Cards, NEW state \in {"active", "card_missing"},
                RefreshSpatialLinkCardState(card, state)
         PROVE  IInv'
    BY <2>12, CardStateInv
  <2>13. CASE ClearEntityOverrides
    BY <2>13, ClearInv
  <2>14. CASE Undo
    BY <2>14, UndoKept
  <2>15. CASE Redo
    BY <2>15, RedoKept
  <2> QED
    BY <2>1, <2>2, <2>3, <2>4, <2>5, <2>6, <2>7, <2>8, <2>9, <2>10, <2>11, <2>12, <2>13, <2>14,
       <2>15 DEF Next
<1> QED
  BY <1>1, InitInv, PTL DEF Spec

\* The tables hold what their columns may hold and every foreign key is kept,
\* through every change, Undo and Redo (the schema of store.lua).
THEOREM TypeCorrect == Spec => []TypeOK
<1>1. IInv => TypeOK
  BY DEF IInv
<1> QED
  BY <1>1, Inductive, PTL

\* The cursor is at the start or on an entry that is there, entries are in order
\* and at most HISTORY_LIMIT (historyTransaction and moveHistory, store.lua).
THEOREM CursorNeverDangles == Spec => []CursorStands
<1>1. IInv => CursorStands
  <2> SUFFICES ASSUME IInv PROVE CursorStands
    OBVIOUS
  <2>1. PICK c \in 0 .. Len(history) : Stood(c)
    BY Cursor
  <2>2. Ordered /\ Stands(c) /\ lastId \in Nat
    BY <2>1, BoundAssumption DEF Stood, IInv, TypeOK
  <2>3. cursor = 0 \/ cursor \in Ids
    BY <2>2, Position
  <2>4. DOMAIN history = 1 .. Len(history)
    BY <2>2, Listed
  <2>5. \A id \in Ids : id <= lastId
    BY <2>2, <2>4, ById DEF Ids
  <2>6. \A i, j \in DOMAIN history : i < j => history[i].id < history[j].id
    BY <2>2, <2>4 DEF Ordered
  <2> QED
    BY <2>2, <2>3, <2>5, <2>6 DEF CursorStands, Ordered
<1> QED
  BY <1>1, Inductive, PTL

\* The database never refuses an Undo, whatever was written beside the history
\* since (moveHistory in store.lua).
THEOREM UndoNeverRefused == Spec => []UndoApplies
<1>1. IInv => UndoApplies
  <2> SUFFICES ASSUME IInv, cursor # 0 PROVE ForeignKeys(Undone)
    BY DEF UndoApplies
  <2>1. PICK c \in 0 .. Len(history) : Stood(c)
    BY Cursor
  <2>2. TypeOK /\ Ordered /\ Stands(c) /\ lastId \in Nat
    BY <2>1, BoundAssumption DEF Stood, IInv, TypeOK
  <2>3. c # 0
    BY <2>2, Position
  <2>4. PICK en, new : en = history[c] /\ new = Undone
    OBVIOUS
  <2>5. ForeignKeys(new)
    BY <2>1, <2>2, <2>3, <2>4, UndoneFacts
  <2> QED
    BY <2>4, <2>5
<1> QED
  BY <1>1, Inductive, PTL

\* While every write was journalled, the history is one line of views and the
\* store is where the cursor stands on it (historyTransaction, and the decision
\* that a new change drops the Redo branch).
THEOREM HistoryIsOneLine == Spec => []OneLine
<1>1. IInv => OneLine
  <2> SUFFICES ASSUME IInv, events = 0
               PROVE  /\ \A i \in 1 .. Len(history) - 1 : history[i].became = history[i + 1].was
                      /\ cursor # 0 => View(db) = At(cursor).became
                      /\ cursor = 0 /\ history # <<>> => View(db) = history[1].was
    BY DEF OneLine
  <2>1. PICK c \in 0 .. Len(history) : Stood(c)
    BY Cursor
  <2>2. Ordered /\ Stands(c) /\ lastId \in Nat
    BY <2>1, BoundAssumption DEF Stood, IInv, TypeOK
  <2>3. /\ \A i \in 1 .. Len(history) - 1 : history[i].became = history[i + 1].was
        /\ c # 0 => View(db) = history[c].became
        /\ c < Len(history) => View(db) = history[c + 1].was
    BY <2>1 DEF Stood, Unbroken
  <2>4. /\ Len(history) \in Nat /\ (cursor = 0 <=> c = 0)
        /\ c # 0 => At(cursor) = history[c]
    BY <2>2, Listed, Position
  <2>5. history # <<>> => 0 < Len(history)
    BY <2>2, <2>4, EmptySeq DEF Ordered
  <2> QED
    BY <2>3, <2>4, <2>5
<1> QED
  BY <1>1, Inductive, PTL

\* Undo and Redo take the store to what the player saw before a change and after
\* it, for every operation (applyHistoryStateSteps in store.lua).
THEOREM UndoAndRedoReverse == Spec => HistoryReverses
<1>1. ASSUME IInv, [Next]_vars
      PROVE  [/\ (Undo /\ View(db) = At(cursor).became) => View(db') = At(cursor).was
              /\ (Redo /\ View(db) = At(NextId).was) => View(db') = At(NextId).became]_vars
  <2>1. PICK c \in 0 .. Len(history) : Stood(c)
    BY <1>1, Cursor
  <2>2. TypeOK /\ Ordered /\ Stands(c) /\ lastId \in Nat
    BY <1>1, <2>1, BoundAssumption DEF Stood, IInv, TypeOK
  <2>3. ASSUME Undo, View(db) = At(cursor).became
        PROVE  View(db') = At(cursor).was
    <3>1. c # 0
      BY <2>2, <2>3, Position DEF Undo
    <3>2. PICK en, new : en = history[c] /\ new = Undone
      OBVIOUS
    <3>3. At(cursor) = en /\ (View(db) = en.became => View(new) = en.was)
      BY <2>1, <2>2, <3>1, <3>2, UndoneFacts
    <3>4. db' = new
      BY <2>3, <3>2 DEF Undo
    <3> QED
      BY <2>3, <3>3, <3>4
  <2>4. ASSUME Redo, View(db) = At(NextId).was
        PROVE  View(db') = At(NextId).became
    <3>1. c < Len(history)
      BY <2>2, <2>4, Position DEF Redo
    <3>2. PICK en, new : en = history[c + 1] /\ new = Redone
      OBVIOUS
    <3>3. ForeignKeys(new)
      BY <2>4, <3>2 DEF Redo
    <3>4. At(NextId) = en /\ (View(db) = en.was => View(new) = en.became)
      BY <2>1, <2>2, <3>1, <3>2, <3>3, RedoneFacts
    <3>5. db' = new
      BY <2>4, <3>2 DEF Redo
    <3> QED
      BY <2>4, <3>4, <3>5
  <2>5. View(db') = View(db)'
    BY DEF View
  <2> QED
    BY <2>3, <2>4, <2>5
<1> QED
  BY <1>1, Inductive, PTL DEF Spec, HistoryReverses

=============================================================================

------------------------------- MODULE Store -------------------------------
(***************************************************************************)
(* The server's SQLite store and its Change History (server/store.lua).    *)
(*                                                                         *)
(* Every change a player makes and the journal entry that reverses it are  *)
(* one transaction, so each is one step here; a transaction that fails     *)
(* rolls back and is no step. Beside them run the writes ANKIGTA makes on  *)
(* its own, which are never journalled: what a map save or a scan found,   *)
(* what Anki said of a card, an object taken in. All tables are on disk:   *)
(* closing and opening the store changes nothing.                          *)
(*                                                                         *)
(* A Map Entity stands for its (map_id, entity_id). Its name and tag are   *)
(* one text, its overridable settings one override; authored coordinates   *)
(* and the map's checksum, which never change here, are left out.          *)
(***************************************************************************)
EXTENDS Naturals, Sequences, FiniteSets

CONSTANTS
  Entities,       \* Map Entities, those not yet in the store included
  Maps,           \* maps they belong to
  MapOf,          \* the map of each entity
  Cards,          \* Anki Card Identities
  Texts,          \* names and tags, other than the empty one
  Values,         \* values of an override and of a stored setting
  Locators,       \* where a map's file is: resource and file name
  HISTORY_LIMIT,
  MaxChanges,     \* bound: journalled changes
  MaxEvents,      \* bound: writes that are not journalled
  None            \* SQL NULL

ASSUME MapAssumption   == MapOf \in [Entities -> Maps]
ASSUME ValueAssumption == None \notin Entities \cup Maps \cup Cards \cup Texts \cup Values \cup Locators
ASSUME LimitAssumption == HISTORY_LIMIT \in Nat \ {0}
ASSUME BoundAssumption == MaxChanges \in Nat /\ MaxEvents \in Nat

VARIABLES
  db,       \* the tables but for the two of the Change History
  history,  \* change_history in the order of history_id
  cursor,   \* change_history_state.cursor_id
  lastId,   \* the last history_id AUTOINCREMENT gave
  events    \* writes so far that were not journalled

vars == <<db, history, cursor, lastId, events>>

-----------------------------------------------------------------------------
(* Tables.                                                                 *)

Empty == None      \* '' as a name and a tag
Presences == {"identified", "entity_missing"}
Metas == [text : Texts \cup {Empty}, override : Values \cup {None}, presence : Presences]
Links == [card : Cards, state : {"active", "card_missing"}]
Tables == [entities : SUBSET Entities, meta : [Entities -> Metas \cup {None}],
           link : [Entities -> Links \cup {None}], collisions : SUBSET Entities,
           locator : [Maps -> Locators \cup {None}], setting : Values \cup {None}]

ASSUME RowAssumption == None \notin Metas \cup Links

\* metadataOf a row that the LEFT JOIN may have found no metadata for.
NoMeta  == [text |-> Empty, override |-> None, presence |-> "identified"]
Meta(e) == IF db.meta[e] = None THEN NoMeta ELSE db.meta[e]
Active(card) == [card |-> card, state |-> "active"]

\* What the foreign keys demand: a row of maps for an entity (no locator stands
\* for no row), a row of map_entities for a link, metadata and a collision.
ForeignKeys(d) ==
  /\ d.collisions \subseteq d.entities
  /\ \A e \in d.entities : d.locator[MapOf[e]] # None
  /\ \A e \in Entities : (d.link[e] # None \/ d.meta[e] # None) => e \in d.entities

Init ==
  /\ \E taken, collisions \in SUBSET Entities, locator \in [Maps -> Locators \cup {None}] :
       db = [entities |-> taken, meta |-> [e \in Entities |-> None],
             link |-> [e \in Entities |-> None], collisions |-> collisions,
             locator |-> locator, setting |-> None]
  /\ ForeignKeys(db)
  /\ history = <<>>
  /\ cursor = 0
  /\ lastId = 0
  /\ events = 0

-----------------------------------------------------------------------------
(* Change History.                                                         *)

\* The state of the tables a player sees. An identity collision is ANKIGTA's
\* own mark on an entity and is left aside.
View(d) == [entities |-> d.entities, link |-> d.link, locator |-> d.locator,
            setting |-> d.setting,
            meta |-> [e \in Entities |-> IF d.meta[e] = None THEN NoMeta ELSE d.meta[e]]]

\* An entry and, not stored, the views it led from and to.
Entry(operation, target, before, after, new) ==
  [id |-> lastId + 1, operation |-> operation, target |-> target,
   before |-> before, after |-> after, was |-> View(db), became |-> View(new)]

Ids == {history[i].id : i \in DOMAIN history}
At(id) == history[CHOOSE i \in DOMAIN history : history[i].id = id]

KeepOldest(entries) ==
  IF Len(entries) <= HISTORY_LIMIT THEN entries ELSE SubSeq(entries, 1, HISTORY_LIMIT)

\* The newest HISTORY_LIMIT entries.
Keep(entries) ==
  IF Len(entries) <= HISTORY_LIMIT THEN entries
  ELSE SubSeq(entries, Len(entries) - HISTORY_LIMIT + 1, Len(entries))

\* Every entry, the Redo branch among them.
NoneFuture == DOMAIN history

\* The entries up to the cursor, the first ones.
Past == {i \in DOMAIN history : history[i].id <= cursor}

\* historyTransaction: the change, the Redo branch dropped, the entry, the limit.
HistoryTransaction(operation, target, before, after, new) ==
  /\ lastId < MaxChanges
  /\ ForeignKeys(new)
  /\ db' = new
  /\ history' = Keep(Append(SubSeq(history, 1, Cardinality(Past)),
                            Entry(operation, target, before, after, new)))
  /\ lastId' = lastId + 1
  /\ cursor' = lastId + 1
  /\ UNCHANGED events

-----------------------------------------------------------------------------
(* Spatial Links.                                                          *)

LinkState(e, link) == [locator |-> db.locator[MapOf[e]], link |-> link]
Located(d, m, locator) == [d EXCEPT !.locator[m] = locator]

\* activateSpatialLink, for a map known at this place or one that was renamed.
ActivateSpatialLink(e, card, locator, allowRename) ==
  /\ e \in db.entities
  /\ db.link[e] = None
  /\ locator = db.locator[MapOf[e]] \/ allowRename
  /\ HistoryTransaction("spatial_link", e, LinkState(e, None),
       [locator |-> locator, link |-> Active(card)],
       [Located(db, MapOf[e], locator) EXCEPT !.link[e] = Active(card)])

\* Also what activateSpatialLink does for an entity that has its link.
UpdateMapLocator(m, locator) ==
  /\ db.locator[m] # None
  /\ HistoryTransaction("map_locator", m, db.locator[m], locator, Located(db, m, locator))

UnlinkSpatialLink(e) ==
  /\ db.link[e] # None
  /\ HistoryTransaction("spatial_link", e, LinkState(e, db.link[e]), LinkState(e, None),
       [db EXCEPT !.link[e] = None])

ReplaceSpatialLink(e, card) ==
  /\ db.link[e] # None /\ db.link[e].card # card
  /\ HistoryTransaction("spatial_link", e, LinkState(e, db.link[e]), LinkState(e, Active(card)),
       [db EXCEPT !.link[e] = Active(card)])

\* The link and the metadata of a missing entity move to another.
Missing(meta) == [meta EXCEPT !.presence = "entity_missing"]
Identified(meta) == [meta EXCEPT !.presence = "identified"]

RelinkEntity(s, t) ==
  /\ s # t
  /\ {s, t} \subseteq db.entities
  /\ Meta(s).presence = "entity_missing" /\ Meta(t).presence # "entity_missing"
  /\ db.link[s] # None /\ db.link[s].state = "active"
  /\ db.link[t] = None
  /\ HistoryTransaction("relink_entity", s,
       [target |-> t, source |-> Meta(s), link |-> db.link[s], replaced |-> Meta(t)],
       [target |-> t, moved |-> Identified(Meta(s)), link |-> db.link[s]],
       [db EXCEPT !.meta[t] = Identified(Meta(s)), !.meta[s] = Missing(@),
                  !.link[t] = db.link[s], !.link[s] = None])

-----------------------------------------------------------------------------
(* Metadata, settings and removal.                                         *)

UpdateEntityMetadata(e, text, override) ==
  LET after == [text |-> text, override |-> override, presence |-> Meta(e).presence]
  IN /\ e \in db.entities
     /\ HistoryTransaction("entity_metadata", e, db.meta[e], after,
          [db EXCEPT !.meta[e] = after])

Overridden == {e \in Entities : db.meta[e] # None /\ db.meta[e].override # None}

\* Every entity back on the global, and those in overrides on their own value.
Overrides(d, overrides) ==
  [d EXCEPT !.meta = [e \in Entities |->
     IF d.meta[e] = None THEN None
     ELSE [d.meta[e] EXCEPT !.override = IF e \in DOMAIN overrides THEN overrides[e] ELSE None]]]

ClearEntityOverrides ==
  /\ Overridden # {}
  /\ HistoryTransaction("clear_entity_overrides", None,
       [e \in Overridden |-> db.meta[e].override], <<>>, Overrides(db, <<>>))

SetUserSetting(value) ==
  HistoryTransaction("user_setting", None, db.setting, value, [db EXCEPT !.setting = value])

Gone(d, e) == [d EXCEPT !.entities = @ \ {e}, !.meta[e] = None, !.link[e] = None,
                        !.collisions = @ \ {e}]

ForgetMapEntity(e) ==
  /\ e \in db.entities
  /\ HistoryTransaction("forget_map_entity", e,
       [exists |-> TRUE, meta |-> Meta(e), link |-> db.link[e]],
       [exists |-> FALSE, meta |-> None, link |-> None], Gone(db, e))

-----------------------------------------------------------------------------
(* Undo and Redo.                                                          *)

\* applyHistoryStateSteps for the operations with one target.
ApplyLinkOnly(e, state) == [db EXCEPT !.link[e] = state.link]

ApplyLink(e, state) ==
  [Located(db, MapOf[e], state.locator) EXCEPT !.link[e] = state.link]

ApplyForgetRowless(e, state) ==
  IF state.exists THEN [Gone(db, e) EXCEPT !.meta[e] = state.meta, !.link[e] = state.link]
  ELSE Gone(db, e)

ApplyForget(e, state) ==
  IF state.exists
  THEN [Gone(db, e) EXCEPT !.entities = @ \cup {e}, !.meta[e] = state.meta, !.link[e] = state.link]
  ELSE Gone(db, e)

\* And for a relink, back and forth.
UndoRelink(s, state) ==
  [db EXCEPT !.meta[s] = state.source, !.meta[state.target] = state.replaced,
             !.link[s] = state.link, !.link[state.target] = None]
RedoRelink(s, state) ==
  [db EXCEPT !.meta[state.target] = state.moved,
             !.meta[s] = IF @ = None THEN None ELSE Missing(@),
             !.link[state.target] = [state.link EXCEPT !.state = "active"], !.link[s] = None]

Applied(operation, target, state) ==
  CASE operation = "spatial_link"           -> ApplyLink(target, state)
    [] operation = "relink_entity"          ->
         IF "moved" \in DOMAIN state THEN RedoRelink(target, state) ELSE UndoRelink(target, state)
    [] operation = "forget_map_entity"      -> ApplyForget(target, state)
    [] operation = "map_locator"            -> Located(db, target, state)
    [] operation = "entity_metadata"        -> [db EXCEPT !.meta[target] = state]
    [] operation = "clear_entity_overrides" -> Overrides(db, state)
    [] operation = "user_setting"           -> [db EXCEPT !.setting = state]

Undone == Applied(At(cursor).operation, At(cursor).target, At(cursor).before)

Future == {id \in Ids : id > cursor}
NextId == CHOOSE id \in Future : \A other \in Future : id <= other
Redone == Applied(At(NextId).operation, At(NextId).target, At(NextId).after)

PreviousId(id) ==
  LET earlier == {i \in Ids : i < id}
  IN IF earlier = {} THEN 0 ELSE CHOOSE i \in earlier : \A j \in earlier : j <= i

Undo ==
  /\ cursor # 0 /\ cursor \in Ids
  /\ ForeignKeys(Undone)
  /\ db' = Undone
  /\ cursor' = PreviousId(cursor)
  /\ UNCHANGED <<history, lastId, events>>

Redo ==
  /\ Future # {}
  /\ ForeignKeys(Redone)
  /\ db' = Redone
  /\ cursor' = NextId
  /\ UNCHANGED <<history, lastId, events>>

-----------------------------------------------------------------------------
(* Writes that are not journalled.                                         *)

Unjournalled(new) ==
  /\ events < MaxEvents
  /\ db' = new /\ new # db
  /\ events' = events + 1
  /\ UNCHANGED <<history, cursor, lastId>>

\* adoptMapEntity, and createMapEntityCopy for an ambiguous identity.
AdoptMapEntity(e, locator) ==
  /\ e \notin db.entities
  /\ Unjournalled([db EXCEPT !.entities = @ \cup {e},
                             !.locator[MapOf[e]] = IF @ = None THEN locator ELSE @])

RefreshPresenceRowless(e, presence) ==
  Unjournalled([db EXCEPT !.meta[e] = [Meta(e) EXCEPT !.presence = presence]])

\* markEntityMissing and clearEntityMissing, from a scan of the saved maps.
RefreshPresence(e, presence) ==
  e \in db.entities /\ Unjournalled([db EXCEPT !.meta[e] = [Meta(e) EXCEPT !.presence = presence]])

RefreshSpatialLinkCardState(card, state) ==
  Unjournalled([db EXCEPT !.link = [e \in Entities |->
    IF db.link[e] # None /\ db.link[e].card = card THEN [card |-> card, state |-> state]
    ELSE db.link[e]]])

MarkEntityIdentityCollision(e) ==
  e \in db.entities /\ Unjournalled([db EXCEPT !.collisions = @ \cup {e}])
ClearEntityIdentityCollision(e) == Unjournalled([db EXCEPT !.collisions = @ \ {e}])

-----------------------------------------------------------------------------

Next ==
  \/ \E e \in Entities :
       \/ \E card \in Cards, locator \in Locators, allowRename \in BOOLEAN :
            ActivateSpatialLink(e, card, locator, allowRename)
       \/ \E locator \in Locators : AdoptMapEntity(e, locator)
       \/ UnlinkSpatialLink(e) \/ ForgetMapEntity(e)
       \/ \E card \in Cards : ReplaceSpatialLink(e, card)
       \/ \E t \in Entities : RelinkEntity(e, t)
       \/ \E text \in Texts \cup {Empty}, override \in Values \cup {None} :
            UpdateEntityMetadata(e, text, override)
       \/ \E presence \in Presences : RefreshPresence(e, presence)
       \/ MarkEntityIdentityCollision(e) \/ ClearEntityIdentityCollision(e)
  \/ \E m \in Maps, locator \in Locators : UpdateMapLocator(m, locator)
  \/ \E value \in Values : SetUserSetting(value)
  \/ \E card \in Cards, state \in {"active", "card_missing"} :
       RefreshSpatialLinkCardState(card, state)
  \/ ClearEntityOverrides \/ Undo \/ Redo

Spec == Init /\ [][Next]_vars

-----------------------------------------------------------------------------
(* Properties.                                                             *)

TypeOK ==
  /\ db \in Tables
  /\ ForeignKeys(db)
  /\ cursor \in 0 .. MaxChanges
  /\ lastId \in 0 .. MaxChanges
  /\ events \in 0 .. MaxEvents

\* The cursor never dangles: it is at the start or on an entry that is there,
\* entries are in order and at most HISTORY_LIMIT. A backup whose cursor
\* dangles is refused for good (backup.lua, changeHistoryConsistent), and Undo
\* would stop with history_entry_missing.
CursorStands ==
  /\ cursor = 0 \/ cursor \in Ids
  /\ Len(history) <= HISTORY_LIMIT
  /\ \A i, j \in DOMAIN history : i < j => history[i].id < history[j].id
  /\ \A id \in Ids : id <= lastId

\* Undo takes the store back to what the player saw before the change, and Redo
\* to what he saw after it, for every operation, through any chain of them,
\* when nothing but journalled changes came in between. (The two hand-written
\* directions of applyHistoryStateSteps against the six operations.)
HistoryReverses ==
  [][/\ (Undo /\ View(db) = At(cursor).became) => View(db') = At(cursor).was
     /\ (Redo /\ View(db) = At(NextId).was) => View(db') = At(NextId).became]_vars

\* Undo is never refused by the database, whatever was written beside the
\* history since: there is always a way back. (The transaction of moveHistory.)
UndoApplies == cursor # 0 => ForeignKeys(Undone)

\* While every write was journalled, the history is one unbroken line of views,
\* each entry leading on from the one before, and the store is where the cursor
\* stands on it: a branch left by Undo and a new change never comes back (ADR
\* 0013), and what the limit dropped is only ever the beginning of the line.
OneLine ==
  events = 0 =>
    /\ \A i \in 1 .. Len(history) - 1 : history[i].became = history[i + 1].was
    /\ cursor # 0 => View(db) = At(cursor).became
    /\ cursor = 0 /\ history # <<>> => View(db) = history[1].was
=============================================================================

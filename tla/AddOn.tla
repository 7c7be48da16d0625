------------------------------- MODULE AddOn -------------------------------
(***************************************************************************)
(* Which Anki collection is open, which one it is, and what the HTTP       *)
(* threads make of it (companion/ankigta_companion/lifecycle.py,           *)
(* collection_identity.py, and the readers and the one writer of cards.py  *)
(* and notes.py).                                                          *)
(*                                                                         *)
(* Anki's hooks, its event loop and the dialogs run on the main thread,    *)
(* one at a time, and publish what they find as one observation. A request *)
(* reads the observation first and Anki's open collection afterwards. The  *)
(* user copies, moves and deletes collection files meanwhile. A collection *)
(* carries its uuid inside; the registry says which file each uuid belongs *)
(* to and which uuid is bound. A step that writes either may fail, and the *)
(* process may end between two of them.                                    *)
(*                                                                         *)
(* The study lifecycle, which the add-on's entry point does not pass in,   *)
(* is left out; so are the scheduler facts beside the collection.          *)
(***************************************************************************)
EXTENDS Naturals, FiniteSets

CONSTANTS
  Places,     \* paths of the profiles' collections
  Workers,    \* threads of the HTTP server
  MaxFiles,   \* bound: files that ever exist, as st_dev and st_ino tell them apart
  MaxUuids,   \* bound: uuids ever assigned
  MaxMoves,   \* bound: collection files moved or deleted
  MaxOpens,   \* bound: times a collection is loaded or temporarily closed
  MaxFaults,  \* bound: reads and writes that fail
  MaxExits,   \* bound: ends of the process
  None        \* Python's None, no file

ASSUME BoundAssumption == /\ MaxFiles \in Nat \ {0} /\ MaxUuids \in Nat /\ MaxOpens \in Nat
                          /\ MaxMoves \in Nat
                          /\ MaxFaults \in Nat /\ MaxExits \in Nat
                          /\ None \notin Nat /\ None \notin Places

VARIABLES
  disk,         \* the collection file at each place
  registry,     \* collection-registry.json
  col,          \* mw.col
  stage,        \* where Anki's main thread is with the collection
  current,      \* CollectionIdentityService._current
  observation,  \* ObservationStore: state and identity of the collection
  generation,   \* _collection_generation
  timers,       \* deferred _mark_absent_after_close calls
  request,      \* what each worker is doing
  files, uuids, moves, opens, faults, exits

vars == <<disk, registry, col, stage, current, observation, generation, timers, request,
          files, uuids, moves, opens, faults, exits>>
counts == <<files, uuids, moves, opens, faults, exits>>

-----------------------------------------------------------------------------
(* Files, the registry and identities.                                     *)

Uuids     == 1 .. MaxUuids
Files     == [id : 1 .. MaxFiles, uuid : Uuids \cup {None}]
Instances == [place : Places, file : 1 .. MaxFiles]
Open      == [place : Places, life : 1 .. MaxOpens]

ASSUME FileAssumption == None \notin Files \cup Instances \cup Open

Accepted  == {"unbound", "bound", "wrong_collection"}
Identities == [state : Accepted \cup {"copy_decision_required", "identity_error"},
               uuid : Uuids \cup {None}]
Identity(state, uuid) == [state |-> state, uuid |-> uuid]

Registry == [bound : Uuids \cup {None}, instances : [Uuids -> Instances \cup {None}]]

\* A route of the readers, the route of the editor
Kinds == {"read", "update"}

Idle == None
Requests == [kind : Kinds, uuid : Uuids, life : 0 .. MaxOpens, overtaken : BOOLEAN]

TypeOK ==
  /\ disk \in [Places -> Files \cup {None}]
  /\ registry \in Registry
  /\ col \in Open \cup {None}
  /\ stage \in {"away", "loading", "open", "closing", "paused"}
  /\ current \in Identities \cup {None}
  /\ observation \in [state : {"absent", "open", "closing"}, identity : Identities \cup {None}]
  /\ generation \in Nat /\ timers \subseteq 1 .. generation
  /\ request \in [Workers -> Requests \cup {Idle}]
  /\ files \in 1 .. MaxFiles /\ uuids \in 0 .. MaxUuids
  /\ moves \in 0 .. MaxMoves /\ opens \in 0 .. MaxOpens
  /\ faults \in 0 .. MaxFaults /\ exits \in 0 .. MaxExits

Init ==
  /\ LET first == CHOOSE p \in Places : TRUE IN
       disk = [p \in Places |-> IF p = first THEN [id |-> 1, uuid |-> None] ELSE None]
  /\ registry = [bound |-> None, instances |-> [u \in Uuids |-> None]]
  /\ col = None /\ stage = "away"
  /\ current = None
  /\ observation = [state |-> "absent", identity |-> None]
  /\ generation = 0 /\ timers = {}
  /\ request = [w \in Workers |-> Idle]
  /\ files = 1 /\ uuids = 0 /\ moves = 0 /\ opens = 0 /\ faults = 0 /\ exits = 0

\* _file_identity and the locator of the open collection
Here == [place |-> col.place, file |-> disk[col.place].id]
Uuid == disk[col.place].uuid

\* _registered_instance_is_present
Present(instance) == disk[instance.place] # None /\ disk[instance.place].id = instance.file

\* _binding_state
BindingState(bound, uuid) ==
  CASE bound = uuid -> "bound"
    [] bound = None -> "unbound"
    [] OTHER -> "wrong_collection"

\* Requests whose identity or collection is no longer the open one's
Overtake == [w \in Workers |-> IF request[w] = Idle THEN Idle
                               ELSE [request[w] EXCEPT !.overtaken = TRUE]]

-----------------------------------------------------------------------------
(* CollectionIdentityService.                                              *)

\* What observing the open collection finds, writes and answers. A fault is the
\* write or read that fails: of the collection's configuration, of the registry
\* or the file's identity, of the registry the first time or the second.
Points == {"none", "assign", "load", "save", "adopt"}

Known  == IF Uuid = None THEN None ELSE registry.instances[Uuid]
Copied == Known # None /\ Known.file # Here.file
Undecided == Copied /\ ~Present(Known)                   \* only the user knows
UnnamedMutant == Uuid = None  \* Mutant: a copy keeps the uuid it came with.
Unnamed == Uuid = None \/ (Copied /\ Present(Known))   \* a new uuid is assigned

\* _assign_new_uuid, or the uuid that is there
Name(u) == /\ disk' = [disk EXCEPT ![col.place].uuid = u]
           /\ uuids' = IF u > uuids THEN u ELSE uuids
\* Mutant: which file it is, is not kept.
RegisteredByPlace(u) == [registry EXCEPT !.instances[u] = [Here EXCEPT !.file = None]]
Registered(u) == [registry EXCEPT !.instances[u] = Here]

\* _observe_open_collection: what it has written when it ends
Observe(point) ==
  LET u == IF Unnamed THEN uuids + 1 ELSE Uuid IN
  \/ /\ \/ point = "assign" /\ Unnamed
        \/ point = "load" /\ Uuid # None
        \/ point = "none" /\ Undecided
     /\ UNCHANGED <<disk, registry, uuids>>
  \/ /\ \/ point = "load" /\ Uuid = None
        \/ point = "save" /\ ~Undecided /\ (Unnamed \/ Registered(u) # registry)
     /\ u \in Uuids /\ Name(u)
     /\ UNCHANGED registry
  \/ /\ point = "adopt" /\ ~Undecided /\ registry.bound = None
     /\ u \in Uuids /\ Name(u)
     /\ registry' = Registered(u)
  \/ /\ point = "none" /\ ~Undecided
     /\ u \in Uuids /\ Name(u)
     /\ registry' = [Registered(u) EXCEPT !.bound = IF @ = None THEN u ELSE @]

\* ... and the identities it may answer with.
AnswersMutant(point, asked) ==  \* Mutant: a registry that was not saved is not told of.
  LET u == disk'[col.place].uuid IN
  CASE point = "assign" -> {Identity("identity_error", v) : v \in {None, Uuid}}
    [] point = "load" -> {Identity("identity_error", u)}
    [] OTHER -> {Identity(IF asked THEN "copy_decision_required"
                          ELSE BindingState(registry'.bound, u), u)}
Answers(point, asked) ==
  LET u == disk'[col.place].uuid IN
  CASE point = "assign" -> {Identity("identity_error", v) : v \in {None, Uuid}}
    [] point \in {"load", "save"} -> {Identity("identity_error", u)}
    [] OTHER -> {Identity(IF asked THEN "copy_decision_required"
                          ELSE BindingState(registry'.bound, u), u)}

\* A fault is counted.
Failing(point) ==
  /\ point = "none" \/ faults < MaxFaults
  /\ faults' = IF point = "none" THEN faults ELSE faults + 1

-----------------------------------------------------------------------------
(* Anki's collection, and the hooks it calls.                              *)

\* loadProfile has loaded the collection and not called the hook yet.
Load(p) ==
  /\ stage = "away" /\ disk[p] # None
  /\ opens < MaxOpens
  /\ opens' = opens + 1
  /\ col' = [place |-> p, life |-> opens']
  /\ stage' = "loading"
  /\ UNCHANGED <<disk, registry, current, observation, generation, timers, request,
                 files, uuids, moves, faults, exits>>

\* _on_profile_did_open, also after a temporary close
Opened(point) ==
  /\ stage \in {"loading", "paused"}
  /\ Failing(point)
  /\ Observe(point)
  /\ generation' = generation + 1
  /\ current' \in Answers(point, Undecided)
  /\ observation' = [state |-> "open", identity |-> current']
  /\ stage' = "open"
  /\ UNCHANGED <<col, timers, request, files, moves, opens, exits>>

\* Mutant: the identity of the collection that closes stays in the observation.
MarkClosingMutant ==
  /\ generation' = generation + 1
  /\ current' = None
  /\ observation' = [observation EXCEPT !.state = "closing"]
  /\ request' = Overtake

\* _mark_collection_closing
MarkClosing ==
  /\ generation' = generation + 1
  /\ current' = None
  /\ observation' = [state |-> "closing", identity |-> None]
  /\ request' = Overtake

\* _on_profile_will_close
WillClose ==
  /\ stage = "open"
  /\ MarkClosing
  /\ timers' = timers \cup {generation'}
  /\ stage' = "closing"
  /\ UNCHANGED <<disk, registry, col, counts>>

\* _on_collection_will_temporarily_close: a sync, after which the same object
\* may hold another collection
WillPause ==
  /\ stage = "open"
  /\ opens < MaxOpens
  /\ opens' = opens + 1
  /\ MarkClosing
  /\ stage' = "paused"
  /\ UNCHANGED <<disk, registry, col, timers, files, uuids, moves, faults, exits>>

\* unloadCollection
Unload ==
  /\ stage = "closing"
  /\ col' = None
  /\ stage' = "away"
  /\ UNCHANGED <<disk, registry, current, observation, generation, timers, request, counts>>

\* Mutant: it does not look whether the collection is gone.
MarkAbsentEarly(g) ==
  /\ g \in timers
  /\ timers' = timers \ {g}
  /\ observation' = IF g # generation THEN observation ELSE [state |-> "absent", identity |-> None]
  /\ UNCHANGED <<disk, registry, col, stage, current, generation, request, counts>>
\* Mutant: it does not call itself again.
MarkAbsentOnce(g) ==
  /\ g \in timers
  /\ timers' = timers \ {g}
  /\ observation' = IF g # generation \/ col # None THEN observation
                    ELSE [state |-> "absent", identity |-> None]
  /\ UNCHANGED <<disk, registry, col, stage, current, generation, request, counts>>

\* _mark_absent_after_close: a call that another hook has overtaken ends, one
\* that comes before the collection is gone calls itself again.
MarkAbsent(g) ==
  /\ g \in timers
  /\ IF g # generation THEN timers' = timers \ {g} /\ UNCHANGED observation
     ELSE IF col # None THEN UNCHANGED <<timers, observation>>
     ELSE /\ timers' = timers \ {g}
          /\ observation' = [state |-> "absent", identity |-> None]
  /\ UNCHANGED <<disk, registry, col, stage, current, generation, request, counts>>

-----------------------------------------------------------------------------
(* The user's answers, given in dialogs.                                   *)

Publish == observation' = [observation EXCEPT !.identity = current']

\* bind_current_collection of the identity the dialog shows; it raises when the
\* registry cannot be saved, and nothing has changed.
Bind ==
  /\ stage = "open"
  /\ current # None /\ current.state \in Accepted
  /\ registry' = [registry EXCEPT !.bound = current.uuid]
  /\ current' = Identity("bound", current.uuid)
  /\ Publish
  /\ UNCHANGED <<disk, col, stage, generation, timers, request, counts>>

\* decide_current_collection_copy
Decide(decision, point) ==
  /\ stage = "open"
  /\ current # None /\ current.state = "copy_decision_required"
  /\ Failing(point)
  /\ IF decision = "new_copy" /\ point \in {"none", "save"}
     THEN uuids + 1 \in Uuids /\ Name(uuids + 1)
     ELSE (point = "assign" => decision = "new_copy") /\ UNCHANGED <<disk, uuids>>
  /\ registry' = IF point = "none" THEN Registered(disk'[col.place].uuid) ELSE registry
  /\ current' \in Answers(point, FALSE)
  /\ Publish
  /\ request' = Overtake
  /\ UNCHANGED <<col, stage, generation, timers, files, moves, opens, exits>>

-----------------------------------------------------------------------------
(* Requests.                                                               *)

Others == <<disk, registry, col, stage, current, observation, generation, timers, counts>>

\* Either service takes the identity first. A card of another collection than the
\* one observed is refused or left out, so the request goes on with that uuid.
Ask(w, kind) ==
  /\ request[w] = Idle
  /\ request' = [request EXCEPT ![w] = [kind |-> kind, uuid |-> observation.identity.uuid,
                                        life |-> 0, overtaken |-> FALSE]]
  /\ UNCHANGED Others

\* CardPickerService._bound_collection wants the bound collection,
AskBound(w) ==
  /\ observation.identity # None /\ observation.identity.state = "bound"
  /\ Ask(w, "read")

\* NoteEditorService._bound_collection any identity whose uuid is the card's.
AskUpdate(w) ==
  /\ observation.identity # None /\ observation.identity.uuid # None
  /\ Ask(w, "update")

\* ... and Anki's collection after it.
Take(w) ==
  /\ request[w] # Idle /\ request[w].life = 0
  /\ request' = [request EXCEPT ![w] = IF col = None THEN Idle ELSE [@ EXCEPT !.life = col.life]]
  /\ UNCHANGED Others

\* The request has read or written, or Anki has refused because the collection it
\* took is closed.
Ends(w, kind) ==
  /\ request[w] # Idle /\ request[w].life # 0
  /\ request[w].kind = kind
  /\ request' = [request EXCEPT ![w] = Idle]
  /\ UNCHANGED Others

\* search finds the ids and reads one page of cards, those that are still there;
\* read_identity reads one; read_notes those it can. Each with the collection taken.
Search(w)       == Ends(w, "read")
ReadIdentity(w) == Ends(w, "read")
ReadNotes(w)    == Ends(w, "read")
Update(w)       == Ends(w, "update")

\* Anki lets the request use the collection it took.
Usable(w) ==
  request[w] # Idle /\ col # None /\ request[w].life = col.life /\ stage # "paused"

-----------------------------------------------------------------------------
(* The process and the files.                                              *)

Gone ==
  /\ col' = None /\ stage' = "away" /\ current' = None
  /\ observation' = [state |-> "absent", identity |-> None]
  /\ generation' = 0 /\ timers' = {}
  /\ request' = [w \in Workers |-> Idle]

\* Anki ends, perhaps with a collection half observed.
Exit ==
  /\ exits < MaxExits
  /\ exits' = exits + 1
  /\ \/ UNCHANGED <<disk, registry, uuids>>
     \/ /\ stage \in {"loading", "paused"}
        /\ \E point \in {"load", "save", "adopt"} : Observe(point)
  /\ Gone
  /\ UNCHANGED <<files, moves, opens, faults>>

Closed(p) == ~(col # None /\ col.place = p /\ stage # "paused")

\* The user copies a collection, or brings one here, in place of what was there;
\* a full sync does so with a collection that is temporarily closed.
Bring(p, uuid) ==
  /\ Closed(p)
  /\ files < MaxFiles
  /\ files' = files + 1
  /\ disk' = [disk EXCEPT ![p] = [id |-> files', uuid |-> uuid]]
  /\ UNCHANGED <<registry, col, stage, current, observation, generation, timers, request,
                 uuids, moves, opens, faults, exits>>

Move(p, q) ==
  /\ disk[p] # None /\ disk[q] = None
  /\ col = None
  /\ disk' = [disk EXCEPT ![q] = disk[p], ![p] = None]
  /\ moves < MaxMoves /\ moves' = moves + 1
  /\ UNCHANGED <<registry, col, stage, current, observation, generation, timers, request,
                 files, uuids, opens, faults, exits>>

Delete(p) ==
  /\ disk[p] # None
  /\ col = None
  /\ disk' = [disk EXCEPT ![p] = None]
  /\ moves < MaxMoves /\ moves' = moves + 1
  /\ UNCHANGED <<registry, col, stage, current, observation, generation, timers, request,
                 files, uuids, opens, faults, exits>>

Carried == {disk[p].uuid : p \in {q \in Places : disk[q] # None}} \cup {None}

Anki ==
  \/ \E p \in Places : Load(p)
  \/ \E point \in Points : Opened(point)
  \/ WillClose \/ WillPause \/ Unload
  \/ Bind
  \/ \E decision \in {"previous_collection", "new_copy"}, point \in Points \ {"adopt"} :
       Decide(decision, point)

Next ==
  \/ Anki
  \/ \E g \in timers : MarkAbsent(g)
  \/ \E w \in Workers : \/ AskBound(w) \/ AskUpdate(w) \/ Take(w)
                        \/ Search(w) \/ ReadIdentity(w) \/ ReadNotes(w) \/ Update(w)
  \/ Exit
  \/ \E p \in Places : \/ \E uuid \in Carried : Bring(p, uuid)
                       \/ \E q \in Places \ {p} : Move(p, q)
                       \/ Delete(p)

\* Anki's event loop runs what was deferred.
Fairness == WF_vars(\E g \in timers : MarkAbsent(g))

Spec == Init /\ [][Next]_vars /\ Fairness

-----------------------------------------------------------------------------
(* Properties.                                                             *)

Reported == observation.identity # None /\ observation.identity.state \in Accepted

\* An identity reported as bound, unbound or another collection's is that of the
\* open file: the uuid is inside it, the registry holds it for this file and no
\* other, and it is reported bound exactly when the registry says so.
\* (collection_identity.py:294, 138, 170)
ReportedIsRegistered ==
  Reported =>
    LET identity == observation.identity IN
    /\ col # None /\ Uuid = identity.uuid
    /\ registry.instances[identity.uuid] = Here
    /\ identity.state = BindingState(registry.bound, identity.uuid)

\* A uuid goes from a file that is still where it was registered to no other
\* file, whatever copies turn up and whichever write fails.
\* (collection_identity.py:138)
UuidNotStolen ==
  [][\A u \in Uuids : LET known == registry.instances[u] IN
       known # None /\ Present(known) => registry'.instances[u] # None
                                         /\ registry'.instances[u].file = known.file]_vars

\* The observation follows the collection: open only from one hook to the next,
\* absent only while there is none to be closed. (lifecycle.py:277, 255)
ReportedIsOpen ==
  /\ observation.state = "open" <=> stage = "open"
  /\ observation.state = "absent" => stage \in {"away", "loading"}

\* A request that no hook and no decision overtook works on the collection it
\* named, though it reads the identity and the collection one after the other.
\* (cards.py:415, notes.py:210)
NamedCollection ==
  \A w \in Workers : Usable(w) /\ ~request[w].overtaken => Uuid = request[w].uuid

\* A collection that was closed is reported absent, unless another one comes.
\* (lifecycle.py:277)
AbsentReported ==
  observation.state = "closing" /\ stage = "away" ~>
    observation.state # "closing" \/ stage # "away"
=============================================================================

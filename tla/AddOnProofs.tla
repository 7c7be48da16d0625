---------------------------- MODULE AddOnProofs ----------------------------
(***************************************************************************)
(* Proofs about AddOn, for every set of places and of threads and every    *)
(* number of files, uuids, hooks, faults and ends of the process.          *)
(***************************************************************************)
EXTENDS AddOn, TLAPS

-----------------------------------------------------------------------------
(* The inductive invariant.                                                *)

\* There is a collection from loading to unloading, and its file stays.
Staged ==
  /\ col = None <=> stage = "away"
  /\ col # None => disk[col.place] # None

\* What is observed is the service's current identity, and there is one only
\* between the hooks.
Observed ==
  /\ observation.identity = current
  /\ observation.state = "open" <=> stage = "open"
  /\ stage # "open" => current = None
  /\ observation.state = "absent" => stage \in {"away", "loading"}

\* The current identity is that of the open file.
Named ==
  current # None =>
    /\ current.uuid \in {None, Uuid}
    /\ current.state \in Accepted =>
         /\ current.uuid # None
         /\ registry.instances[current.uuid] = Here
         /\ current.state = BindingState(registry.bound, current.uuid)
    /\ current.state = "copy_decision_required" => current.uuid = Uuid /\ Undecided

\* Uuids and file ids are given out in turn.
Numbered ==
  /\ \A u \in Uuids : registry.instances[u] # None => u <= uuids /\ registry.instances[u].file <= files
  /\ \A p \in Places : disk[p] # None =>
       disk[p].id <= files /\ (disk[p].uuid # None => disk[p].uuid <= uuids)

\* A request that nothing overtook named the collection that is open.
Requested ==
  \A w \in Workers : request[w] # Idle /\ ~request[w].overtaken =>
    stage = "open" /\ Uuid = request[w].uuid

IInv == TypeOK /\ Staged /\ Observed /\ Named /\ Numbered /\ Requested

LEMMA InitInv == Init => IInv
<1> SUFFICES ASSUME Init PROVE IInv
  OBVIOUS
<1>1. None \notin Uuids /\ (Uuids \cup {None}) \ {None} = Uuids
  BY BoundAssumption DEF Uuids
<1>2. \A p \in Places : disk[p] \in {None, [id |-> 1, uuid |-> None]}
  BY DEF Init
<1>3. disk \in [Places -> Files \cup {None}]
  <2>1. [id |-> 1, uuid |-> None] \in Files
    BY BoundAssumption DEF Files
  <2> DEFINE first == CHOOSE p \in Places : TRUE
  <2>2. disk = [p \in Places |-> IF p = first THEN [id |-> 1, uuid |-> None] ELSE None]
    BY DEF Init
  <2> HIDE DEF first
  <2> QED
    BY <2>1, <2>2
<1>4. registry \in Registry /\ \A u \in Uuids : registry.instances[u] = None
  BY DEF Init, Registry
<1>5. TypeOK
  <2>1. /\ files \in 1 .. MaxFiles /\ uuids \in 0 .. MaxUuids
        /\ moves \in 0 .. MaxMoves /\ opens \in 0 .. MaxOpens
        /\ faults \in 0 .. MaxFaults /\ exits \in 0 .. MaxExits
        /\ generation \in Nat /\ timers \subseteq 1 .. generation
    BY BoundAssumption DEF Init
  <2>2. request \in [Workers -> Requests \cup {Idle}]
    BY DEF Init
  <2>3. observation \in [state : {"absent", "open", "closing"}, identity : Identities \cup {None}]
    BY DEF Init
  <2> QED
    BY <1>3, <1>4, <2>1, <2>2, <2>3 DEF Init, TypeOK
<1>6. Staged /\ Observed /\ Named
  BY DEF Init, Staged, Observed, Named
<1>7. Numbered
  BY <1>2, <1>4 DEF Init, Numbered
<1>8. Requested
  BY DEF Init, Requested
<1> QED
  BY <1>5, <1>6, <1>7, <1>8 DEF IInv

-----------------------------------------------------------------------------
(* Uuids and registrations.                                                *)

LEMMA UuidType ==
  /\ None \notin Uuids
  /\ \A u \in Uuids : u \in Nat
BY BoundAssumption DEF Uuids

LEMMA HereType ==
  ASSUME TypeOK, col # None, disk[col.place] # None
  PROVE  /\ col.place \in Places /\ disk[col.place] \in Files
         /\ Here \in Instances /\ Here # None /\ Here.place = col.place
         /\ Here.file = disk[col.place].id
         /\ Uuid \in Uuids \cup {None}
<1>1. col.place \in Places /\ disk[col.place] \in Files
  BY DEF TypeOK, Open
<1>2. Here \in Instances
  BY <1>1 DEF Here, Instances, Files
<1> QED
  BY <1>1, <1>2, FileAssumption DEF Here, Uuid, Files

\* Naming the open collection changes the uuid in it and nothing else.
LEMMA NameStep ==
  ASSUME TypeOK, col # None, disk[col.place] # None, NEW u \in Uuids, Name(u)
  PROVE  /\ disk' \in [Places -> Files \cup {None}]
         /\ \A p \in Places \ {col.place} : disk'[p] = disk[p]
         /\ disk'[col.place] # None
         /\ disk'[col.place].uuid = u /\ disk'[col.place].id = disk[col.place].id
         /\ uuids' \in 0 .. MaxUuids /\ uuids <= uuids' /\ u <= uuids'
<1>1. col.place \in Places /\ disk[col.place] \in Files
  BY HereType
<1>2. [disk[col.place] EXCEPT !.uuid = u] \in Files
  BY <1>1 DEF Files
<1>3. disk' = [disk EXCEPT ![col.place] = [disk[col.place] EXCEPT !.uuid = u]]
  BY <1>1 DEF Name, TypeOK
<1>4. disk'[col.place] = [disk[col.place] EXCEPT !.uuid = u]
  BY <1>1, <1>3 DEF TypeOK
<1>5. disk'[col.place].uuid = u /\ disk'[col.place].id = disk[col.place].id
  BY <1>1, <1>4 DEF Files
<1>6. uuids' \in 0 .. MaxUuids /\ uuids <= uuids' /\ u <= uuids'
  BY BoundAssumption DEF Name, TypeOK, Uuids
<1> QED
  BY <1>1, <1>2, <1>3, <1>4, <1>5, <1>6, FileAssumption DEF TypeOK

LEMMA RegisteredType ==
  ASSUME TypeOK, col # None, disk[col.place] # None, NEW u \in Uuids
  PROVE  /\ Registered(u) \in Registry
         /\ Registered(u).bound = registry.bound
         /\ Registered(u).instances[u] = Here
         /\ \A v \in Uuids \ {u} : Registered(u).instances[v] = registry.instances[v]
         /\ [Registered(u) EXCEPT !.bound = IF @ = None THEN u ELSE @] \in Registry
         /\ [Registered(u) EXCEPT !.bound = IF @ = None THEN u ELSE @].instances
              = Registered(u).instances
<1>1. Here \in Instances /\ registry \in Registry
  BY HereType DEF TypeOK
<1>2. Registered(u) = [bound |-> registry.bound,
                       instances |-> [registry.instances EXCEPT ![u] = Here]]
  BY <1>1 DEF Registered, Registry
<1>3. [registry.instances EXCEPT ![u] = Here] \in [Uuids -> Instances \cup {None}]
  BY <1>1 DEF Registry
<1>4. /\ [registry.instances EXCEPT ![u] = Here][u] = Here
      /\ \A v \in Uuids \ {u} : [registry.instances EXCEPT ![u] = Here][v] = registry.instances[v]
  BY <1>1 DEF Registry
<1>5. registry.bound \in Uuids \cup {None}
  BY <1>1 DEF Registry
<1> QED
  BY <1>2, <1>3, <1>4, <1>5 DEF Registry

\* The uuid is one that no file is registered under, or that of this very file, or
\* that of one that is gone.
Claimable(u) ==
  registry.instances[u] = None \/ registry.instances[u].file = Here.file
    \/ ~Present(registry.instances[u])

\* A uuid stays with the file that has it, as long as that file stays.
Stays(u) ==
  LET known == registry.instances[u] IN
  known # None /\ Present(known) => registry'.instances[u] # None
                                    /\ registry'.instances[u].file = known.file

LEMMA RegisteredStays ==
  ASSUME TypeOK, col # None, disk[col.place] # None, NEW u \in Uuids, Claimable(u),
         registry'.instances = Registered(u).instances
  PROVE  \A v \in Uuids : Stays(v)
<1> SUFFICES ASSUME NEW v \in Uuids, registry.instances[v] # None, Present(registry.instances[v])
             PROVE  /\ registry'.instances[v] # None
                    /\ registry'.instances[v].file = registry.instances[v].file
  BY DEF Stays
<1>1. CASE v = u
  <2>1. registry'.instances[v] = Here /\ Here # None
    BY <1>1, RegisteredType, HereType
  <2> QED
    BY <1>1, <2>1 DEF Claimable
<1>2. CASE v # u
  BY <1>2, RegisteredType
<1> QED
  BY <1>1, <1>2

\* What the file of the open collection may be registered under.
LEMMA Claims ==
  ASSUME TypeOK, Numbered, col # None, disk[col.place] # None
  PROVE  /\ uuids + 1 \in Uuids => Claimable(uuids + 1)
         /\ ~Unnamed => Uuid \in Uuids
         /\ ~Unnamed /\ ~Undecided => Claimable(Uuid)
         /\ Undecided => Uuid \in Uuids /\ Claimable(Uuid)
<1>1. Uuid \in Uuids \cup {None}
  BY HereType
<1>2. uuids + 1 \in Uuids => registry.instances[uuids + 1] = None
  BY DEF Numbered, TypeOK
<1>3. Undecided => Uuid # None
  BY DEF Undecided, Copied, Known
<1> QED
  BY <1>1, <1>2, <1>3 DEF Claimable, Undecided, Unnamed, Copied, Known

-----------------------------------------------------------------------------
(* Observing a collection.                                                 *)

LEMMA NumberedNamed ==
  ASSUME TypeOK, Numbered, col # None, disk[col.place] # None, NEW u \in Uuids, Name(u),
         \/ registry' = registry
         \/ registry'.instances = Registered(u).instances,
         files' = files
  PROVE  Numbered'
<1>1. Here.file <= files /\ Here # None /\ uuids <= uuids' /\ u <= uuids'
      /\ uuids \in Nat /\ uuids' \in Nat /\ files \in Nat
  BY NameStep, HereType DEF Numbered, TypeOK
<1>2. ASSUME NEW v \in Uuids, registry'.instances[v] # None
      PROVE  v <= uuids' /\ registry'.instances[v].file <= files'
  <2>1. CASE registry'.instances[v] = registry.instances[v]
    BY <1>1, <1>2, <2>1, UuidType DEF Numbered
  <2>2. CASE v = u /\ registry'.instances[v] = Here
    BY <1>1, <2>2
  <2> QED
    BY <2>1, <2>2, RegisteredType
<1>3. ASSUME NEW p \in Places, disk'[p] # None
      PROVE  disk'[p].id <= files' /\ (disk'[p].uuid # None => disk'[p].uuid <= uuids')
  <2>1. CASE p = col.place
    BY <1>1, <2>1, NameStep DEF Numbered
  <2>2. CASE p # col.place
    <3>1. disk'[p] = disk[p] /\ disk[p] \in Files
      BY <1>3, <2>2, NameStep DEF TypeOK
    <3> QED
      BY <1>1, <1>3, <3>1, UuidType DEF Numbered, Files
  <2> QED
    BY <2>1, <2>2
<1> QED
  BY <1>2, <1>3 DEF Numbered

\* What observing writes, wherever it stops, keeps the files and the registry in
\* order, and steals no uuid.
LEMMA ObserveStep ==
  ASSUME TypeOK, Numbered, col # None, disk[col.place] # None, NEW point, Observe(point),
         files' = files
  PROVE  /\ disk' \in [Places -> Files \cup {None}]
         /\ disk'[col.place] # None /\ disk'[col.place].id = disk[col.place].id
         /\ registry' \in Registry
         /\ uuids' \in 0 .. MaxUuids
         /\ Numbered'
         /\ \A v \in Uuids : Stays(v)
<1> DEFINE u == IF Unnamed THEN uuids + 1 ELSE Uuid
<1>1. u \in Uuids /\ ~Undecided => Claimable(u)
  BY Claims
<1> HIDE DEF u
<1>2. CASE UNCHANGED <<disk, registry, uuids>>
  BY <1>2 DEF TypeOK, Numbered, Stays
<1>3. CASE u \in Uuids /\ Name(u) /\ registry' = registry
  BY <1>3, NameStep, NumberedNamed DEF TypeOK, Stays
<1>4. CASE /\ u \in Uuids /\ ~Undecided /\ Name(u) /\ registry' \in Registry
           /\ registry'.instances = Registered(u).instances
  BY <1>1, <1>4, NameStep, NumberedNamed, RegisteredStays
<1>5. u \in Uuids /\ registry' = Registered(u) => registry' \in Registry
  BY RegisteredType
<1>6. u \in Uuids /\ registry' = [Registered(u) EXCEPT !.bound = IF @ = None THEN u ELSE @] =>
        registry' \in Registry /\ registry'.instances = Registered(u).instances
  BY RegisteredType
<1> QED
  BY <1>2, <1>3, <1>4, <1>5, <1>6 DEF Observe, u

\* The identity it answers with is that of the open file, also when it stopped.
LEMMA OpenedNamed ==
  ASSUME TypeOK, Numbered, col # None, disk[col.place] # None, NEW point \in Points,
         Observe(point), col' = col, current' \in Answers(point, Undecided)
  PROVE  current' \in Identities /\ Named'
<1> DEFINE u == IF Unnamed THEN uuids + 1 ELSE Uuid
           answer == disk'[col.place].uuid
<1>1. Uuid \in Uuids \cup {None} /\ Uuid' = answer
  BY HereType DEF Uuid
<1>2. u \in Uuids /\ Name(u) => answer = u
  BY NameStep
<1>3. disk' = disk => answer = Uuid
  BY DEF Uuid
<1> HIDE DEF u, answer
<1>4. CASE point = "assign"
  <2>1. disk' = disk /\ current'.state = "identity_error" /\ current' \in Identities
        /\ current'.uuid \in {None, Uuid}
    <3>1. disk' = disk
      BY <1>4 DEF Observe
    <3>2. \E v \in {None, Uuid} : current' = [state |-> "identity_error", uuid |-> v]
      BY <1>4 DEF Answers, Identity
    <3> QED
      BY <1>1, <3>1, <3>2 DEF Identities
  <2> QED
    BY <1>1, <1>3, <2>1 DEF Named, Accepted
<1>5. CASE point \in {"load", "save"}
  <2>1. current' = Identity("identity_error", answer)
    <3>1. CASE point = "load"
      BY <3>1 DEF Answers, answer
    <3>2. CASE point = "save"
      BY <3>2 DEF Answers, answer
    <3> QED
      BY <1>5, <3>1, <3>2
  <2>2. answer \in Uuids \cup {None}
    BY <1>1, <1>2, <1>3, <1>5 DEF Observe, u
  <2> QED
    BY <1>1, <2>1, <2>2 DEF Named, Accepted, Identity, Identities
<1>6. CASE point \in {"none", "adopt"} /\ Undecided
  <2>1. UNCHANGED <<disk, registry>>
    BY <1>6 DEF Observe
  <2>2. current' = Identity("copy_decision_required", answer)
    BY <1>6 DEF Answers, answer
  <2>3. Undecided'
    BY <1>6, <2>1 DEF Undecided, Copied, Known, Uuid, Here, Present
  <2> QED
    BY <1>1, <1>3, <2>1, <2>2, <2>3 DEF Named, Accepted, Identity, Identities
<1>7. CASE point \in {"none", "adopt"} /\ ~Undecided
  <2>1. u \in Uuids /\ Name(u) /\ registry'.instances = Registered(u).instances
    BY <1>7, RegisteredType DEF Observe, u
  <2>2. answer = u /\ answer # None
    BY <1>2, <2>1, UuidType
  <2>3. current' = Identity(BindingState(registry'.bound, u), u)
    BY <1>7, <2>2 DEF Answers, answer
  <2>4. BindingState(registry'.bound, u) \in Accepted
    BY DEF BindingState, Accepted
  <2>5. registry'.instances[u] = Here /\ Here' = Here
    BY <2>1, RegisteredType, NameStep DEF Here
  <2> QED
    BY <1>1, <2>1, <2>2, <2>3, <2>4, <2>5 DEF Named, Accepted, Identity, Identities
<1> QED
  BY <1>4, <1>5, <1>6, <1>7 DEF Points

-----------------------------------------------------------------------------
(* Anki's collection, and the hooks it calls.                              *)

LEMMA FaultType ==
  ASSUME TypeOK, NEW point, Failing(point)
  PROVE  faults' \in 0 .. MaxFaults
BY BoundAssumption DEF Failing, TypeOK

LEMMA GenerationType ==
  ASSUME TypeOK, generation' = generation + 1
  PROVE  generation' \in Nat /\ timers \subseteq 1 .. generation'
         /\ timers \cup {generation'} \subseteq 1 .. generation'
BY DEF TypeOK

LEMMA OvertakeType ==
  ASSUME TypeOK, request' = Overtake
  PROVE  /\ request' \in [Workers -> Requests \cup {Idle}]
         /\ \A w \in Workers : request'[w] # Idle => request'[w].overtaken
<1>1. ASSUME NEW w \in Workers
      PROVE  Overtake[w] \in Requests \cup {Idle} /\ (Overtake[w] # Idle => Overtake[w].overtaken)
  <2>1. CASE request[w] = Idle
    BY <2>1 DEF Overtake
  <2>2. CASE request[w] # Idle
    <3>1. request[w] \in Requests
      BY <2>2 DEF TypeOK
    <3>2. Overtake[w] = [request[w] EXCEPT !.overtaken = TRUE]
      BY <2>2 DEF Overtake
    <3> QED
      BY <3>1, <3>2 DEF Requests
  <2> QED
    BY <2>1, <2>2
<1>2. Overtake = [w \in Workers |-> Overtake[w]]
  BY DEF Overtake
<1> QED
  BY <1>1, <1>2

LEMMA LoadInv ==
  ASSUME IInv, NEW p \in Places, Load(p)
  PROVE  IInv'
<1> USE DEF IInv
<1>1. /\ stage = "away" /\ disk[p] # None /\ opens' \in 1 .. MaxOpens /\ col' = [place |-> p, life |-> opens']
      /\ stage' = "loading" /\ col' # None
      /\ UNCHANGED <<disk, registry, current, observation, generation, timers, request,
                     files, uuids, moves, faults, exits>>
  <2>1. opens' \in 1 .. MaxOpens
    BY BoundAssumption DEF Load, TypeOK
  <2>2. [place |-> p, life |-> opens'] # None
    BY <2>1, FileAssumption DEF Open
  <2> QED
    BY <2>1, <2>2 DEF Load
<1>2. TypeOK'
  BY <1>1, BoundAssumption DEF TypeOK, Open
<1>3. Staged' /\ Observed' /\ Named' /\ Numbered' /\ Requested'
  BY <1>1 DEF Staged, Observed, Named, Numbered, Requested
<1> QED
  BY <1>2, <1>3

LEMMA OpenedInv ==
  ASSUME IInv, NEW point \in Points, Opened(point)
  PROVE  IInv'
<1> USE DEF IInv
<1>1. /\ col # None /\ disk[col.place] # None /\ stage # "open"
      /\ Observe(point) /\ stage' = "open" /\ current' \in Answers(point, Undecided)
      /\ UNCHANGED <<col, timers, request, files, moves, opens, exits>>
  BY DEF Opened, Staged
<1>2. /\ disk' \in [Places -> Files \cup {None}]
      /\ disk'[col.place] # None
      /\ registry' \in Registry /\ uuids' \in 0 .. MaxUuids /\ Numbered'
  BY <1>1, ObserveStep
<1>3. current' \in Identities /\ Named'
  BY <1>1, OpenedNamed
<1>4. observation' = [state |-> "open", identity |-> current'] /\ generation' = generation + 1
  BY DEF Opened
<1>5. TypeOK'
  BY <1>1, <1>2, <1>3, <1>4, FaultType, GenerationType DEF Opened, TypeOK
<1>6. Staged' /\ Observed'
  BY <1>1, <1>2, <1>4 DEF Staged, Observed
\* No request of before the hook is left that nothing overtook.
<1>7. Requested'
  BY <1>1 DEF Requested
<1> QED
  BY <1>2, <1>3, <1>5, <1>6, <1>7

LEMMA ClosingInv ==
  ASSUME IInv, WillClose \/ WillPause
  PROVE  IInv'
<1> USE DEF IInv, counts
<1>1. /\ stage = "open" /\ stage' \in {"closing", "paused"}
      /\ generation' = generation + 1 /\ current' = None
      /\ observation' = [state |-> "closing", identity |-> None]
      /\ request' = Overtake /\ timers' \in {timers, timers \cup {generation'}}
      /\ UNCHANGED <<disk, registry, col, files, uuids, moves, faults, exits>>
  BY DEF WillClose, WillPause, MarkClosing
<1>2. opens' \in 0 .. MaxOpens
  BY BoundAssumption DEF WillClose, WillPause, TypeOK
<1>3. TypeOK'
  BY <1>1, <1>2, GenerationType, OvertakeType DEF TypeOK
<1>4. Staged' /\ Observed' /\ Named' /\ Numbered'
  BY <1>1 DEF Staged, Observed, Named, Numbered
<1>5. Requested'
  BY <1>1, OvertakeType DEF Requested
<1> QED
  BY <1>3, <1>4, <1>5

LEMMA UnloadInv ==
  ASSUME IInv, Unload
  PROVE  IInv'
<1> USE DEF IInv, counts
<1>1. /\ stage = "closing" /\ stage' = "away" /\ col' = None
      /\ UNCHANGED <<disk, registry, current, observation, generation, timers, request,
                     files, uuids, moves, opens, faults, exits>>
  BY DEF Unload
<1>2. TypeOK'
  BY <1>1 DEF TypeOK
<1> QED
  BY <1>1, <1>2 DEF Staged, Observed, Named, Numbered, Requested

LEMMA MarkAbsentInv ==
  ASSUME IInv, NEW g \in timers, MarkAbsent(g)
  PROVE  IInv'
<1> USE DEF IInv, counts
<1>1. /\ timers' \subseteq timers
      /\ \/ observation' = observation
         \/ col = None /\ observation' = [state |-> "absent", identity |-> None]
      /\ UNCHANGED <<disk, registry, col, stage, current, generation, request,
                     files, uuids, moves, opens, faults, exits>>
  BY DEF MarkAbsent
<1>2. TypeOK'
  BY <1>1 DEF TypeOK
<1>3. Staged' /\ Named' /\ Numbered' /\ Requested'
  BY <1>1 DEF Staged, Named, Numbered, Requested, Uuid, Here, Undecided, Copied, Known, Present
<1>4. Observed'
  BY <1>1 DEF Staged, Observed
<1> QED
  BY <1>2, <1>3, <1>4

-----------------------------------------------------------------------------
(* The user's answers.                                                     *)

LEMMA PublishType ==
  ASSUME TypeOK, current' \in Identities, Publish
  PROVE  /\ observation' \in [state : {"absent", "open", "closing"}, identity : Identities \cup {None}]
         /\ observation'.identity = current' /\ observation'.state = observation.state
BY DEF TypeOK, Publish

LEMMA BindInv ==
  ASSUME IInv, Bind
  PROVE  IInv'
<1> USE DEF IInv, counts
<1>1. /\ stage = "open" /\ current # None /\ current.state \in Accepted
      /\ registry' = [registry EXCEPT !.bound = current.uuid]
      /\ current' = Identity("bound", current.uuid)
      /\ UNCHANGED <<disk, col, stage, generation, timers, request, files, uuids, moves, opens,
                     faults, exits>>
  BY DEF Bind
<1>2. /\ current.uuid = Uuid /\ current.uuid \in Uuids
      /\ registry.instances[current.uuid] = Here
  BY <1>1 DEF Named, TypeOK, Identities
<1>3. /\ registry' \in Registry /\ registry'.instances = registry.instances
      /\ registry'.bound = current.uuid
  BY <1>1, <1>2 DEF TypeOK, Registry
<1>4. /\ current' \in Identities /\ current'.state = "bound" /\ current'.uuid = current.uuid
      /\ current'.state \in Accepted
  BY <1>1, <1>2 DEF Identity, Identities, Accepted
<1>5. TypeOK'
  BY <1>1, <1>3, <1>4, PublishType DEF Bind, TypeOK
<1>6. Staged' /\ Observed' /\ Numbered' /\ Requested'
  BY <1>1, <1>3, <1>4, PublishType DEF Bind, Staged, Observed, Numbered, Requested, Uuid
<1>7. Named'
  <2>1. BindingState(registry'.bound, current'.uuid) = "bound"
    BY <1>2, <1>3, <1>4, UuidType DEF BindingState
  <2> QED
    BY <1>1, <1>2, <1>3, <1>4, <2>1, UuidType DEF Named, Uuid, Here, Accepted
<1> QED
  BY <1>5, <1>6, <1>7

\* What the decision writes.
LEMMA DecideStep ==
  ASSUME IInv, NEW decision, NEW point \in Points \ {"adopt"}, Decide(decision, point)
  PROVE  /\ disk' \in [Places -> Files \cup {None}]
         /\ disk'[col.place] # None /\ disk'[col.place].id = disk[col.place].id
         /\ registry' \in Registry /\ uuids' \in 0 .. MaxUuids
         /\ Numbered'
         /\ current' \in Identities /\ Named'
         /\ \A v \in Uuids : Stays(v)
<1> USE DEF IInv
<1> DEFINE u == disk'[col.place].uuid
<1>1. col # None /\ disk[col.place] # None /\ col' = col /\ files' = files /\ Uuid' = u
  BY DEF Decide, Staged, Uuid
<1>2. Undecided
  BY DEF Decide, Named
<1>3. Uuid \in Uuids /\ Claimable(Uuid)
  BY <1>1, <1>2, Claims
<1> HIDE DEF u
<1>4. /\ u \in Uuids /\ Claimable(u)
      /\ \/ Name(u)
         \/ UNCHANGED <<disk, uuids>>
  <2>1. CASE uuids + 1 \in Uuids /\ Name(uuids + 1)
    BY <1>1, <2>1, Claims, NameStep DEF u
  <2>2. CASE UNCHANGED <<disk, uuids>>
    BY <1>3, <2>2 DEF u, Uuid
  <2> QED
    BY <2>1, <2>2 DEF Decide
<1>5. /\ registry' \in {registry, Registered(u)}
      /\ point = "none" => registry' = Registered(u)
  BY DEF Decide, u
<1>6. /\ disk' \in [Places -> Files \cup {None}]
      /\ disk'[col.place] # None /\ disk'[col.place].id = disk[col.place].id
      /\ uuids' \in 0 .. MaxUuids
  BY <1>1, <1>4, NameStep DEF TypeOK
<1>7. registry' \in Registry
  BY <1>1, <1>4, <1>5, RegisteredType DEF TypeOK
<1>8. Numbered'
  <2>1. CASE Name(u)
    BY <1>1, <1>4, <1>5, <2>1, NumberedNamed
  <2>2. CASE UNCHANGED <<disk, uuids>>
    <3>1. u <= uuids /\ Here # None /\ Here.file <= files
      <4>1. u = Uuid
        BY <2>2 DEF u, Uuid
      <4> QED
        BY <1>1, <1>3, <4>1, HereType, UuidType DEF Numbered, Uuid
    <3>2. \A v \in Uuids : registry'.instances[v] \in {registry.instances[v], Here}
                           /\ (v # u => registry'.instances[v] = registry.instances[v])
      <4>1. CASE registry' = registry
        BY <4>1
      <4>2. CASE registry' = Registered(u)
        BY <1>1, <1>4, <4>2, RegisteredType
      <4> QED
        BY <1>5, <4>1, <4>2
    <3> QED
      BY <1>1, <2>2, <3>1, <3>2 DEF Numbered
  <2> QED
    BY <1>4, <2>1, <2>2
<1>9. current' \in Identities /\ Named'
  <2>1. CASE point = "none"
    <3>1. current' = Identity(BindingState(registry'.bound, u), u)
      BY <2>1 DEF Decide, Answers, u
    <3>2. BindingState(registry'.bound, u) \in Accepted
      BY DEF BindingState, Accepted
    <3>3. registry'.instances[u] = Here /\ Here' = Here
      BY <1>1, <1>4, <1>5, <1>6, <2>1, RegisteredType DEF Here
    <3> QED
      BY <1>1, <1>4, <3>1, <3>2, <3>3, UuidType DEF Named, Accepted, Identity, Identities
  <2>2. CASE point = "assign"
    <3>1. u = Uuid
      BY <2>2 DEF Decide, u, Uuid
    <3>2. \E v \in {None, Uuid} : current' = [state |-> "identity_error", uuid |-> v]
      BY <2>2 DEF Decide, Answers, Identity
    <3> QED
      BY <1>1, <1>4, <3>1, <3>2 DEF Named, Accepted, Identities
  <2>3. CASE point \in {"load", "save"}
    <3>1. current' = Identity("identity_error", u)
      <4>1. CASE point = "load"
        BY <4>1 DEF Decide, Answers, u
      <4>2. CASE point = "save"
        BY <4>2 DEF Decide, Answers, u
      <4> QED
        BY <2>3, <4>1, <4>2
    <3> QED
      BY <1>1, <1>4, <3>1 DEF Named, Accepted, Identity, Identities
  <2> QED
    BY <2>1, <2>2, <2>3 DEF Points
<1>10. \A v \in Uuids : Stays(v)
  <2>1. CASE registry' = registry
    <3>1. ASSUME NEW v \in Uuids PROVE Stays(v)
      BY <2>1 DEF Stays
    <3> QED
      BY <3>1
  <2>2. CASE registry' = Registered(u)
    BY <1>1, <1>4, <2>2, RegisteredStays
  <2> QED
    BY <1>5, <2>1, <2>2
<1> QED
  BY <1>6, <1>7, <1>8, <1>9, <1>10

LEMMA DecideInv ==
  ASSUME IInv, NEW decision, NEW point \in Points \ {"adopt"}, Decide(decision, point)
  PROVE  IInv'
<1> USE DEF IInv
<1>1. /\ stage = "open" /\ request' = Overtake /\ Publish
      /\ UNCHANGED <<col, stage, generation, timers, files, moves, opens, exits>>
  BY DEF Decide
<1>2. TypeOK'
  BY <1>1, DecideStep, FaultType, OvertakeType, PublishType DEF Decide, TypeOK
<1>3. Staged' /\ Observed'
  BY <1>1, DecideStep, PublishType DEF Staged, Observed
<1>4. Requested'
  BY <1>1, OvertakeType DEF Requested
<1> QED
  BY <1>2, <1>3, <1>4, DecideStep

-----------------------------------------------------------------------------
(* Requests.                                                               *)

LEMMA AskInv ==
  ASSUME IInv, NEW w \in Workers, AskBound(w) \/ AskUpdate(w)
  PROVE  IInv'
<1> USE DEF IInv, Others, counts
<1>1. /\ UNCHANGED <<disk, registry, col, stage, current, observation, generation, timers,
                     files, uuids, moves, opens, faults, exits>>
      /\ \E kind \in Kinds :
           request' = [request EXCEPT ![w] = [kind |-> kind, uuid |-> observation.identity.uuid,
                                              life |-> 0, overtaken |-> FALSE]]
      /\ observation.identity # None
      /\ observation.identity.state = "bound" \/ observation.identity.uuid # None
  BY DEF AskBound, AskUpdate, Ask, Kinds
<1>2. current # None /\ stage = "open" /\ current = observation.identity
  BY <1>1 DEF Observed
<1>3. current.uuid = Uuid /\ Uuid \in Uuids
  BY <1>1, <1>2 DEF Named, Accepted, TypeOK, Identities
<1>4. 0 \in 0 .. MaxOpens
  BY BoundAssumption
<1>5. TypeOK'
  BY <1>1, <1>2, <1>3, <1>4 DEF TypeOK, Requests
<1>6. Staged' /\ Observed' /\ Named' /\ Numbered'
  BY <1>1 DEF Staged, Observed, Named, Numbered, Uuid, Here, Undecided, Copied, Known, Present
<1>7. Requested'
  BY <1>1, <1>2, <1>3 DEF Requested, Uuid, TypeOK
<1> QED
  BY <1>5, <1>6, <1>7

LEMMA RequestInv ==
  ASSUME IInv, NEW w \in Workers,
         Take(w) \/ Search(w) \/ ReadIdentity(w) \/ ReadNotes(w) \/ Update(w)
  PROVE  IInv'
<1> USE DEF IInv, Others, counts
<1>1. /\ UNCHANGED <<disk, registry, col, stage, current, observation, generation, timers,
                     files, uuids, moves, opens, faults, exits>>
      /\ request[w] # Idle
      /\ \/ request' = [request EXCEPT ![w] = Idle]
         \/ col # None /\ request' = [request EXCEPT ![w] = [request[w] EXCEPT !.life = col.life]]
  BY DEF Take, Search, ReadIdentity, ReadNotes, Update, Ends
<1>2. request[w] \in Requests
  BY <1>1 DEF TypeOK
<1>3. col # None => /\ [request[w] EXCEPT !.life = col.life] \in Requests
                    /\ [request[w] EXCEPT !.life = col.life].uuid = request[w].uuid
                    /\ [request[w] EXCEPT !.life = col.life].overtaken = request[w].overtaken
  BY <1>2, BoundAssumption DEF TypeOK, Requests, Open
<1>4. TypeOK'
  BY <1>1, <1>3 DEF TypeOK
<1>5. Staged' /\ Observed' /\ Named' /\ Numbered'
  BY <1>1 DEF Staged, Observed, Named, Numbered, Uuid, Here, Undecided, Copied, Known, Present
<1>6. Requested'
  BY <1>1, <1>3 DEF Requested, Uuid, TypeOK
<1> QED
  BY <1>4, <1>5, <1>6

-----------------------------------------------------------------------------
(* The process and the files.                                              *)

LEMMA ExitInv ==
  ASSUME IInv, Exit
  PROVE  IInv'
<1> USE DEF IInv
<1>1. /\ Gone /\ exits' \in 0 .. MaxExits
      /\ UNCHANGED <<files, moves, opens, faults>>
  BY BoundAssumption DEF Exit, TypeOK
<1>2. /\ disk' \in [Places -> Files \cup {None}]
      /\ registry' \in Registry /\ uuids' \in 0 .. MaxUuids /\ Numbered'
  <2>1. CASE UNCHANGED <<disk, registry, uuids>>
    BY <1>1, <2>1 DEF TypeOK, Numbered
  <2>2. CASE stage \in {"loading", "paused"} /\ \E point \in {"load", "save", "adopt"} : Observe(point)
    <3>1. col # None /\ disk[col.place] # None
      BY <2>2 DEF Staged
    <3> QED
      BY <1>1, <2>2, <3>1, ObserveStep
  <2> QED
    BY <2>1, <2>2 DEF Exit
<1>3. 0 \in Nat /\ {} \subseteq 1 .. 0
  OBVIOUS
<1>4. TypeOK'
  BY <1>1, <1>2, <1>3 DEF Gone, TypeOK
<1>5. Staged' /\ Observed' /\ Named' /\ Requested'
  BY <1>1 DEF Gone, Staged, Observed, Named, Requested
<1> QED
  BY <1>2, <1>4, <1>5

LEMMA BringInv ==
  ASSUME IInv, NEW p \in Places, NEW uuid \in Carried, Bring(p, uuid)
  PROVE  IInv'
<1> USE DEF IInv
<1> DEFINE brought == [id |-> files', uuid |-> uuid]
<1>1. /\ files' = files + 1 /\ files' \in 1 .. MaxFiles
      /\ disk' = [disk EXCEPT ![p] = brought]
      /\ UNCHANGED <<registry, col, stage, current, observation, generation, timers, request,
                     uuids, moves, opens, faults, exits>>
  BY BoundAssumption DEF Bring, TypeOK
<1>2. uuid \in Uuids \cup {None} /\ (uuid # None => uuid <= uuids)
  BY DEF Carried, TypeOK, Files, Numbered
<1>3. brought \in Files /\ brought # None /\ brought.id = files' /\ brought.uuid = uuid
  BY <1>1, <1>2, FileAssumption DEF Files
<1> HIDE DEF brought
<1>4. /\ disk' \in [Places -> Files \cup {None}] /\ disk'[p] = brought
      /\ \A q \in Places \ {p} : disk'[q] = disk[q]
  BY <1>1, <1>3 DEF TypeOK
<1>5. TypeOK'
  BY <1>1, <1>4 DEF TypeOK
<1>6. Staged' /\ Observed'
  BY <1>1, <1>3, <1>4 DEF Staged, Observed, TypeOK
<1>7. Numbered'
  <2>1. files \in Nat /\ files' \in Nat
    BY <1>1 DEF TypeOK
  <2>2. ASSUME NEW u \in Uuids, registry'.instances[u] # None
        PROVE  u <= uuids' /\ registry'.instances[u].file <= files'
    <3>1. registry.instances[u] \in Instances
      BY <1>1, <2>2 DEF TypeOK, Registry
    <3> QED
      BY <1>1, <2>1, <2>2, <3>1 DEF Numbered, Instances
  <2>3. ASSUME NEW q \in Places, disk'[q] # None
        PROVE  disk'[q].id <= files' /\ (disk'[q].uuid # None => disk'[q].uuid <= uuids')
    <3>1. CASE q = p
      BY <1>1, <1>2, <1>3, <1>4, <2>1, <3>1
    <3>2. CASE q # p
      <4>1. disk'[q] = disk[q] /\ disk[q] \in Files
        BY <1>4, <2>3, <3>2 DEF TypeOK
      <4> QED
        BY <1>1, <2>1, <2>3, <4>1 DEF Numbered, Files
    <3> QED
      BY <3>1, <3>2
  <2> QED
    BY <2>2, <2>3 DEF Numbered
\* While there is an identity, the collection's place is not closed.
<1>8. stage = "open" => col # None /\ col.place # p /\ disk'[col.place] = disk[col.place]
  BY <1>4 DEF Bring, Closed, Staged, TypeOK
<1>9. stage = "open" => Uuid' = Uuid /\ Here' = Here /\ Known' = Known
  BY <1>1, <1>8 DEF Uuid, Here, Known
<1>10. Named'
  <2> SUFFICES ASSUME current' # None PROVE Named'
    BY DEF Named
  <2>1. stage = "open" /\ current # None /\ current' = current
    BY <1>1 DEF Observed
  <2>2. Undecided => Undecided'
    <3> SUFFICES ASSUME Undecided, Present(Known)' PROVE FALSE
      BY <1>9, <2>1 DEF Undecided, Copied
    <3>1. Known # None /\ Uuid \in Uuids /\ Known = registry.instances[Uuid] /\ Known \in Instances
      BY <2>1, <1>8, HereType DEF Undecided, Copied, Known, TypeOK, Registry, Staged
    <3>2. Known.file <= files /\ Known.place \in Places /\ Known.file \in Nat
      BY <3>1 DEF Numbered, Instances
    <3>3. Known.place = p /\ disk'[p].id = Known.file
      BY <1>4, <1>9, <2>1, <3>2 DEF Undecided, Present
    <3> QED
      BY <1>1, <1>3, <1>4, <3>2, <3>3 DEF TypeOK
  <2> QED
    BY <1>1, <1>9, <2>1, <2>2 DEF Named
<1>11. Requested'
  BY <1>1, <1>9 DEF Requested
<1> QED
  BY <1>5, <1>6, <1>7, <1>10, <1>11

LEMMA MovedInv ==
  ASSUME IInv, NEW p \in Places,
         Delete(p) \/ \E q \in Places \ {p} : Move(p, q)
  PROVE  IInv'
<1> USE DEF IInv
<1>1. /\ col = None /\ moves' \in 0 .. MaxMoves
      /\ UNCHANGED <<registry, col, stage, current, observation, generation, timers, request,
                     files, uuids, opens, faults, exits>>
  BY BoundAssumption DEF Delete, Move, TypeOK
<1>2. /\ disk' \in [Places -> Files \cup {None}]
      /\ \A r \in Places : disk'[r] # None => \E s \in Places : disk[s] # None /\ disk'[r] = disk[s]
  BY DEF Delete, Move, TypeOK
<1>3. TypeOK'
  BY <1>1, <1>2 DEF TypeOK
<1>4. Staged' /\ Observed' /\ Named'
  BY <1>1 DEF Staged, Observed, Named
<1>5. Numbered'
  BY <1>1, <1>2 DEF Numbered
<1>6. Requested'
  BY <1>1 DEF Requested, Staged
<1> QED
  BY <1>3, <1>4, <1>5, <1>6

-----------------------------------------------------------------------------
(* The theorems.                                                           *)

LEMMA StepInv == IInv /\ [Next]_vars => IInv'
<1> SUFFICES ASSUME IInv, [Next]_vars PROVE IInv'
  OBVIOUS
<1>1. CASE UNCHANGED vars
  BY <1>1 DEF vars, IInv, TypeOK, Staged, Observed, Named, Numbered, Requested, Uuid, Here, Undecided,
              Copied, Known, Present
<1>2. CASE Anki
  <2>1. ASSUME NEW p \in Places, Load(p) PROVE IInv'
    BY <2>1, LoadInv
  <2>2. ASSUME NEW point \in Points, Opened(point) PROVE IInv'
    BY <2>2, OpenedInv
  <2>3. ASSUME NEW decision, NEW point \in Points \ {"adopt"}, Decide(decision, point) PROVE IInv'
    BY <2>3, DecideInv
  <2> QED
    BY <1>2, <2>1, <2>2, <2>3, ClosingInv, UnloadInv, BindInv DEF Anki
<1>3. ASSUME NEW g \in timers, MarkAbsent(g) PROVE IInv'
  BY <1>3, MarkAbsentInv
<1>4. ASSUME NEW w \in Workers,
             AskBound(w) \/ AskUpdate(w) \/ Take(w) \/ Search(w) \/ ReadIdentity(w) \/ ReadNotes(w)
               \/ Update(w)
      PROVE  IInv'
  BY <1>4, AskInv, RequestInv
<1>5. CASE Exit
  BY <1>5, ExitInv
<1>6. ASSUME NEW p \in Places, NEW uuid \in Carried, Bring(p, uuid) PROVE IInv'
  BY <1>6, BringInv
<1>7. ASSUME NEW p \in Places, Delete(p) \/ \E q \in Places \ {p} : Move(p, q) PROVE IInv'
  BY <1>7, MovedInv
<1> QED
  BY <1>1, <1>2, <1>3, <1>4, <1>5, <1>6, <1>7 DEF Next

\* What holds between the collection, its observation, the registry and the
\* requests, whichever file turns up and whichever step fails.
\* (lifecycle.py, collection_identity.py)
THEOREM Inductive == Spec => []IInv
BY InitInv, StepInv, PTL DEF Spec

\* Every variable has its type. (lifecycle.py, collection_identity.py)
THEOREM TypeCorrect == Spec => []TypeOK
<1>1. IInv => TypeOK
  BY DEF IInv
<1> QED
  BY <1>1, Inductive, PTL

\* An identity reported as usable is that of the open file, and is registered for
\* it. (collection_identity.py:294, 138, 170)
THEOREM ReportsTheOpenFile == Spec => []ReportedIsRegistered
<1>1. ASSUME IInv PROVE ReportedIsRegistered
  <2> SUFFICES ASSUME Reported PROVE ReportedIsRegistered
    BY DEF ReportedIsRegistered
  <2>1. current = observation.identity /\ current # None /\ stage = "open"
    BY <1>1 DEF Reported, IInv, Observed
  <2> QED
    BY <1>1, <2>1 DEF Reported, IInv, Staged, Named, ReportedIsRegistered
<1> QED
  BY <1>1, Inductive, PTL

\* The observation says open exactly from one hook to the next.
\* (lifecycle.py:277, 255)
THEOREM ObservationFollows == Spec => []ReportedIsOpen
<1>1. IInv => ReportedIsOpen
  BY DEF IInv, Observed, ReportedIsOpen
<1> QED
  BY <1>1, Inductive, PTL

\* A request works on the collection it named, or a hook or a decision has
\* overtaken it. (cards.py:415, notes.py:210)
THEOREM WorksOnTheNamed == Spec => []NamedCollection
<1>1. IInv => NamedCollection
  BY DEF IInv, Requested, NamedCollection, Usable
<1> QED
  BY <1>1, Inductive, PTL

\* A uuid stays registered for the file that has it while that file is where it
\* was. (collection_identity.py:138)
THEOREM UuidStays == Spec => UuidNotStolen
<1>1. ASSUME IInv, [Next]_vars PROVE \A u \in Uuids : Stays(u)
  <2> USE DEF IInv
  <2>1. CASE registry' = registry
    <3>1. ASSUME NEW u \in Uuids PROVE Stays(u)
      BY <2>1 DEF Stays
    <3> QED
      BY <3>1
  <2>2. ASSUME NEW point, stage \in {"loading", "paused"}, Observe(point), files' = files
        PROVE  \A u \in Uuids : Stays(u)
    <3>1. col # None /\ disk[col.place] # None
      BY <1>1, <2>2 DEF Staged
    <3> QED
      BY <1>1, <2>2, <3>1, ObserveStep
  <2>3. ASSUME NEW point \in Points, Opened(point) PROVE \A u \in Uuids : Stays(u)
    BY <2>2, <2>3 DEF Opened
  <2>4. CASE Exit
    BY <2>1, <2>2, <2>4 DEF Exit
  <2>5. CASE Bind
    <3>1. registry'.instances = registry.instances
      BY <1>1, <2>5 DEF Bind, TypeOK, Registry
    <3>2. ASSUME NEW u \in Uuids PROVE Stays(u)
      BY <3>1 DEF Stays
    <3> QED
      BY <3>2
  <2>6. ASSUME NEW decision, NEW point \in Points \ {"adopt"}, Decide(decision, point)
        PROVE  \A u \in Uuids : Stays(u)
    BY <1>1, <2>6, DecideStep
  <2> QED
    BY <1>1, <2>1, <2>3, <2>4, <2>5, <2>6 DEF Next, vars, Anki, Load, WillClose, WillPause, Unload,
       MarkAbsent, AskBound, AskUpdate, Ask, Take, Search, ReadIdentity, ReadNotes, Update, Ends, Others,
       Bring, Move, Delete
<1>2. (\A u \in Uuids : Stays(u)) <=> (\A u \in Uuids : LET known == registry.instances[u] IN
         known # None /\ Present(known) => registry'.instances[u] # None
                                           /\ registry'.instances[u].file = known.file)
  BY DEF Stays
<1> QED
  BY <1>1, <1>2, Inductive, PTL DEF Spec, UuidNotStolen

=============================================================================

---------------------------- MODULE Connection -----------------------------
(***************************************************************************)
(* Where the companion listens, and the file that tells MTA                *)
(* (companion/ankigta_companion/connection.py and connection_config.py,    *)
(* read by mta/ankigta/server/connection_config.lua).                      *)
(*                                                                         *)
(* A change of the connection moves the listener, replaces the published   *)
(* file and its last-known-good copy, and replaces the add-on's own        *)
(* settings file: separate steps, each of which may fail, all on Anki's    *)
(* main thread. The process may end between any two of them; a replaced    *)
(* file is on disk at once. Another program may take a port that nobody    *)
(* holds, and may spoil either published file. One MTA resource folder is  *)
(* modelled; a token stands for its digest.                                *)
(***************************************************************************)
EXTENDS Naturals, FiniteSets

CONSTANTS
  Ports,
  Generated,    \* tokens the add-on generates
  Unprotected,  \* the empty token
  MaxRevision,  \* bound: changes of the connection, failed ones included
  MaxExits,     \* bound: ends of the process
  MaxFaults,    \* bound: steps that fail and files that get spoilt
  MaxBusy,      \* bound: ports other programs hold
  None          \* Python's None, no file

ASSUME TokenAssumption == Unprotected \notin Generated /\ None \notin Generated \cup {Unprotected}
ASSUME PortAssumption  == IsFiniteSet(Ports) /\ None \notin Ports
ASSUME BoundAssumption == MaxRevision \in Nat \ {0} /\ MaxExits \in Nat /\ MaxFaults \in Nat
                          /\ MaxBusy \in Nat

VARIABLES
  settings,   \* _settings; None while the manager is not started
  listener,   \* _server
  persisted,  \* connection-settings.json
  current,    \* connection.json in the resource folder
  previous,   \* connection.last-known-good.json
  op,         \* the change of the connection in progress
  busy,       \* ports other programs hold
  unsettled,  \* a change stopped after it had replaced the published file, or
              \* a published file was spoilt, and no change has got through since
  denied,     \* a port the listener had to return to was another program's
  exits, faults

vars == <<settings, listener, persisted, current, previous, op, busy, unsettled, denied,
          exits, faults>>
files == <<persisted, current, previous>>

-----------------------------------------------------------------------------
(* Settings, listeners and published files.                                *)

Tokens      == Generated \cup {Unprotected}
Connections == [port : Ports, token : Tokens]
Settings == [folder : BOOLEAN, automatic : Connections, manual : Connections \cup {None},
             revision : 1 .. MaxRevision, dismissed : BOOLEAN]
Configs  == [revision : 1 .. MaxRevision, automatic : Connections,
             companion : Connections \cup {None}]
Spoilt   == [revision |-> 0]

ASSUME NoneAssumption == None \notin Connections \cup Settings \cup Configs \cup {Spoilt}
                         /\ None \notin [port : Ports, token : Tokens, live : BOOLEAN]

\* _effective_connection; the mode is manual when there is a manual connection.
Effective(s) == IF s.manual = None THEN s.automatic ELSE s.manual

\* What _publish writes.
Config(s) == [revision |-> s.revision, automatic |-> s.automatic, companion |-> s.manual]

\* validate_connection_config of what a file holds
Valid(file) == file \notin {None, Spoilt}

Live(c) == [port |-> c.port, token |-> c.token, live |-> TRUE]
Serves(c) == listener = Live(c)

\* The configuration MTA reads: loadPublished, and load_connection_config.
Published == IF Valid(current) THEN current ELSE IF Valid(previous) THEN previous ELSE None

\* The connection MTA uses with an override of its own, or without one: None
\* when there is no published file or the two sides disagree. loadEffective
Dialled(override) ==
  LET local    == IF override = None THEN Published.automatic ELSE override
      expected == Effective([automatic |-> Published.automatic, manual |-> Published.companion])
  IN  IF Published # None /\ local = expected THEN local ELSE None

Idle == [kind |-> "idle"]
Ops  == [kind : {"start", "folder", "manual", "automatic"},
         pc : {"copy", "replace", "unlink", "persist", "restore"},
         new : Settings, old : Settings \cup {None}, fresh : BOOLEAN]

TypeOK ==
  /\ settings \in Settings \cup {None}
  /\ listener \in [port : Ports, token : Tokens, live : BOOLEAN] \cup {None}
  /\ persisted \in Settings \cup {None}
  /\ current \in Configs \cup {None, Spoilt}
  /\ previous \in Configs \cup {None, Spoilt}
  /\ op \in Ops \cup {Idle}
  /\ busy \subseteq Ports
  /\ unsettled \in BOOLEAN /\ denied \in BOOLEAN
  /\ exits \in 0 .. MaxExits /\ faults \in 0 .. MaxFaults

Init ==
  /\ settings = None /\ listener = None
  /\ persisted = None /\ current = None /\ previous = None
  /\ op = Idle /\ busy = {}
  /\ unsettled = FALSE /\ denied = FALSE
  /\ exits = 0 /\ faults = 0

\* The change begins to write: new is what it publishes, old what it undoes to.
Begin(kind, new, old) ==
  op' = [kind |-> kind, pc |-> "copy", new |-> new, old |-> old, fresh |-> FALSE]
At(pc) == op # Idle /\ op.pc = pc

\* The next revision, while the bound lasts.
Bumped(s)  == s.revision + 1
MayBump(s) == s.revision < MaxRevision

-----------------------------------------------------------------------------
(* The listener.                                                           *)

Held == IF listener = None \/ ~listener.live THEN {} ELSE {listener.port}
Free == Ports \ (busy \cup Held)

\* _switch_listener binds the port: another one beside the old listener, the
\* same one after the old listener has stopped.
Switched(c) ==
  /\ c.port \notin busy
  /\ listener' = Live(c)
  /\ denied' = FALSE
  /\ UNCHANGED busy

\* It cannot: another program has the port, or takes it after the old listener
\* on it has stopped; or that listener comes back, with the settings' token.
SwitchFails(c, s) ==
  \/ /\ c.port \in busy
     /\ UNCHANGED <<listener, busy, faults>>
  \/ /\ c.port = listener.port /\ c.port \notin busy
     /\ faults < MaxFaults
     /\ faults' = faults + 1
     /\ \/ /\ listener' = Live([c EXCEPT !.token = Effective(s).token])
           /\ UNCHANGED busy
        \/ /\ Cardinality(busy) < MaxBusy
           /\ listener' = [listener EXCEPT !.live = FALSE]
           /\ busy' = busy \cup {c.port}

-----------------------------------------------------------------------------
(* The manager starts.                                                     *)

\* start: nothing saved yet, so a new token and any free port.
StartFresh(token, p) ==
  /\ settings = None /\ persisted = None
  /\ p \in Free
  /\ settings' = [folder |-> FALSE, automatic |-> [port |-> p, token |-> token],
                  manual |-> None, revision |-> 1, dismissed |-> FALSE]
  /\ listener' = Live(settings'.automatic)
  /\ UNCHANGED <<files, op, busy, unsettled, denied, exits, faults>>

\* start: the saved connection. A manual one whose port is taken does not start.
StartSaved ==
  /\ settings = None /\ persisted # None
  /\ Effective(persisted).port \in Free
  /\ settings' = persisted
  /\ listener' = Live(Effective(persisted))
  /\ denied' = FALSE
  /\ UNCHANGED <<files, op, busy, unsettled, exits, faults>>

\* Mutant: the new port is neither published nor saved.
StartUnpublished(p) ==
  /\ settings = None /\ persisted # None
  /\ persisted.manual = None
  /\ persisted.automatic.port \notin Free
  /\ p \in Free
  /\ MayBump(persisted)
  /\ settings' = [persisted EXCEPT !.automatic.port = p, !.revision = Bumped(persisted)]
  /\ listener' = Live(settings'.automatic)
  /\ denied' = FALSE
  /\ UNCHANGED <<files, op, busy, unsettled, exits, faults>>

\* start: the automatic port is taken, another one is published and saved. Only
\* select_resource_folder first saves settings, so there is a folder.
StartElsewhere(p) ==
  /\ settings = None /\ persisted # None
  /\ persisted.manual = None
  /\ persisted.automatic.port \notin Free
  /\ p \in Free
  /\ MayBump(persisted)
  /\ settings' = [persisted EXCEPT !.automatic.port = p, !.revision = Bumped(persisted)]
  /\ listener' = Live(settings'.automatic)
  /\ Begin("start", settings', None)
  /\ denied' = FALSE
  /\ UNCHANGED <<files, busy, unsettled, exits, faults>>

-----------------------------------------------------------------------------
(* Operations of the settings dialog.                                      *)

\* select_resource_folder: published before it becomes the settings.
SelectFolder ==
  /\ settings # None /\ op = Idle
  /\ Begin("folder", [settings EXCEPT !.folder = TRUE], settings)
  /\ UNCHANGED <<settings, listener, files, busy, unsettled, denied, exits, faults>>

Configurable == settings # None /\ op = Idle /\ settings.folder /\ MayBump(settings)

\* set_manual_connection with the port and the token given.
ManualAsGiven(port, token) == [port |-> port, token |-> token]  \* Mutant: no token is no token.
ManualOf(port, token) ==
  [port |-> port, token |-> IF token = None THEN Effective(settings).token ELSE token]

SetManual(port, token) ==
  LET c == ManualOf(port, token) IN
  /\ Configurable
  /\ Switched(c)
  /\ settings' = [settings EXCEPT !.manual = c, !.revision = Bumped(settings), !.dismissed = FALSE]
  /\ Begin("manual", settings', settings)
  /\ UNCHANGED <<files, unsettled, exits, faults>>

ManualRefused(port, token) ==
  /\ Configurable
  /\ SwitchFails(ManualOf(port, token), settings)
  /\ denied' = (denied \/ ~listener'.live)
  /\ UNCHANGED <<settings, files, op, unsettled, exits>>

\* use_automatic_connection, on the automatic port
Automated(p) ==
  [settings EXCEPT !.automatic.port = p, !.manual = None, !.revision = Bumped(settings),
                   !.dismissed = FALSE]

UseAutomatic ==
  /\ Configurable
  /\ Switched(settings.automatic)
  /\ settings' = Automated(settings.automatic.port)
  /\ Begin("automatic", settings', settings)
  /\ UNCHANGED <<files, unsettled, exits, faults>>

\* ... or, as that port cannot be had, on any free one: there always is one
UseAutomaticElsewhere(p) ==
  /\ Configurable
  /\ \/ settings.automatic.port \in busy /\ UNCHANGED <<busy, faults>>
     \/ /\ settings.automatic.port = listener.port /\ listener.port \notin busy
        /\ busy' \in {busy, busy \cup {listener.port}} /\ Cardinality(busy') <= MaxBusy
        /\ faults < MaxFaults /\ faults' = faults + 1
  /\ p \notin busy' \cup {listener.port}
  /\ settings' = Automated(p)
  /\ listener' = Live([settings.automatic EXCEPT !.port = p])
  /\ denied' = FALSE
  /\ Begin("automatic", settings', settings)
  /\ UNCHANGED <<files, unsettled, exits>>

\* dismiss_unprotected_warning; what was changed in memory stays when the save fails.
Dismiss ==
  /\ settings # None /\ op = Idle
  /\ Effective(settings).token = Unprotected
  /\ settings' = [settings EXCEPT !.dismissed = TRUE]
  /\ \/ persisted' = settings' /\ UNCHANGED faults
     \/ faults < MaxFaults /\ faults' = faults + 1 /\ UNCHANGED persisted
  /\ UNCHANGED <<listener, current, previous, op, busy, unsettled, denied, exits>>

-----------------------------------------------------------------------------
(* Publishing and saving.                                                  *)

\* ConnectionConfigPublisher.publish: the last configuration that validates
ConfirmedMutant ==  \* Mutant: the older copy is preferred to the file it is a copy of.
  IF Valid(previous) THEN previous ELSE IF Valid(current) THEN current ELSE None
Confirmed == Published

\* ... is copied aside
CopyUnvalidated ==  \* Mutant: whatever the file holds is copied.
  /\ At("copy")
  /\ previous' = IF current = None THEN previous ELSE current
  /\ op' = [op EXCEPT !.pc = "replace", !.fresh = Confirmed = None]
  /\ UNCHANGED <<settings, listener, persisted, current, busy, unsettled, denied, exits, faults>>
CopyPrevious ==
  /\ At("copy")
  /\ previous' = IF Confirmed = None THEN previous ELSE Confirmed
  /\ op' = [op EXCEPT !.pc = "replace", !.fresh = Confirmed = None]
  /\ UNCHANGED <<settings, listener, persisted, current, busy, unsettled, denied, exits, faults>>

\* ... the candidate replaces the file
ReplaceCurrent ==
  /\ At("replace")
  /\ current' = Config(op.new)
  /\ op' = [op EXCEPT !.pc = IF op.fresh THEN "unlink" ELSE "persist"]
  /\ UNCHANGED <<settings, listener, persisted, previous, busy, unsettled, denied, exits, faults>>

\* ... and a copy that never validated goes.
UnlinkPrevious ==
  /\ At("unlink")
  /\ previous' = None
  /\ op' = [op EXCEPT !.pc = "persist"]
  /\ UNCHANGED <<settings, listener, persisted, current, busy, unsettled, denied, exits, faults>>

\* _persist, after which the operation has succeeded
Persist ==
  /\ At("persist")
  /\ persisted' = op.new
  /\ settings' = op.new
  /\ op' = Idle
  /\ unsettled' = ~Valid(current)
  /\ UNCHANGED <<listener, current, previous, busy, denied, exits, faults>>

\* Any of these steps raises, or finds that its candidate does not validate.
Replaced == op # Idle /\ op.pc \in {"unlink", "persist"}

StepFails ==
  /\ op # Idle /\ op.pc # "restore"
  /\ faults < MaxFaults
  /\ faults' = faults + 1
  /\ unsettled' = (unsettled \/ Replaced)
  /\ CASE op.kind = "folder" -> op' = Idle /\ UNCHANGED <<settings, listener>>
       [] op.kind = "start"  -> op' = Idle /\ settings' = None /\ listener' = None
       [] OTHER -> op' = [op EXCEPT !.pc = "restore"] /\ settings' = op.old /\ UNCHANGED listener
  /\ UNCHANGED <<files, busy, denied, exits>>

\* Mutant: the settings go back, the listener stays where it is.
RestoreSettingsOnly ==
  /\ At("restore")
  /\ op' = Idle
  /\ UNCHANGED <<settings, listener, files, busy, unsettled, denied, exits, faults>>

\* _restore_connection: the listener goes back, if it can.
Restore ==
  /\ At("restore")
  /\ \/ Switched(Effective(op.old)) /\ UNCHANGED faults
     \/ SwitchFails(Effective(op.old), op.old) /\ denied' = TRUE
  /\ op' = Idle
  /\ UNCHANGED <<settings, files, unsettled, exits>>

-----------------------------------------------------------------------------
(* What happens to them.                                                   *)

\* Anki ends, in order or not; files stay as they are.
Exit ==
  /\ settings # None
  /\ exits < MaxExits
  /\ exits' = exits + 1
  /\ settings' = None /\ listener' = None /\ op' = Idle
  /\ unsettled' = (unsettled \/ Replaced)
  /\ UNCHANGED <<files, busy, denied, faults>>

\* Another program takes or leaves a port.
Occupy(p) ==
  /\ p \in Free
  /\ Cardinality(busy) < MaxBusy
  /\ busy' = busy \cup {p}
  /\ UNCHANGED <<settings, listener, files, op, unsettled, denied, exits, faults>>

Vacate(p) ==
  /\ p \in busy
  /\ busy' = busy \ {p}
  /\ UNCHANGED <<settings, listener, files, op, unsettled, denied, exits, faults>>

\* A published file is spoilt: cut short, edited, from another version.
Spoil ==
  /\ faults < MaxFaults
  /\ faults' = faults + 1
  /\ unsettled' = TRUE
  /\ \/ Valid(current) /\ current' = Spoilt /\ UNCHANGED previous
     \/ Valid(previous) /\ previous' = Spoilt /\ UNCHANGED current
  /\ UNCHANGED <<settings, listener, persisted, op, busy, denied, exits>>

Next ==
  \/ \E token \in Generated, p \in Ports : StartFresh(token, p)
  \/ StartSaved
  \/ \E p \in Ports : StartElsewhere(p)
  \/ SelectFolder
  \/ \E p \in Ports, token \in {None, Unprotected} : SetManual(p, token) \/ ManualRefused(p, token)
  \/ UseAutomatic
  \/ \E p \in Ports : UseAutomaticElsewhere(p)
  \/ Dismiss
  \/ CopyPrevious \/ ReplaceCurrent \/ UnlinkPrevious \/ Persist
  \/ StepFails \/ Restore
  \/ Exit \/ Spoil
  \/ \E p \in Ports : Occupy(p) \/ Vacate(p)

Spec == Init /\ [][Next]_vars

-----------------------------------------------------------------------------
(* Properties.                                                             *)

AtRest == settings # None /\ op = Idle

\* Between operations the listener is the one the settings describe, also when
\* an operation failed half-way and was undone, unless another program took the
\* port it had to go back to. (connection.py:138, _restore_connection)
ListenerIsEffective == AtRest /\ ~denied => Serves(Effective(settings))

\* Whatever override MTA has, the connection it would use is the one that is
\* served, or it uses none: after every succession of changes, failures and
\* restarts but for a change that stopped between the published file and the
\* saved settings. (connection.py:144, 93; connection_config.lua:207)
DialledIsServed ==
  AtRest /\ settings.folder /\ ~unsettled /\ ~denied =>
    \A override \in Connections \cup {None} :
      Dialled(override) # None => Serves(Dialled(override))

\* Nothing the add-on does takes away the last configuration MTA can read: a
\* file only goes when another that validates is in place, wherever the
\* publication stops. (connection_config.py:212)
StaysReadable ==
  [][Published # None => Published' # None \/ Spoil]_vars

\* When a configuration takes the place of one that validates, that one is the
\* last-known-good copy from the same moment on. (connection_config.py:232)
OneGenerationBack ==
  [][Valid(current) /\ current' \notin {current, Spoilt} => previous' \in {current, Spoilt}]_vars
=============================================================================

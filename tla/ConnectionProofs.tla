-------------------------- MODULE ConnectionProofs --------------------------
(***************************************************************************)
(* Proofs about Connection, for every set of ports and tokens and every    *)
(* number of changes, faults, ends of the process and ports that other     *)
(* programs take.                                                          *)
(***************************************************************************)
EXTENDS Connection, TLAPS

-----------------------------------------------------------------------------
(* Settings, configurations and changes.                                   *)

LEMMA OpIsIdle ==
  ASSUME TypeOK
  PROVE  op # Idle <=> op \in Ops
BY DEF TypeOK, Ops, Idle

LEMMA NotIdle == Idle \notin Ops
BY DEF Ops, Idle

LEMMA EffectiveType ==
  ASSUME NEW s \in Settings
  PROVE  Effective(s) \in Connections
BY DEF Effective, Settings

LEMMA ConfigType ==
  ASSUME NEW s \in Settings
  PROVE  Config(s) \in Configs /\ Valid(Config(s))
<1>1. Config(s) \in Configs
  BY DEF Config, Configs, Settings
<1>2. Config(s).revision # 0
  BY BoundAssumption DEF Config, Settings
<1>3. Config(s) # Spoilt
  BY <1>2 DEF Spoilt
<1> QED
  BY <1>1, <1>3, NoneAssumption DEF Valid

LEMMA LiveType ==
  ASSUME NEW c \in Connections
  PROVE  /\ Live(c) \in [port : Ports, token : Tokens, live : BOOLEAN]
         /\ Live(c) # None
         /\ Live(c).port = c.port /\ Live(c).live = TRUE
<1>1. Live(c) \in [port : Ports, token : Tokens, live : BOOLEAN]
  BY DEF Live, Connections
<1> QED
  BY <1>1, NoneAssumption DEF Live

LEMMA FolderChosen ==
  ASSUME NEW s \in Settings
  PROVE  LET t == [s EXCEPT !.folder = TRUE]
         IN  /\ t \in Settings /\ t.folder /\ t.manual = s.manual /\ t.automatic = s.automatic
             /\ Effective(t) = Effective(s) /\ Config(t) = Config(s)
BY DEF Settings, Effective, Config

LEMMA Dismissed ==
  ASSUME NEW s \in Settings
  PROVE  LET t == [s EXCEPT !.dismissed = TRUE]
         IN  /\ t \in Settings /\ t.folder = s.folder /\ t.manual = s.manual
             /\ t.automatic = s.automatic /\ Effective(t) = Effective(s) /\ Config(t) = Config(s)
BY DEF Settings, Effective, Config

LEMMA PortMoved ==
  ASSUME NEW s \in Settings, MayBump(s), NEW p \in Ports
  PROVE  LET t == [s EXCEPT !.automatic.port = p, !.revision = Bumped(s)]
         IN  t \in Settings /\ t.folder = s.folder /\ t.manual = s.manual
<1>1. [s.automatic EXCEPT !.port = p] \in Connections
  BY DEF Settings, Connections
<1>2. Bumped(s) \in 1 .. MaxRevision
  BY BoundAssumption DEF MayBump, Bumped, Settings
<1> QED
  BY <1>1, <1>2 DEF Settings

LEMMA MadeManual ==
  ASSUME NEW s \in Settings, MayBump(s), NEW c \in Connections
  PROVE  LET t == [s EXCEPT !.manual = c, !.revision = Bumped(s), !.dismissed = FALSE]
         IN  t \in Settings /\ t.folder = s.folder /\ Effective(t) = c
<1>1. Bumped(s) \in 1 .. MaxRevision
  BY BoundAssumption DEF MayBump, Bumped, Settings
<1> QED
  BY <1>1, NoneAssumption DEF Settings, Effective

LEMMA MadeAutomatic ==
  ASSUME settings \in Settings, MayBump(settings), NEW p \in Ports
  PROVE  /\ Automated(p) \in Settings
         /\ Automated(p).folder = settings.folder
         /\ Effective(Automated(p)) = [settings.automatic EXCEPT !.port = p]
         /\ [settings.automatic EXCEPT !.port = p] \in Connections
<1>1. [settings.automatic EXCEPT !.port = p] \in Connections
  BY DEF Settings, Connections
<1>2. Bumped(settings) \in 1 .. MaxRevision
  BY BoundAssumption DEF MayBump, Bumped, Settings
<1> QED
  BY <1>1, <1>2 DEF Settings, Effective, Automated

LEMMA ManualType ==
  ASSUME settings \in Settings, NEW p \in Ports, NEW token \in {None, Unprotected}
  PROVE  ManualOf(p, token) \in Connections
BY EffectiveType DEF ManualOf, Connections, Tokens

LEMMA BeginType ==
  ASSUME NEW kind \in {"start", "folder", "manual", "automatic"}, NEW new \in Settings,
         NEW old \in Settings \cup {None}, Begin(kind, new, old)
  PROVE  /\ op' \in Ops /\ op' # Idle
         /\ op'.kind = kind /\ op'.pc = "copy" /\ op'.new = new /\ op'.old = old
BY DEF Begin, Ops, Idle

LEMMA OpGoto ==
  ASSUME op \in Ops, NEW pc \in {"replace", "unlink", "persist", "restore"},
         op' = [op EXCEPT !.pc = pc]
  PROVE  /\ op' \in Ops /\ op' # Idle
         /\ op'.kind = op.kind /\ op'.pc = pc /\ op'.new = op.new /\ op'.old = op.old
         /\ op'.fresh = op.fresh
BY NotIdle DEF Ops

LEMMA OpCopied ==
  ASSUME op \in Ops, NEW fresh \in BOOLEAN,
         op' = [op EXCEPT !.pc = "replace", !.fresh = fresh]
  PROVE  /\ op' \in Ops /\ op' # Idle
         /\ op'.kind = op.kind /\ op'.pc = "replace" /\ op'.new = op.new /\ op'.old = op.old
         /\ op'.fresh = fresh
BY NotIdle DEF Ops

\* A file that validates is the configuration MTA reads, or the copy is.
LEMMA PublishedType ==
  ASSUME TypeOK
  PROVE  /\ Published \in Configs \cup {None}
         /\ Published # None <=> Valid(current) \/ Valid(previous)
BY NoneAssumption DEF TypeOK, Published, Valid

-----------------------------------------------------------------------------
(* The inductive invariant.                                                *)

\* There is a listener while the manager is started, and a change only then.
Started ==
  /\ settings # None <=> listener # None
  /\ op # Idle => settings # None

\* What the settings become when the change in progress gets through or fails.
Changing ==
  /\ op # Idle /\ op.kind = "folder" =>
       op.pc # "restore" /\ op.old = settings /\ op.new = [settings EXCEPT !.folder = TRUE]
  /\ op # Idle /\ op.kind = "start" => op.pc # "restore" /\ settings = op.new /\ op.new.folder
                                       /\ persisted # None
  /\ op # Idle /\ op.kind \in {"manual", "automatic"} =>
       op.old # None /\ op.old.folder /\ op.new.folder
       /\ settings = IF op.pc = "restore" THEN op.old ELSE op.new

\* The listener is the one the settings describe, but for the way back.
Listening ==
  settings # None /\ (op # Idle => op.pc # "restore") /\ ~denied => Serves(Effective(settings))

\* Settings are saved once there is a folder, and only then.
Saved ==
  /\ persisted # None => persisted.folder
  /\ settings # None /\ ~settings.folder => settings.manual = None /\ settings.automatic.token \in Generated

\* The settings a failure leads back to are those that are saved, as far as
\* they are published.
Base == IF op # Idle /\ op.kind \in {"manual", "automatic"} THEN op.old ELSE settings
Agreed ==
  Base # None /\ Base.folder /\ (op # Idle => op.kind # "start") =>
    persisted # None /\ Config(persisted) = Config(Base)

\* The published file is what is saved, or about to be.
Settled ==
  /\ ~unsettled /\ ~Replaced /\ persisted # None => current = Config(persisted)
  /\ Replaced => current \in {Config(op.new), Spoilt} /\ (~unsettled => current = Config(op.new))

\* The last-known-good copy is made of the file that is about to be replaced, and
\* is removed only when there is nothing good in it.
CopyKept ==
  /\ At("replace") /\ Valid(current) => previous \in {current, Spoilt}
  /\ At("replace") /\ op.fresh => ~Valid(previous)
  /\ At("unlink") => ~Valid(previous)

IInv == TypeOK /\ Started /\ Changing /\ Listening /\ Saved /\ Agreed /\ Settled /\ CopyKept

LEMMA InitInv == Init => IInv
<1> SUFFICES ASSUME Init PROVE IInv
  OBVIOUS
<1>1. TypeOK
  <2>1. 0 \in 0 .. MaxExits /\ 0 \in 0 .. MaxFaults
    BY BoundAssumption
  <2> QED
    BY <2>1 DEF Init, TypeOK
<1>2. Started /\ Changing /\ Listening /\ Saved /\ Agreed
  BY DEF Init, Started, Changing, Listening, Saved, Agreed, Base, Idle
<1>3. Settled /\ CopyKept
  BY DEF Init, Settled, CopyKept, Replaced, At
<1> QED
  BY <1>1, <1>2, <1>3 DEF IInv

-----------------------------------------------------------------------------
(* The manager starts.                                                     *)

LEMMA StartFreshInv ==
  ASSUME IInv, NEW token \in Generated, NEW p \in Ports, StartFresh(token, p)
  PROVE  IInv'
<1> USE DEF IInv, files
<1>1. op = Idle /\ UNCHANGED <<op, persisted, current, previous, busy, unsettled, denied, exits, faults>>
  BY DEF StartFresh, Started
<1>2. /\ settings' \in Settings /\ ~settings'.folder /\ settings'.manual = None
      /\ settings'.automatic.token \in Generated
  BY BoundAssumption DEF StartFresh, Settings, Connections, Tokens
<1>3. listener' = Live(Effective(settings')) /\ settings' # None
  BY <1>2, NoneAssumption DEF StartFresh, Effective
<1>4. TypeOK' /\ listener' # None
  BY <1>1, <1>2, <1>3, LiveType, EffectiveType DEF TypeOK
<1>5. Started' /\ Changing' /\ Listening'
  BY <1>1, <1>3, <1>4 DEF Started, Changing, Listening, Serves
<1>6. Saved' /\ Agreed'
  BY <1>1, <1>2 DEF Saved, Agreed, Base
<1>7. Settled' /\ CopyKept'
  BY <1>1 DEF Settled, CopyKept, Replaced, At
<1> QED
  BY <1>4, <1>5, <1>6, <1>7

LEMMA StartSavedInv ==
  ASSUME IInv, StartSaved
  PROVE  IInv'
<1> USE DEF IInv, files
<1>1. op = Idle /\ UNCHANGED <<op, persisted, current, previous, busy, unsettled, exits, faults>>
      /\ denied' = FALSE
  BY DEF StartSaved, Started
<1>2. settings' = persisted /\ settings' \in Settings /\ settings'.folder
  BY DEF StartSaved, TypeOK, Saved
<1>3. listener' = Live(Effective(settings')) /\ settings' # None
  BY <1>2, NoneAssumption DEF StartSaved
<1>4. TypeOK' /\ listener' # None
  BY <1>1, <1>2, <1>3, LiveType, EffectiveType DEF TypeOK
<1>5. Started' /\ Changing' /\ Listening'
  BY <1>1, <1>3, <1>4 DEF Started, Changing, Listening, Serves
<1>6. Saved' /\ Agreed'
  BY <1>1, <1>2, <1>3 DEF Saved, Agreed, Base
<1>7. Settled' /\ CopyKept'
  BY <1>1 DEF Settled, CopyKept, Replaced, At
<1> QED
  BY <1>4, <1>5, <1>6, <1>7

LEMMA StartElsewhereInv ==
  ASSUME IInv, NEW p \in Ports, StartElsewhere(p)
  PROVE  IInv'
<1> USE DEF IInv, files
<1>1. /\ op = Idle /\ denied' = FALSE
      /\ UNCHANGED <<persisted, current, previous, busy, unsettled, exits, faults>>
  BY DEF StartElsewhere, Started
<1>2. settings' \in Settings /\ settings'.folder /\ settings'.manual = None
  BY PortMoved DEF StartElsewhere, TypeOK, Saved
<1>3. listener' = Live(Effective(settings')) /\ settings' # None
  BY <1>2, NoneAssumption DEF StartElsewhere, Effective
<1>4. /\ op' \in Ops /\ op' # Idle /\ op'.kind = "start" /\ op'.pc = "copy"
      /\ op'.new = settings' /\ op'.old = None
  BY <1>2, BeginType DEF StartElsewhere
<1>5. TypeOK' /\ listener' # None
  BY <1>1, <1>2, <1>3, <1>4, LiveType, EffectiveType DEF TypeOK
<1>6. Started' /\ Changing' /\ Listening'
  BY <1>1, <1>2, <1>3, <1>4, <1>5 DEF Started, Changing, Listening, Serves, StartElsewhere
<1>7. Saved' /\ Agreed'
  BY <1>1, <1>2, <1>4 DEF Saved, Agreed, Base
<1>8. Settled' /\ CopyKept'
  BY <1>1, <1>4 DEF Settled, CopyKept, Replaced, At
<1> QED
  BY <1>5, <1>6, <1>7, <1>8

-----------------------------------------------------------------------------
(* Operations of the settings dialog.                                      *)

LEMMA SelectFolderInv ==
  ASSUME IInv, SelectFolder
  PROVE  IInv'
<1> USE DEF IInv, files
<1>1. /\ op = Idle /\ settings # None /\ settings \in Settings
      /\ UNCHANGED <<settings, listener, persisted, current, previous, busy, unsettled, denied,
                     exits, faults>>
  BY DEF SelectFolder, TypeOK
<1>2. /\ op' \in Ops /\ op' # Idle /\ op'.kind = "folder" /\ op'.pc = "copy"
      /\ op'.new = [settings EXCEPT !.folder = TRUE] /\ op'.old = settings
  BY <1>1, FolderChosen, BeginType DEF SelectFolder
<1>3. TypeOK'
  BY <1>1, <1>2 DEF TypeOK
<1>4. Started' /\ Changing' /\ Listening'
  BY <1>1, <1>2 DEF Started, Changing, Listening, Serves
<1>5. Saved' /\ Agreed'
  BY <1>1, <1>2 DEF Saved, Agreed, Base
<1>6. Settled' /\ CopyKept'
  BY <1>1, <1>2 DEF Settled, CopyKept, Replaced, At
<1> QED
  BY <1>3, <1>4, <1>5, <1>6

\* The change that begins describes the connection that is already served, and
\* what it leads back to is saved and published.
LEMMA ChangeBegins ==
  ASSUME IInv, Configurable, NEW c \in Connections, listener' = Live(c), denied' = FALSE,
         busy' \subseteq Ports, faults' \in 0 .. MaxFaults,
         settings' \in Settings, settings'.folder, Effective(settings') = c,
         NEW kind \in {"manual", "automatic"}, Begin(kind, settings', settings),
         UNCHANGED <<files, unsettled, exits>>
  PROVE  IInv'
<1> USE DEF IInv, files
<1>1. /\ op = Idle /\ settings # None /\ settings \in Settings /\ settings.folder
      /\ UNCHANGED <<persisted, current, previous, unsettled, exits>>
  BY DEF Configurable, TypeOK
<1>2. /\ op' \in Ops /\ op' # Idle /\ op'.kind = kind /\ op'.pc = "copy"
      /\ op'.new = settings' /\ op'.old = settings
  BY <1>1, BeginType
<1>3. settings' # None
  BY NoneAssumption
<1>4. TypeOK' /\ listener' # None
  BY <1>1, <1>2, LiveType DEF TypeOK
<1>5. Started' /\ Changing' /\ Listening'
  BY <1>1, <1>2, <1>3, <1>4 DEF Started, Changing, Listening, Serves
<1>6. Saved' /\ Agreed'
  BY <1>1, <1>2 DEF Saved, Agreed, Base
<1>7. Settled' /\ CopyKept'
  BY <1>1, <1>2 DEF Settled, CopyKept, Replaced, At
<1> QED
  BY <1>4, <1>5, <1>6, <1>7

LEMMA SetManualInv ==
  ASSUME IInv, NEW p \in Ports, NEW token \in {None, Unprotected}, SetManual(p, token)
  PROVE  IInv'
<1> DEFINE c == ManualOf(p, token)
<1>1. Configurable /\ settings \in Settings /\ MayBump(settings) /\ settings.folder
  BY DEF SetManual, Configurable, IInv, TypeOK
<1>2. c \in Connections
  BY <1>1, ManualType
<1>3. settings' \in Settings /\ settings'.folder /\ Effective(settings') = c
  BY <1>1, <1>2, MadeManual DEF SetManual
<1>4. /\ listener' = Live(c) /\ denied' = FALSE /\ busy' = busy /\ faults' = faults
      /\ Begin("manual", settings', settings) /\ UNCHANGED <<files, unsettled, exits>>
  BY DEF SetManual, Switched
<1>5. busy' \subseteq Ports /\ faults' \in 0 .. MaxFaults
  BY <1>4 DEF IInv, TypeOK
<1> HIDE DEF c
<1> QED
  BY <1>1, <1>2, <1>3, <1>4, <1>5, ChangeBegins

LEMMA UseAutomaticInv ==
  ASSUME IInv, UseAutomatic
  PROVE  IInv'
<1>1. Configurable /\ settings \in Settings /\ MayBump(settings) /\ settings.folder
  BY DEF UseAutomatic, Configurable, IInv, TypeOK
<1>2. settings.automatic \in Connections /\ settings.automatic.port \in Ports
      /\ [settings.automatic EXCEPT !.port = settings.automatic.port] = settings.automatic
  BY <1>1 DEF Settings, Connections
<1>3. settings' \in Settings /\ settings'.folder /\ Effective(settings') = settings.automatic
  BY <1>1, <1>2, MadeAutomatic DEF UseAutomatic
<1>4. /\ listener' = Live(settings.automatic) /\ denied' = FALSE /\ busy' = busy /\ faults' = faults
      /\ Begin("automatic", settings', settings) /\ UNCHANGED <<files, unsettled, exits>>
  BY DEF UseAutomatic, Switched
<1>5. busy' \subseteq Ports /\ faults' \in 0 .. MaxFaults
  BY <1>4 DEF IInv, TypeOK
<1> QED
  BY <1>1, <1>2, <1>3, <1>4, <1>5, ChangeBegins

LEMMA UseAutomaticElsewhereInv ==
  ASSUME IInv, NEW p \in Ports, UseAutomaticElsewhere(p)
  PROVE  IInv'
<1> DEFINE c == [settings.automatic EXCEPT !.port = p]
<1>1. Configurable /\ settings \in Settings /\ MayBump(settings) /\ settings.folder
  BY DEF UseAutomaticElsewhere, Configurable, IInv, TypeOK
<1>2. /\ c \in Connections
      /\ settings' \in Settings /\ settings'.folder /\ Effective(settings') = c
  BY <1>1, MadeAutomatic DEF UseAutomaticElsewhere
<1>3. /\ listener' = Live(c) /\ denied' = FALSE
      /\ Begin("automatic", settings', settings) /\ UNCHANGED <<files, unsettled, exits>>
  BY DEF UseAutomaticElsewhere
<1>4. busy' \subseteq Ports /\ faults' \in 0 .. MaxFaults
  <2>1. settings.automatic.port \in Ports
    BY <1>1 DEF Settings, Connections
  <2>2. CASE UNCHANGED <<busy, faults>>
    BY <2>2 DEF IInv, TypeOK
  <2>3. CASE /\ settings.automatic.port = listener.port
             /\ busy' \in {busy, busy \cup {listener.port}}
             /\ faults < MaxFaults /\ faults' = faults + 1
    BY <2>1, <2>3, BoundAssumption DEF IInv, TypeOK
  <2> QED
    BY <2>2, <2>3 DEF UseAutomaticElsewhere
<1> HIDE DEF c
<1> QED
  BY <1>1, <1>2, <1>3, <1>4, ChangeBegins

\* A switch that fails leaves the listener or stops it, or brings it back as the
\* settings describe it.
LEMMA SwitchFailsType ==
  ASSUME TypeOK, listener # None, NEW c \in Connections, NEW s \in Settings, SwitchFails(c, s)
  PROVE  /\ listener' \in [port : Ports, token : Tokens, live : BOOLEAN] /\ listener' # None
         /\ busy' \subseteq Ports /\ faults' \in 0 .. MaxFaults
         /\ listener = Live(Effective(s)) /\ listener'.live => listener' = Live(Effective(s))
<1>1. c.port \in Ports /\ listener \in [port : Ports, token : Tokens, live : BOOLEAN]
  BY DEF Connections, TypeOK
<1>2. CASE UNCHANGED <<listener, busy, faults>>
  BY <1>1, <1>2 DEF TypeOK
<1>3. CASE /\ c.port = listener.port
           /\ faults < MaxFaults /\ faults' = faults + 1
           /\ listener' = Live([c EXCEPT !.token = Effective(s).token]) /\ UNCHANGED busy
  <2>1. Effective(s) \in Connections
    BY EffectiveType
  <2>2. [c EXCEPT !.token = Effective(s).token] \in Connections
    BY <2>1 DEF Connections
  <2>3. listener = Live(Effective(s)) => [c EXCEPT !.token = Effective(s).token] = Effective(s)
    <3>1. listener = Live(Effective(s)) => c.port = Effective(s).port
      BY <1>3, <2>1, LiveType
    <3> QED
      BY <3>1, <2>1 DEF Connections
  <2> QED
    <3>1. listener' \in [port : Ports, token : Tokens, live : BOOLEAN] /\ listener' # None
      BY <1>3, <2>2, LiveType
    <3>2. busy' \subseteq Ports /\ faults' \in 0 .. MaxFaults
      BY <1>3, BoundAssumption DEF TypeOK
    <3>3. listener = Live(Effective(s)) => listener' = Live(Effective(s))
      BY <1>3, <2>3
    <3> QED
      BY <3>1, <3>2, <3>3
<1>4. CASE /\ faults < MaxFaults /\ faults' = faults + 1
           /\ listener' = [listener EXCEPT !.live = FALSE] /\ busy' = busy \cup {c.port}
  <2>1. listener' \in [port : Ports, token : Tokens, live : BOOLEAN] /\ ~listener'.live
    BY <1>1, <1>4
  <2>2. busy' \subseteq Ports /\ faults' \in 0 .. MaxFaults
    BY <1>1, <1>4, BoundAssumption DEF TypeOK
  <2> QED
    BY <2>1, <2>2, NoneAssumption
<1> QED
  BY <1>2, <1>3, <1>4 DEF SwitchFails

LEMMA ManualRefusedInv ==
  ASSUME IInv, NEW p \in Ports, NEW token \in {None, Unprotected}, ManualRefused(p, token)
  PROVE  IInv'
<1> USE DEF IInv, files
<1>1. /\ op = Idle /\ settings # None /\ settings \in Settings
      /\ UNCHANGED <<settings, persisted, current, previous, op, unsettled, exits>>
  BY DEF ManualRefused, Configurable, TypeOK
<1>2. /\ listener' \in [port : Ports, token : Tokens, live : BOOLEAN] /\ listener' # None
      /\ busy' \subseteq Ports /\ faults' \in 0 .. MaxFaults
      /\ listener = Live(Effective(settings)) /\ listener'.live => listener' = Live(Effective(settings))
  BY <1>1, ManualType, SwitchFailsType DEF ManualRefused, Started
<1>3. TypeOK'
  BY <1>1, <1>2 DEF ManualRefused, TypeOK
<1>4. Started' /\ Changing' /\ Listening'
  BY <1>1, <1>2 DEF ManualRefused, Started, Changing, Listening, Serves
<1>5. Saved' /\ Agreed' /\ Settled' /\ CopyKept'
  BY <1>1 DEF Saved, Agreed, Base, Settled, CopyKept, Replaced, At
<1> QED
  BY <1>3, <1>4, <1>5

LEMMA DismissInv ==
  ASSUME IInv, Dismiss
  PROVE  IInv'
<1> USE DEF IInv, files
<1>1. /\ op = Idle /\ settings # None /\ settings \in Settings
      /\ UNCHANGED <<listener, current, previous, op, busy, unsettled, denied, exits>>
      /\ settings' = [settings EXCEPT !.dismissed = TRUE]
  BY DEF Dismiss, TypeOK
<1>2. /\ settings' \in Settings /\ settings'.folder = settings.folder
      /\ settings'.manual = settings.manual /\ settings'.automatic = settings.automatic
      /\ Effective(settings') = Effective(settings) /\ Config(settings') = Config(settings)
  BY <1>1, Dismissed
<1>3. /\ persisted' \in {persisted, settings'} /\ faults' \in 0 .. MaxFaults
      /\ Effective(settings).token = Unprotected
  BY BoundAssumption DEF Dismiss, TypeOK
\* An unprotected connection is a manual one, so there is a folder.
<1>4. settings.folder
  BY <1>1, <1>3, TokenAssumption DEF Saved, Effective
<1>5. TypeOK' /\ Started' /\ settings' # None
  BY <1>1, <1>2, <1>3, NoneAssumption DEF TypeOK, Started
<1>6. Changing' /\ Listening'
  BY <1>1, <1>2, <1>5 DEF Changing, Listening, Serves
<1>7. Saved' /\ Agreed'
  BY <1>1, <1>2, <1>3, <1>4, <1>5 DEF Saved, Agreed, Base
<1>8. persisted # None /\ persisted' # None /\ Config(persisted') = Config(persisted)
  BY <1>1, <1>2, <1>3, <1>4, <1>5 DEF Agreed, Base
<1>9. Settled' /\ CopyKept'
  BY <1>1, <1>8 DEF Settled, CopyKept, Replaced, At
<1> QED
  BY <1>5, <1>6, <1>7, <1>9

-----------------------------------------------------------------------------
(* Publishing and saving.                                                  *)

LEMMA SpoiltIsNot ==
  /\ ~Valid(None) /\ ~Valid(Spoilt) /\ None # Spoilt
BY NoneAssumption DEF Valid

LEMMA CopyPreviousInv ==
  ASSUME IInv, CopyPrevious
  PROVE  IInv'
<1> USE DEF IInv
<1>1. /\ op \in Ops /\ op # Idle /\ op.pc = "copy"
      /\ UNCHANGED <<settings, listener, persisted, current, busy, unsettled, denied, exits, faults>>
  BY OpIsIdle DEF CopyPrevious, At
<1>2. /\ op' \in Ops /\ op' # Idle /\ op'.kind = op.kind /\ op'.pc = "replace" /\ op'.new = op.new
      /\ op'.old = op.old /\ op'.fresh = (Published = None)
  <2> DEFINE fresh == Confirmed = None
  <2>1. op' = [op EXCEPT !.pc = "replace", !.fresh = fresh] /\ fresh \in BOOLEAN
    BY DEF CopyPrevious
  <2>2. fresh = (Published = None)
    BY DEF Confirmed
  <2> HIDE DEF fresh
  <2> QED
    BY <1>1, <2>1, <2>2, OpCopied
<1>3. TypeOK'
  BY <1>1, <1>2, PublishedType DEF CopyPrevious, Confirmed, TypeOK
<1>4. Started' /\ Changing' /\ Listening'
  BY <1>1, <1>2 DEF Started, Changing, Listening, Serves
<1>5. Saved' /\ Agreed' /\ Settled'
  BY <1>1, <1>2 DEF Saved, Agreed, Base, Settled, Replaced
<1>6. CopyKept'
  <2>1. Valid(current) => previous' = current
    BY SpoiltIsNot DEF CopyPrevious, Confirmed, Published, Valid
  <2>2. Published = None => previous' = previous /\ ~Valid(previous)
    BY PublishedType DEF CopyPrevious, Confirmed
  <2> QED
    BY <1>1, <1>2, <2>1, <2>2 DEF CopyKept, At, Valid
<1> QED
  BY <1>3, <1>4, <1>5, <1>6

LEMMA ReplaceCurrentInv ==
  ASSUME IInv, ReplaceCurrent
  PROVE  IInv'
<1> USE DEF IInv
<1>1. /\ op \in Ops /\ op # Idle /\ op.pc = "replace" /\ op.new \in Settings
      /\ UNCHANGED <<settings, listener, persisted, previous, busy, unsettled, denied, exits, faults>>
      /\ current' = Config(op.new)
  BY OpIsIdle DEF ReplaceCurrent, At, Ops
<1>2. /\ op' \in Ops /\ op' # Idle /\ op'.kind = op.kind /\ op'.new = op.new /\ op'.old = op.old
      /\ op'.pc = IF op.fresh THEN "unlink" ELSE "persist"
  <2> DEFINE pc == IF op.fresh THEN "unlink" ELSE "persist"
  <2>1. op' = [op EXCEPT !.pc = pc] /\ pc \in {"replace", "unlink", "persist", "restore"}
    BY DEF ReplaceCurrent
  <2> HIDE DEF pc
  <2>2. /\ op' \in Ops /\ op' # Idle /\ op'.kind = op.kind /\ op'.new = op.new /\ op'.old = op.old
        /\ op'.pc = pc
    BY <1>1, <2>1, OpGoto
  <2> QED
    BY <2>2 DEF pc
<1>3. TypeOK'
  BY <1>1, <1>2, ConfigType DEF TypeOK
<1>4. Started' /\ Changing' /\ Listening'
  BY <1>1, <1>2 DEF Started, Changing, Listening, Serves
<1>5. Saved' /\ Agreed' /\ Settled'
  BY <1>1, <1>2 DEF Saved, Agreed, Base, Settled, Replaced
<1>6. CopyKept'
  BY <1>1, <1>2 DEF CopyKept, At, Valid
<1> QED
  BY <1>3, <1>4, <1>5, <1>6

LEMMA UnlinkPreviousInv ==
  ASSUME IInv, UnlinkPrevious
  PROVE  IInv'
<1> USE DEF IInv
<1>1. /\ op \in Ops /\ op # Idle /\ op.pc = "unlink" /\ previous' = None
      /\ UNCHANGED <<settings, listener, persisted, current, busy, unsettled, denied, exits, faults>>
  BY OpIsIdle DEF UnlinkPrevious, At
<1>2. /\ op' \in Ops /\ op' # Idle /\ op'.kind = op.kind /\ op'.new = op.new /\ op'.old = op.old
      /\ op'.pc = "persist"
  BY <1>1, OpGoto DEF UnlinkPrevious
<1>3. TypeOK'
  BY <1>1, <1>2 DEF TypeOK
<1>4. Started' /\ Changing' /\ Listening'
  BY <1>1, <1>2 DEF Started, Changing, Listening, Serves
<1>5. Saved' /\ Agreed' /\ Settled'
  BY <1>1, <1>2 DEF Saved, Agreed, Base, Settled, Replaced
<1>6. CopyKept'
  BY <1>1, <1>2 DEF CopyKept, At
<1> QED
  BY <1>3, <1>4, <1>5, <1>6

LEMMA PersistInv ==
  ASSUME IInv, Persist
  PROVE  IInv'
<1> USE DEF IInv
<1>1. /\ op \in Ops /\ op # Idle /\ op.pc = "persist" /\ op.new \in Settings /\ op.new # None
      /\ settings # None /\ settings \in Settings
      /\ UNCHANGED <<listener, current, previous, busy, denied, exits, faults>>
      /\ op' = Idle /\ settings' = op.new /\ persisted' = op.new /\ unsettled' = ~Valid(current)
  BY OpIsIdle, NoneAssumption DEF Persist, At, Ops, Started, TypeOK
<1>2. op.kind \in {"start", "folder", "manual", "automatic"}
  BY <1>1 DEF Ops
<1>3. op.new.folder /\ Effective(op.new) = Effective(settings)
  BY <1>1, <1>2, FolderChosen DEF Changing
<1>4. TypeOK'
  BY <1>1 DEF TypeOK
<1>5. Started' /\ Changing' /\ Listening'
  BY <1>1, <1>3 DEF Started, Changing, Listening, Serves
<1>6. Saved' /\ Agreed'
  BY <1>1, <1>3 DEF Saved, Agreed, Base, Idle
<1>7. Settled' /\ CopyKept'
  BY <1>1, SpoiltIsNot DEF Settled, CopyKept, Replaced, At
<1> QED
  BY <1>4, <1>5, <1>6, <1>7

-----------------------------------------------------------------------------
(* What fails, and the way back.                                           *)

LEMMA StepFailsInv ==
  ASSUME IInv, StepFails
  PROVE  IInv'
<1> USE DEF IInv, files
<1>1. /\ op \in Ops /\ op # Idle /\ op.pc # "restore" /\ settings # None
      /\ UNCHANGED <<persisted, current, previous, busy, denied, exits>>
      /\ unsettled' = (unsettled \/ Replaced)
  BY OpIsIdle DEF StepFails, Started
<1>2. faults' \in 0 .. MaxFaults /\ unsettled' \in BOOLEAN
  BY BoundAssumption DEF StepFails, TypeOK, Replaced
<1>3. CASE op.kind = "folder"
  <2>1. op' = Idle /\ UNCHANGED <<settings, listener>>
    BY <1>3 DEF StepFails
  <2>2. TypeOK' /\ Started' /\ Changing' /\ Listening'
    BY <1>1, <1>2, <2>1 DEF TypeOK, Started, Changing, Listening, Serves
  <2>3. Saved' /\ Agreed'
    BY <1>1, <1>3, <2>1 DEF Saved, Agreed, Base
  <2>4. Settled' /\ CopyKept'
    BY <1>1, <2>1 DEF Settled, CopyKept, Replaced, At
  <2> QED
    BY <2>2, <2>3, <2>4
<1>4. CASE op.kind = "start"
  <2>1. op' = Idle /\ settings' = None /\ listener' = None
    BY <1>4 DEF StepFails
  <2>2. TypeOK' /\ Started' /\ Changing' /\ Listening'
    BY <1>1, <1>2, <2>1 DEF TypeOK, Started, Changing, Listening
  <2>3. Saved' /\ Agreed'
    BY <1>1, <2>1 DEF Saved, Agreed, Base
  <2>4. Settled' /\ CopyKept'
    BY <1>1, <2>1 DEF Settled, CopyKept, Replaced, At
  <2> QED
    BY <2>2, <2>3, <2>4
<1>5. CASE op.kind \in {"manual", "automatic"}
  <2>1. op' = [op EXCEPT !.pc = "restore"] /\ settings' = op.old /\ listener' = listener
    BY <1>5 DEF StepFails
  <2>2. /\ op' \in Ops /\ op' # Idle /\ op'.kind = op.kind /\ op'.new = op.new /\ op'.old = op.old
        /\ op'.pc = "restore"
    BY <1>1, <2>1, OpGoto
  <2>3. op.old # None /\ op.old \in Settings /\ op.old.folder /\ op.new.folder
    BY <1>1, <1>5 DEF Changing, Ops
  <2>4. TypeOK' /\ Started' /\ Listening'
    BY <1>1, <1>2, <2>1, <2>2, <2>3 DEF TypeOK, Started, Listening
  <2>5. Changing'
    BY <1>1, <1>5, <2>1, <2>2, <2>3 DEF Changing
  <2>6. Saved' /\ Agreed'
    BY <1>1, <1>5, <2>1, <2>2, <2>3 DEF Saved, Agreed, Base
  <2>7. Settled' /\ CopyKept'
    BY <1>1, <2>2 DEF Settled, CopyKept, Replaced, At
  <2> QED
    BY <2>4, <2>5, <2>6, <2>7
<1>6. op.kind \in {"start", "folder", "manual", "automatic"}
  BY <1>1 DEF Ops
<1> QED
  BY <1>3, <1>4, <1>5, <1>6

LEMMA RestoreInv ==
  ASSUME IInv, Restore
  PROVE  IInv'
<1> USE DEF IInv, files
<1>1. /\ op \in Ops /\ op # Idle /\ op.pc = "restore" /\ op' = Idle
      /\ UNCHANGED <<settings, persisted, current, previous, unsettled, exits>>
  BY OpIsIdle DEF Restore, At
<1>2. /\ op.kind \in {"manual", "automatic"} /\ settings = op.old /\ op.old.folder
      /\ op.old \in Settings /\ settings # None /\ listener # None
  BY <1>1 DEF Changing, Started, Ops
<1>3. Effective(op.old) \in Connections
  BY <1>2, EffectiveType
<1>4. /\ listener' \in [port : Ports, token : Tokens, live : BOOLEAN] /\ listener' # None
      /\ busy' \subseteq Ports /\ faults' \in 0 .. MaxFaults /\ denied' \in BOOLEAN
      /\ ~denied' => listener' = Live(Effective(op.old))
  <2>1. CASE Switched(Effective(op.old)) /\ UNCHANGED faults
    BY <1>3, <2>1, LiveType DEF Switched, TypeOK
  <2>2. CASE SwitchFails(Effective(op.old), op.old) /\ denied' = TRUE
    BY <1>2, <1>3, <2>2, SwitchFailsType
  <2> QED
    BY <2>1, <2>2 DEF Restore
<1>5. TypeOK' /\ Started' /\ Changing' /\ Listening'
  BY <1>1, <1>2, <1>4 DEF TypeOK, Started, Changing, Listening, Serves
<1>6. Saved' /\ Agreed'
  BY <1>1, <1>2 DEF Saved, Agreed, Base
<1>7. Settled' /\ CopyKept'
  BY <1>1 DEF Settled, CopyKept, Replaced, At
<1> QED
  BY <1>5, <1>6, <1>7

LEMMA ExitInv ==
  ASSUME IInv, Exit
  PROVE  IInv'
<1> USE DEF IInv, files
<1>1. /\ UNCHANGED <<persisted, current, previous, busy, denied, faults>>
      /\ unsettled' = (unsettled \/ Replaced)
      /\ op' = Idle /\ settings' = None /\ listener' = None /\ exits' \in 0 .. MaxExits
  BY BoundAssumption DEF Exit, TypeOK
<1>2. TypeOK' /\ Started' /\ Changing' /\ Listening'
  BY <1>1 DEF TypeOK, Started, Changing, Listening, Replaced
<1>3. Saved' /\ Agreed'
  BY <1>1 DEF Saved, Agreed, Base
<1>4. Settled' /\ CopyKept'
  BY <1>1 DEF Settled, CopyKept, Replaced, At
<1> QED
  BY <1>2, <1>3, <1>4

LEMMA SpoilInv ==
  ASSUME IInv, Spoil
  PROVE  IInv'
<1> USE DEF IInv
<1>1. /\ UNCHANGED <<settings, listener, persisted, op, busy, denied, exits>>
      /\ unsettled' = TRUE /\ faults' \in 0 .. MaxFaults
      /\ \/ current' = Spoilt /\ previous' = previous
         \/ previous' = Spoilt /\ current' = current
  BY BoundAssumption DEF Spoil, TypeOK
<1>2. TypeOK' /\ Started' /\ Changing' /\ Listening'
  BY <1>1 DEF TypeOK, Started, Changing, Listening, Serves
<1>3. Saved' /\ Agreed' /\ Settled'
  BY <1>1 DEF Saved, Agreed, Base, Settled, Replaced
<1>4. CopyKept'
  BY <1>1, SpoiltIsNot DEF CopyKept, At, Valid
<1> QED
  BY <1>2, <1>3, <1>4

LEMMA BusyInv ==
  ASSUME IInv, NEW p \in Ports, Occupy(p) \/ Vacate(p)
  PROVE  IInv'
<1> USE DEF IInv, files
<1>1. /\ UNCHANGED <<settings, listener, persisted, current, previous, op, unsettled, denied, exits,
                     faults>>
      /\ busy' \subseteq Ports
  BY DEF Occupy, Vacate, TypeOK
<1> QED
  BY <1>1 DEF TypeOK, Started, Changing, Listening, Serves, Saved, Agreed, Base, Settled, CopyKept,
              Replaced, At

-----------------------------------------------------------------------------
(* The theorems.                                                           *)

LEMMA StepInv == IInv /\ [Next]_vars => IInv'
<1> SUFFICES ASSUME IInv, [Next]_vars PROVE IInv'
  OBVIOUS
<1>1. CASE UNCHANGED vars
  BY <1>1 DEF vars, IInv, TypeOK, Started, Changing, Listening, Serves, Saved, Agreed, Base, Settled,
              CopyKept, Replaced, At
<1>2. ASSUME NEW token \in Generated, NEW p \in Ports, StartFresh(token, p) PROVE IInv'
  BY <1>2, StartFreshInv
<1>3. CASE StartSaved
  BY <1>3, StartSavedInv
<1>4. ASSUME NEW p \in Ports, StartElsewhere(p) PROVE IInv'
  BY <1>4, StartElsewhereInv
<1>5. CASE SelectFolder
  BY <1>5, SelectFolderInv
<1>6. ASSUME NEW p \in Ports, NEW token \in {None, Unprotected}, SetManual(p, token) PROVE IInv'
  BY <1>6, SetManualInv
<1>7. ASSUME NEW p \in Ports, NEW token \in {None, Unprotected}, ManualRefused(p, token) PROVE IInv'
  BY <1>7, ManualRefusedInv
<1>8. CASE UseAutomatic
  BY <1>8, UseAutomaticInv
<1>9. ASSUME NEW p \in Ports, UseAutomaticElsewhere(p) PROVE IInv'
  BY <1>9, UseAutomaticElsewhereInv
<1>10. CASE Dismiss
  BY <1>10, DismissInv
<1>11. CASE CopyPrevious \/ ReplaceCurrent \/ UnlinkPrevious \/ Persist
  BY <1>11, CopyPreviousInv, ReplaceCurrentInv, UnlinkPreviousInv, PersistInv
<1>12. CASE StepFails \/ Restore \/ Exit \/ Spoil
  BY <1>12, StepFailsInv, RestoreInv, ExitInv, SpoilInv
<1>13. ASSUME NEW p \in Ports, Occupy(p) \/ Vacate(p) PROVE IInv'
  BY <1>13, BusyInv
<1> QED
  BY <1>1, <1>2, <1>3, <1>4, <1>5, <1>6, <1>7, <1>8, <1>9, <1>10, <1>11, <1>12, <1>13 DEF Next

\* What holds between the settings, the listener, the change in progress and the
\* files: in every state, whatever fails or ends in between. (connection.py)
THEOREM Inductive == Spec => []IInv
BY InitInv, StepInv, PTL DEF Spec

\* Every variable has its type. (connection.py:56, connection_config.py)
THEOREM TypeCorrect == Spec => []TypeOK
<1>1. IInv => TypeOK
  BY DEF IInv
<1> QED
  BY <1>1, Inductive, PTL

\* Between operations the listener is the one the settings describe.
\* (connection.py:138, _restore_connection)
THEOREM ListenerFollows == Spec => []ListenerIsEffective
<1>1. IInv => ListenerIsEffective
  BY DEF IInv, Listening, ListenerIsEffective, AtRest
<1> QED
  BY <1>1, Inductive, PTL

\* With whatever override, MTA dials the connection that is served or none.
\* (connection.py:144, 93; connection_config.lua:207)
THEOREM MTADialsTheListener == Spec => []DialledIsServed
<1>1. ASSUME IInv PROVE DialledIsServed
  <2> SUFFICES ASSUME AtRest, settings.folder, ~unsettled, ~denied,
                      NEW override \in Connections \cup {None}, Dialled(override) # None
               PROVE  Serves(Dialled(override))
    BY DEF DialledIsServed
  <2>1. settings \in Settings /\ settings # None /\ op = Idle /\ Serves(Effective(settings))
    BY <1>1 DEF AtRest, IInv, TypeOK, Listening
  <2>2. persisted # None /\ Config(persisted) = Config(settings) /\ current = Config(persisted)
    BY <1>1, <2>1 DEF IInv, Agreed, Base, Settled, Replaced
  <2>3. Published = Config(settings)
    BY <2>1, <2>2, ConfigType DEF Published
  <2>4. Effective([automatic |-> Published.automatic, manual |-> Published.companion])
          = Effective(settings)
    BY <2>1, <2>3 DEF Effective, Config
  <2>5. Dialled(override) = Effective(settings)
    BY <2>4 DEF Dialled
  <2> QED
    BY <2>1, <2>5
<1> QED
  BY <1>1, Inductive, PTL

\* No step of the add-on takes away the last configuration MTA can read.
\* (connection_config.py:212)
THEOREM ConfigurationStaysReadable == Spec => StaysReadable
<1>1. ASSUME IInv, [Next]_vars, Published # None PROVE Published' # None \/ Spoil
  <2> USE DEF IInv
  <2>1. Published # None <=> Valid(current) \/ Valid(previous)
    BY <1>1, PublishedType
  <2>2. IInv'
    BY <1>1, StepInv
  <2>3. Published' # None <=> Valid(current)' \/ Valid(previous)'
    <3>1. TypeOK'
      BY <2>2
    <3> QED
      BY <3>1, NoneAssumption DEF TypeOK, Published, Valid
  <2>4. CASE CopyPrevious
    <3>1. current' = current /\ (previous' = previous \/ Valid(previous)')
      BY <1>1, <2>4, PublishedType, SpoiltIsNot DEF CopyPrevious, Confirmed, Published, Valid
    <3> QED
      BY <1>1, <2>1, <2>3, <3>1 DEF Valid
  <2>5. CASE ReplaceCurrent
    <3>1. op.new \in Settings
      BY <1>1, <2>5, OpIsIdle DEF ReplaceCurrent, At, Ops
    <3> QED
      BY <2>3, <2>5, <3>1, ConfigType DEF ReplaceCurrent, Valid
  <2>6. CASE UnlinkPrevious
    <3>1. ~Valid(previous) /\ current' = current
      BY <1>1, <2>6 DEF UnlinkPrevious, CopyKept
    <3> QED
      BY <1>1, <2>1, <2>3, <3>1 DEF Valid
  <2>7. CASE UNCHANGED <<current, previous>>
    BY <1>1, <2>1, <2>3, <2>7 DEF Valid
  <2> QED
    BY <1>1, <2>4, <2>5, <2>6, <2>7 DEF Next, vars, files, StartFresh, StartSaved, StartElsewhere,
       SelectFolder, SetManual, ManualRefused, UseAutomatic, UseAutomaticElsewhere, Dismiss, Persist,
       StepFails, Restore, Exit, Occupy, Vacate
<1> QED
  BY <1>1, Inductive, PTL DEF Spec, StaysReadable

\* The configuration that was replaced is the last-known-good copy from the same
\* moment on. (connection_config.py:232)
THEOREM CopyIsTheReplaced == Spec => OneGenerationBack
<1>1. ASSUME IInv, [Next]_vars, Valid(current), current' \notin {current, Spoilt}
      PROVE  previous' \in {current, Spoilt}
  <2>1. CASE ReplaceCurrent
    BY <1>1, <2>1 DEF IInv, CopyKept, ReplaceCurrent
  <2>2. CASE Spoil
    BY <1>1, <2>2 DEF Spoil
  <2>3. CASE UNCHANGED current
    BY <1>1, <2>3
  <2> QED
    BY <1>1, <2>1, <2>2, <2>3 DEF Next, vars, files, StartFresh, StartSaved, StartElsewhere,
       SelectFolder, SetManual, ManualRefused, UseAutomatic, UseAutomaticElsewhere, Dismiss,
       CopyPrevious, UnlinkPrevious, Persist, StepFails, Restore, Exit, Occupy, Vacate
<1> QED
  BY <1>1, Inductive, PTL DEF Spec, OneGenerationBack

=============================================================================

------------------------------ MODULE ProcessProofs ------------------------------
(***************************************************************************)
(* What holds of the daemon's process, of the greeter session's launcher   *)
(* and of the configuration for any number of accounts, signals, runs,     *)
(* variables, values and changes.                                          *)
(***************************************************************************)
EXTENDS DaemonProcess, StartUp, Configuration, TLAPS

(* What provisioning has done so far.                                      *)
Making == {"make", "own", "restrict"}
Serving == {"initialize", "event loop", "quit"}

Provisioned ==
  /\ life \in Making \cup {"construct", "off"} \cup Serving
  /\ account \in Nat /\ lastId \in Nat /\ (life # "off" => account # NoId)
  /\ owner \in [Paths -> Nat] /\ restricted \subseteq {"dbus"}
  /\ life \in Making => /\ made \in 0..2 /\ (made = 2 => restricted = {"dbus"})
                        /\ \A i \in 1..made : owner[Directories[i]] = account
  /\ life = "restrict" => owner[Path] = account
  /\ life \in {"construct"} \cup Serving =>
       restricted = {"dbus"} /\ \A p \in Paths : owner[p] = account

(* No signal has come while one would have killed the process.             *)
Kept ==
  /\ signals \in Nat /\ unread \in Nat
  /\ life \in Making \cup {"construct"} => signals = 0
  /\ SigtermIsKept

(* The directories, one by one.                                            *)
LEMMA ThreeDirectories ==
  /\ Len(Directories) = 3 /\ Paths = {"state", "dbus", "runtime"}
  /\ Directories[1] = "state" /\ Directories[2] = "dbus" /\ Directories[3] = "runtime"
<1>1. DOMAIN Directories = {1, 2, 3}
  BY DEF Directories
<1> QED
  BY <1>1 DEF Directories, Paths

(* Every directory that is dealt with belongs to the account.              *)
LEMMA ProvisionedStep ==
  ASSUME Provisioned, [ProcessNext]_processVars
  PROVE  Provisioned'
<1> USE ThreeDirectories DEF Provisioned, Making, Serving, NoId
<1>1. CASE CreateGreeterUser
  BY <1>1 DEF CreateGreeterUser
<1>2. CASE MakeDirectory
  <2>1. /\ life = "make" /\ life' = "own" /\ UNCHANGED <<account, lastId, restricted, made>>
        /\ owner' = [owner EXCEPT ![Path] = IF owner[Path] = NoId THEN Root ELSE owner[Path]]
    BY <1>2 DEF MakeDirectory
  <2>2. /\ Path \in Paths /\ \A i \in 1..made : Directories[i] \in Paths \ {Path}
        /\ Root \in Nat
    BY <2>1, DaemonAssumption DEF Path, Root
  <2> QED
    BY <2>1, <2>2
<1>3. CASE OwnDirectory
  <2>1. /\ life = "own" /\ life' = "restrict" /\ UNCHANGED <<account, lastId, restricted, made>>
        /\ owner' = [owner EXCEPT ![Path] = account]
    BY <1>3 DEF OwnDirectory
  <2>2. /\ Path \in Paths /\ \A i \in 1..made : Directories[i] \in Paths \ {Path}
        /\ Path' = Path
    BY <2>1 DEF Path
  <2> QED
    BY <2>1, <2>2
<1>4. CASE RestrictDirectory
  <2>1. /\ life = "restrict" /\ made' = made + 1 /\ UNCHANGED <<account, lastId, owner>>
        /\ life' = IF made' = 3 THEN "construct" ELSE "make"
        /\ made = 1 => restricted' = restricted \cup {"dbus"}
        /\ made # 1 => restricted' = restricted \ {Path}
    BY <1>4 DEF RestrictDirectory, Path
  <2>2. \A i \in 1..made' : owner[Directories[i]] = account
    BY <2>1 DEF Path
  <2>3. made \in 0..2 /\ (made # 1 => Path # "dbus")
    BY <2>1 DEF Path
  <2>4. made' = 1 => restricted' \subseteq {"dbus"}
    BY <2>1, <2>3
  <2>5. made' = 2 => restricted' = {"dbus"}
    <3>1. made' = 2 => restricted' = restricted \cup {"dbus"}
      BY <2>1, <2>3
    <3> QED
      BY <3>1
  <2>6. made' = 3 => restricted' = {"dbus"} /\ \A p \in Paths : owner[p] = account
    <3> SUFFICES ASSUME made' = 3
                 PROVE  restricted' = {"dbus"} /\ \A p \in Paths : owner[p] = account
      OBVIOUS
    <3>1. made = 2 /\ 1 \in 1..made' /\ 2 \in 1..made' /\ 3 \in 1..made'
      BY <2>3, <2>1
    <3>2. owner["state"] = account /\ owner["dbus"] = account /\ owner["runtime"] = account
      BY <2>2, <3>1
    <3> QED
      BY <2>1, <2>3, <3>1, <3>2
  <2> QED
    BY <2>1, <2>2, <2>3, <2>4, <2>5, <2>6
<1>5. CASE InstallHandler \/ Initialized \/ HandleSigterm \/ Quit \/ Signal \/ Dies
  <2>1. UNCHANGED <<diskVars, made>> /\ life # "off"
    BY <1>5 DEF InstallHandler, Initialized, HandleSigterm, Quit, Signal, Dies
  <2>2. \/ life' \in {life, "off"}
        \/ life \in {"construct"} \cup Serving /\ life' \in Serving
    BY <1>5 DEF InstallHandler, Initialized, HandleSigterm, Quit, Signal, Dies
  <2> QED
    BY <2>1, <2>2 DEF diskVars, Path
<1>6. CASE Reboot \/ RemoveAccount
  <2>1. life = "off" /\ UNCHANGED <<life, lastId, restricted>> /\ account' \in {account, 0}
    BY <1>6 DEF Reboot, RemoveAccount
  <2>2. owner' = owner \/ owner' = [owner EXCEPT !["runtime"] = 0]
    BY <1>6 DEF Reboot, RemoveAccount
  <2>3. owner' \in [Paths -> Nat]
    <3>1. CASE owner' = owner
      BY <3>1
    <3>2. CASE owner' = [owner EXCEPT !["runtime"] = 0]
      BY <3>2
    <3> QED
      BY <2>2, <3>1, <3>2
  <2> QED
    BY <2>1, <2>3
<1>7. CASE UNCHANGED processVars
  BY <1>7 DEF processVars, diskVars, Path
<1> QED
  BY <1>1, <1>2, <1>3, <1>4, <1>5, <1>6, <1>7 DEF ProcessNext, ProcessSteps, Provision

(* A daemon that serves runs its greeters in directories of their account. *)
THEOREM DirectoriesAreOwned == ProcessSpec => []ReadyMeansOwned
<1>1. ProcessInit => Provisioned
  BY DEF ProcessInit, Provisioned, Making, Serving, NoId
<1>2. Provisioned => ReadyMeansOwned
  BY DEF Provisioned, ReadyMeansOwned, Serving
<1> QED
  BY <1>1, <1>2, ProvisionedStep, PTL DEF ProcessSpec

(* Numbers of signals.                                                     *)
LEMMA OneMore == \A n \in Nat : n + 1 \in Nat /\ n + 1 > 0
  OBVIOUS

LEMMA OneLess == \A n \in Nat : n > 0 => n - 1 \in Nat
  OBVIOUS

(* A daemon that was told to end reads it, early or late.                  *)
THEOREM SigtermsAreKept == ProcessSpec => []SigtermIsKept
<1>1. ProcessInit => Kept
  BY DEF ProcessInit, Kept, SigtermIsKept, Making
<1>2. Kept /\ [ProcessNext]_processVars => Kept'
  <2> SUFFICES ASSUME Kept, [ProcessNext]_processVars
               PROVE  Kept'
    OBVIOUS
  <2> USE DEF Kept, SigtermIsKept, Making
  <2>1. CASE CreateGreeterUser
    BY <2>1 DEF CreateGreeterUser
  <2>2. CASE Provision
    BY <2>2 DEF Provision, MakeDirectory, OwnDirectory, RestrictDirectory, signalVars
  <2>3. CASE InstallHandler
    BY <2>3 DEF InstallHandler
  <2>4. CASE Initialized
    BY <2>4 DEF Initialized, signalVars
  <2>5. CASE Quit \/ Dies
    BY <2>5 DEF Quit, Dies, signalVars
  <2>6. CASE HandleSigterm
    <3>1. unread - 1 \in Nat
      BY <2>6, OneLess DEF HandleSigterm
    <3> QED
      BY <2>6, <3>1, Zenon DEF HandleSigterm
  <2>7. CASE Signal
    <3>1. signals + 1 \in Nat /\ unread + 1 \in Nat /\ unread + 1 > 0
      BY OneMore
    <3> QED
      BY <2>7, <3>1, Zenon DEF Signal
  <2>8. CASE Reboot \/ RemoveAccount
    BY <2>8 DEF Reboot, RemoveAccount, signalVars
  <2>9. CASE UNCHANGED processVars
    BY <2>9 DEF processVars, signalVars
  <2> QED
    BY <2>1, <2>2, <2>3, <2>4, <2>5, <2>6, <2>7, <2>8, <2>9 DEF ProcessNext, ProcessSteps
<1>3. Kept => SigtermIsKept
  BY DEF Kept
<1> QED
  BY <1>1, <1>2, <1>3, PTL DEF ProcessSpec

-------------------------------------------------------------------------------
(* The user's systemd has nothing of an earlier run when units are         *)
(* started, and a component that was started has what it has.              *)
Early == {"drop", "update", "start unit", "start window manager"}

Started ==
  /\ run \in Nat /\ since \in [Children -> Nat]
  /\ up \subseteq Children /\ \A c \in Children : since[c] <= run

Clean ==
  /\ Started /\ manager \in [SessionVars -> Nat]
  /\ phase \in Early => \A c \in up : since[c] < run
  /\ phase = "update" /\ systemd /\ ~refused => \A v \in SessionVars \ own : manager[v] = Absent
  /\ phase = "start unit" /\ ~refused => manager = OwnVariables
  /\ phase \in {"start greeter", "event loop"} /\ ~refused =>
       \A c \in up : since[c] = run => given[c] = OwnVariables

(* What is started is of this run, and the rest is what it was.            *)
LEMMA StartedNow ==
  ASSUME Started, NEW C \in SUBSET Children, NEW env, Start(C, env)
  PROVE  /\ up' \subseteq Children /\ since' \in [Children -> Nat]
         /\ \A c \in Children : since'[c] <= run
         /\ \A c \in C : since'[c] = run /\ given'[c] = env
         /\ \A c \in up' \ C : c \in up /\ since'[c] = since[c] /\ given'[c] = given[c]
<1> USE DEF Start
<1>1. up' = up \cup C /\ up \subseteq Children /\ C \subseteq Children
  BY DEF Started, Start
<1>2. \A c \in Children : /\ since'[c] = IF c \in C THEN run ELSE since[c]
                          /\ given'[c] = IF c \in C THEN env ELSE given[c]
  BY DEF Start
<1>3. run \in Nat /\ run <= run /\ since \in [Children -> Nat] /\ \A c \in Children : since[c] <= run
  BY DEF Started
<1>4. since' = [c \in Children |-> IF c \in C THEN run ELSE since[c]]
  BY DEF Start
<1>5. since' \in [Children -> Nat]
  BY <1>3, <1>4
<1>6. \A c \in Children : since'[c] <= run
  BY <1>2, <1>3
<1> QED
  BY <1>1, <1>2, <1>5, <1>6

(* What was started before isn't of this run.                              *)
LEMMA StartedBefore ==
  ASSUME Started, \A c \in up : since[c] < run
  PROVE  \A c \in up : since[c] # run
  BY DEF Started

(* A run drops what an earlier one has left before it starts anything.     *)
LEMMA CleanStep ==
  ASSUME Clean, [StartUpNext]_startUpVars
  PROVE  Clean'
<1> USE DEF Clean, Started, Early, Absent
<1>1. CASE StartRun
  BY <1>1 DEF StartRun, components
<1>2. CASE DropSessionVars
  <2>1. /\ phase = "drop" /\ phase' = "update" /\ UNCHANGED <<run, own, up, since>>
    BY <1>2 DEF DropSessionVars, components
  <2>2. manager' \in [SessionVars -> Nat]
    BY <1>2 DEF DropSessionVars, Refused
  <2>3. systemd' /\ ~refused' => \A v \in SessionVars \ own : manager'[v] = 0
    <3>1. CASE systemd /\ manager' = [v \in SessionVars |-> IF v \in own THEN manager[v] ELSE 0]
      BY <3>1
    <3>2. CASE Refused
      BY <1>2, <3>2, Zenon DEF DropSessionVars, Refused
    <3> QED
      BY <1>2, <3>1, <3>2 DEF DropSessionVars
  <2> QED
    BY <2>1, <2>2, <2>3
<1>3. CASE UpdateEnvironment
  BY <1>3 DEF UpdateEnvironment, Refused, OwnVariables, components
<1>4. CASE StartUnit
  <2>1. PICK C \in SUBSET (Children \ up) : Start(C, manager)
    BY <1>4 DEF StartUnit
  <2>2. /\ phase = "start unit" /\ phase' = "event loop"
        /\ UNCHANGED <<run, manager, refused, OwnVariables>>
    BY <1>4 DEF StartUnit, OwnVariables
  <2>3. /\ up' \subseteq Children /\ since' \in [Children -> Nat]
        /\ \A c \in Children : since'[c] <= run
        /\ \A c \in C : since'[c] = run /\ given'[c] = manager
        /\ \A c \in up' \ C : c \in up /\ since'[c] = since[c] /\ given'[c] = given[c]
    BY <2>1, <2>2, StartedNow, Zenon DEF Clean
  <2>5. \A c \in up : since[c] # run
    BY <2>2, StartedBefore, Zenon
  <2>4. ~refused => \A c \in up' : since'[c] = run => given'[c] = OwnVariables
    BY <2>2, <2>3, <2>5, Zenon
  <2> QED
    BY <2>2, <2>3, <2>4
<1>5. CASE StartWindowManager
  <2>1. PICK C \in SUBSET {"sonic-win"} : Start(C, OwnVariables)
    BY <1>5 DEF StartWindowManager
  <2>2. /\ phase = "start window manager" /\ phase' = "start greeter" /\ C \subseteq Children
        /\ UNCHANGED <<run, manager, refused, OwnVariables>>
    BY <1>5, <2>1 DEF StartWindowManager, OwnVariables, Children
  <2>3. /\ up' \subseteq Children /\ since' \in [Children -> Nat]
        /\ \A c \in Children : since'[c] <= run
        /\ \A c \in C : since'[c] = run /\ given'[c] = OwnVariables
        /\ \A c \in up' \ C : c \in up /\ since'[c] = since[c] /\ given'[c] = given[c]
    BY <2>1, <2>2, StartedNow, Zenon DEF Clean
  <2>5. \A c \in up : since[c] # run
    BY <2>2, StartedBefore, Zenon
  <2>4. ~refused => \A c \in up' : since'[c] = run => given'[c] = OwnVariables
    BY <2>2, <2>3, <2>5, Zenon
  <2> QED
    BY <2>2, <2>3, <2>4
<1>6. CASE StartGreeter
  <2>1. PICK C \in SUBSET {"soniclogin-greeter", "soniclogin-wallpaper"} : Start(C, OwnVariables)
    BY <1>6 DEF StartGreeter
  <2>2. /\ phase = "start greeter" /\ phase' = "event loop" /\ C \subseteq Children
        /\ UNCHANGED <<run, manager, refused, OwnVariables>>
    BY <1>6, <2>1 DEF StartGreeter, OwnVariables, Children
  <2>3. /\ up' \subseteq Children /\ since' \in [Children -> Nat]
        /\ \A c \in Children : since'[c] <= run
        /\ \A c \in C : since'[c] = run /\ given'[c] = OwnVariables
        /\ \A c \in up' \ C : c \in up /\ since'[c] = since[c] /\ given'[c] = given[c]
    BY <2>1, <2>2, StartedNow, Zenon DEF Clean
  <2>4. ~refused => \A c \in up' : since'[c] = run => given'[c] = OwnVariables
    BY <2>2, <2>3, Zenon
  <2> QED
    BY <2>2, <2>3, <2>4
<1>7. CASE Sigterm
  BY <1>7 DEF Sigterm, components
<1>8. CASE StopUnit
  BY <1>8 DEF StopUnit
<1>9. CASE Killed
  BY <1>9 DEF Killed, components
<1>10. CASE ComponentEnds
  BY <1>10 DEF ComponentEnds, OwnVariables
<1>11. CASE UNCHANGED startUpVars
  BY <1>11 DEF startUpVars, components, OwnVariables
<1> QED
  BY <1>1, <1>2, <1>3, <1>4, <1>5, <1>6, <1>7, <1>8, <1>9, <1>10, <1>11 DEF StartUpNext

(* Components start with the variables of their own run.                   *)
THEOREM NothingIsLeftOver == StartUpSpec => []EnvironmentIsOfThisRun
<1>1. StartUpInit => Clean
  BY DEF StartUpInit, Clean, Started, Early, Nothing, Absent, Children
<1>2. Clean => EnvironmentIsOfThisRun
  BY DEF Clean, EnvironmentIsOfThisRun
<1> QED
  BY <1>1, <1>2, CleanStep, PTL DEF StartUpSpec

-------------------------------------------------------------------------------
(* What load() has seen isn't newer than the last change; if nothing is    *)
(* newer than what it has seen, it has read what there is.                 *)
Seen == \A l \in LayerNames : stamp[l] <= remembered

Read ==
  /\ clock \in Nat /\ remembered \in 0..clock /\ stamp \in [LayerNames -> 0..clock]
  /\ ~dirty => Seen
  /\ orderly /\ Seen /\ Speaking # {} => value = Assigned(Default)

(* The layers, one by one.                                                 *)
LEMMA ThreeLayers == DOMAIN Layers = {1, 2, 3} /\ LayerNames = {"sys", "conf", "main"}
<1>1. DOMAIN Layers = {1, 2, 3}
  BY DEF Layers
<1> QED
  BY <1>1 DEF Layers, LayerNames

(* The latest time is that of a layer, and no layer has a later one.       *)
LEMMA Latest ==
  ASSUME Read
  PROVE  /\ LatestModificationTime \in {stamp[l] : l \in LayerNames}
         /\ \A l \in LayerNames : stamp[l] <= LatestModificationTime
<1> DEFINE T == {stamp[l] : l \in LayerNames}
<1>1. \E t \in T : \A l \in LayerNames : stamp[l] <= t
  BY ThreeLayers DEF Read
<1> QED
  BY <1>1 DEF LatestModificationTime

(* load() reads whatever is newer than what was read before.               *)
LEMMA ReadStep ==
  ASSUME Read, [ConfigurationNext]_configurationVars
  PROVE  Read'
<1>1. CASE \E l \in LayerNames : Change(l)
  <2>1. PICK l \in LayerNames : Change(l)
    BY <1>1
  <2>2. /\ clock' \in {clock, clock + 1} /\ stamp' = [stamp EXCEPT ![l] = clock']
        /\ UNCHANGED remembered
    BY <2>1 DEF Change
  <2>3. clock' \in Nat /\ remembered' \in 0..clock' /\ stamp' \in [LayerNames -> 0..clock']
    BY <2>2 DEF Read
  <2>4. dirty' /\ (orderly' => clock' > clock)
    BY <2>1 DEF Change
  <2>5. clock' > clock => ~Seen'
    BY <2>2 DEF Read, Seen
  <2> QED
    BY <2>3, <2>4, <2>5, Zenon DEF Read
<1>2. CASE PutBack
  <2>1. PICK t \in 0..clock - 1 : stamp' = [stamp EXCEPT !["main"] = t]
    BY <1>2 DEF PutBack
  <2>2. UNCHANGED <<clock, remembered>>
    BY <1>2 DEF PutBack
  <2>3. clock' \in Nat /\ remembered' \in 0..clock' /\ stamp' \in [LayerNames -> 0..clock']
    <3>1. clock' \in Nat /\ remembered' \in 0..clock' /\ t \in 0..clock
      BY <2>2 DEF Read
    <3>2. stamp \in [LayerNames -> 0..clock]
      BY DEF Read
    <3> QED
      BY <2>1, <2>2, <3>1, <3>2
  <2>4. dirty' /\ ~orderly'
    BY <1>2 DEF PutBack
  <2> QED
    BY <2>3, <2>4, Zenon DEF Read
<1>3. CASE Load
  <2>1. UNCHANGED <<says, stamp, clock, orderly>>
    BY <1>3 DEF Load, fileState
  <2>2. CASE LatestModificationTime <= remembered
    <3>1. UNCHANGED <<value, remembered>>
      BY <1>3, <2>2 DEF Load
    <3>2. Seen'
      BY <2>1, <2>2, <3>1, Latest DEF Read, Seen
    <3>3. Speaking' = Speaking /\ Assigned(Default)' = Assigned(Default) /\ (Seen' => Seen)
      BY <2>1, <3>1 DEF Speaking, Assigned, Seen
    <3> QED
      BY <2>1, <3>1, <3>2, <3>3 DEF Read
  <2>3. CASE ~(LatestModificationTime <= remembered)
    <3>1. remembered' = LatestModificationTime /\ value' = Assigned(value)
      BY <1>3, <2>3 DEF Load
    <3>2. remembered' \in 0..clock /\ Seen'
      BY <2>1, <3>1, Latest DEF Read, Seen
    <3>3. Speaking' # {} => value' = Assigned(Default)'
      BY <2>1, <3>1 DEF Speaking, Assigned
    <3> QED
      BY <2>1, <3>2, <3>3 DEF Read
  <2> QED
    BY <2>2, <2>3
<1>4. CASE UNCHANGED configurationVars
  <2>1. UNCHANGED <<says, stamp, clock, orderly, value, remembered, dirty>>
    BY <1>4 DEF configurationVars, fileState
  <2>2. Speaking' = Speaking /\ Assigned(Default)' = Assigned(Default) /\ Seen' = Seen
    BY <2>1 DEF Speaking, Assigned, Seen
  <2> QED
    BY <2>1, <2>2 DEF Read
<1> QED
  BY <1>1, <1>2, <1>3, <1>4 DEF ConfigurationNext

(* Of the files that set an entry, the one with the most influence counts. *)
THEOREM LayersHavePriority == ConfigurationSpec => []PriorityHolds
<1>1. ConfigurationInit => Read
  BY ThreeLayers DEF ConfigurationInit, Read, Seen
<1>2. Read => PriorityHolds
  BY DEF Read, PriorityHolds
<1> QED
  BY <1>1, <1>2, ReadStep, PTL DEF ConfigurationSpec

===============================================================================

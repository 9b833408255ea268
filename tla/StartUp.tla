-------------------------------- MODULE StartUp --------------------------------
(***************************************************************************)
(* start-soniclogin-x11 (src/src/frontend/startkde): the greeter's session *)
(* is prepared and its components are started, by the user's systemd or as *)
(* children; one run follows the other and the user's systemd outlives     *)
(* them all, with the environment they have left in it.                    *)
(*                                                                         *)
(* A session variable (DISPLAY, XDG_...) has the number of the run it is   *)
(* from.  Not here: what the other variables and settings are, the screen  *)
(* layout, and a SIGTERM that comes before the event loop runs: exit()     *)
(* does nothing then and the run goes on.                                  *)
(***************************************************************************)
EXTENDS Naturals

CONSTANTS
  SessionVars,  \* session variables
  MaxRuns       \* bound: runs

ASSUME RunsAssumption == MaxRuns \in Nat

Absent == 0
Nothing == [v \in SessionVars |-> Absent]
Children == {"sonic-win", "soniclogin-greeter", "soniclogin-wallpaper"}

VARIABLES
  systemd,   \* detectInitSystem()
  phase,     \* where main() is; "over" between two runs
  run,       \* number of the run
  own,       \* session variables of this process
  manager,   \* the environment of the user's systemd
  refused,   \* D-Bus has failed in this run
  up,        \* the components that run
  since,     \* of each, the run it was started in
  given      \* of each, its session variables

components == <<up, since, given>>
startUpVars == <<systemd, phase, run, own, manager, refused, components>>

StartUpInit ==
  /\ systemd \in BOOLEAN /\ phase = "over" /\ run = 0 /\ own = {}
  /\ manager = Nothing /\ refused = FALSE
  /\ up = {} /\ since = [c \in Children |-> 0] /\ given = [c \in Children |-> Nothing]

OwnVariables == [v \in SessionVars |-> IF v \in own THEN run ELSE Absent]

-------------------------------------------------------------------------------
(* main() up to syncDBusEnvironment(): its own environment is set up, and  *)
(* what fails is passed over.                                              *)
StartRun ==
  /\ phase = "over" /\ run < MaxRuns
  /\ run' = run + 1 /\ own' \in SUBSET SessionVars /\ refused' = FALSE
  /\ phase' = "drop" /\ UNCHANGED <<systemd, manager, components>>

(* Without systemd there is nothing to be asked.                           *)
Refused == refused' = (refused \/ systemd) /\ UNCHANGED manager

(* Mutant: what an earlier run has left is only dropped to be set again.   *)
DropOwnVars ==
  /\ phase = "drop" /\ phase' = "update"
  /\ \/ systemd /\ manager' = [v \in SessionVars |-> IF v \in own THEN Absent ELSE manager[v]]
        /\ UNCHANGED refused
     \/ Refused
  /\ UNCHANGED <<systemd, run, own, components>>

(* dropSessionVarsFromSystemdEnvironment(): the variables that will not be *)
(* overwritten are taken out.                                              *)
DropSessionVars ==
  /\ phase = "drop" /\ phase' = "update"
  /\ \/ systemd /\ manager' = [v \in SessionVars |-> IF v \in own THEN manager[v] ELSE Absent]
        /\ UNCHANGED refused
     \/ Refused
  /\ UNCHANGED <<systemd, run, own, components>>

(* KUpdateLaunchEnvironmentJob with all the variables of this process; its *)
(* result is not looked at.                                                *)
UpdateEnvironment ==
  /\ phase = "update" /\ phase' = IF systemd THEN "start unit" ELSE "start window manager"
  /\ \/ systemd /\ manager' = [v \in SessionVars |-> IF v \in own THEN run ELSE manager[v]]
        /\ UNCHANGED refused
     \/ Refused
  /\ UNCHANGED <<systemd, run, own, components>>

Start(C, env) ==
  /\ up' = up \cup C
  /\ since' = [c \in Children |-> IF c \in C THEN run ELSE since[c]]
  /\ given' = [c \in Children |-> IF c \in C THEN env ELSE given[c]]

(* StartUnit of soniclogin-x11.target, which is refused or starts those    *)
(* of its units that don't run, as far as they can be started.             *)
StartUnit ==
  /\ phase = "start unit" /\ phase' = "event loop"
  /\ \E C \in SUBSET (Children \ up) : Start(C, manager)
  /\ UNCHANGED <<systemd, run, own, manager, refused>>

(* Without systemd: the window manager, its layout of the screens, the     *)
(* greeter, the wallpaper; if one can't be started the next one is.        *)
StartWindowManager ==
  /\ phase = "start window manager" /\ phase' = "start greeter"
  /\ \E C \in SUBSET {"sonic-win"} : Start(C, OwnVariables)
  /\ UNCHANGED <<systemd, run, own, manager, refused>>

StartGreeter ==
  /\ phase = "start greeter" /\ phase' = "event loop"
  /\ \E C \in SUBSET {"soniclogin-greeter", "soniclogin-wallpaper"} : Start(C, OwnVariables)
  /\ UNCHANGED <<systemd, run, own, manager, refused>>

(* sigtermHandler().                                                       *)
Sigterm ==
  /\ phase = "event loop" /\ phase' = "stop unit"
  /\ UNCHANGED <<systemd, run, own, manager, refused, components>>

(* StopUnit, which may be refused; children are left to themselves.        *)
StopUnit ==
  /\ phase = "stop unit" /\ phase' = "over"
  /\ \/ systemd /\ up' = {}
     \/ UNCHANGED up
  /\ UNCHANGED <<systemd, run, own, manager, refused, since, given>>

(* The process is killed: the helper waits 5 s for it.                     *)
Killed ==
  /\ phase # "over" /\ phase' = "over"
  /\ UNCHANGED <<systemd, run, own, manager, refused, components>>

(* A component ends, with its X server or by itself.  A child of a run     *)
(* that is over ends before the next one.                                  *)
ComponentEnds ==
  /\ \E c \in up : up' = up \ {c}
  /\ UNCHANGED <<systemd, phase, run, own, manager, refused, since, given>>

StartUpNext ==
  \/ StartRun /\ (systemd \/ up = {})
  \/ DropSessionVars \/ UpdateEnvironment \/ StartUnit
  \/ StartWindowManager \/ StartGreeter \/ Sigterm \/ StopUnit \/ Killed \/ ComponentEnds

StartUpSpec == StartUpInit /\ [][StartUpNext]_startUpVars

-------------------------------------------------------------------------------
(* A component has the session variables of the run it was started in and  *)
(* none that an earlier run left with systemd, whatever became of that     *)
(* run; unless D-Bus has failed.  The code: "Those can be leftovers from   *)
(* previous sessions, which can interfere with the session we want to      *)
(* start now".                                                             *)
EnvironmentIsOfThisRun ==
  phase = "event loop" /\ ~refused =>
    \A c \in up : since[c] = run => given[c] = OwnVariables

===============================================================================

----------------------------- MODULE DaemonProcess -----------------------------
(***************************************************************************)
(* The daemon's process: SelfProvisioner, which runs before anything else  *)
(* (src/src/daemon/SelfProvisioner.cpp), the construction of DaemonApp,    *)
(* the signal it is told to end by (src/src/common/SignalHandler.cpp), and *)
(* its ends and starts over several boots.                                 *)
(*                                                                         *)
(* Directories belong to a user id; the soniclogin account has one, until  *)
(* the administrator removes it and a new one is made.  Not here: the log  *)
(* files, the groups of the account, the import of a legacy configuration, *)
(* and what else DaemonApp makes (see SeatManager and KcmIpcServer).       *)
(***************************************************************************)
EXTENDS Naturals, Sequences

CONSTANTS
  MaxIds,     \* bound: user ids the account has had
  MaxSignals  \* bound: SIGTERMs to one process

ASSUME DaemonAssumption == MaxIds \in Nat /\ MaxSignals \in Nat

NoId == 0
Root == MaxIds + 1

(* In the order they are made; the last one is in memory.                  *)
Directories == <<"state", "dbus", "runtime">>
Paths == {Directories[i] : i \in DOMAIN Directories}

VARIABLES
  account,  \* user id of soniclogin, or NoId
  lastId,   \* the newest user id
  owner,    \* of each directory, NoId if it isn't there
  restricted,  \* directories with mode 0700
  life,     \* where the daemon is
  made,     \* directories that are dealt with
  signals,  \* SIGTERMs that were sent to this process
  unread,   \* those in the socket pair that nobody has read
  enabled   \* snterm is enabled

diskVars == <<account, lastId, owner, restricted>>
signalVars == <<signals, unread, enabled>>
processVars == <<diskVars, life, made, signalVars>>

ProcessInit ==
  /\ account \in {NoId, 1} /\ lastId = account
  /\ owner = [p \in Paths |-> NoId] /\ restricted = {}
  /\ life = "off" /\ made = 0
  /\ signals = 0 /\ unread = 0 /\ enabled = FALSE

-------------------------------------------------------------------------------
(* provision(): a step that fails ends the process, with what was done.    *)
Path == Directories[made + 1]

CreateGreeterUser ==
  /\ life = "off" /\ life' = "make" /\ made' = 0
  /\ IF account = NoId
     THEN lastId < MaxIds /\ lastId' = lastId + 1 /\ account' = lastId'
     ELSE UNCHANGED <<account, lastId>>
  /\ signals' = 0 /\ unread' = 0 /\ enabled' = FALSE
  /\ UNCHANGED <<owner, restricted>>

(* mkpath() by root, unless it is there.                                   *)
MakeDirectory ==
  /\ life = "make" /\ life' = "own"
  /\ owner' = [owner EXCEPT ![Path] = IF @ = NoId THEN Root ELSE @]
  /\ UNCHANGED <<account, lastId, restricted, made, signalVars>>

(* Mutant: only a directory that was made now gets its owner.              *)
OwnNewDirectory ==
  /\ life = "own" /\ life' = "restrict"
  /\ owner' = [owner EXCEPT ![Path] = IF @ = Root THEN account ELSE @]
  /\ UNCHANGED <<account, lastId, restricted, made, signalVars>>

(* chown(), new or not.                                                    *)
OwnDirectory ==
  /\ life = "own" /\ life' = "restrict"
  /\ owner' = [owner EXCEPT ![Path] = account]
  /\ UNCHANGED <<account, lastId, restricted, made, signalVars>>

(* chmod(): 0700 for the session bus and 0755 for the others.              *)
(* (The runtime directory gets its mode before its owner; nobody looks in  *)
(* between.)                                                               *)
RestrictDirectory ==
  /\ life = "restrict" /\ made' = made + 1
  /\ restricted' = IF Path = "dbus" THEN restricted \cup {Path} ELSE restricted \ {Path}
  /\ life' = IF made' = Len(Directories) THEN "construct" ELSE "make"
  /\ UNCHANGED <<account, lastId, owner, signalVars>>

Provision == MakeDirectory \/ OwnDirectory \/ RestrictDirectory

-------------------------------------------------------------------------------
(* DaemonApp.                                                              *)

(* SignalHandler: from here on SIGTERM doesn't kill but is written down.   *)
InstallHandler ==
  /\ life = "construct" /\ life' = "initialize" /\ enabled' = TRUE
  /\ UNCHANGED <<diskVars, made, signals, unread>>

(* The rest of the constructor, then exec().                               *)
Initialized ==
  /\ life = "initialize" /\ life' = "event loop"
  /\ UNCHANGED <<diskVars, made, signalVars>>

(* handleSigterm(): one byte is read; after an error the notifier stays    *)
(* disabled.                                                               *)
HandleSigterm ==
  /\ life = "event loop" /\ enabled /\ unread > 0
  /\ \/ unread' = unread - 1 /\ life' = "quit" /\ UNCHANGED enabled
     \/ enabled' = FALSE /\ UNCHANGED <<unread, life>>
  /\ UNCHANGED <<diskVars, made, signals>>

(* aboutToQuit and the end of main().                                      *)
Quit ==
  /\ life = "quit" /\ life' = "off"
  /\ UNCHANGED <<diskVars, made, signalVars>>

-------------------------------------------------------------------------------
(* The environment.                                                        *)

(* Mutant: a signal that comes before the event loop runs is dropped, as   *)
(* by exit() in start-soniclogin-x11.                                      *)
SignalInLoop ==
  /\ life # "off" /\ signals < MaxSignals /\ signals' = signals + 1
  /\ IF life \in {"event loop", "quit"} THEN unread' = unread + 1 ELSE UNCHANGED unread
  /\ life' = (IF life \in {"initialize", "event loop", "quit"} THEN life ELSE "off")
  /\ UNCHANGED <<diskVars, made, enabled>>

Signal ==
  /\ life # "off" /\ signals < MaxSignals /\ signals' = signals + 1
  /\ IF life \in {"initialize", "event loop", "quit"}
     THEN unread' = unread + 1 /\ UNCHANGED life
     ELSE life' = "off" /\ UNCHANGED unread
  /\ UNCHANGED <<diskVars, made, enabled>>

(* It crashes, or a step of provision() fails.                             *)
Dies ==
  /\ life # "off" /\ life' = "off"
  /\ UNCHANGED <<diskVars, made, signalVars>>

Reboot ==
  /\ life = "off" /\ owner["runtime"] # NoId
  /\ owner' = [owner EXCEPT !["runtime"] = NoId]
  /\ UNCHANGED <<account, lastId, restricted, life, made, signalVars>>

(* While the daemon is down: its files stay with the old user id.          *)
RemoveAccount ==
  /\ life = "off" /\ account # NoId /\ account' = NoId
  /\ UNCHANGED <<lastId, owner, restricted, life, made, signalVars>>

ProcessSteps == Provision \/ InstallHandler \/ Initialized \/ HandleSigterm \/ Quit

ProcessNext ==
  \/ CreateGreeterUser \/ ProcessSteps
  \/ Signal \/ Dies \/ Reboot \/ RemoveAccount

ProcessSpec == ProcessInit /\ [][ProcessNext]_processVars

-------------------------------------------------------------------------------
(* When the daemon serves, the directories are there and belong to the     *)
(* account that greeters run as, and the one for the session bus is its    *)
(* own: after a first start, a reboot, a start that failed half-way, or a  *)
(* new account of the same name.                                           *)
ReadyMeansOwned ==
  life \in {"initialize", "event loop", "quit"} =>
    /\ account # NoId /\ \A p \in Paths : owner[p] = account
    /\ restricted = {"dbus"}

(* A SIGTERM is not lost: while the daemon still serves, or is on its way  *)
(* to, what it was told is waiting to be read, also when it came before    *)
(* the event loop ran or while another one was handled.                    *)
SigtermIsKept ==
  signals > 0 /\ life \in {"initialize", "event loop"} => unread > 0

===============================================================================

----------------------------- MODULE Configuration -----------------------------
(***************************************************************************)
(* The daemon's configuration (src/src/common/ConfigReader.cpp): one entry *)
(* in three layers of files, read at the start and again by load(), which  *)
(* Seat::createDisplay() calls each time.  The program keeps the newest    *)
(* modification time it has seen and reads only what is newer.             *)
(*                                                                         *)
(* Not here: save(), which nothing but a test calls, and what the entries  *)
(* are called.                                                             *)
(***************************************************************************)
EXTENDS Naturals, FiniteSets

CONSTANTS
  Values,      \* what files may set the entry to
  MaxChanges   \* bound: changes of the files

(* Least to most influence: the system's directory, the administrator's,   *)
(* and the main file.                                                      *)
Layers == <<"sys", "conf", "main">>
LayerNames == {Layers[i] : i \in DOMAIN Layers}

Unset == "unset"
Default == "default"

VARIABLES
  says,        \* what each layer sets the entry to, or Unset
  stamp,       \* newest modification time of each layer, its directory included
  clock,       \* the time of the last change
  orderly,     \* every change was stamped later than all that was there
  value,       \* m_value of the entry
  remembered,  \* m_fileModificationTime
  dirty        \* files have changed since load() was called

fileState == <<says, stamp, clock, orderly>>
configurationVars == <<fileState, value, remembered, dirty>>

ConfigurationInit ==
  /\ says \in [LayerNames -> Values \cup {Unset}] /\ stamp = [l \in LayerNames |-> 1]
  /\ clock = 1 /\ orderly = TRUE
  /\ value = Default /\ remembered = 0 /\ dirty = TRUE

-------------------------------------------------------------------------------
(* Files are added to the directories and removed from them, and the main  *)
(* file is rewritten; the time may not have gone on since.                 *)
Change(l) ==
  /\ clock <= MaxChanges /\ clock' \in {clock, clock + 1}
  /\ \E v \in Values \cup {Unset} : says' = [says EXCEPT ![l] = v]
  /\ stamp' = [stamp EXCEPT ![l] = clock']
  /\ orderly' = (orderly /\ clock' > clock)
  /\ dirty' = TRUE /\ UNCHANGED <<value, remembered>>

(* The main file is removed, or replaced by an older one.                  *)
PutBack ==
  /\ \E v \in Values \cup {Unset} : says' = [says EXCEPT !["main"] = v]
  /\ \E t \in 0..clock - 1 : stamp' = [stamp EXCEPT !["main"] = t]
  /\ orderly' = FALSE /\ dirty' = TRUE /\ UNCHANGED <<clock, value, remembered>>

(* Mutant: the directory of the administrator doesn't count.               *)
LatestOfFiles == IF stamp["main"] > stamp["sys"] THEN stamp["main"] ELSE stamp["sys"]

LatestModificationTime ==
  CHOOSE t \in {stamp[l] : l \in LayerNames} : \A l \in LayerNames : stamp[l] <= t

(* loadInternal() for one layer after the other: a line assigns its value, *)
(* and an entry without a line keeps the value it has.                     *)
Speaking == {i \in DOMAIN Layers : says[Layers[i]] # Unset}

Assigned(old) ==
  IF Speaking = {} THEN old
  ELSE says[Layers[CHOOSE i \in Speaking : \A j \in Speaking : j <= i]]

Load ==
  /\ dirty' = FALSE
  /\ IF LatestModificationTime <= remembered
     THEN UNCHANGED <<value, remembered>>
     ELSE remembered' = LatestModificationTime /\ value' = Assigned(value)
  /\ UNCHANGED fileState

ConfigurationNext == (\E l \in LayerNames : Change(l)) \/ PutBack \/ Load

ConfigurationSpec == ConfigurationInit /\ [][ConfigurationNext]_configurationVars

-------------------------------------------------------------------------------
(* After load() the entry has the value of the file with the most          *)
(* influence among those that set it, whatever files have been added,      *)
(* changed and removed before; as long as changes are stamped later than   *)
(* all that was there.                                                     *)
PriorityHolds ==
  orderly /\ ~dirty /\ Speaking # {} => value = Assigned(Default)

(* What load() says of itself, "so we also reload on any files             *)
(* added/removed": after load() nothing is left of a file that was         *)
(* removed; an entry that no file sets any more has its default again.     *)
RemovedIsForgotten == orderly /\ ~dirty => value = Assigned(Default)

===============================================================================

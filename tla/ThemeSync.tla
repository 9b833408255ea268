------------------------------ MODULE ThemeSync ------------------------------
(***************************************************************************)
(* The themes in the greeter's home and how a request replaces them        *)
(* (src/src/common/ThemeSync.cpp, and extractCursorTheme() for a theme     *)
(* that comes without its directory): install() stages the new copy, sets  *)
(* the old one aside, moves the new one in place and marks it as its own;  *)
(* prune() removes the marked themes that are not wanted any more.         *)
(*                                                                         *)
(* A theme is named by its directory; its copy is the number of the        *)
(* request it came with.  The daemon may die between two steps: what was   *)
(* set aside is then in a directory nobody looks into again.               *)
(***************************************************************************)
EXTENDS Naturals, FiniteSets

CONSTANTS
  Themes,      \* one theme in each of these directories of ~/.local/share
  MaxRequests  \* bound: requests are numbered 1..MaxRequests

(* "cursor": a theme in icons that a request names without its directory.  *)
Roots == {"color-schemes", "icons", "desktoptheme", "cursor"}

ASSUME ThemesAssumption == Themes \subseteq Roots /\ MaxRequests \in Nat

None == 0
Own == MaxRequests + 1   \* a theme that was installed independently
Copies == 0..Own

(* A directory has its marker inside, a colour scheme beside it.           *)
IsDirectory(t) == t # "color-schemes"

VARIABLES
  copy,      \* of each theme, None if it isn't there
  marker,    \* the themes marked as synchronized
  at,        \* where the daemon is; its steps here start at "install", "prune"
  theme,     \* the theme that is being installed
  previous,  \* targetInfo: the copy there was
  backup,    \* the copy that is set aside
  faults,    \* operations on files that have failed in this install()
  number,    \* the request that is handled
  retained   \* the themes of the request that are installed

themeVars == <<copy, marker, theme, previous, backup, faults>>
replaceVars == <<theme, previous, backup, faults>>

NoTheme == "none"

ThemeSyncInit ==
  /\ copy \in [Themes -> {None, Own}] /\ marker = {} /\ retained = {}
  /\ theme = NoTheme /\ previous = None /\ backup = None /\ faults = 0

(* What one request knows goes with it.                                    *)
Forget ==
  /\ theme' = NoTheme /\ previous' = None /\ backup' = None /\ faults' = 0
  /\ retained' = {}

-------------------------------------------------------------------------------
(* install().                                                              *)

(* Mutant: a theme that could not be installed is passed over.             *)
PassedOver == at' = "sync" /\ retained' = retained \cup {theme} /\ backup' = None /\ faults' = faults + 1

(* It returns; the staging directory is removed with what is left in it.   *)
Installed == at' = "sync" /\ retained' = retained \cup {theme} /\ backup' = None
NotInstalled == at' = "failed" /\ backup' = None /\ faults' = faults + 1 /\ UNCHANGED retained

(* Mutant: a theme without the marker is replaced as well.                 *)
StageUnmarked(t) ==
  /\ at = "install" /\ t # "cursor"
  /\ theme' = t /\ previous' = copy[t] /\ backup' = None
  /\ \/ at' = "staged" /\ faults' = 0
     \/ at' = "failed" /\ faults' = 1
  /\ UNCHANGED <<copy, marker, number, retained>>

(* The bundle is checked and staged.  A theme without the marker is        *)
(* refused.                                                                *)
Stage(t) ==
  /\ at = "install" /\ t # "cursor"
  /\ theme' = t /\ previous' = copy[t] /\ backup' = None
  /\ \/ at' = "staged" /\ faults' = 0 /\ (copy[t] # None => t \in marker)
     \/ at' = "failed" /\ faults' = 1
  /\ UNCHANGED <<copy, marker, number, retained>>

(* Mutant: the old copy is removed instead of being set aside.             *)
RemoveFirst ==
  /\ at = "staged"
  /\ \/ /\ at' = "aside" /\ copy' = [copy EXCEPT ![theme] = None] /\ backup' = None
        /\ marker' = IF IsDirectory(theme) THEN marker \ {theme} ELSE marker
        /\ UNCHANGED <<faults, retained>>
     \/ previous # None /\ NotInstalled /\ UNCHANGED <<copy, marker>>
  /\ UNCHANGED <<theme, previous, number>>

SetAside ==
  /\ at = "staged"
  /\ \/ /\ at' = "aside" /\ copy' = [copy EXCEPT ![theme] = None] /\ backup' = previous
        /\ marker' = IF IsDirectory(theme) THEN marker \ {theme} ELSE marker
        /\ UNCHANGED <<faults, retained>>
     \/ previous # None /\ NotInstalled /\ UNCHANGED <<copy, marker>>
  /\ UNCHANGED <<theme, previous, number>>

(* The previous copy goes back, with the marker that was set aside with    *)
(* it.  Whether this succeeds is not looked at, nor whether a new one that *)
(* is in place already could be removed; the old one can't replace it.     *)
Restore ==
  /\ at' = "failed" /\ backup' = None /\ UNCHANGED retained
  /\ \/ /\ copy' = [copy EXCEPT ![theme] = backup] /\ faults' = faults + 1
        /\ marker' = IF IsDirectory(theme) /\ backup # None THEN marker \cup {theme} ELSE marker
     \/ /\ backup # None /\ copy' = [copy EXCEPT ![theme] = None] /\ faults' = faults + 2
        /\ UNCHANGED marker
     \/ at = "unmarked" /\ faults' = faults + 2 /\ UNCHANGED <<copy, marker>>

Place ==
  /\ at = "aside"
  /\ \/ /\ copy' = [copy EXCEPT ![theme] = number]
        /\ IF IsDirectory(theme) THEN Installed /\ marker' = marker \cup {theme}
                                 ELSE at' = "placed" /\ UNCHANGED <<marker, backup, retained>>
        /\ UNCHANGED faults
     \/ Restore
  /\ UNCHANGED <<theme, previous, number>>

(* A colour scheme gets the staged marker in place of the old one, if that *)
(* could be removed.                                                       *)
DropMarker ==
  /\ at = "placed" /\ at' = "unmarked" /\ marker' \in {marker, marker \ {theme}}
  /\ UNCHANGED <<copy, replaceVars, number, retained>>

Mark ==
  /\ at = "unmarked"
  /\ \/ theme \notin marker /\ Installed /\ marker' = marker \cup {theme} /\ UNCHANGED <<copy, faults>>
     \/ Restore
  /\ UNCHANGED <<theme, previous, number>>

(* extractCursorTheme(): the old copy is removed, then tar writes the new  *)
(* one; that the marker could be written is not looked at.                 *)
RemoveOld(t) ==
  /\ at = "install" /\ t = "cursor" /\ theme' = t /\ previous' = copy[t] /\ faults' = 0
  /\ \/ at' = "extracting" /\ copy' = [copy EXCEPT ![t] = None] /\ marker' = marker \ {t}
     \/ at' = "failed" /\ UNCHANGED <<copy, marker>>
  /\ UNCHANGED <<backup, number, retained>>

Extract ==
  /\ at = "extracting"
  /\ \/ /\ Installed /\ copy' = [copy EXCEPT ![theme] = number]
        /\ marker' \in {marker, marker \cup {theme}} /\ UNCHANGED faults
     \/ NotInstalled /\ UNCHANGED <<copy, marker>>
  /\ UNCHANGED <<theme, previous, number>>

-------------------------------------------------------------------------------
(* prune(): one theme, or it stops at one that can't be removed.           *)

Obsolete == {t \in Themes : copy[t] # None /\ t \in marker /\ t \notin retained}

PruneOne(t) ==
  /\ at = "prune" /\ t \in Obsolete
  /\ \/ /\ copy' = [copy EXCEPT ![t] = None] /\ UNCHANGED at
        /\ \/ marker' = marker \ {t}
           \/ ~IsDirectory(t) /\ UNCHANGED marker
     \/ /\ at' = "failed"
        /\ \/ UNCHANGED <<copy, marker>>
           \/ /\ copy' = [copy EXCEPT ![t] = None]
              /\ marker' = IF IsDirectory(t) THEN marker \ {t} ELSE marker
  /\ UNCHANGED <<replaceVars, number, retained>>

InstallStep(t) == Stage(t) \/ RemoveOld(t)
ThemeSyncStep == SetAside \/ Place \/ DropMarker \/ Mark \/ Extract

-------------------------------------------------------------------------------
(* While install() replaces a theme there is always a copy of it, the old  *)
(* one in place or set aside or the new one; and when it fails, and not    *)
(* the restoring as well, the theme is the one it was before.  The code:   *)
(* "Keep the previous copy until the replacement is complete and ready".   *)
PreviousIsKept ==
  theme \in Themes \ {"cursor"} =>
    /\ at \in {"staged", "aside", "placed", "unmarked"} /\ previous # None =>
         copy[theme] # None \/ backup = previous
    /\ at = "failed" /\ faults = 1 => copy[theme] = previous

(* No request touches a theme that was installed independently, except a   *)
(* cursor theme it names without its directory.                            *)
IndependentIsKept ==
  [][\A t \in Themes \ {"cursor"} : copy[t] = Own => copy'[t] = Own]_<<copy, at>>

===============================================================================

----------------------------- MODULE KcmIpcServer -----------------------------
(***************************************************************************)
(* The daemon's server for the settings module                             *)
(* (src/src/daemon/KcmIpcServer.cpp): one request after the other is read, *)
(* authenticated, applied to the greeter's files and answered, all in one  *)
(* slot, so that requests never overlap; but the daemon may die anywhere.  *)
(*                                                                         *)
(* Files hold the number of the request that wrote them, None if there are *)
(* none or not the whole of one request.  Not here: the files that select  *)
(* no theme, kcminputrc, which selects one in icons as kdeglobals does,    *)
(* and the screen layout, which a sync writes as far as it can without     *)
(* looking at the result.                                                  *)
(***************************************************************************)
EXTENDS ThemeSync, Sequences

(* What a request has in it: op, and the selected themes that are private  *)
(* to the user, which are sent along.                                      *)
NoRequest == [op |-> "none", private |-> {}]
Requests ==
  {[op |-> "sync", private |-> P] : P \in SUBSET Themes} \cup
  {[op |-> o, private |-> {}] : o \in {"reset", "save"}}

(* The files in the order they are written, and the themes they select.    *)
Order == <<"kdeglobals", "plasmarc">>
ConfigFiles == {Order[i] : i \in DOMAIN Order}
Selects(f) == IF f = "kdeglobals" THEN {"color-schemes", "icons"} \cap Themes
                                  ELSE {"desktoptheme"} \cap Themes

VARIABLES
  request,     \* of each number, what was asked
  frames,      \* requests that have arrived and weren't read
  replies,     \* answers on their way: <<number, success>>
  config,      \* of each file, who wrote it
  mainConfig,  \* /etc/soniclogin.conf
  wallpapers,  \* ~/wallpapers
  taken,       \* of each file, the themes it selects that were set aside or
               \* removed since it was written (history)
  written,     \* the files of Order that were dealt with
  succeeded,   \* the request that was applied last, None since another began
  applied      \* all requests that were answered with success

fileVars == <<config, mainConfig, wallpapers>>
daemonVars == <<at, number, retained, written, themeVars, fileVars, taken, succeeded, applied>>

KcmIpcInit ==
  /\ ThemeSyncInit /\ at = "idle" /\ number = None /\ written = 0
  /\ frames = {} /\ replies = {} /\ succeeded = None /\ applied = {}
  /\ config = [f \in ConfigFiles |-> None] /\ mainConfig = None /\ wallpapers = None
  /\ taken = [f \in ConfigFiles |-> {}]

Asked == request[number]

(* The themes a file selects that its request had sent along.              *)
Selected(f) == IF config[f] = None THEN {} ELSE Selects(f) \cap request[config[f]].private

Begin(r) ==
  CASE r.op = "sync"  -> "sync"
    [] r.op = "reset" -> "clear"
    [] r.op = "save"  -> "save"

(* onRequest(): a request that can't be read or isn't authenticated is     *)
(* answered at once; one whose header can't be read isn't answered.        *)
OnRequest(n) ==
  /\ at = "idle" /\ n \in frames /\ frames' = frames \ {n}
  /\ number' = n /\ written' = 0
  /\ \/ at' = Begin(request[n]) /\ succeeded' = None /\ UNCHANGED replies
     \/ at' = "idle" /\ replies' = replies \cup {<<n, FALSE>>} /\ UNCHANGED succeeded
     \/ at' = "idle" /\ UNCHANGED <<replies, succeeded>>
  /\ UNCHANGED <<request, retained, themeVars, fileVars, taken, applied>>

Same == UNCHANGED <<request, frames, replies, number, succeeded, applied>>

(* Mutant: one theme of the request is enough.                             *)
NextThemeOnce ==
  /\ at = "sync"
  /\ at' = IF Asked.private = {} \/ retained # {} THEN "prune" ELSE "install"
  /\ Same /\ UNCHANGED <<retained, written, themeVars, fileVars, taken>>

(* handleSyncWrite(): the themes, what is obsolete, the files.             *)
NextTheme ==
  /\ at = "sync"
  /\ at' = IF Asked.private \subseteq retained THEN "prune" ELSE "install"
  /\ Same /\ UNCHANGED <<retained, written, themeVars, fileVars, taken>>

TakesAway ==
  taken' = [f \in ConfigFiles |->
              taken[f] \cup {t \in Selected(f) : copy[t] # None /\ copy'[t] = None}]

Install ==
  /\ \/ at = "install" /\ \E t \in Asked.private \ retained : InstallStep(t)
     \/ ThemeSyncStep
  /\ TakesAway /\ Same /\ UNCHANGED <<written, fileVars>>

Prune ==
  /\ \/ \E t \in Themes : PruneOne(t)
     \/ /\ at = "prune" /\ Obsolete = {}
        /\ at' = IF Asked.op = "sync" THEN "config" ELSE "done"
        /\ UNCHANGED <<themeVars, number, retained>>
  /\ TakesAway /\ Same /\ UNCHANGED <<written, fileVars>>

(* writeConfig(): the file is replaced at once, or it fails.               *)
WriteConfig ==
  /\ at = "config"
  /\ \/ /\ written' = written + 1 /\ config' = [config EXCEPT ![Order[written + 1]] = number]
        /\ taken' = [taken EXCEPT ![Order[written + 1]] = {}]
        /\ at' = IF written' = Len(Order) THEN "done" ELSE "config"
     \/ at' = "failed" /\ UNCHANGED <<written, config, taken>>
  /\ Same /\ UNCHANGED <<retained, themeVars, mainConfig, wallpapers>>

(* handleReset(): a file that can't be removed is passed over.             *)
RemoveConfig ==
  /\ at = "clear"
  /\ written' = written + 1
  /\ \/ /\ config' = [config EXCEPT ![Order[written']] = None]
        /\ taken' = [taken EXCEPT ![Order[written']] = {}]
     \/ UNCHANGED <<config, taken>>
  /\ at' = IF written' = Len(Order) THEN "prune" ELSE "clear"
  /\ Same /\ UNCHANGED <<retained, themeVars, mainConfig, wallpapers>>

(* handleSaveWrite(): the file is truncated and written, then the          *)
(* wallpapers are replaced one by one.  Nobody looks whether the writing   *)
(* succeeds, nor whether the old wallpapers could be removed.              *)
Truncate ==
  /\ at = "save"
  /\ \/ at' = "text" /\ mainConfig' = None
     \/ at' = "failed" /\ UNCHANGED mainConfig
  /\ Same /\ UNCHANGED <<retained, written, themeVars, config, wallpapers, taken>>

(* Without a soniclogin user the request fails here.                       *)
WriteText ==
  /\ at = "text" /\ at' \in {"wallpapers", "failed"}
  /\ mainConfig' \in {number, None}
  /\ Same /\ UNCHANGED <<retained, written, themeVars, config, wallpapers, taken>>

WriteWallpapers ==
  /\ at = "wallpapers"
  /\ \/ at' = "done" /\ wallpapers' \in {number, None}
     \/ at' = "failed" /\ wallpapers' \in {wallpapers, None}
  /\ Same /\ UNCHANGED <<retained, written, themeVars, config, mainConfig, taken>>

(* sendResponse().                                                         *)
Respond ==
  /\ at \in {"done", "failed"} /\ at' = "idle"
  /\ replies' = replies \cup {<<number, at = "done">>}
  /\ succeeded' = (IF at = "done" THEN number ELSE None)
  /\ applied' = (IF at = "done" THEN applied \cup {number} ELSE applied)
  /\ Forget
  /\ UNCHANGED <<request, frames, number, written, copy, marker, fileVars, taken>>

(* The daemon dies, its connections with it, and is started again.         *)
Crash ==
  /\ at \notin {"idle", "down"} /\ at' = "down" /\ frames' = {} /\ Forget
  /\ UNCHANGED <<request, replies, number, written, copy, marker, fileVars, taken, succeeded,
                 applied>>

Restart ==
  /\ at = "down" /\ at' = "idle"
  /\ UNCHANGED <<request, frames, replies, number, retained, written, themeVars,
                 fileVars, taken, succeeded, applied>>

Apply == NextTheme \/ Install \/ Prune \/ WriteConfig \/ RemoveConfig
           \/ Truncate \/ WriteText \/ WriteWallpapers \/ Respond

DaemonStep == (\E n \in 1..MaxRequests : OnRequest(n)) \/ Apply \/ Crash \/ Restart

-------------------------------------------------------------------------------
(* A file selects a private theme that was sent along with it only once    *)
(* this is there as it was sent, and it is until a later request sets it   *)
(* aside or removes it, whatever fails or is retried and wherever the      *)
(* daemon dies.  The code: "Make selected user-local assets available      *)
(* before switching configuration to them".  (The later request rewrites   *)
(* the file, but after its themes: if it fails in between, the file        *)
(* selects what isn't there.)                                              *)
AvailableBeforeSelected ==
  \A f \in ConfigFiles : \A t \in Selected(f) \ taken[f] : copy[t] = config[f]

(* What a sync or a reset was answered success for is in place, all of it  *)
(* and nothing that it replaces, until the next request begins; a save has *)
(* left nothing of an older one whole, but the new files may have been cut *)
(* short (WriteText, WriteWallpapers), and after a reset some may have     *)
(* stayed (RemoveConfig).  The code: "Never report a successful sync after *)
(* a failed theme installation".                                           *)
SuccessIsWhole ==
  succeeded # None =>
    LET r == request[succeeded] IN
    /\ r.op = "sync"  => /\ \A f \in ConfigFiles : config[f] = succeeded /\ taken[f] = {}
                         /\ \A t \in r.private : copy[t] = succeeded
    /\ r.op = "save"  => {mainConfig, wallpapers} \subseteq {succeeded, None}
    /\ r.op \in {"sync", "reset"} =>
         \A t \in marker \ r.private : copy[t] = None

===============================================================================

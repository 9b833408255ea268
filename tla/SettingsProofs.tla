----------------------------- MODULE SettingsProofs -----------------------------
(***************************************************************************)
(* What holds of the settings module and the daemon's server for any       *)
(* themes and any number of requests and passwords.                        *)
(***************************************************************************)
EXTENDS Kcm, TLAPS

Replacing == {"staged", "aside", "placed", "unmarked", "extracting"}
Syncing == {"sync", "install", "config"} \cup Replacing
Places == {"idle", "down", "prune", "clear", "save", "text", "wallpapers", "done", "failed"}
            \cup Syncing

(* The requests of the module that are under way are ones it has made.     *)
KcmTypeOK ==
  /\ asked \in 0..MaxRequests /\ request \in [Numbers -> Requests \cup {NoRequest}]
  /\ \A n \in 1..asked : request[n] \in Requests
  /\ frames \subseteq 1..asked /\ number \in 0..asked
  /\ collecting \in 0..asked /\ pending \in 0..asked /\ busy \in 0..asked
  /\ shown \in [Numbers -> {"none", "success", "error"}]

ThemesTypeOK ==
  /\ copy \in [Themes -> Copies] /\ retained \subseteq Themes
  /\ previous \in Copies /\ backup \in Copies /\ faults \in Nat
  /\ at \in Places /\ written \in 0..2 /\ config \in [ConfigFiles -> 0..MaxRequests]

SettingsTypeOK == KcmTypeOK /\ ThemesTypeOK

(* While install() replaces a theme it knows where the old copy is.        *)
Replaced ==
  /\ at \notin {"idle", "down"} => number # None
  /\ at \in {"idle", "down"} => theme = NoTheme
  /\ at \in Replacing => theme \in Themes
  /\ at # "failed" => faults = 0
  /\ at = "extracting" => theme = "cursor" /\ copy[theme] = None
  /\ at = "staged" => copy[theme] = previous
  /\ at = "aside" => backup = previous /\ copy[theme] = None
  /\ at \in {"placed", "unmarked"} => backup = previous /\ copy[theme] = number
  /\ at = "failed" /\ faults = 1 /\ theme \in Themes \ {"cursor"} => copy[theme] = previous

(* What a sync has installed stays as it was sent, and files are written   *)
(* only when all of it is installed.                                       *)
Retained ==
  /\ at \in Syncing => Asked.op = "sync"
  /\ at = "clear" => Asked.op = "reset"
  /\ at \in {"idle", "down", "clear"} => retained = {}
  /\ at \in {"clear", "config"} => written < 2
  /\ at \in Replacing \cup {"install"} => written = 0
  /\ at \in Replacing => theme \notin retained
  /\ at \in {"sync", "prune"} /\ Asked.op = "sync" => written = 0
  /\ at \in Syncing \cup {"prune"} => \A t \in retained : copy[t] = number
  /\ at \in {"prune", "config"} /\ Asked.op = "sync" => Asked.private \subseteq retained

(* The files are those of requests that were made, and what was set aside  *)
(* for a new copy has been taken away from all that select it.             *)
Filed ==
  /\ config \in [ConfigFiles -> 0..asked] /\ taken \in [ConfigFiles -> SUBSET Themes]
  /\ at \in {"placed", "unmarked"} => \A f \in ConfigFiles : theme \in Selected(f) => theme \in taken[f]

(* A theme with the marker isn't an independent one, nor is one that       *)
(* install() replaces.                                                     *)
Marked ==
  /\ \A t \in marker : t \in Themes /\ (t # "cursor" => copy[t] # Own)
  /\ at \in Replacing \ {"extracting"} => previous # Own

(* What is done when the daemon is through with a request.                 *)
Whole(n) ==
  /\ request[n].op = "sync" => /\ \A f \in ConfigFiles : config[f] = n /\ taken[f] = {}
                               /\ \A t \in request[n].private : copy[t] = n
  /\ request[n].op = "save" => {mainConfig, wallpapers} \subseteq {n, None}
  /\ request[n].op \in {"sync", "reset"} =>
       \A t \in marker \ request[n].private : copy[t] = None

Complete ==
  /\ succeeded # None => at = "idle" /\ succeeded \in 1..asked /\ Whole(succeeded)
  /\ at = "done" => Whole(number)
  /\ at \in Syncing \cup {"prune"} => retained \subseteq Asked.private
  /\ at \in Replacing => theme \in Asked.private
  /\ at = "prune" => Asked.op \in {"sync", "reset"}
  /\ at \in {"save", "text", "wallpapers"} => Asked.op = "save"
  /\ at = "wallpapers" => mainConfig \in {number, None}
  /\ at = "config" => /\ \A t \in marker \ Asked.private : copy[t] = None
                      /\ \A i \in 1..written : config[Order[i]] = number /\ taken[Order[i]] = {}

(* An answer that says success was given by the daemon that applied it.    *)
Truthful ==
  /\ \A n \in Numbers : <<n, TRUE>> \in replies => n \in applied
  /\ NoFalseSuccess

(* A password that is kept counts as one that isn't used.                  *)
Paid ==
  /\ sends \in Nat /\ consents \in Nat /\ sends <= consents
  /\ credentials => sends < consents

-------------------------------------------------------------------------------
(* The module leaves the daemon's state alone, and the requests it has     *)
(* made as well.                                                           *)
LEMMA ModuleLeavesDaemon ==
  ASSUME KcmTypeOK, KcmStep
  PROVE  UNCHANGED daemonVars /\ \A n \in 1..asked : request'[n] = request[n]
<1> USE ThemesAssumption DEF KcmTypeOK, Numbers
<1>1. CASE \E r \in Requests : Ask(r)
  BY <1>1 DEF Ask, Go, Send, Fails, kcmVars
<1>2. CASE Collected
  BY <1>2 DEF Collected, Go, Send, Fails, kcmVars
<1>3. CASE SubmitAuth
  BY <1>3 DEF SubmitAuth, Send, Fails, kcmVars
<1>4. CASE CancelAuth
  BY <1>4 DEF CancelAuth, kcmVars
<1>5. CASE Deadline
  BY <1>5 DEF Deadline, Fails, kcmVars
<1>6. CASE Late
  BY <1>6 DEF Late, kcmVars
<1>7. CASE \E ok \in BOOLEAN : Answered(ok)
  BY <1>7 DEF Answered, kcmVars
<1> QED
  BY <1>1, <1>2, <1>3, <1>4, <1>5, <1>6, <1>7 DEF KcmStep

(* The requests under way stay among those that were made.                 *)
LEMMA ModuleKeepsType ==
  ASSUME KcmTypeOK, KcmStep
  PROVE  KcmTypeOK'
<1> USE ThemesAssumption DEF KcmTypeOK, Numbers, None
<1>1. CASE \E r \in Requests : Ask(r)
  <2>1. PICK r \in Requests : Ask(r)
    BY <1>1
  <2>2. /\ asked' = asked + 1 /\ asked' \in Numbers /\ number' = number
        /\ request' = [request EXCEPT ![asked'] = r]
    BY <2>1 DEF Ask, daemonVars
  <2>3. collecting' \in {collecting, asked'} /\ pending' \in {pending, asked', None}
    BY <2>1 DEF Ask, Go, Send
  <2>4. /\ frames' \subseteq frames \cup {asked'} /\ busy' \in {busy, asked'}
        /\ \/ shown' = shown
           \/ shown' = [shown EXCEPT ![asked'] = "error"]
    BY <2>1 DEF Ask, Go, Send, Fails
  <2> QED
    BY <2>2, <2>3, <2>4
<1>2. CASE Collected
  <2>1. UNCHANGED <<asked, request, number>> /\ collecting \in Numbers /\ collecting' = None
    BY <1>2 DEF Collected, daemonVars
  <2>2. /\ pending' \in {pending, collecting, None} /\ busy' \in {busy, collecting}
        /\ frames' \subseteq frames \cup {collecting}
        /\ \/ shown' = shown
           \/ shown' = [shown EXCEPT ![collecting] = "error"]
    BY <1>2 DEF Collected, Go, Send, Fails
  <2> QED
    BY <2>1, <2>2
<1>3. CASE SubmitAuth
  <2>1. UNCHANGED <<asked, request, number, collecting>>
    BY <1>3 DEF SubmitAuth, daemonVars
  <2>2. CASE pending = None
    BY <1>3, <2>1, <2>2 DEF SubmitAuth
  <2>3. CASE pending # None
    <3>1. /\ pending \in Numbers /\ pending' = None /\ busy' \in {busy, pending}
          /\ frames' \subseteq frames \cup {pending}
          /\ \/ shown' = shown
             \/ shown' = [shown EXCEPT ![pending] = "error"]
      BY <1>3, <2>3 DEF SubmitAuth, Send, Fails
    <3> QED
      BY <2>1, <3>1
  <2> QED
    BY <2>2, <2>3
<1>4. CASE CancelAuth
  BY <1>4 DEF CancelAuth, daemonVars, kcmVars, themeVars, replaceVars, fileVars
<1>5. CASE Deadline
  BY <1>5 DEF Deadline, Fails, daemonVars, kcmVars, themeVars, replaceVars, fileVars
<1>6. CASE Late
  BY <1>6 DEF Late, daemonVars, kcmVars, themeVars, replaceVars, fileVars
<1>7. CASE \E ok \in BOOLEAN : Answered(ok)
  BY <1>7 DEF Answered, daemonVars, kcmVars, themeVars, replaceVars, fileVars
<1> QED
  BY <1>1, <1>2, <1>3, <1>4, <1>5, <1>6, <1>7
     DEF KcmStep

(* The daemon takes up only what has arrived.                              *)
LEMMA DaemonKeepsKcmType ==
  ASSUME SettingsTypeOK, DaemonStep, UNCHANGED kcmVars
  PROVE  KcmTypeOK'
<1> USE ThemesAssumption DEF KcmTypeOK, Numbers, None, SettingsTypeOK, kcmVars
<1>1. CASE \E n \in 1..MaxRequests : OnRequest(n)
  BY <1>1 DEF OnRequest, Begin, themeVars, replaceVars, fileVars
<1>2. CASE NextTheme
  BY <1>2 DEF NextTheme, Same, themeVars, replaceVars, fileVars
<1>3. CASE /\ \E t \in Asked.private \ retained : at = "install" /\ Stage(t)
           /\ Same /\ UNCHANGED <<written, fileVars>>
  BY <1>3 DEF Stage, Same, themeVars, replaceVars, fileVars
<1>4. CASE /\ \E t \in Asked.private \ retained : at = "install" /\ RemoveOld(t)
           /\ Same /\ UNCHANGED <<written, fileVars>>
  BY <1>4 DEF RemoveOld, Same, themeVars, replaceVars, fileVars
<1>5. CASE SetAside /\ Same /\ UNCHANGED <<written, fileVars>>
  BY <1>5 DEF SetAside, NotInstalled, Same, themeVars, replaceVars, fileVars
<1>6. CASE Place /\ Same /\ UNCHANGED <<written, fileVars>>
  BY <1>6 DEF Place, Restore, Installed, Same, themeVars, replaceVars, fileVars
<1>7. CASE DropMarker /\ Same /\ UNCHANGED <<written, fileVars>>
  BY <1>7 DEF DropMarker, Same, themeVars, replaceVars, fileVars
<1>8. CASE Mark /\ Same /\ UNCHANGED <<written, fileVars>>
  BY <1>8 DEF Mark, Restore, Installed, Same, themeVars, replaceVars, fileVars
<1>9. CASE Extract /\ Same /\ UNCHANGED <<written, fileVars>>
  BY <1>9 DEF Extract, Installed, NotInstalled, Same, themeVars, replaceVars,
              fileVars
<1>10. CASE Prune
  BY <1>10 DEF Prune, PruneOne, Obsolete, Same, themeVars, replaceVars, fileVars
<1>11. CASE WriteConfig
  BY <1>11 DEF WriteConfig, Same, themeVars, replaceVars, fileVars
<1>12. CASE RemoveConfig
  BY <1>12 DEF RemoveConfig, Same, themeVars, replaceVars, fileVars
<1>13. CASE Truncate
  BY <1>13 DEF Truncate, Same, themeVars, replaceVars, fileVars
<1>14. CASE WriteText
  BY <1>14 DEF WriteText, Same, themeVars, replaceVars, fileVars
<1>15. CASE WriteWallpapers
  BY <1>15 DEF WriteWallpapers, Same, themeVars, replaceVars, fileVars
<1>16. CASE Respond
  BY <1>16 DEF Respond, Forget, themeVars, replaceVars, fileVars
<1>17. CASE Crash
  BY <1>17 DEF Crash, Forget, themeVars, replaceVars, fileVars
<1>18. CASE Restart
  BY <1>18 DEF Restart, themeVars, replaceVars, fileVars
<1> QED
  BY <1>1, <1>2, <1>3, <1>4, <1>5, <1>6, <1>7, <1>8, <1>9, <1>10, <1>11,
     <1>12, <1>13, <1>14, <1>15, <1>16, <1>17, <1>18
     DEF DaemonStep, Apply, Install, InstallStep, ThemeSyncStep

(* A request that was made is one of the three kinds.                      *)
LEMMA RequestsAreKnown ==
  ASSUME KcmTypeOK
  PROVE  /\ \A n \in 1..asked : request[n].op \in {"sync", "reset", "save"}
         /\ number # None => Asked.op \in {"sync", "reset", "save"} /\ Asked.private \subseteq Themes
  BY DEF KcmTypeOK, Requests, Asked, None

(* Restoring puts back what was set aside, or leaves nothing or the new    *)
(* copy.                                                                   *)
LEMMA RestoreKeepsType ==
  ASSUME ThemesTypeOK, Restore, theme \in Themes, UNCHANGED <<previous, written, config>>
  PROVE  ThemesTypeOK'
<1> USE DEF ThemesTypeOK
<1>1. None \in Copies /\ "failed" \in Places
  BY ThemesAssumption DEF None, Copies, Own, Places
<1>2. at' = "failed" /\ backup' = None /\ retained' = retained /\ faults' \in Nat
  BY DEF Restore
<1>3. copy' = copy \/ copy' = [copy EXCEPT ![theme] = backup] \/ copy' = [copy EXCEPT ![theme] = None]
  BY DEF Restore
<1> QED
  BY <1>1, <1>2, <1>3

(* The daemon's steps keep the types of what they write.                   *)
LEMMA ThemesTypeStep ==
  ASSUME SettingsTypeOK, Replaced, Retained, DaemonStep
  PROVE  ThemesTypeOK'
<1> USE ThemesAssumption DEF SettingsTypeOK, KcmTypeOK, ThemesTypeOK, Numbers, None, Own, Copies,
         Places, Syncing, Replacing, Order, ConfigFiles, Replaced, Retained
<1>1. CASE \E n \in 1..MaxRequests : OnRequest(n)
  <2>1. PICK n \in 1..asked : OnRequest(n)
    BY <1>1 DEF OnRequest
  <2>2. Begin(request[n]) \in Places
    BY RequestsAreKnown DEF Begin
  <2>3. at' \in Places /\ written' = 0
    BY <2>1, <2>2 DEF OnRequest
  <2> QED
    BY <2>1, <2>3 DEF OnRequest, themeVars, fileVars
<1>2. CASE NextTheme
  BY <1>2 DEF NextTheme, Same, themeVars, replaceVars, fileVars
<1>3. CASE /\ \E t \in Asked.private \ retained : at = "install" /\ Stage(t)
           /\ Same /\ UNCHANGED <<written, fileVars>>
  <2>1. PICK t \in Themes : Stage(t)
    BY <1>3, RequestsAreKnown
  <2>2. previous' = copy[t] /\ backup' = 0 /\ faults' \in {0, 1} /\ at' \in {"staged", "failed"}
    BY <2>1 DEF Stage
  <2>3. UNCHANGED <<copy, retained, written, config>>
    BY <1>3, <2>1 DEF Stage, fileVars
  <2> QED
    BY <2>2, <2>3
<1>4. CASE /\ \E t \in Asked.private \ retained : at = "install" /\ RemoveOld(t)
           /\ Same /\ UNCHANGED <<written, fileVars>>
  <2>1. PICK t \in Themes : RemoveOld(t)
    BY <1>4, RequestsAreKnown
  <2>6. copy' = copy \/ copy' = [copy EXCEPT ![t] = 0]
    BY <2>1 DEF RemoveOld
  <2>2. /\ previous' = copy[t] /\ faults' = 0 /\ at' \in {"extracting", "failed"}
    BY <2>1 DEF RemoveOld
  <2>3. UNCHANGED <<backup, retained, written, config>>
    BY <1>4, <2>1 DEF RemoveOld, fileVars
  <2>4. CASE copy' = copy
    BY <2>2, <2>3, <2>4
  <2>5. CASE copy' = [copy EXCEPT ![t] = 0]
    BY <2>2, <2>3, <2>5
  <2> QED
    BY <2>4, <2>5, <2>6
<1>5. CASE SetAside /\ Same /\ UNCHANGED <<written, fileVars>>
  BY <1>5 DEF SetAside, NotInstalled, Same, themeVars, replaceVars, fileVars
<1>6. CASE Place /\ Same /\ UNCHANGED <<written, fileVars>>
  <2>1. UNCHANGED <<previous, written, config>> /\ theme \in Themes /\ number \in Copies
    BY <1>6 DEF Place, fileVars
  <2>2. CASE copy' = [copy EXCEPT ![theme] = number] /\ Installed /\ UNCHANGED faults
    BY <2>1, <2>2 DEF Installed
  <2>3. CASE copy' = [copy EXCEPT ![theme] = number] /\ at' = "placed" /\ UNCHANGED <<backup, retained, faults>>
    BY <2>1, <2>3
  <2>4. CASE Restore
    BY <2>1, <2>4, RestoreKeepsType
  <2> QED
    BY <1>6, <2>2, <2>3, <2>4 DEF Place
<1>7. CASE DropMarker /\ Same /\ UNCHANGED <<written, fileVars>>
  BY <1>7 DEF DropMarker, Same, themeVars, replaceVars, fileVars
<1>8. CASE Mark /\ Same /\ UNCHANGED <<written, fileVars>>
  <2>1. UNCHANGED <<previous, written, config>> /\ theme \in Themes
    BY <1>8 DEF Mark, fileVars
  <2>2. CASE Installed /\ UNCHANGED <<copy, faults>>
    BY <2>1, <2>2 DEF Installed
  <2>3. CASE Restore
    BY <2>1, <2>3, RestoreKeepsType
  <2> QED
    BY <1>8, <2>2, <2>3 DEF Mark
<1>9. CASE Extract /\ Same /\ UNCHANGED <<written, fileVars>>
  <2>1. UNCHANGED <<previous, written, config>> /\ theme \in Themes
    BY <1>9 DEF Extract, fileVars
  <2>2. CASE Installed /\ copy' = [copy EXCEPT ![theme] = number] /\ UNCHANGED faults
    BY <2>1, <2>2 DEF Installed
  <2>3. CASE NotInstalled /\ UNCHANGED copy
    BY <2>1, <2>3 DEF NotInstalled
  <2> QED
    BY <1>9, <2>2, <2>3 DEF Extract
<1>10. CASE Prune
  <2>1. UNCHANGED <<written, config, previous, backup, faults, retained>>
    BY <1>10 DEF Prune, PruneOne, themeVars, replaceVars, fileVars
  <2>2. copy' = copy \/ \E t \in Themes : copy' = [copy EXCEPT ![t] = 0]
    BY <1>10 DEF Prune, PruneOne, themeVars
  <2>3. at' \in {"prune", "failed", "config", "done"}
    BY <1>10 DEF Prune, PruneOne
  <2> QED
    BY <2>1, <2>2, <2>3
<1>11. CASE WriteConfig
  <2>1. at' \in {"config", "done", "failed"} /\ UNCHANGED <<retained, copy, previous, backup, faults>>
    BY <1>11 DEF WriteConfig, themeVars, replaceVars
  <2>2. written' \in 0..2
    <3>1. at = "config" /\ (written' = written \/ written' = written + 1)
      BY <1>11 DEF WriteConfig
    <3>2. written < 2
      BY <3>1 DEF Retained
    <3> QED
      BY <3>1, <3>2
  <2>3. config' = config \/ config' = [config EXCEPT ![Order[written + 1]] = number]
    BY <1>11 DEF WriteConfig
  <2>4. config' = config \/ \E x : config' = [config EXCEPT ![x] = number]
    BY <2>3, Zenon
  <2>5. number \in 0..MaxRequests
    OBVIOUS
  <2> QED
    BY <2>1, <2>2, <2>4, <2>5
<1>12. CASE RemoveConfig
  BY <1>12 DEF RemoveConfig, Same, themeVars, replaceVars, fileVars
<1>13. CASE Truncate
  BY <1>13 DEF Truncate, Same, themeVars, replaceVars, fileVars
<1>14. CASE WriteText
  BY <1>14 DEF WriteText, Same, themeVars, replaceVars, fileVars
<1>15. CASE WriteWallpapers
  BY <1>15 DEF WriteWallpapers, Same, themeVars, replaceVars, fileVars
<1>16. CASE Respond
  BY <1>16 DEF Respond, Forget, themeVars, replaceVars, fileVars
<1>17. CASE Crash
  BY <1>17 DEF Crash, Forget, themeVars, replaceVars, fileVars
<1>18. CASE Restart
  BY <1>18 DEF Restart, themeVars, replaceVars, fileVars
<1> QED
  BY <1>1, <1>2, <1>3, <1>4, <1>5, <1>6, <1>7, <1>8, <1>9, <1>10, <1>11,
     <1>12, <1>13, <1>14, <1>15, <1>16, <1>17, <1>18
     DEF DaemonStep, Apply, Install, InstallStep, ThemeSyncStep

(* install() keeps track of the copy that was there, and of its failures.  *)
LEMMA ReplacedStep ==
  ASSUME SettingsTypeOK, Replaced, DaemonStep
  PROVE  Replaced'
<1> USE DEF SettingsTypeOK, KcmTypeOK, ThemesTypeOK, Replaced, Replacing, None, NoTheme
<1>1. CASE \E n \in 1..MaxRequests : OnRequest(n)
  <2>1. PICK n \in 1..asked : OnRequest(n)
    BY <1>1 DEF OnRequest
  <2>2. at = "idle" /\ number' = n /\ UNCHANGED themeVars
    BY <2>1 DEF OnRequest
  <2>3. Begin(request[n]) \in {"sync", "clear", "save"}
    BY RequestsAreKnown DEF Begin
  <2>4. at' \in {"idle", "sync", "clear", "save"}
    BY <2>1, <2>3 DEF OnRequest
  <2> QED
    BY <2>2, <2>4 DEF themeVars
<1>2. CASE NextTheme
  BY <1>2 DEF NextTheme, Same, themeVars, replaceVars, fileVars
<1>3. CASE /\ \E t \in Asked.private \ retained : at = "install" /\ Stage(t)
           /\ Same /\ UNCHANGED <<written, fileVars>>
  <2>1. PICK t \in Themes : Stage(t)
    BY <1>3, RequestsAreKnown DEF SettingsTypeOK
  <2> QED
    BY <1>3, <2>1 DEF Stage, Same, themeVars, replaceVars, fileVars
<1>4. CASE /\ \E t \in Asked.private \ retained : at = "install" /\ RemoveOld(t)
           /\ Same /\ UNCHANGED <<written, fileVars>>
  <2>1. PICK t \in Themes : RemoveOld(t)
    BY <1>4, RequestsAreKnown DEF SettingsTypeOK
  <2> QED
    BY <1>4, <2>1 DEF RemoveOld, Same, themeVars, replaceVars, fileVars
<1>5. CASE SetAside /\ Same /\ UNCHANGED <<written, fileVars>>
  BY <1>5 DEF SetAside, NotInstalled, Same, themeVars, replaceVars, fileVars
<1>6. CASE Place /\ Same /\ UNCHANGED <<written, fileVars>>
  BY <1>6 DEF Place, Restore, Installed, Same, themeVars, replaceVars, fileVars
<1>7. CASE DropMarker /\ Same /\ UNCHANGED <<written, fileVars>>
  BY <1>7 DEF DropMarker, Same, themeVars, replaceVars, fileVars
<1>8. CASE Mark /\ Same /\ UNCHANGED <<written, fileVars>>
  BY <1>8 DEF Mark, Restore, Installed, Same, themeVars, replaceVars, fileVars
<1>9. CASE Extract /\ Same /\ UNCHANGED <<written, fileVars>>
  BY <1>9 DEF Extract, Installed, NotInstalled, Same, themeVars, replaceVars,
              fileVars
<1>10. CASE Prune
  BY <1>10 DEF Prune, PruneOne, Obsolete, Same, themeVars, replaceVars, fileVars
<1>11. CASE WriteConfig
  BY <1>11 DEF WriteConfig, Same, themeVars, replaceVars, fileVars
<1>12. CASE RemoveConfig
  BY <1>12 DEF RemoveConfig, Same, themeVars, replaceVars, fileVars
<1>13. CASE Truncate
  BY <1>13 DEF Truncate, Same, themeVars, replaceVars, fileVars
<1>14. CASE WriteText
  BY <1>14 DEF WriteText, Same, themeVars, replaceVars, fileVars
<1>15. CASE WriteWallpapers
  BY <1>15 DEF WriteWallpapers, Same, themeVars, replaceVars, fileVars
<1>16. CASE Respond
  BY <1>16 DEF Respond, Forget, Same, themeVars, replaceVars, fileVars
<1>17. CASE Crash
  BY <1>17 DEF Crash, Forget, Same, themeVars, replaceVars, fileVars
<1>18. CASE Restart
  BY <1>18 DEF Restart, Same, themeVars, replaceVars, fileVars
<1> QED
  BY <1>1, <1>2, <1>3, <1>4, <1>5, <1>6, <1>7, <1>8, <1>9, <1>10, <1>11,
     <1>12, <1>13, <1>14, <1>15, <1>16, <1>17, <1>18
     DEF DaemonStep, Apply, Install, InstallStep, ThemeSyncStep

(* What a sync has installed is left alone by what it does after it.       *)
LEMMA RetainedStep ==
  ASSUME SettingsTypeOK, Replaced, Retained, DaemonStep
  PROVE  Retained'
<1> USE DEF SettingsTypeOK, KcmTypeOK, ThemesTypeOK, Replaced, Retained, Replacing, Syncing, None,
         Asked, Order
<1>1. CASE \E n \in 1..MaxRequests : OnRequest(n)
  <2>1. PICK n \in 1..asked : OnRequest(n)
    BY <1>1 DEF OnRequest
  <2>2. at = "idle" /\ Asked' = request[n] /\ retained' = {} /\ written' = 0
    BY <2>1 DEF OnRequest
  <2>3. request[n].op \in {"sync", "reset", "save"}
    BY RequestsAreKnown
  <2>4. \/ at' = "idle"
        \/ at' = "sync" /\ request[n].op = "sync"
        \/ at' = "clear" /\ request[n].op = "reset"
        \/ at' = "save"
    BY <2>1, <2>3 DEF OnRequest, Begin
  <2> QED
    BY <2>2, <2>4
<1>2. CASE NextTheme
  BY <1>2 DEF NextTheme, Same, themeVars, replaceVars, fileVars
<1>3. CASE /\ \E t \in Asked.private \ retained : at = "install" /\ Stage(t)
           /\ Same /\ UNCHANGED <<written, fileVars>>
  <2>1. PICK t \in Themes : Stage(t)
    BY <1>3, RequestsAreKnown DEF SettingsTypeOK
  <2> QED
    BY <1>3, <2>1 DEF Stage, Same, themeVars, replaceVars, fileVars
<1>4. CASE /\ \E t \in Asked.private \ retained : at = "install" /\ RemoveOld(t)
           /\ Same /\ UNCHANGED <<written, fileVars>>
  <2>1. PICK t \in Themes : RemoveOld(t)
    BY <1>4, RequestsAreKnown DEF SettingsTypeOK
  <2> QED
    BY <1>4, <2>1 DEF RemoveOld, Same, themeVars, replaceVars, fileVars
<1>5. CASE SetAside /\ Same /\ UNCHANGED <<written, fileVars>>
  BY <1>5 DEF SetAside, NotInstalled, Same, themeVars, replaceVars, fileVars
<1>6. CASE Place /\ Same /\ UNCHANGED <<written, fileVars>>
  BY <1>6 DEF Place, Restore, Installed, Same, themeVars, replaceVars, fileVars
<1>7. CASE DropMarker /\ Same /\ UNCHANGED <<written, fileVars>>
  BY <1>7 DEF DropMarker, Same, themeVars, replaceVars, fileVars
<1>8. CASE Mark /\ Same /\ UNCHANGED <<written, fileVars>>
  BY <1>8 DEF Mark, Restore, Installed, Same, themeVars, replaceVars, fileVars
<1>9. CASE Extract /\ Same /\ UNCHANGED <<written, fileVars>>
  BY <1>9 DEF Extract, Installed, NotInstalled, Same, themeVars, replaceVars,
              fileVars
<1>10. CASE Prune
  BY <1>10 DEF Prune, PruneOne, Obsolete, Same, themeVars, replaceVars, fileVars
<1>11. CASE WriteConfig
  BY <1>11 DEF WriteConfig, Same, themeVars, replaceVars, fileVars
<1>12. CASE RemoveConfig
  BY <1>12 DEF RemoveConfig, Same, themeVars, replaceVars, fileVars
<1>13. CASE Truncate
  BY <1>13 DEF Truncate, Same, themeVars, replaceVars, fileVars
<1>14. CASE WriteText
  BY <1>14 DEF WriteText, Same, themeVars, replaceVars, fileVars
<1>15. CASE WriteWallpapers
  BY <1>15 DEF WriteWallpapers, Same, themeVars, replaceVars, fileVars
<1>16. CASE Respond
  BY <1>16 DEF Respond, Forget, Same, themeVars, replaceVars, fileVars
<1>17. CASE Crash
  BY <1>17 DEF Crash, Forget, Same, themeVars, replaceVars, fileVars
<1>18. CASE Restart
  BY <1>18 DEF Restart, Same, themeVars, replaceVars, fileVars
<1> QED
  BY <1>1, <1>2, <1>3, <1>4, <1>5, <1>6, <1>7, <1>8, <1>9, <1>10, <1>11,
     <1>12, <1>13, <1>14, <1>15, <1>16, <1>17, <1>18
     DEF DaemonStep, Apply, Install, InstallStep, ThemeSyncStep

(* A step of install() or prune() changes a copy that is there by taking   *)
(* it away, unless it is one it has put there itself.                      *)
LEMMA CopiesAreTaken ==
  ASSUME SettingsTypeOK, Replaced, Install \/ Prune, NEW t \in Themes
  PROVE  copy'[t] \in {copy[t], None} \/ copy[t] = None \/ (at = "unmarked" /\ t = theme)
<1> USE DEF SettingsTypeOK, ThemesTypeOK, Replaced, Replacing, None
<1>1. CASE \E x \in Asked.private \ retained : at = "install" /\ InstallStep(x)
  <2>1. PICK x : copy' = copy \/ copy' = [copy EXCEPT ![x] = 0]
    BY <1>1 DEF InstallStep, Stage, RemoveOld
  <2> QED
    BY <2>1
<1>2. CASE SetAside
  BY <1>2 DEF SetAside
<1>3. CASE Place
  <2>1. copy[theme] = 0 /\ theme \in Themes /\ at = "aside"
    BY <1>3 DEF Place
  <2>2. copy' = copy \/ \E c : copy' = [copy EXCEPT ![theme] = c]
    BY <1>3 DEF Place, Restore
  <2> QED
    BY <2>1, <2>2
<1>4. CASE DropMarker
  BY <1>4 DEF DropMarker
<1>5. CASE Mark
  <2>1. copy' = copy \/ \E c : copy' = [copy EXCEPT ![theme] = c]
    BY <1>5 DEF Mark, Restore
  <2> QED
    BY <1>5, <2>1 DEF Mark
<1>6. CASE Extract
  <2>1. copy[theme] = 0 /\ theme \in Themes
    BY <1>6 DEF Extract
  <2>2. copy' = copy \/ \E c : copy' = [copy EXCEPT ![theme] = c]
    BY <1>6 DEF Extract
  <2> QED
    BY <2>1, <2>2
<1>7. CASE Prune
  <2>1. copy' = copy \/ \E x : copy' = [copy EXCEPT ![x] = 0]
    BY <1>7 DEF Prune, PruneOne, themeVars
  <2> QED
    BY <2>1
<1> QED
  BY <1>1, <1>2, <1>3, <1>4, <1>5, <1>6, <1>7 DEF Install, ThemeSyncStep

(* A file is written when the themes it selects are there, and what is     *)
(* taken away from it later is recorded.                                   *)
LEMMA AvailableStep ==
  ASSUME SettingsTypeOK, Replaced, Retained, Filed, AvailableBeforeSelected, DaemonStep,
         UNCHANGED kcmVars
  PROVE  Filed' /\ AvailableBeforeSelected'
<1> USE DEF Filed, None
<1>1. asked \in Nat /\ asked' = asked /\ ConfigFiles = {"kdeglobals", "plasmarc"} /\ number \in 0..asked
  BY DEF kcmVars, ConfigFiles, Order, SettingsTypeOK, KcmTypeOK
<1>2. ASSUME Install \/ Prune PROVE Filed' /\ AvailableBeforeSelected'
  <2>1. TakesAway /\ UNCHANGED <<request, config>>
    BY <1>2 DEF Install, Prune, Same, fileVars
  <2>2. \A f \in ConfigFiles : Selected(f)' = Selected(f) /\ Selected(f) \subseteq Themes
    BY <2>1 DEF Selected, Selects
  <2>3. taken' \in [ConfigFiles -> SUBSET Themes]
    BY <2>1, <2>2 DEF TakesAway
  <2>4. ASSUME NEW f \in ConfigFiles, NEW t \in Selected(f), t \notin taken'[f]
        PROVE  copy'[t] = config[f]
    <3>1. t \in Themes /\ t \notin taken[f] /\ config[f] # None
      BY <2>1, <2>2, <2>4 DEF TakesAway, Selected
    <3>2. copy[t] = config[f] /\ copy[t] # None
      BY <3>1, <2>4 DEF AvailableBeforeSelected
    <3>3. copy'[t] # None
      BY <2>1, <2>4, <3>2 DEF TakesAway
    <3>4. ~(at = "unmarked" /\ t = theme)
      BY <2>4, <3>1
    <3>5. copy'[t] \in {copy[t], None} \/ copy[t] = None \/ (at = "unmarked" /\ t = theme)
      BY <1>2, <3>1, CopiesAreTaken
    <3> QED
      BY <3>2, <3>3, <3>4, <3>5
  <2>5. AvailableBeforeSelected'
    BY <2>1, <2>2, <2>4 DEF AvailableBeforeSelected
  <2>6. ASSUME at' \in {"placed", "unmarked"}, NEW f \in ConfigFiles, theme' \in Selected(f)
        PROVE  theme' \in taken'[f]
    <3>1. theme' = theme /\ at \in {"aside", "placed"}
      BY <1>2, <2>6 DEF Install, Prune, PruneOne, InstallStep, ThemeSyncStep, Stage, RemoveOld, SetAside,
            Place, Restore, DropMarker, Mark, Extract, Installed, NotInstalled, replaceVars
    <3>2. taken[f] \subseteq taken'[f]
      BY <2>1 DEF TakesAway
    <3>3. CASE at = "aside"
      <4>1. copy[theme] = None /\ config[f] # None
        BY <2>6, <3>3 DEF Replaced, Selected
      <4> QED
        BY <2>6, <3>1, <3>2, <4>1 DEF AvailableBeforeSelected
    <3>4. CASE at = "placed"
      BY <2>6, <3>1, <3>2, <3>4
    <3> QED
      BY <3>1, <3>3, <3>4
  <2> QED
    BY <1>1, <2>1, <2>2, <2>3, <2>5, <2>6
<1>3. ASSUME UNCHANGED <<request, config, taken, copy>>, at' \notin {"placed", "unmarked"}
      PROVE  Filed' /\ AvailableBeforeSelected'
  BY <1>1, <1>3 DEF AvailableBeforeSelected, Selected
<1>4. CASE \E n \in 1..MaxRequests : OnRequest(n)
  <2>1. PICK n \in 1..asked : OnRequest(n)
    BY <1>4 DEF OnRequest, SettingsTypeOK, KcmTypeOK
  <2>2. Begin(request[n]) \in {"sync", "clear", "save"}
    BY RequestsAreKnown DEF Begin, SettingsTypeOK
  <2> QED
    BY <1>3, <2>1, <2>2 DEF OnRequest, themeVars, fileVars
<1>5. CASE NextTheme \/ Truncate \/ WriteText \/ WriteWallpapers
  BY <1>3, <1>5 DEF NextTheme, Truncate, WriteText, WriteWallpapers, Same, themeVars, fileVars
<1>6. CASE WriteConfig
  <2>1. at = "config" /\ UNCHANGED <<request, copy, number>>
    BY <1>6 DEF WriteConfig, Same, themeVars
  <2>2. CASE at' = "failed" /\ UNCHANGED <<written, config, taken>>
    BY <1>3, <2>1, <2>2
  <2>3. CASE ~(at' = "failed" /\ UNCHANGED <<written, config, taken>>)
    <3>1. PICK x \in ConfigFiles : /\ config' = [config EXCEPT ![x] = number]
                                   /\ taken' = [taken EXCEPT ![x] = {}]
      <4>1. written \in {0, 1}
        BY <2>1 DEF Retained, SettingsTypeOK, ThemesTypeOK
      <4>2. Order[written + 1] \in ConfigFiles
        BY <4>1 DEF ConfigFiles, Order
      <4> QED
        BY <1>6, <2>3, <4>2 DEF WriteConfig
    <3>2. at' \in {"done", "config"} /\ number # None
      BY <1>6, <2>1, <2>3 DEF WriteConfig, Replaced
    <3>3. ASSUME NEW t \in Asked.private PROVE copy[t] = number
      BY <2>1, <3>3 DEF Retained, Syncing
    <3>4. ASSUME NEW f \in ConfigFiles, NEW t \in Selected(f)', t \notin taken'[f]
          PROVE  copy'[t] = config'[f]
      <4>1. CASE f = x
        <5>1. config'[f] = number
          BY <3>1, <4>1
        <5>2. t \in Asked.private
          BY <2>1, <3>2, <3>4, <5>1 DEF Selected, Asked
        <5> QED
          BY <2>1, <3>3, <5>1, <5>2
      <4>2. CASE f # x
        <5>1. config'[f] = config[f] /\ taken'[f] = taken[f]
          BY <3>1, <4>2
        <5>2. t \in Selected(f) \ taken[f]
          BY <2>1, <3>4, <5>1 DEF Selected
        <5> QED
          BY <2>1, <5>1, <5>2 DEF AvailableBeforeSelected
      <4> QED
        BY <4>1, <4>2
    <3>5. AvailableBeforeSelected'
      BY <3>4 DEF AvailableBeforeSelected
    <3> QED
      BY <1>1, <3>1, <3>2, <3>5
  <2> QED
    BY <2>2, <2>3
<1>7. CASE RemoveConfig
  <2>1. at = "clear" /\ UNCHANGED <<request, copy>> /\ at' \in {"prune", "clear"}
    BY <1>7 DEF RemoveConfig, Same, themeVars
  <2>2. CASE UNCHANGED <<config, taken>>
    BY <1>3, <2>1, <2>2
  <2>3. CASE ~UNCHANGED <<config, taken>>
    <3>1. PICK x : config' = [config EXCEPT ![x] = 0] /\ taken' = [taken EXCEPT ![x] = {}]
      BY <1>7, <2>3 DEF RemoveConfig
    <3>2. ASSUME NEW f \in ConfigFiles, NEW t \in Selected(f)', t \notin taken'[f]
          PROVE  copy'[t] = config'[f]
      <4>1. f # x
        BY <3>1, <3>2 DEF Selected
      <4>2. config'[f] = config[f] /\ taken'[f] = taken[f]
        BY <3>1, <4>1
      <4>3. t \in Selected(f) \ taken[f]
        BY <2>1, <3>2, <4>2 DEF Selected
      <4> QED
        BY <2>1, <4>2, <4>3 DEF AvailableBeforeSelected
    <3>3. AvailableBeforeSelected'
      BY <3>2 DEF AvailableBeforeSelected
    <3>4. config' \in [ConfigFiles -> 0..asked] /\ taken' \in [ConfigFiles -> SUBSET Themes]
      <4>1. 0 \in 0..asked
        BY <1>1
      <4> QED
        BY <3>1, <4>1
    <3> QED
      BY <1>1, <2>1, <3>3, <3>4
  <2> QED
    BY <2>2, <2>3
<1>8. CASE Respond \/ Crash \/ Restart
  BY <1>3, <1>8 DEF Respond, Crash, Restart, themeVars, fileVars
<1> QED
  BY <1>2, <1>4, <1>5, <1>6, <1>7, <1>8 DEF DaemonStep, Apply

(* A theme gets the marker only with a copy that isn't independent.        *)
LEMMA MarkedStep ==
  ASSUME SettingsTypeOK, Replaced, Marked, DaemonStep
  PROVE  Marked'
<1> USE ThemesAssumption DEF SettingsTypeOK, KcmTypeOK, ThemesTypeOK, Replaced, Marked, Replacing,
         None, Own
<1>1. CASE \E n \in 1..MaxRequests : OnRequest(n)
  <2>1. PICK n \in 1..asked : OnRequest(n)
    BY <1>1 DEF OnRequest
  <2>2. Begin(request[n]) \in {"sync", "clear", "save"}
    BY RequestsAreKnown DEF Begin
  <2>3. at' \in {"idle", "sync", "clear", "save"} /\ UNCHANGED themeVars
    BY <2>1, <2>2 DEF OnRequest
  <2> QED
    BY <2>3 DEF themeVars
<1>2. CASE NextTheme
  BY <1>2 DEF NextTheme, Same, themeVars, replaceVars, fileVars
<1>3. CASE /\ \E t \in Asked.private \ retained : at = "install" /\ Stage(t)
           /\ Same /\ UNCHANGED <<written, fileVars>>
  <2>1. PICK t \in Themes : Stage(t)
    BY <1>3, RequestsAreKnown DEF SettingsTypeOK
  <2> QED
    BY <1>3, <2>1 DEF Stage, Same, themeVars, replaceVars, fileVars
<1>4. CASE /\ \E t \in Asked.private \ retained : at = "install" /\ RemoveOld(t)
           /\ Same /\ UNCHANGED <<written, fileVars>>
  <2>1. PICK t \in Themes : RemoveOld(t)
    BY <1>4, RequestsAreKnown DEF SettingsTypeOK
  <2> QED
    BY <1>4, <2>1 DEF RemoveOld, Same, themeVars, replaceVars, fileVars
<1>5. CASE SetAside /\ Same /\ UNCHANGED <<written, fileVars>>
  BY <1>5 DEF SetAside, NotInstalled, Same, themeVars, replaceVars, fileVars
<1>6. CASE Place /\ Same /\ UNCHANGED <<written, fileVars>>
  <2>1. UNCHANGED previous /\ theme \in Themes /\ previous # Own /\ number # Own
    BY <1>6 DEF Place
  <2>2. CASE Restore
    <3>1. at' = "failed" /\ backup = previous
      BY <1>6, <2>2 DEF Place, Restore
    <3>2. \A t \in marker' : t \in Themes /\ (t # "cursor" => copy'[t] # Own)
      BY <2>1, <2>2, <3>1 DEF Restore
    <3> QED
      BY <3>1, <3>2
  <2>3. CASE ~Restore
    <3>1. copy'[theme] = number /\ \A t \in Themes \ {theme} : copy'[t] = copy[t]
      BY <1>6, <2>1, <2>3 DEF Place
    <3>2. marker' \subseteq marker \cup {theme}
      BY <1>6, <2>1, <2>3 DEF Place
    <3> QED
      BY <2>1, <3>1, <3>2
  <2> QED
    BY <2>2, <2>3
<1>7. CASE DropMarker /\ Same /\ UNCHANGED <<written, fileVars>>
  BY <1>7 DEF DropMarker, Same, themeVars, replaceVars, fileVars
<1>8. CASE Mark /\ Same /\ UNCHANGED <<written, fileVars>>
  <2>1. UNCHANGED previous /\ theme \in Themes /\ previous # Own /\ number # Own
    BY <1>8 DEF Mark
  <2>2. CASE Restore
    <3>1. at' = "failed" /\ backup = previous
      BY <1>8, <2>2 DEF Mark, Restore
    <3>2. \A t \in marker' : t \in Themes /\ (t # "cursor" => copy'[t] # Own)
      BY <2>1, <2>2, <3>1 DEF Restore
    <3> QED
      BY <3>1, <3>2
  <2>3. CASE ~Restore
    <3>1. copy'[theme] = number /\ \A t \in Themes \ {theme} : copy'[t] = copy[t]
      BY <1>8, <2>1, <2>3 DEF Mark
    <3>2. marker' \subseteq marker \cup {theme}
      BY <1>8, <2>1, <2>3 DEF Mark
    <3> QED
      BY <2>1, <3>1, <3>2
  <2> QED
    BY <2>2, <2>3
<1>9. CASE Extract /\ Same /\ UNCHANGED <<written, fileVars>>
  BY <1>9 DEF Extract, Installed, NotInstalled, Same, themeVars, replaceVars,
              fileVars
<1>10. CASE Prune
  BY <1>10 DEF Prune, PruneOne, Obsolete, Same, themeVars, replaceVars, fileVars
<1>11. CASE WriteConfig
  BY <1>11 DEF WriteConfig, Same, themeVars, replaceVars, fileVars
<1>12. CASE RemoveConfig
  BY <1>12 DEF RemoveConfig, Same, themeVars, replaceVars, fileVars
<1>13. CASE Truncate
  BY <1>13 DEF Truncate, Same, themeVars, replaceVars, fileVars
<1>14. CASE WriteText
  BY <1>14 DEF WriteText, Same, themeVars, replaceVars, fileVars
<1>15. CASE WriteWallpapers
  BY <1>15 DEF WriteWallpapers, Same, themeVars, replaceVars, fileVars
<1>16. CASE Respond
  BY <1>16 DEF Respond, Forget, Same, themeVars, replaceVars, fileVars
<1>17. CASE Crash
  BY <1>17 DEF Crash, Forget, Same, themeVars, replaceVars, fileVars
<1>18. CASE Restart
  BY <1>18 DEF Restart, Same, themeVars, replaceVars, fileVars
<1> QED
  BY <1>1, <1>2, <1>3, <1>4, <1>5, <1>6, <1>7, <1>8, <1>9, <1>10, <1>11,
     <1>12, <1>13, <1>14, <1>15, <1>16, <1>17, <1>18
     DEF DaemonStep, Apply, Install, InstallStep, ThemeSyncStep

(* A step changes a theme without the marker only if it is the cursor's.   *)
LEMMA IndependentStep ==
  ASSUME SettingsTypeOK, Replaced, Marked, DaemonStep
  PROVE  \A t \in Themes \ {"cursor"} : copy[t] = Own => copy'[t] = Own
<1> USE ThemesAssumption DEF SettingsTypeOK, KcmTypeOK, ThemesTypeOK, Replaced, Marked, Replacing,
         None, Own
<1>1. CASE \E n \in 1..MaxRequests : OnRequest(n)
  BY <1>1 DEF OnRequest, themeVars
<1>2. CASE NextTheme
  BY <1>2 DEF NextTheme, Same, themeVars, replaceVars, fileVars
<1>3. CASE /\ \E t \in Asked.private \ retained : at = "install" /\ Stage(t)
           /\ Same /\ UNCHANGED <<written, fileVars>>
  <2>1. PICK t \in Themes : Stage(t)
    BY <1>3, RequestsAreKnown DEF SettingsTypeOK
  <2> QED
    BY <1>3, <2>1 DEF Stage, Same, themeVars, replaceVars, fileVars
<1>4. CASE /\ \E t \in Asked.private \ retained : at = "install" /\ RemoveOld(t)
           /\ Same /\ UNCHANGED <<written, fileVars>>
  <2>1. PICK t \in Themes : RemoveOld(t)
    BY <1>4, RequestsAreKnown DEF SettingsTypeOK
  <2> QED
    BY <1>4, <2>1 DEF RemoveOld, Same, themeVars, replaceVars, fileVars
<1>5. CASE SetAside /\ Same /\ UNCHANGED <<written, fileVars>>
  BY <1>5 DEF SetAside, NotInstalled, Same, themeVars, replaceVars, fileVars
<1>6. CASE Place /\ Same /\ UNCHANGED <<written, fileVars>>
  <2>1. theme \in Themes /\ copy[theme] # Own /\ \A t \in Themes \ {theme} : copy'[t] = copy[t]
    BY <1>6 DEF Place, Restore
  <2> QED
    BY <2>1
<1>7. CASE DropMarker /\ Same /\ UNCHANGED <<written, fileVars>>
  BY <1>7 DEF DropMarker, Same, themeVars, replaceVars, fileVars
<1>8. CASE Mark /\ Same /\ UNCHANGED <<written, fileVars>>
  <2>1. theme \in Themes /\ copy[theme] # Own /\ \A t \in Themes \ {theme} : copy'[t] = copy[t]
    BY <1>8 DEF Mark, Restore
  <2> QED
    BY <2>1
<1>9. CASE Extract /\ Same /\ UNCHANGED <<written, fileVars>>
  BY <1>9 DEF Extract, Installed, NotInstalled, Same, themeVars, replaceVars,
              fileVars
<1>10. CASE Prune
  BY <1>10 DEF Prune, PruneOne, Obsolete, Same, themeVars, replaceVars, fileVars
<1>11. CASE WriteConfig
  BY <1>11 DEF WriteConfig, Same, themeVars, replaceVars, fileVars
<1>12. CASE RemoveConfig
  BY <1>12 DEF RemoveConfig, Same, themeVars, replaceVars, fileVars
<1>13. CASE Truncate
  BY <1>13 DEF Truncate, Same, themeVars, replaceVars, fileVars
<1>14. CASE WriteText
  BY <1>14 DEF WriteText, Same, themeVars, replaceVars, fileVars
<1>15. CASE WriteWallpapers
  BY <1>15 DEF WriteWallpapers, Same, themeVars, replaceVars, fileVars
<1>16. CASE Respond
  BY <1>16 DEF Respond, Forget, Same, themeVars, replaceVars, fileVars
<1>17. CASE Crash
  BY <1>17 DEF Crash, Forget, Same, themeVars, replaceVars, fileVars
<1>18. CASE Restart
  BY <1>18 DEF Restart, Same, themeVars, replaceVars, fileVars
<1> QED
  BY <1>1, <1>2, <1>3, <1>4, <1>5, <1>6, <1>7, <1>8, <1>9, <1>10, <1>11,
     <1>12, <1>13, <1>14, <1>15, <1>16, <1>17, <1>18
     DEF DaemonStep, Apply, Install, InstallStep, ThemeSyncStep

(* What a request asks for is done before it is answered with success.     *)
LEMMA CompleteStep ==
  ASSUME SettingsTypeOK, Replaced, Retained, Marked, Filed, Complete, DaemonStep,
         UNCHANGED kcmVars
  PROVE  Complete'
<1> USE DEF SettingsTypeOK, KcmTypeOK, ThemesTypeOK, Replaced, Retained, Marked, Filed, Complete,
         Replacing, Syncing, None, Asked
<1>1. CASE \E n \in 1..MaxRequests : OnRequest(n)
  <2>1. PICK n \in 1..asked : OnRequest(n)
    BY <1>1 DEF OnRequest
  <2>2. /\ at = "idle" /\ number' = n /\ request' = request /\ retained' = {}
        /\ UNCHANGED <<marker, asked>>
    BY <2>1 DEF OnRequest, themeVars, kcmVars
  <2>3. succeeded' = succeeded /\ Whole(succeeded) => Whole(succeeded)'
    BY <2>1 DEF OnRequest, Whole, themeVars, fileVars
  <2>4. \/ at' = "idle" /\ succeeded' = succeeded
        \/ at' = Begin(request[n]) /\ succeeded' = 0
    BY <2>1 DEF OnRequest
  <2>6. request[n].op \in {"sync", "reset", "save"}
    BY RequestsAreKnown
  <2>5. \/ Begin(request[n]) = "sync"
        \/ Begin(request[n]) = "clear"
        \/ Begin(request[n]) = "save" /\ request[n].op = "save"
    BY <2>6 DEF Begin
  <2> QED
    BY <2>2, <2>3, <2>4, <2>5
<1>2. CASE NextTheme
  BY <1>2 DEF NextTheme, Same, themeVars, replaceVars, fileVars
<1>3. CASE /\ \E t \in Asked.private \ retained : at = "install" /\ Stage(t)
           /\ Same /\ UNCHANGED <<written, fileVars>>
  <2>1. PICK t \in Asked.private : Stage(t) /\ at = "install"
    BY <1>3
  <2> QED
    BY <1>3, <2>1 DEF Stage, Same
<1>4. CASE /\ \E t \in Asked.private \ retained : at = "install" /\ RemoveOld(t)
           /\ Same /\ UNCHANGED <<written, fileVars>>
  <2>1. PICK t \in Asked.private : RemoveOld(t) /\ at = "install"
    BY <1>4
  <2> QED
    BY <1>4, <2>1 DEF RemoveOld, Same
<1>5. CASE SetAside /\ Same /\ UNCHANGED <<written, fileVars>>
  BY <1>5 DEF SetAside, NotInstalled, Same, themeVars, replaceVars, fileVars
<1>6. CASE Place /\ Same /\ UNCHANGED <<written, fileVars>>
  <2>1. at' \in {"sync", "placed", "failed"} /\ (at' # "failed" => retained' \subseteq retained \cup {theme})
    BY <1>6 DEF Place, Restore, Installed, NotInstalled
  <2>2. at \in Replacing /\ UNCHANGED <<theme, request, number, succeeded>>
    BY <1>6 DEF Place, Same
  <2> QED
    BY <2>1, <2>2
<1>7. CASE DropMarker /\ Same /\ UNCHANGED <<written, fileVars>>
  BY <1>7 DEF DropMarker, Same, themeVars, replaceVars, fileVars
<1>8. CASE Mark /\ Same /\ UNCHANGED <<written, fileVars>>
  <2>1. at' \in {"sync", "failed"} /\ (at' # "failed" => retained' \subseteq retained \cup {theme})
    BY <1>8 DEF Mark, Restore, Installed, NotInstalled
  <2>2. at \in Replacing /\ UNCHANGED <<theme, request, number, succeeded>>
    BY <1>8 DEF Mark, Same
  <2> QED
    BY <2>1, <2>2
<1>9. CASE Extract /\ Same /\ UNCHANGED <<written, fileVars>>
  <2>1. at' \in {"sync", "failed"} /\ (at' # "failed" => retained' \subseteq retained \cup {theme})
    BY <1>9 DEF Extract, Restore, Installed, NotInstalled
  <2>2. at \in Replacing /\ UNCHANGED <<theme, request, number, succeeded>>
    BY <1>9 DEF Extract, Same
  <2> QED
    BY <2>1, <2>2
<1>10. CASE Prune
  <2>1. at = "prune" /\ succeeded' = 0 /\ UNCHANGED <<number, request, retained, written, config>>
    BY <1>10 DEF Prune, PruneOne, Same, fileVars
  <2>2. marker' \subseteq marker
    BY <1>10 DEF Prune, PruneOne, themeVars
  <2>3. CASE \E t \in Themes : PruneOne(t)
    BY <1>10, <2>1, <2>2, <2>3 DEF PruneOne
  <2>4. CASE Obsolete = {} /\ UNCHANGED themeVars /\ at' = IF Asked.op = "sync" THEN "config" ELSE "done"
    <3>1. \A t \in marker \ Asked.private : copy'[t] = 0
      BY <1>10, <2>4 DEF Prune, PruneOne, Obsolete, themeVars
    <3>2. at' = "done" => Whole(number)'
      BY <1>10, <2>1, <2>4, <3>1 DEF Prune, PruneOne, Whole, themeVars
    <3>3. at' = "config" => written = 0
      BY <1>10, <2>4 DEF Prune, PruneOne
    <3> QED
      BY <2>1, <2>2, <2>4, <3>1, <3>2, <3>3 DEF themeVars
  <2> QED
    BY <1>10, <2>3, <2>4 DEF Prune
<1>11. CASE WriteConfig
  <2>1. /\ at = "config" /\ succeeded' = 0 /\ retained' = retained
        /\ UNCHANGED <<number, request, copy, marker>>
    BY <1>11 DEF WriteConfig, Same, themeVars
  <2>2. CASE at' = "failed"
    BY <2>1, <2>2
  <2>3. CASE at' # "failed"
    <3>1. /\ written' = written + 1 /\ config' = [config EXCEPT ![Order[written + 1]] = number]
          /\ taken' = [taken EXCEPT ![Order[written + 1]] = {}]
          /\ at' = IF written' = 2 THEN "done" ELSE "config"
      BY <1>11, <2>3 DEF WriteConfig, Order
    <3>2. DOMAIN config = {Order[1], Order[2]} /\ DOMAIN taken = DOMAIN config /\ ConfigFiles = DOMAIN config /\ Order[1] # Order[2]
      BY DEF ConfigFiles, Order
    <3>3. written \in {0, 1}
      BY <2>1
    <3>4. \A i \in 1..written' : config'[Order[i]] = number /\ taken'[Order[i]] = {}
      BY <2>1, <3>1, <3>2, <3>3
    <3>5. written' = 2 => \A f \in ConfigFiles : config'[f] = number /\ taken'[f] = {}
      BY <3>2, <3>4
    <3>6. at' = "done" => Whole(number)'
      BY <2>1, <3>1, <3>5 DEF Whole
    <3> QED
      BY <2>1, <3>1, <3>4, <3>6
  <2> QED
    BY <2>2, <2>3
<1>12. CASE RemoveConfig
  BY <1>12 DEF RemoveConfig, Same, themeVars, replaceVars, fileVars
<1>13. CASE Truncate
  BY <1>13 DEF Truncate, Same, themeVars, replaceVars, fileVars
<1>14. CASE WriteText
  BY <1>14 DEF WriteText, Same, themeVars, replaceVars, fileVars
<1>15. CASE WriteWallpapers
  <2>1. at' = "done" => {wallpapers', mainConfig'} \subseteq {number, 0} /\ request'[number'].op = "save"
    BY <1>15 DEF WriteWallpapers, Same
  <2>2. at' = "done" => Whole(number)'
    BY <1>15, <2>1 DEF WriteWallpapers, Same, Whole
  <2>3. at' \in {"done", "failed"} /\ succeeded' = 0 /\ UNCHANGED marker
    BY <1>15 DEF WriteWallpapers, Same, themeVars
  <2> QED
    BY <2>2, <2>3
<1>16. CASE Respond
  <2>1. UNCHANGED <<asked, marker, number, request>> /\ at' = "idle"
    BY <1>16 DEF Respond, kcmVars
  <2>3. succeeded' # 0 => at = "done" /\ succeeded' = number /\ number \in 1..asked
    BY <1>16 DEF Respond
  <2>4. succeeded' # 0 => Whole(succeeded)'
    BY <1>16, <2>3 DEF Respond, Whole, fileVars
  <2> QED
    BY <2>1, <2>3, <2>4
<1>17. CASE Crash
  BY <1>17 DEF Crash, Forget, Same, themeVars, replaceVars, fileVars
<1>18. CASE Restart
  BY <1>18 DEF Restart, Same, themeVars, replaceVars, fileVars
<1> QED
  BY <1>1, <1>2, <1>3, <1>4, <1>5, <1>6, <1>7, <1>8, <1>9, <1>10, <1>11,
     <1>12, <1>13, <1>14, <1>15, <1>16, <1>17, <1>18
     DEF DaemonStep, Apply, Install, InstallStep, ThemeSyncStep

(* Every request that goes out uses up the password it goes out with.      *)
LEMMA PaidStep ==
  ASSUME Paid, KcmStep
  PROVE  Paid'
<1> USE DEF Paid
<1>1. CASE \E r \in Requests : Ask(r)
  BY <1>1 DEF Ask, Go, Send, Fails, daemonVars, kcmVars
<1>2. CASE Collected
  BY <1>2 DEF Collected, Go, Send, Fails, daemonVars, kcmVars
<1>3. CASE SubmitAuth
  BY <1>3 DEF SubmitAuth, Send, Fails, daemonVars, kcmVars
<1>4. CASE CancelAuth
  BY <1>4 DEF CancelAuth, daemonVars, kcmVars
<1>5. CASE Deadline
  BY <1>5 DEF Deadline, Fails, daemonVars, kcmVars
<1>6. CASE Late
  BY <1>6 DEF Late, daemonVars, kcmVars
<1>7. CASE \E ok \in BOOLEAN : Answered(ok)
  BY <1>7 DEF Answered, daemonVars, kcmVars
<1> QED
  BY <1>1, <1>2, <1>3, <1>4, <1>5, <1>6, <1>7 DEF KcmStep

(* The module believes nothing but an answer to the request it waits for.  *)
LEMMA TruthfulOfModule ==
  ASSUME KcmTypeOK, Truthful, KcmStep
  PROVE  Truthful'
<1> USE DEF KcmTypeOK, Truthful, NoFalseSuccess, Numbers
<1>1. CASE \E r \in Requests : Ask(r)
  BY <1>1 DEF Ask, Go, Send, Fails, daemonVars, kcmVars, themeVars, replaceVars,
              fileVars
<1>2. CASE Collected
  BY <1>2 DEF Collected, Go, Send, Fails, daemonVars, kcmVars, themeVars,
              replaceVars, fileVars
<1>3. CASE SubmitAuth
  BY <1>3 DEF SubmitAuth, Send, Fails, daemonVars, kcmVars, themeVars,
              replaceVars, fileVars
<1>4. CASE CancelAuth
  BY <1>4 DEF CancelAuth, daemonVars, kcmVars, themeVars, replaceVars, fileVars
<1>5. CASE Deadline
  BY <1>5 DEF Deadline, Fails, daemonVars, kcmVars, themeVars, replaceVars,
              fileVars
<1>6. CASE Late
  BY <1>6 DEF Late, daemonVars, kcmVars, themeVars, replaceVars, fileVars
<1>7. CASE \E ok \in BOOLEAN : Answered(ok)
  BY <1>7 DEF Answered, daemonVars, kcmVars, themeVars, replaceVars, fileVars
<1> QED
  BY <1>1, <1>2, <1>3, <1>4, <1>5, <1>6, <1>7 DEF KcmStep

(* The daemon answers with success what it has applied.                    *)
LEMMA TruthfulOfDaemon ==
  ASSUME Truthful, DaemonStep, UNCHANGED kcmVars
  PROVE  Truthful'
<1>1. /\ applied \subseteq applied'
      /\ \A n \in Numbers : <<n, TRUE>> \in replies' => <<n, TRUE>> \in replies \/ n \in applied'
  <2>1. CASE \E n \in 1..MaxRequests : OnRequest(n)
    BY <2>1 DEF OnRequest
  <2>2. CASE Install
    BY <2>2 DEF Install, Same
  <2>3. CASE NextTheme \/ Prune \/ WriteConfig \/ RemoveConfig \/ Truncate \/ WriteText \/ WriteWallpapers
    BY <2>3 DEF NextTheme, Prune, WriteConfig, RemoveConfig, Truncate, WriteText,
                WriteWallpapers, Same
  <2>4. CASE Respond
    BY <2>4 DEF Respond
  <2>5. CASE Crash \/ Restart
    BY <2>5 DEF Crash, Restart
  <2> QED
    BY <2>1, <2>2, <2>3, <2>4, <2>5 DEF DaemonStep, Apply
<1> QED
  BY <1>1 DEF Truthful, NoFalseSuccess, kcmVars

(* Requests are numbered on.                                               *)
LEMMA MoreIsAsked ==
  ASSUME asked \in Nat, KcmStep
  PROVE  asked' \in Nat /\ asked <= asked'
<1>1. asked' = asked + 1 \/ asked' = asked
  BY DEF KcmStep, Ask, Collected, SubmitAuth, CancelAuth, Deadline, Late, Answered, kcmVars
<1> QED
  BY <1>1

-------------------------------------------------------------------------------
(* The inductive invariant.                                                *)
SettingsIInv == SettingsTypeOK /\ Replaced /\ Retained /\ Filed /\ Marked /\ Complete

(* The themes' invariant holds of the specification.                       *)
LEMMA SettingsInvariant == SettingsSpec => [](SettingsIInv /\ AvailableBeforeSelected)
<1>1. SettingsInit => SettingsIInv /\ AvailableBeforeSelected
  BY ThemesAssumption
     DEF SettingsInit, KcmIpcInit, ThemeSyncInit, SettingsIInv, SettingsTypeOK, KcmTypeOK,
         ThemesTypeOK, Replaced, Retained, Filed, Marked, Complete, AvailableBeforeSelected, Selected,
         Replacing, Syncing, Places, None, Own, Copies, Numbers, Order, ConfigFiles, NoTheme
<1>2. SettingsIInv /\ AvailableBeforeSelected /\ [SettingsNext]_settingsVars
        => (SettingsIInv /\ AvailableBeforeSelected)'
  <2> SUFFICES ASSUME SettingsIInv, AvailableBeforeSelected, [SettingsNext]_settingsVars
               PROVE  (SettingsIInv /\ AvailableBeforeSelected)'
    OBVIOUS
  <2> USE DEF SettingsIInv, SettingsTypeOK
  <2>1. CASE KcmStep
    <3>1. KcmTypeOK'
      BY <2>1, ModuleKeepsType
    <3>2. UNCHANGED daemonVars /\ \A n \in 1..asked : request'[n] = request[n]
      BY <2>1, ModuleLeavesDaemon
    <3>3. number # None => Asked' = Asked
      BY <3>2 DEF KcmTypeOK, Asked, None, daemonVars
    <3>4. ThemesTypeOK' /\ Replaced' /\ Marked'
      BY <3>2 DEF ThemesTypeOK, Replaced, Marked, daemonVars, themeVars, fileVars
    <3>5. Retained'
      BY <3>2, <3>3 DEF Retained, Replaced, Replacing, Syncing, daemonVars, themeVars
    <3>14. UNCHANGED <<config, taken, copy, at, theme>>
      BY <3>2 DEF daemonVars, themeVars, fileVars
    <3>15. \A f \in ConfigFiles : Selected(f)' = Selected(f)
      <4> SUFFICES ASSUME NEW f \in ConfigFiles, config[f] # None
                   PROVE  request'[config[f]] = request[config[f]]
        BY <3>14 DEF Selected
      <4>1. config[f] \in 1..asked
        BY DEF Filed, None, KcmTypeOK
      <4> QED
        BY <3>2, <4>1
    <3>6. AvailableBeforeSelected'
      BY <3>14, <3>15 DEF AvailableBeforeSelected
    <3>8. asked' \in Nat /\ asked <= asked'
      BY <2>1, MoreIsAsked DEF KcmTypeOK
    <3>9. UNCHANGED <<at, number, retained, written, succeeded, copy, marker, theme, config, taken, mainConfig>>
      BY <3>2 DEF daemonVars, themeVars, fileVars
    <3>7. succeeded # None => request'[succeeded] = request[succeeded] /\ succeeded \in 1..asked'
      BY <3>2, <3>8 DEF Complete, KcmTypeOK
    <3>10. succeeded # None => Whole(succeeded)'
      BY <3>2, <3>7, <3>9 DEF Complete, Whole, daemonVars, fileVars
    <3>11. at = "done" => Whole(number)'
      BY <3>2, <3>9 DEF Complete, Replaced, KcmTypeOK, Whole, None, daemonVars, themeVars, fileVars
    <3>12. at \notin {"idle", "down"} => Asked' = Asked
      BY <3>3 DEF Replaced
    <3>13. Complete'
      BY <3>7, <3>9, <3>10, <3>11, <3>12 DEF Complete, Replacing, Syncing, None
    <3>16. Filed'
      <4>1. 0..asked \subseteq 0..asked'
        BY <3>8 DEF KcmTypeOK
      <4> QED
        BY <3>14, <3>15, <4>1 DEF Filed
    <3> QED
      BY <3>1, <3>4, <3>5, <3>6, <3>13, <3>16
  <2>2. CASE DaemonStep /\ UNCHANGED kcmVars
    BY <2>2, DaemonKeepsKcmType, ThemesTypeStep, ReplacedStep, RetainedStep, AvailableStep,
       MarkedStep, CompleteStep
  <2>3. CASE UNCHANGED settingsVars
    <3>1. UNCHANGED <<daemonVars, request, frames, asked, collecting, pending, busy, shown>>
      BY <2>3 DEF settingsVars, kcmVars
    <3>2. UNCHANGED <<at, number, retained, written, themeVars, fileVars, taken, succeeded>>
      BY <3>1 DEF daemonVars
    <3>3. KcmTypeOK' /\ ThemesTypeOK' /\ Replaced' /\ Marked'
      BY <3>1, <3>2 DEF themeVars, replaceVars, fileVars, KcmTypeOK, ThemesTypeOK, Replaced, Marked
    <3>4. Retained' /\ Filed' /\ AvailableBeforeSelected'
      BY <3>1, <3>2 DEF themeVars, replaceVars, fileVars, Retained, Filed, Selected, Asked,
            AvailableBeforeSelected
    <3>5. Complete'
      BY <3>1, <3>2 DEF themeVars, replaceVars, fileVars, Complete, Whole, Asked
    <3> QED
      BY <3>3, <3>4, <3>5
  <2> QED
    BY <2>1, <2>2, <2>3 DEF SettingsNext
<1> QED
  BY <1>1, <1>2, PTL DEF SettingsSpec

(* A password pays for one request, however many requests and passwords    *)
(* there are.                                                              *)
THEOREM PasswordsPayRequests == SettingsSpec => []OneRequestPerPassword
<1>1. SettingsInit => Paid
  BY DEF SettingsInit, Paid
<1>2. Paid /\ [SettingsNext]_settingsVars => Paid'
  BY PaidStep DEF SettingsNext, settingsVars, kcmVars, Paid
<1>3. Paid => OneRequestPerPassword
  BY DEF Paid, OneRequestPerPassword
<1> QED
  BY <1>1, <1>2, <1>3, PTL DEF SettingsSpec

(* The module reports success only of what the daemon has applied.         *)
THEOREM AnswersAreTrue == SettingsSpec => []NoFalseSuccess
<1>1. SettingsInit => Truthful
  BY DEF SettingsInit, KcmIpcInit, Truthful, NoFalseSuccess
<1>2. SettingsIInv /\ Truthful /\ [SettingsNext]_settingsVars => Truthful'
  <2> SUFFICES ASSUME SettingsIInv, Truthful, [SettingsNext]_settingsVars
               PROVE  Truthful'
    OBVIOUS
  <2>1. CASE KcmStep
    BY <2>1, TruthfulOfModule DEF SettingsIInv, SettingsTypeOK
  <2>2. CASE DaemonStep /\ UNCHANGED kcmVars
    BY <2>2, TruthfulOfDaemon
  <2>3. CASE UNCHANGED settingsVars
    BY <2>3 DEF settingsVars, daemonVars, kcmVars, Truthful, NoFalseSuccess
  <2> QED
    BY <2>1, <2>2, <2>3 DEF SettingsNext
<1>3. Truthful => NoFalseSuccess
  BY DEF Truthful
<1> QED
  BY <1>1, <1>2, <1>3, SettingsInvariant, PTL DEF SettingsSpec

(* A theme that is replaced is never without a copy, unless both the       *)
(* replacing and the restoring fail.                                       *)
THEOREM PreviousCopiesAreKept == SettingsSpec => []PreviousIsKept
<1>1. SettingsIInv => PreviousIsKept
  BY DEF SettingsIInv, SettingsTypeOK, Replaced, PreviousIsKept, Replacing, None
<1> QED
  BY <1>1, SettingsInvariant, PTL

(* Every file of the greeter, of whichever request, selects a private      *)
(* theme that is there as it was sent with the file, or that was set aside *)
(* or removed after the file was written.                                  *)
THEOREM SelectedThemesAreThere == SettingsSpec => []AvailableBeforeSelected
<1> QED
  BY SettingsInvariant, PTL

(* What a sync or a reset was answered success for is in place until the   *)
(* next request, and of a save at least nothing older.                     *)
THEOREM SuccessIsComplete == SettingsSpec => []SuccessIsWhole
<1>1. SettingsIInv => SuccessIsWhole
  BY DEF SettingsIInv, Complete, Whole, SuccessIsWhole
<1> QED
  BY <1>1, SettingsInvariant, PTL

(* A theme that was installed independently stays, whatever is synced,     *)
(* reset or removed.                                                       *)
THEOREM IndependentThemesStay == SettingsSpec => IndependentIsKept
<1>1. SettingsIInv /\ [SettingsNext]_settingsVars
        => [\A t \in Themes \ {"cursor"} : copy[t] = Own => copy'[t] = Own]_<<copy, at>>
  <2> SUFFICES ASSUME SettingsIInv, [SettingsNext]_settingsVars,
                      NEW t \in Themes \ {"cursor"}, copy[t] = Own
               PROVE  copy'[t] = Own \/ UNCHANGED <<copy, at>>
    OBVIOUS
  <2>1. CASE KcmStep
    BY <2>1, ModuleLeavesDaemon DEF SettingsIInv, SettingsTypeOK, daemonVars, themeVars
  <2>2. CASE DaemonStep /\ UNCHANGED kcmVars
    BY <2>2, IndependentStep DEF SettingsIInv
  <2>3. CASE UNCHANGED settingsVars
    BY <2>3 DEF settingsVars, daemonVars, themeVars
  <2> QED
    BY <2>1, <2>2, <2>3 DEF SettingsNext
<1> QED
  BY <1>1, SettingsInvariant, PTL DEF SettingsSpec, IndependentIsKept

===============================================================================

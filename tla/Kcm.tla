--------------------------------- MODULE Kcm ---------------------------------
(***************************************************************************)
(* The settings module (src/src/frontend/kcm): save, synchronize and reset *)
(* wait for the administrator's password and are then sent to the daemon,  *)
(* each over a connection of its own with a deadline.  A deadline that     *)
(* passes takes nothing back: the daemon applies the request when it comes *)
(* to it.                                                                  *)
(***************************************************************************)
EXTENDS KcmIpcServer

CONSTANT MaxConsents  \* bound: passwords that are entered

ASSUME ConsentsAssumption == MaxConsents \in Nat

VARIABLES
  asked,       \* operations the user has asked for
  collecting,  \* the sync whose themes are being collected
  pending,     \* m_pendingContinuation: the operation that waits
  credentials, \* m_pendingAuthUser and m_pendingAuthPassword are there
  busy,        \* the operation that was sent
  shown,       \* of each operation: none, success or error
  consents,    \* passwords entered so far
  sends        \* requests sent so far

kcmVars == <<asked, collecting, pending, credentials, busy, shown, consents, sends>>
settingsVars == <<daemonVars, request, frames, replies, kcmVars>>

Numbers == 1..MaxRequests

SettingsInit ==
  /\ KcmIpcInit /\ request = [n \in Numbers |-> NoRequest]
  /\ asked = 0 /\ collecting = None /\ pending = None /\ credentials = FALSE
  /\ busy = None /\ shown = [n \in Numbers |-> "none"] /\ consents = 0 /\ sends = 0

(* busy(): m_operationStatus isn't empty.                                  *)
Idle == busy = None /\ collecting = None

Fails(n) == shown' = [shown EXCEPT ![n] = "error"]

(* Mutant: the password is kept for the next operation.                    *)
SendKeeps(n) ==
  /\ sends' = sends + 1 /\ UNCHANGED credentials /\ pending' = None
  /\ \/ at # "down" /\ frames' = frames \cup {n} /\ busy' = n /\ UNCHANGED shown
     \/ at = "down" /\ Fails(n) /\ UNCHANGED <<frames, busy>>

(* sendToDaemon(): the password is used up.  The daemon may be gone, or    *)
(* not be the one whose number is in daemon.pid.                           *)
Send(n) ==
  /\ sends' = sends + 1 /\ credentials' = FALSE /\ pending' = None
  /\ \/ at # "down" /\ frames' = frames \cup {n} /\ busy' = n /\ UNCHANGED shown
     \/ at = "down" /\ Fails(n) /\ UNCHANGED <<frames, busy>>

(* The operation waits for the password, or goes out with one that was     *)
(* entered before.                                                         *)
Go(n) ==
  IF credentials
  THEN Send(n)
  ELSE pending' = n /\ UNCHANGED <<frames, credentials, busy, shown, sends>>

Ask(r) ==
  /\ Idle /\ asked < MaxRequests
  /\ asked' = asked + 1 /\ request' = [request EXCEPT ![asked'] = r]
  /\ IF r.op = "sync"
     THEN collecting' = asked' /\ UNCHANGED <<frames, pending, credentials, busy, shown, sends>>
     ELSE Go(asked') /\ UNCHANGED collecting
  /\ UNCHANGED <<daemonVars, replies, consents>>

(* collectSettings() has finished, or a selected theme can't be read.      *)
Collected ==
  /\ collecting # None /\ collecting' = None
  /\ \/ Go(collecting)
     \/ Fails(collecting) /\ UNCHANGED <<frames, pending, credentials, busy, sends>>
  /\ UNCHANGED <<daemonVars, request, replies, asked, consents>>

(* submitAuth(): while the module is busy the password is dropped.         *)
SubmitAuth ==
  /\ consents < MaxConsents /\ Idle
  /\ consents' = consents + 1
  /\ IF pending = None
     THEN credentials' = TRUE /\ UNCHANGED <<frames, pending, busy, shown, sends>>
     ELSE Send(pending)
  /\ UNCHANGED <<daemonVars, request, replies, asked, collecting>>

CancelAuth ==
  /\ pending' = None /\ credentials' = FALSE
  /\ UNCHANGED <<daemonVars, request, frames, replies, asked, collecting, busy,
                 shown, consents, sends>>

(* Mutant: any answer is taken for the one that is awaited.                *)
AnsweredByAny(ok) ==
  /\ busy # None /\ \E r \in replies : r[2] = ok /\ replies' = replies \ {r}
  /\ busy' = None
  /\ shown' = [shown EXCEPT ![busy] = IF ok THEN "success" ELSE "error"]
  /\ pending' = IF ok THEN pending ELSE busy
  /\ UNCHANGED <<daemonVars, request, frames, asked, collecting, credentials, consents, sends>>

(* The answer.  After a failure the operation waits for a password again.  *)
Answered(ok) ==
  /\ busy # None /\ <<busy, ok>> \in replies /\ replies' = replies \ {<<busy, ok>>}
  /\ busy' = None
  /\ shown' = [shown EXCEPT ![busy] = IF ok THEN "success" ELSE "error"]
  /\ pending' = IF ok THEN pending ELSE busy
  /\ UNCHANGED <<daemonVars, request, frames, asked, collecting, credentials, consents, sends>>

(* The deadline, or the end of the connection.  An answer that comes later *)
(* finds nobody.                                                           *)
Deadline ==
  /\ busy # None /\ busy' = None /\ Fails(busy)
  /\ replies' = {r \in replies : r[1] # busy}
  /\ UNCHANGED <<daemonVars, request, frames, asked, collecting, pending, credentials, consents, sends>>

(* The reader of an answer is gone.                                        *)
Late ==
  /\ \E r \in replies : r[1] # busy /\ replies' = replies \ {r}
  /\ UNCHANGED <<daemonVars, request, frames, kcmVars>>

KcmStep ==
  \/ \E r \in Requests : Ask(r)
  \/ Collected \/ SubmitAuth \/ CancelAuth \/ Deadline \/ Late
  \/ \E ok \in BOOLEAN : Answered(ok)

SettingsNext == KcmStep \/ (DaemonStep /\ UNCHANGED kcmVars)

SettingsSpec == SettingsInit /\ [][SettingsNext]_settingsVars

-------------------------------------------------------------------------------
(* The module says that an operation has succeeded only when the daemon    *)
(* has applied that operation in full, however late its answers come and   *)
(* whichever daemon gives them.                                            *)
NoFalseSuccess == \A n \in Numbers : shown[n] = "success" => n \in applied

(* A password is good for one operation: the daemon never gets more        *)
(* requests than passwords were entered, retries included.                 *)
OneRequestPerPassword == sends <= consents

===============================================================================

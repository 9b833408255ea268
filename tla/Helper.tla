-------------------------------- MODULE Helper --------------------------------
(***************************************************************************)
(* One run of soniclogin-helper (src/src/helper): HelperApp::doAuth() with *)
(* the calls of PamBackend it makes, the session's process that            *)
(* UserSession starts and stops, and the end of the helper.                *)
(*                                                                         *)
(* doAuth() runs to its end inside one slot: until it returns, the helper  *)
(* sees neither SIGTERM nor the end of its session.  Every question to the *)
(* daemon blocks until the answer or the end of the connection.            *)
(*                                                                         *)
(* The daemon, PAM and the session's process are the environment.  Not     *)
(* here: which prompts PAM asks (see Conversation), the X server of a      *)
(* session (see XSession), the content of environments and records.        *)
(***************************************************************************)
EXTENDS Naturals

CONSTANTS
  Jobs,         \* what helpers are started for: "check", "user", "greeter"
  SessionCodes  \* exit codes, or signals, that sessions end with

ASSUME JobsAssumption == Jobs \subseteq {"check", "user", "greeter"}

Codes == SessionCodes \cup
  {"SUCCESS", "AUTH_ERROR", "SESSION_ERROR", "OTHER_ERROR", "DISPLAYSERVER_ERROR"}

VARIABLES
  job,          \* --start and the session's class; "check" without --start
  daemon,       \* the connection: "there" or "lost"
  term,         \* SIGTERM was sent to the helper
  at,           \* where the helper is
  asking,       \* PAM's question is with the daemon
  env,          \* the daemon's environment for the session: none, daemon, lost
  cred, open,   \* PAM's credentials are established, its session is open
  session,      \* the session's process: none, absent, running, ended
  sessionCode,  \* how it ended
  code,         \* what exit() was called with
  verdict, status, ended  \* what the daemon was told (see HelperContract)

pamVars  == <<cred, open>>
procVars == <<session, sessionCode>>
toldVars == <<verdict, status, ended>>
helperVars == <<job, daemon, term, at, asking, env, pamVars, procVars, code, toldVars>>

HelperInit ==
  /\ job \in Jobs /\ daemon = "there" /\ term = FALSE
  /\ at = "start" /\ asking = FALSE /\ env = "none"
  /\ cred = FALSE /\ open = FALSE
  /\ session = "none" /\ sessionCode = "SUCCESS" /\ code = "SUCCESS"
  /\ verdict = "none" /\ status = "none" /\ ended = "no"

-------------------------------------------------------------------------------
(* doAuth().                                                               *)

(* Mutant: exit() is given a number that is none of the codes.             *)
LeaveNumber(c) == at' = "left" /\ code' = "255"

Leave(c) == at' = "left" /\ code' = c

(* authenticated() without a user.                                         *)
Refuse == verdict' = "no" /\ Leave("AUTH_ERROR")

(* setUp(): the daemon's server could not listen and has no name.          *)
NoServer ==
  /\ at = "start" /\ Leave("OTHER_ERROR")
  /\ UNCHANGED <<job, daemon, term, asking, env, pamVars, procVars, toldVars>>

(* The begin of doAuth(): HELLO, and PAM may not start.                    *)
Connect ==
  /\ at = "start" /\ daemon = "there"
  /\ \/ at' = "auth" /\ UNCHANGED <<verdict, code>>
     \/ Refuse
  /\ UNCHANGED <<job, daemon, term, asking, env, pamVars, procVars, status, ended>>

Asks ==
  /\ at \in {"auth", "acct"} /\ ~asking /\ asking' = TRUE
  /\ UNCHANGED <<job, daemon, term, at, env, pamVars, procVars, code, toldVars>>

(* request(): the answer, or the end of the connection, on which the       *)
(* conversation fails and PAM with it.                                     *)
Answer ==
  /\ asking /\ daemon = "there" /\ asking' = FALSE
  /\ UNCHANGED <<job, daemon, term, at, env, pamVars, procVars, code, toldVars>>

NoAnswer ==
  /\ asking /\ daemon = "lost" /\ asking' = FALSE /\ Refuse
  /\ UNCHANGED <<job, daemon, term, env, pamVars, procVars, status, ended>>

(* pam_authenticate(), pam_acct_mgmt() and perhaps pam_chauthtok().        *)
Passes ==
  /\ ~asking
  /\ \/ at = "auth" /\ at' = "acct" /\ UNCHANGED verdict
     \/ at = "acct" /\ at' = "vouched" /\ verdict' = "yes"
  /\ UNCHANGED <<job, daemon, term, asking, env, pamVars, procVars, code, status, ended>>

Fails ==
  /\ at \in {"auth", "acct"} /\ ~asking /\ Refuse
  /\ UNCHANGED <<job, daemon, term, asking, env, pamVars, procVars, status, ended>>

(* Mutant: the helper waits for the environment of a daemon that is gone.  *)
GotEnvironmentOnly ==
  /\ at = "vouched" /\ daemon = "there"
  /\ env' = "daemon"
  /\ IF job = "check" THEN Leave("SUCCESS") ELSE at' = "opening" /\ UNCHANGED code
  /\ UNCHANGED <<job, daemon, term, asking, pamVars, procVars, toldVars>>

(* authenticated(): the daemon's environment, or none.  Then the session,  *)
(* if there is one to start.                                               *)
GotEnvironment ==
  /\ at = "vouched"
  /\ env' = IF daemon = "there" THEN "daemon" ELSE "lost"
  /\ IF job = "check" THEN Leave("SUCCESS") ELSE at' = "opening" /\ UNCHANGED code
  /\ UNCHANGED <<job, daemon, term, asking, pamVars, procVars, toldVars>>

Reported(s) == at' = "reporting" /\ status' = s

(* PamBackend::openSession(): credentials, environment, session, process.  *)
SetCred ==
  /\ at = "opening" /\ ~cred
  /\ \/ cred' = TRUE /\ UNCHANGED <<at, status>>
     \/ Reported("failed") /\ UNCHANGED cred
  /\ UNCHANGED <<job, daemon, term, asking, env, open, procVars, code, verdict, ended>>

OpenSession ==
  /\ at = "opening" /\ cred /\ ~open
  /\ \/ open' = TRUE /\ UNCHANGED <<at, status>>
     \/ Reported("failed") /\ UNCHANGED open
  /\ UNCHANGED <<job, daemon, term, asking, env, cred, procVars, code, verdict, ended>>

(* UserSession::start(): without the daemon's environment the type of the  *)
(* session is unknown and nothing is started.  For a greeter on Wayland    *)
(* a process that could not be started is taken for one that will come.    *)
StartSession ==
  /\ at = "opening" /\ open
  /\ \/ env = "daemon" /\ session' = "running" /\ Reported("ok")
     \/ env = "daemon" /\ job = "greeter" /\ session' = "absent" /\ Reported("ok")
     \/ session' = "absent" /\ Reported("failed")
  /\ UNCHANGED <<job, daemon, term, asking, env, pamVars, sessionCode, code, verdict, ended>>

(* Mutant: a session that did not open ends the helper like a check.       *)
LeaveUntold ==
  /\ at = "reporting"
  /\ IF status = "ok" THEN at' = "loop" /\ UNCHANGED code ELSE Leave("SUCCESS")
  /\ UNCHANGED <<job, daemon, term, asking, env, pamVars, procVars, toldVars>>

(* sessionOpened(): the reply or the end of the connection.                *)
SessionOpened ==
  /\ at = "reporting"
  /\ IF status = "ok" THEN at' = "loop" /\ UNCHANGED code ELSE Leave("SESSION_ERROR")
  /\ UNCHANGED <<job, daemon, term, asking, env, pamVars, procVars, toldVars>>

-------------------------------------------------------------------------------
(* The event loop and the destructor.                                      *)

(* sessionFinished(): the helper ends with the code of its session.        *)
SessionFinished ==
  /\ at = "loop" /\ session = "ended" /\ Leave(sessionCode)
  /\ UNCHANGED <<job, daemon, term, asking, env, pamVars, procVars, toldVars>>

(* The slots of SIGTERM and SIGQUIT.                                       *)
SigtermReceived ==
  /\ at \in {"start", "loop"} /\ term /\ Leave("SUCCESS")
  /\ UNCHANGED <<job, daemon, term, asking, env, pamVars, procVars, toldVars>>

(* Mutant: PAM's session is closed before the process is stopped.          *)
StopAndCloseSession ==
  /\ at = "left"
  /\ at' = IF session = "running" THEN "stopping" ELSE "closing"
  /\ open' = FALSE /\ cred' = (cred /\ ~open)
  /\ UNCHANGED <<job, daemon, term, asking, env, procVars, code, toldVars>>

(* UserSession::stop(): SIGTERM to the session; its end, or 5 s for a      *)
(* greeter and 60 s for a user after which it is killed.  SIGKILL is taken *)
(* to have ended the process within the 5 s the helper waits for it.       *)
StopSession ==
  /\ at = "left"
  /\ at' = IF session = "running" THEN "stopping" ELSE "closing"
  /\ UNCHANGED <<job, daemon, term, asking, env, pamVars, procVars, code, toldVars>>

SessionStopped ==
  /\ at = "stopping" /\ session = "ended" /\ at' = "closing"
  /\ UNCHANGED <<job, daemon, term, asking, env, pamVars, procVars, code, toldVars>>

KillSession ==
  /\ at = "stopping" /\ session = "running"
  /\ session' = "ended" /\ at' = "closing"
  /\ UNCHANGED <<job, daemon, term, asking, env, pamVars, sessionCode, code, toldVars>>

(* Mutant: the credentials are kept when the session is closed.            *)
CloseKeepsCredentials ==
  /\ at = "closing" /\ at' = "gone" /\ ended' = code
  /\ open' = FALSE /\ UNCHANGED cred
  /\ UNCHANGED <<job, daemon, term, asking, env, procVars, code, verdict, status>>

(* closeSession() and the end of the process.                              *)
CloseSession ==
  /\ at = "closing" /\ at' = "gone" /\ ended' = code
  /\ open' = FALSE /\ cred' = (cred /\ ~open)
  /\ UNCHANGED <<job, daemon, term, asking, env, procVars, code, verdict, status>>

-------------------------------------------------------------------------------
(* The environment.                                                        *)

(* The session's process ends by itself, because it is told to, or before  *)
(* it became the user's program: childModifier() gave up.                  *)
SessionEnds ==
  /\ session = "running" /\ session' = "ended"
  /\ sessionCode' \in SessionCodes \cup {"SUCCESS", "OTHER_ERROR", "DISPLAYSERVER_ERROR"}
  /\ UNCHANGED <<job, daemon, term, at, asking, env, pamVars, code, toldVars>>

(* The daemon is gone, or knows no Auth of that id and closes the          *)
(* connection.                                                             *)
DaemonLost ==
  /\ daemon = "there" /\ daemon' = "lost"
  /\ UNCHANGED <<job, term, at, asking, env, pamVars, procVars, code, toldVars>>

(* Auth::stop(): SIGTERM, and SIGKILL when the helper has not ended in 5 s. *)
Terminate ==
  /\ ~term /\ at # "gone" /\ term' = TRUE
  /\ UNCHANGED <<job, daemon, at, asking, env, pamVars, procVars, code, toldVars>>

Kill ==
  /\ term /\ at # "gone" /\ at' = "gone" /\ ended' = "killed" /\ asking' = FALSE
  /\ UNCHANGED <<job, daemon, term, env, pamVars, procVars, code, verdict, status>>

-------------------------------------------------------------------------------
DoAuth == \/ Connect \/ NoAnswer \/ GotEnvironment
          \/ SetCred \/ OpenSession \/ StartSession \/ SessionOpened
EventLoop == SessionFinished \/ SigtermReceived
Destructor == StopSession \/ SessionStopped \/ KillSession \/ CloseSession

Pam == Asks \/ Passes \/ Fails
Environment == NoServer \/ SessionEnds \/ DaemonLost \/ Terminate \/ Kill \/ Answer

HelperNext == DoAuth \/ EventLoop \/ Destructor \/ Pam \/ Environment

(* Qt goes on with what is there to handle, timers and SIGKILL come, and   *)
(* PAM asks a bounded number of times.  Nothing makes a session end, a     *)
(* connection break, or the daemon answer a question: it may have too many *)
(* prompts (see Conversation).                                             *)
HelperFairness ==
  /\ WF_helperVars(DoAuth) /\ WF_helperVars(EventLoop) /\ WF_helperVars(Destructor)
  /\ SF_helperVars(Passes \/ Fails) /\ WF_helperVars(Kill)

HelperSpec == HelperInit /\ [][HelperNext]_helperVars

-------------------------------------------------------------------------------
(* Every variable has its type.                                            *)
HelperTypeOK ==
  /\ job \in Jobs /\ daemon \in {"there", "lost"} /\ term \in BOOLEAN
  /\ at \in {"start", "auth", "acct", "vouched", "opening", "reporting", "loop",
            "left", "stopping", "closing", "gone"}
  /\ asking \in BOOLEAN /\ env \in {"none", "daemon", "lost"}
  /\ cred \in BOOLEAN /\ open \in BOOLEAN
  /\ session \in {"none", "absent", "running", "ended"}
  /\ sessionCode \in Codes /\ code \in Codes
  /\ verdict \in {"none", "no", "yes"} /\ status \in {"none", "failed", "ok"}
  /\ ended \in {"no", "killed"} \cup Codes

(* A session's process runs only for a user that PAM has accepted, with    *)
(* the daemon's environment, and inside an open PAM session whose          *)
(* credentials are in place: it is started after all of these and stopped  *)
(* before the first of them is taken back, on every path through doAuth()  *)
(* and the destructor.  A helper that was killed leaves both to nobody.    *)
SessionIsBacked ==
  session = "running" /\ ended # "killed" =>
    /\ at # "gone" /\ verdict = "yes" /\ env = "daemon" /\ open /\ cred

(* A helper that ends by itself leaves no process and no PAM session       *)
(* behind; credentials only when the session could not be opened, because  *)
(* closeSession() does nothing then.  Only SIGKILL, 5 s after SIGTERM,     *)
(* makes orphans: a user's session is given 60 s.                          *)
CleanExit ==
  at = "gone" /\ ended # "killed" =>
    /\ session # "running" /\ ~open
    /\ cred => status = "failed"

(* The daemon is told what HelperContract says, in that order, and the     *)
(* exit code agrees with it.                                               *)
Contract == INSTANCE HelperContract
KeepsContract == Contract!ContractSpec

(* The helper ends: when its session has; when it is stopped, wherever it  *)
(* is; and when the connection to the daemon is lost before the daemon's   *)
(* environment came, unless it had not even connected.                     *)
HelperEnds ==
  /\ session = "ended" ~> at = "gone"
  /\ term ~> at = "gone"
  /\ daemon = "lost" /\ env = "none" /\ at # "start" ~> at = "gone"

===============================================================================

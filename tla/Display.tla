------------------------------ MODULE Display ------------------------------
(***************************************************************************)
(* One login display of the daemon (src/daemon/Display.cpp) together with  *)
(* the two objects it owns whose lifetimes race with its own: the Auth     *)
(* that runs soniclogin-helper for a login, and the Greeter, which runs a  *)
(* second helper for the greeter session.                                  *)
(*                                                                         *)
(* The daemon is one Qt event loop, so an action is one event handler with *)
(* everything it calls.  Auth::stop() blocks in waitForFinished(), which   *)
(* emits finished() from inside the caller: that is why stop() below has   *)
(* to account for calls of itself.  The two helpers are processes of their *)
(* own; they are the environment, as are PAM, logind and the greeter's     *)
(* connections.                                                            *)
(*                                                                         *)
(* Not modelled: texts (INFO frames and internal ERROR frames only forward *)
(* one), the session environment, and the numbers of virtual terminals:    *)
(* what matters is whether the session has the greeter's terminal or one   *)
(* of its own.                                                             *)
(***************************************************************************)
EXTENDS Naturals, Sequences

CONSTANTS
  Sockets,         \* connections the greeter's socket server can hold
  Users,           \* users that can log in
  GreeterUser,     \* the user "soniclogin"
  Sessions,        \* session files that parse
  BrokenSessions,  \* those without a type or a command
  NoSession,       \* an empty session path
  None,            \* a null socket, user or session id
  CanTTY,          \* Seat::canTTY()
  Complaints,      \* whether PAM sends error messages without refusing
  ExitCodes,       \* those of HelperExitStatus that a session may end with
  VtsRunOut,       \* whether VT_OPENQRY may find every terminal in use
  MaxLogins        \* bound: Login messages in a behaviour

ASSUME NamesAssumption ==
  /\ GreeterUser \notin Users
  /\ None \notin Users \cup Sockets \cup {GreeterUser}
  /\ NoSession \notin Sessions
  /\ BrokenSessions \subseteq Sessions

ASSUME BoundsAssumption ==
  /\ CanTTY \in BOOLEAN
  /\ Complaints \in BOOLEAN
  /\ VtsRunOut \in BOOLEAN
  /\ MaxLogins \in Nat

VARIABLES
  life,        \* alive, doomed (deleteLater() posted) or deleted
  crashed,     \* the daemon dereferenced a null pointer
  started,     \* m_started
  queued,      \* displayServerStarted() calls in the event queue
  autologin,   \* m_autologinUser and m_autologinSession, or NoLogin
  terminal,    \* m_terminalId.isValid()
  sessionVt,   \* m_sessionTerminalId: none, the greeter's or a new one
  wasStarted,  \* m_greeterWasStarted
  passPhrase,  \* whose password m_passPhrase is, None when empty
  reuse,       \* whose session m_reuseSessionId names, None when null
  socket,      \* m_socket
  auth,        \* properties of m_auth: user, session, autologin
  child,       \* m_auth's helper process
  fate,        \* how the last helper ended
  attempt,     \* the arguments the helper was started with, and who asked
  inbox,       \* frames of the current helper not handled yet
  late,        \* frames left by earlier helpers
  server,      \* SocketServer::m_server
  connected,   \* open connections of the server
  waiting,     \* the socket that is owed an answer
  refused,     \* sockets whose last Login was for the greeter's user
  logins,      \* Login messages so far
  timer,       \* the 5 s single shot of slotSessionStarted()
  gStarted,    \* Greeter::m_started
  gAuth,       \* Greeter::m_auth is not null
  gChild,      \* the greeter's helper process
  gFate,       \* how it ended
  gStatus,     \* its SESSION_STATUS frame: none, ok or fail
  emitted      \* stopped() signals that reached the seat

objectVars  == <<life, crashed, started, queued, autologin, terminal, emitted>>
attemptVars == <<sessionVt, passPhrase, reuse, auth, attempt>>
helperVars  == <<child, fate, inbox, late>>
loginVars   == <<socket, connected, waiting, refused, logins>>
greeterVars == <<wasStarted, gStarted, gAuth, gChild, gFate, gStatus>>
vars == <<objectVars, attemptVars, helperVars, loginVars, greeterVars, server, timer>>

-----------------------------------------------------------------------------
(* Auth::HelperExitStatus, CRASH for a helper killed by a signal, NOEXEC   *)
(* for one that could not be executed.  Once a session runs the status is  *)
(* the exit code, or the signal, of the session's process: it can be any;  *)
(* ExitCodes lets a run pick one of those that are handled alike.          *)
Status == {"SUCCESS", "AUTH_ERROR", "SESSION_ERROR", "OTHER_ERROR",
           "DISPLAYSERVER_ERROR", "TTY_ERROR"}
Fate == Status \cup {"CRASH", "NOEXEC"}

ASSUME CodesAssumption == ExitCodes \subseteq Status

(* What Auth::Private::childExited() reports.                              *)
Reported(f) == IF f \in Status THEN f ELSE "OTHER_ERROR"

(* Frames of AuthMessages.h that change the daemon's state: ERROR with     *)
(* ERROR_AUTHENTICATION, REQUEST with one, two or another number of        *)
(* prompts, AUTHENTICATED with and without a user, and SESSION_STATUS.     *)
Kind == {"ERROR", "ASK1", "ASK2", "ASKN", "OK", "FAIL", "OPENED", "NOTOPENED"}
Frame == [kind : Kind, user : Users \cup {None}]
Plain(k) == [kind |-> k, user |-> None]
Kinds(q) == {q[i].kind : i \in 1 .. Len(q)}

(* Where the helper is in doAuth().  Between a frame that wants an answer  *)
(* and the answer it is blocked: asked, vouched, reporting and declined.   *)
(* A helper whose session ended is over, one that ended before is dead;    *)
(* it is off once QProcess has noticed.                                    *)
Live == {"auth", "asked", "vouched", "opening", "reporting", "declined", "session"}
Gone == {"dead", "over"}
Phase == Live \cup Gone \cup {"off"}

GreeterLive == {"boot", "blocked", "reporting", "declined", "session"}
GreeterPhase == GreeterLive \cup {"off", "dead"}

NoLogin == [user |-> None, session |-> NoSession]
Login0  == [user : Users, session : Sessions]
NoAttempt == [user |-> None, session |-> NoSession, vt |-> "none", asker |-> None]

Init ==
  /\ life = "alive" /\ crashed = FALSE /\ started = FALSE /\ queued = 0
  /\ autologin \in Login0 \cup {NoLogin}
  /\ terminal \in {FALSE, CanTTY}
  /\ emitted = 0
  /\ sessionVt = "none" /\ passPhrase = None /\ reuse = None
  /\ auth = [user |-> None, session |-> NoSession, autologin |-> FALSE]
  /\ attempt = NoAttempt
  /\ child = "off" /\ fate = "SUCCESS" /\ inbox = <<>> /\ late = <<>>
  /\ socket = None /\ connected = {} /\ waiting = {} /\ refused = {} /\ logins = 0
  /\ wasStarted = FALSE /\ gStarted = FALSE /\ gAuth = FALSE
  /\ gChild = "off" /\ gFate = "SUCCESS" /\ gStatus = "none"
  /\ server = FALSE /\ timer = FALSE

Running == life # "deleted" /\ ~crashed

-----------------------------------------------------------------------------
(* Auth::stop() on a helper in phase p that ended with f if it is gone:    *)
(* what is left of the process and the status finished() was emitted with  *)
(* before stop() returned.  SIGTERM is seen by the helper's event loop: by *)
(* a running session, and by a helper that has not reached doAuth() yet,   *)
(* which ends with HELPER_SUCCESS.  In doAuth() there is none, and PAM may *)
(* still refuse or the helper die within the 5 s: that is the outcome of   *)
(* HelperRefuses or HelperCrashes right before stop().  A helper that is   *)
(* still there after the 5 s is killed and its end is noticed later.       *)
Left(p) == [phase |-> p, done |-> "none"]
AuthStop(p, f) ==
  CASE p = "off"     -> {Left("off")}
    [] p \in Gone    -> {[phase |-> "off", done |-> Reported(f)], Left("dead")}
    [] p \in {"auth", "boot"} -> {[phase |-> "off", done |-> "SUCCESS"], Left("dead")}
    [] p = "session" -> [phase : {"off"}, done : ExitCodes] \cup {Left("dead")}
    [] OTHER         -> {Left("dead")}

(* Greeter::stop() does nothing before the greeter's session has started.  *)
GreeterStop(up, p) == IF up THEN AuthStop(p, gFate) ELSE {Left(p)}

(* Greeter::onHelperFinished() ends in a nested Display::stop() for these, *)
(* and slotHelperFinished() in one for all but HELPER_AUTH_ERROR.          *)
StopsDisplay(st) == st \in {"SESSION_ERROR", "TTY_ERROR"}
EndsDisplay(st) == st \notin {"none", "AUTH_ERROR"}

Emissions(done, gDone) ==
  IF gDone = "DISPLAYSERVER_ERROR" THEN 1
  ELSE 1 + (IF StopsDisplay(gDone) THEN 1 ELSE 0) + (IF EndsDisplay(done) THEN 1 ELSE 0)

(* Mutant: m_started is not reset, and the helpers are left alone.         *)
StopLeavesStarted(p, up, known, q, muted) ==
  /\ child' = p /\ gStarted' = up /\ gAuth' = known /\ gChild' = q
  /\ life' = IF started \/ muted THEN "doomed" ELSE life
  /\ emitted' = IF started /\ ~muted THEN emitted + 1 ELSE emitted
  /\ server' = (server /\ ~started)
  /\ UNCHANGED <<crashed, started, fate, gFate>>

(* Display::stop() with the helper in phase p and the greeter's helper in  *)
(* phase q, up and known telling m_started and m_auth # null of Greeter.   *)
(* Every nested call runs to its end, so each adds a stopped(); muted is   *)
(* Seat::removeDisplay() blocking signals, which a nested removal also     *)
(* does.  stopped() dooms the display.                                     *)
Stop(p, up, known, q, muted) ==
  IF ~started
  THEN /\ child' = p /\ gStarted' = up /\ gAuth' = known /\ gChild' = q
       /\ life' = IF muted THEN "doomed" ELSE life
       /\ UNCHANGED <<crashed, started, emitted, server, fate, gFate>>
  ELSE IF up /\ ~known
  THEN /\ crashed' = TRUE
       /\ child' = p /\ gStarted' = up /\ gAuth' = known /\ gChild' = q
       /\ UNCHANGED <<life, started, emitted, server, fate, gFate>>
  ELSE \E a \in AuthStop(p, fate), g \in GreeterStop(up, q) :
       /\ child' = a.phase
       /\ fate' = IF a.phase = "dead" THEN "CRASH" ELSE fate
       /\ gChild' = g.phase
       /\ gFate' = IF up /\ g.phase = "dead" THEN "CRASH" ELSE gFate
       /\ gStarted' = (up /\ g.done = "none")
       /\ gAuth' = (known /\ g.done = "none")
       /\ server' = FALSE
       /\ started' = FALSE
       /\ life' = "doomed"
       /\ emitted' = IF muted THEN emitted ELSE emitted + Emissions(a.done, g.done)
       /\ UNCHANGED crashed

(* The rest of Greeter::onHelperFinished() once the flags are reset.       *)
GreeterDone(st, p) ==
  IF StopsDisplay(st) THEN Stop(p, FALSE, FALSE, "off", FALSE)
  ELSE IF st = "DISPLAYSERVER_ERROR" THEN Stop(p, FALSE, FALSE, "off", TRUE)
  ELSE /\ gStarted' = FALSE /\ gAuth' = FALSE /\ gChild' = "off" /\ child' = p
       /\ UNCHANGED <<life, crashed, started, emitted, server, fate, gFate>>

stopVars == <<life, crashed, started, emitted, server, child, fate,
              gStarted, gAuth, gChild, gFate>>
stopKeeps == <<queued, autologin, terminal, attemptVars, inbox, late, loginVars,
               wasStarted, gStatus>>

-----------------------------------------------------------------------------
(* Display::startAuth() for user u, session x and password pw.             *)

(* Mutant: the pass phrase is stored before isActive() is asked.           *)
StartAuthStoresFirst(u, x, pw) ==
  /\ passPhrase' = pw
  /\ \/ child # "off" /\ UNCHANGED <<reuse, sessionVt>>
     \/ child = "off" /\ CanTTY /\ reuse' \in {None, u} /\ sessionVt' = "none"
  /\ UNCHANGED <<auth, attempt, child, fate, inbox, late>>

(* It returns false.                                                       *)
StartAuthFails(u, x, pw) ==
  /\ \/ /\ child # "off"
        /\ UNCHANGED <<passPhrase, reuse, sessionVt>>
     \/ /\ child = "off" /\ x \in BrokenSessions
        /\ passPhrase' = pw
        /\ UNCHANGED <<reuse, sessionVt>>
     \/ /\ child = "off" /\ x \notin BrokenSessions /\ CanTTY
        /\ passPhrase' = pw /\ reuse' \in {None, u} /\ sessionVt' = "none"
  /\ UNCHANGED <<auth, attempt, child, fate, inbox, late>>

(* Mutant: only a running greeter makes the session take a new terminal.   *)
TerminalsOfRunningGreeter ==
  IF ~CanTTY THEN {"none"} ELSE IF gChild # "off" THEN {"new"} ELSE {"greeter"}

(* The terminal of the session: the greeter's, unless a greeter is or was  *)
(* there.  VirtualTerminal::setUpNewVt() falls back to the active one when *)
(* none is free.                                                           *)
SessionTerminals ==
  IF ~CanTTY THEN {"none"}
  ELSE IF gChild # "off" \/ wasStarted
  THEN {"new"} \cup (IF VtsRunOut THEN {"greeter"} ELSE {})
  ELSE {"greeter"}

(* It returns true, whether or not the helper could be executed: a helper  *)
(* that cannot only makes Auth emit error().                               *)
StartAuthSucceeds(u, x, pw, asker, auto) ==
  /\ child = "off"
  /\ x \notin BrokenSessions
  /\ passPhrase' = pw
  /\ reuse' \in {None, u}
  /\ sessionVt' \in SessionTerminals
  /\ auth' = [user |-> u, autologin |-> auto,
              session |-> IF reuse' = None THEN x ELSE auth.session]
  /\ attempt' = [user |-> u, session |-> auth'.session, vt |-> sessionVt', asker |-> asker]
  /\ late' = late \o inbox /\ inbox' = <<>>
  /\ \/ child' = "auth" /\ fate' = "SUCCESS"
     \/ fate' = "NOEXEC" /\ UNCHANGED child

-----------------------------------------------------------------------------
(* Calls of the seat and of the event queue.                               *)

(* Display::start(), from Seat::startDisplay() and its retries.            *)
Start ==
  /\ Running /\ life = "alive" /\ ~started /\ emitted = 0
  /\ \/ /\ CanTTY /\ ~terminal       \* no terminal yet: the seat retries
        /\ UNCHANGED <<started, terminal, queued, attemptVars, helperVars>>
     \/ /\ started' = TRUE
        /\ terminal' = CanTTY
        /\ \/ /\ autologin = NoLogin
              /\ queued' = queued + 1
              /\ UNCHANGED <<attemptVars, helperVars>>
           \/ /\ autologin # NoLogin
              /\ StartAuthSucceeds(autologin.user, autologin.session, None, None, TRUE)
              /\ UNCHANGED queued
           \/ /\ autologin # NoLogin      \* handleAutologinFailure()
              /\ StartAuthFails(autologin.user, autologin.session, None)
              /\ queued' = queued + 1
  /\ UNCHANGED <<life, crashed, autologin, emitted, loginVars, greeterVars, server, timer>>

(* After its last try Seat::startDisplay() removes the display.            *)
GiveUp ==
  /\ Running /\ life = "alive" /\ ~started /\ emitted = 0
  /\ CanTTY /\ ~terminal
  /\ life' = "doomed"
  /\ UNCHANGED <<crashed, started, queued, autologin, terminal, emitted, attemptVars,
                 helperVars, loginVars, greeterVars, server, timer>>

(* displayServerStarted(): startSocketServerAndGreeter().  It does not ask *)
(* whether the display is still started.  The greeter is not started when  *)
(* the socket cannot be handed to it.                                      *)
DisplayServerStarted ==
  /\ Running /\ queued > 0
  /\ queued' = queued - 1
  /\ server' \in {server, TRUE}
  /\ \/ UNCHANGED greeterVars
     \/ /\ wasStarted' = TRUE
        /\ \/ gStarted /\ UNCHANGED <<gAuth, gChild>>
           \/ ~gStarted /\ gAuth' = TRUE /\ gChild' \in {"boot", "off"}
        /\ UNCHANGED <<gStarted, gFate, gStatus>>
  /\ UNCHANGED <<life, crashed, started, autologin, terminal, emitted, attemptVars,
                 helperVars, loginVars, timer>>

(* The deferred deletion of a removed display, or that of its seat: the    *)
(* destructors stop both helpers and close the connections.                *)
Destroy ==
  /\ Running
  /\ IF gStarted /\ ~gAuth
     THEN /\ crashed' = TRUE
          /\ UNCHANGED <<life, started, queued, emitted, helperVars, loginVars, greeterVars,
                         server, timer>>
     ELSE /\ life' = "deleted" /\ started' = FALSE /\ queued' = 0
          /\ child' = "off" /\ inbox' = <<>> /\ late' = <<>>
          /\ socket' = None /\ connected' = {} /\ waiting' = {} /\ refused' = {}
          /\ gStarted' = FALSE /\ gAuth' = FALSE /\ gChild' = "off" /\ gStatus' = "none"
          /\ server' = FALSE /\ timer' = FALSE
          /\ UNCHANGED <<crashed, emitted, fate, logins, wasStarted, gFate>>
  /\ UNCHANGED <<autologin, terminal, attemptVars>>

-----------------------------------------------------------------------------
(* The greeter's connections.                                              *)

Connect(s) ==
  /\ Running /\ server /\ wasStarted /\ gChild # "boot"
  /\ s \notin connected
  /\ connected' = connected \cup {s}
  /\ UNCHANGED <<objectVars, attemptVars, helperVars, socket, waiting, refused, logins,
                 greeterVars, server, timer>>

(* m_socket is a QPointer: it is null once the socket is deleted.          *)
Disconnect(s) ==
  /\ Running /\ s \in connected
  /\ connected' = connected \ {s}
  /\ waiting' = waiting \ {s} /\ refused' = refused \ {s}
  /\ socket' = IF socket = s THEN None ELSE socket
  /\ UNCHANGED <<objectVars, attemptVars, helperVars, logins, greeterVars, server, timer>>

(* m_socket names the one connection that is owed an answer: a Login takes *)
(* it from the connection that had it, which gets none any more.           *)

(* Mutant: the refusal goes to m_socket before it is assigned.             *)
LoginRefusedFirst(s) ==
  /\ refused' = refused \cup {socket}
  /\ socket' = s
  /\ waiting' = {}
  /\ UNCHANGED <<attemptVars, helperVars>>

(* Display::login() for the greeter's own user: m_socket stays.            *)
LoginRefused(s) ==
  /\ socket' = s
  /\ waiting' = {}
  /\ refused' = refused \cup {s}
  /\ UNCHANGED <<attemptVars, helperVars>>

(* Mutant: a rejected Login leaves m_socket alone.                         *)
LoginRejectedKeepsSocket(s, u, x) ==
  /\ StartAuthFails(u, x, u)
  /\ socket' = s
  /\ waiting' = {}
  /\ refused' = refused \ {s}

(* Display::login() when startAuth() returns false.                        *)
LoginRejected(s, u, x) ==
  /\ StartAuthFails(u, x, u)
  /\ socket' = None
  /\ waiting' = {}
  /\ refused' = refused \ {s}

(* Display::login() when startAuth() returns true; m_auth keeps its        *)
(* autologin property.                                                     *)
LoginStarted(s, u, x) ==
  /\ StartAuthSucceeds(u, x, u, s, auth.autologin)
  /\ socket' = s
  /\ waiting' = {s}
  /\ refused' = refused \ {s}

(* A Login message: SocketServer::frameReceived() emits login().           *)
Login(s) ==
  /\ Running /\ s \in connected /\ logins < MaxLogins
  /\ logins' = logins + 1
  /\ \/ LoginRefused(s)
     \/ \E u \in Users, x \in Sessions : LoginRejected(s, u, x) \/ LoginStarted(s, u, x)
  /\ UNCHANGED <<objectVars, connected, greeterVars, server, timer>>

-----------------------------------------------------------------------------
(* The helper of m_auth: HelperApp::doAuth() and what ends it.             *)

HelperStep ==
  /\ Running
  /\ UNCHANGED <<objectVars, attemptVars, late, loginVars, greeterVars, server, timer>>

(* A frame, and possibly before it the ERROR frame of a PAM_ERROR_MSG or of *)
(* a PAM call that failed.  Bound: one of them, a second would not do more. *)
Send(f, complains) ==
  inbox' \in {Append(inbox, f)}
            \cup (IF complains THEN {Append(Append(inbox, Plain("ERROR")), f)} ELSE {})

(* PAM wants answers: HelperApp::request().                                *)
HelperAsks ==
  /\ HelperStep /\ child = "auth"
  /\ child' = "asked"
  /\ \E k \in {"ASK1", "ASK2", "ASKN"} : Send(Plain(k), Complaints)
  /\ UNCHANGED fate

(* PAM says no, or could not be started.                                   *)
HelperRefuses ==
  /\ HelperStep /\ child = "auth"
  /\ child' = "dead" /\ fate' = "AUTH_ERROR"
  /\ Send(Plain("FAIL"), TRUE)

(* PAM says yes.  The name sent is PAM_USER, which is taken to be the one  *)
(* the helper was started with: no module of the stack rewrites it.        *)
HelperAccepts ==
  /\ HelperStep /\ child = "auth"
  /\ child' = "vouched"
  /\ Send([kind |-> "OK", user |-> attempt.user], Complaints)
  /\ UNCHANGED fate

(* PamBackend::openSession() succeeds or fails.  It sends an ERROR of its  *)
(* own when the credentials cannot be established.                         *)
HelperOpens ==
  /\ HelperStep /\ child = "opening"
  /\ \/ child' = "reporting" /\ Send(Plain("OPENED"), Complaints)
     \/ child' = "declined" /\ Send(Plain("NOTOPENED"), TRUE)
  /\ UNCHANGED fate

(* The session's process ends: HelperApp::sessionFinished().               *)
SessionEnds ==
  /\ HelperStep /\ child = "session"
  /\ child' = "over" /\ fate' \in ExitCodes
  /\ UNCHANGED inbox

(* A signal kills it, possibly while it cleans up on its way out.          *)
HelperCrashes ==
  /\ HelperStep /\ child \in Live \cup Gone
  /\ child' = "dead" /\ fate' = "CRASH"
  /\ UNCHANGED inbox

-----------------------------------------------------------------------------
(* Handling a frame: Auth::Private::framePending() and the slots of        *)
(* Display behind its signals.  An answer only reaches the helper that     *)
(* asked, if it still lives.                                               *)

Answered(from, to) == child' = IF child = from THEN to ELSE child

(* slotAuthError(): a LoginFailed, and m_socket stays.                     *)
OnError ==
  /\ waiting' = waiting \ {socket}
  /\ UNCHANGED <<queued, auth, child, fate, socket, timer>>

(* Mutant: a prompt during an automatic login brings up the greeter.       *)
OnRequestShowsGreeter(k) ==
  /\ queued' = IF auth.autologin THEN queued + 1 ELSE queued
  /\ IF k = "ASKN" THEN UNCHANGED child ELSE Answered("asked", "auth")
  /\ UNCHANGED <<auth, fate, socket, waiting, timer>>

(* slotRequestChanged(): one prompt gets the pass phrase, two the user and *)
(* the pass phrase, any other number nothing.                              *)
OnRequest(k) ==
  /\ IF k = "ASKN" THEN UNCHANGED child ELSE Answered("asked", "auth")
  /\ UNCHANGED <<queued, auth, fate, socket, waiting, timer>>

(* setUser() and slotAuthenticationFinished(), success.                    *)
OnAuthenticated(u) ==
  /\ auth' = [auth EXCEPT !.user = u]
  /\ waiting' = waiting \ {socket}
  /\ socket' = None
  /\ IF attempt.session = NoSession
     THEN /\ Answered("vouched", "dead")
          /\ fate' = IF child = "vouched" THEN "SUCCESS" ELSE fate
     ELSE Answered("vouched", "opening") /\ UNCHANGED fate
  /\ UNCHANGED <<queued, timer>>

(* Mutants: the autologin property survives its failure; the failure is    *)
(* not reported.                                                           *)
OnNotAuthenticatedKeepsAutologin ==
  /\ IF auth.autologin
     THEN queued' = queued + 1 /\ UNCHANGED <<socket, waiting>>
     ELSE waiting' = waiting \ {socket} /\ socket' = None /\ UNCHANGED queued
  /\ UNCHANGED <<auth, child, fate, timer>>

OnNotAuthenticatedSilent ==
  /\ auth' = [auth EXCEPT !.autologin = FALSE]
  /\ queued' = IF auth.autologin THEN queued + 1 ELSE queued
  /\ socket' = IF auth.autologin THEN socket ELSE None
  /\ UNCHANGED <<waiting, child, fate, timer>>

(* slotAuthenticationFinished(), failure; handleAutologinFailure() for an  *)
(* automatic login.                                                        *)
OnNotAuthenticated ==
  /\ IF auth.autologin
     THEN /\ auth' = [auth EXCEPT !.autologin = FALSE]
          /\ queued' = queued + 1
          /\ UNCHANGED <<socket, waiting>>
     ELSE /\ waiting' = waiting \ {socket}
          /\ socket' = None
          /\ UNCHANGED <<auth, queued>>
  /\ UNCHANGED <<child, fate, timer>>

(* Mutant: slotSessionStarted() leaves the greeter running.                *)
OnSessionStatusNoTimer(k) ==
  /\ IF k = "OPENED"
     THEN Answered("reporting", "session") /\ UNCHANGED fate
     ELSE /\ Answered("declined", "dead")
          /\ fate' = IF child = "declined" THEN "SESSION_ERROR" ELSE fate
  /\ UNCHANGED <<queued, auth, socket, waiting, timer>>

(* slotSessionStarted().                                                   *)
OnSessionStatus(k) ==
  /\ IF k = "OPENED"
     THEN timer' = TRUE /\ Answered("reporting", "session") /\ UNCHANGED fate
     ELSE /\ Answered("declined", "dead")
          /\ fate' = IF child = "declined" THEN "SESSION_ERROR" ELSE fate
          /\ UNCHANGED timer
  /\ UNCHANGED <<queued, auth, socket, waiting>>

OnFrame(f) ==
  CASE f.kind = "ERROR" -> OnError
    [] f.kind \in {"ASK1", "ASK2", "ASKN"} -> OnRequest(f.kind)
    [] f.kind = "OK" -> OnAuthenticated(f.user)
    [] f.kind = "FAIL" -> OnNotAuthenticated
    [] OTHER -> OnSessionStatus(f.kind)

(* Frames of one connection keep their order; the connection of an earlier *)
(* helper is a connection of its own.                                      *)
HandleFrame ==
  /\ Running
  /\ \/ inbox # <<>> /\ OnFrame(Head(inbox)) /\ inbox' = Tail(inbox) /\ UNCHANGED late
     \/ late # <<>> /\ OnFrame(Head(late)) /\ late' = Tail(late) /\ UNCHANGED inbox
  /\ UNCHANGED <<life, crashed, started, autologin, terminal, emitted, sessionVt, passPhrase,
                 reuse, attempt, connected, refused, logins, greeterVars, server>>

(* QProcess notices the end of the helper, possibly before the frames it   *)
(* has left: childExited() and slotHelperFinished().                       *)
HelperFinished ==
  /\ Running /\ child \in Gone
  /\ IF fate = "AUTH_ERROR"
     THEN /\ child' = "off"
          /\ UNCHANGED <<life, crashed, started, emitted, server, fate,
                         gStarted, gAuth, gChild, gFate>>
     ELSE Stop("off", gStarted, gAuth, gChild, FALSE)
  /\ UNCHANGED <<stopKeeps, timer>>

-----------------------------------------------------------------------------
(* The greeter's helper, and Greeter.cpp.                                  *)

GreeterStep ==
  /\ Running
  /\ UNCHANGED <<objectVars, attemptVars, helperVars, loginVars, wasStarted, gStarted,
                 gAuth, server, timer>>

(* Its session has started or could not be.                                *)
GreeterReports ==
  /\ GreeterStep /\ gChild = "boot"
  /\ \/ gChild' = "reporting" /\ gStatus' = "ok"
     \/ gChild' = "declined" /\ gStatus' = "fail"
  /\ UNCHANGED gFate

(* PAM prompts: onRequestChanged() leaves the prompts to be answered by    *)
(* nobody, so the helper waits (the FreeBSD build answers them with        *)
(* nothing and goes on).                                                   *)
GreeterAsks ==
  /\ GreeterStep /\ gChild = "boot"
  /\ gChild' = "blocked"
  /\ UNCHANGED <<gFate, gStatus>>

(* The helper ends: PAM refuses, the session ends, a signal.               *)
GreeterEnds ==
  /\ GreeterStep
  /\ gChild' = "dead"
  /\ \/ gChild = "boot" /\ gFate' = "AUTH_ERROR"
     \/ gChild = "session" /\ gFate' \in ExitCodes
     \/ gChild \in GreeterLive /\ gFate' = "CRASH"
  /\ UNCHANGED gStatus

(* onSessionStarted(), and the answer the helper waits for.                *)
GreeterSessionStarted ==
  /\ Running /\ gStatus # "none"
  /\ gStarted' = (gStatus = "ok")
  /\ gStatus' = "none"
  /\ CASE gChild = "reporting" -> gChild' = "session" /\ UNCHANGED gFate
       [] gChild = "declined"  -> gChild' = "dead" /\ gFate' = "SESSION_ERROR"
       [] OTHER -> UNCHANGED <<gChild, gFate>>
  /\ UNCHANGED <<objectVars, attemptVars, helperVars, loginVars, wasStarted, gAuth, server,
                 timer>>

(* The Auth that onHelperFinished() gave to deleteLater() is deleted: its  *)
(* frame, if still there, is not handled any more.                         *)
GreeterAuthDeleted ==
  /\ Running /\ ~gAuth /\ gStatus # "none"
  /\ gStatus' = "none"
  /\ UNCHANGED <<objectVars, attemptVars, helperVars, loginVars, wasStarted, gStarted, gAuth,
                 gChild, gFate, server, timer>>

(* onHelperFinished(), from the event loop.                                *)
GreeterFinished ==
  /\ Running /\ gChild = "dead"
  /\ GreeterDone(Reported(gFate), child)
  /\ UNCHANGED <<stopKeeps, timer>>

(* The 5 s after slotSessionStarted() are over: Greeter::stop().  They     *)
(* outlast the handling of a frame that is already there.                  *)
StopGreeter ==
  /\ Running /\ timer /\ gStatus = "none"
  /\ timer' = FALSE
  /\ IF ~gStarted THEN UNCHANGED stopVars
     ELSE IF ~gAuth
     THEN crashed' = TRUE /\ UNCHANGED <<life, started, emitted, server, child, fate,
                                         gStarted, gAuth, gChild, gFate>>
     ELSE \E g \in AuthStop(gChild, gFate) :
          IF g.done # "none" THEN GreeterDone(g.done, child)
          ELSE /\ gChild' = g.phase
               /\ gFate' = IF g.phase = "dead" THEN "CRASH" ELSE gFate
               /\ UNCHANGED <<life, crashed, started, emitted, server, child, fate,
                              gStarted, gAuth>>
  /\ UNCHANGED stopKeeps

-----------------------------------------------------------------------------
Seat == Start \/ GiveUp \/ Destroy

Greeters == \E s \in Sockets : Connect(s) \/ Disconnect(s) \/ Login(s)

Helper == HelperAsks \/ HelperRefuses \/ HelperAccepts \/ HelperOpens \/ SessionEnds
          \/ HelperCrashes

GreeterHelper == GreeterReports \/ GreeterAsks \/ GreeterEnds

EventLoop == DisplayServerStarted \/ HandleFrame \/ HelperFinished \/ GreeterSessionStarted
             \/ GreeterAuthDeleted \/ GreeterFinished \/ StopGreeter

Next == Seat \/ Greeters \/ Helper \/ GreeterHelper \/ EventLoop

Spec == Init /\ [][Next]_vars

(* The event loop handles every event and fires its timers, the queued     *)
(* deletion of a removed display included.  PAM bounds the number of       *)
(* questions it asks and gives a verdict, and opening a session ends one   *)
(* way or the other.  Users, sessions and the seat owe nothing.            *)
Fairness ==
  /\ WF_vars(DisplayServerStarted) /\ WF_vars(HandleFrame)
  /\ WF_vars(HelperFinished) /\ WF_vars(GreeterFinished)
  /\ WF_vars(GreeterSessionStarted) /\ WF_vars(StopGreeter)
  /\ WF_vars(life = "doomed" /\ Destroy)
  /\ SF_vars(HelperRefuses \/ HelperAccepts) /\ WF_vars(HelperOpens)

FairSpec == Spec /\ Fairness

-----------------------------------------------------------------------------
(* Every variable has its type.                                            *)
TypeOK ==
  /\ life \in {"alive", "doomed", "deleted"}
  /\ crashed \in BOOLEAN /\ started \in BOOLEAN /\ terminal \in BOOLEAN
  /\ queued \in Nat /\ emitted \in Nat /\ logins \in Nat
  /\ autologin \in Login0 \cup {NoLogin}
  /\ sessionVt \in {"none", "greeter", "new"}
  /\ passPhrase \in Users \cup {None} /\ reuse \in Users \cup {None}
  /\ auth \in [user : Users \cup {None}, session : Sessions \cup {NoSession},
               autologin : BOOLEAN]
  /\ attempt \in [user : Users \cup {None}, session : Sessions \cup {NoSession},
                  vt : {"none", "greeter", "new"}, asker : Sockets \cup {None}]
  /\ child \in Phase /\ fate \in Fate
  /\ inbox \in Seq(Frame) /\ late \in Seq(Frame)
  /\ socket \in Sockets \cup {None}
  /\ connected \subseteq Sockets /\ waiting \subseteq Sockets /\ refused \subseteq Sockets
  /\ wasStarted \in BOOLEAN /\ gStarted \in BOOLEAN /\ gAuth \in BOOLEAN
  /\ gChild \in GreeterPhase /\ gFate \in Fate /\ gStatus \in {"none", "ok", "fail"}
  /\ server \in BOOLEAN /\ timer \in BOOLEAN

(* However Logins overlap, the running helper is answered with the name    *)
(* and password of the user it authenticates, and on success the session   *)
(* that is unlocked is that user's (Display.cpp:263, slotRequestChanged,   *)
(* slotAuthenticationFinished).  A removed display that gets one more      *)
(* Login before its deletion may still learn the name of the user that a   *)
(* crashed helper had authenticated, hence the first condition.            *)
AttemptKeepsItsData ==
  life = "alive" /\ child # "off"
     => /\ auth.user = attempt.user
        /\ passPhrase = IF attempt.asker = None THEN None ELSE attempt.user
        /\ reuse \in {None, attempt.user}

(* What a helper sends is handled as the answer to the connection that     *)
(* asked for that attempt, whatever Logins come before the helper's end or *)
(* before its frames are read, with two exceptions (Display.cpp:235-257,   *)
(* 354-377).  A connection whose latest Login was for the greeter's user   *)
(* is refused without resetting m_socket and gets the answer of another's  *)
(* attempt.  And frames do not name their attempt: one that is read after  *)
(* the next Login has started a helper is answered to that Login.  No      *)
(* success, prompt or session status of an earlier attempt is, only its    *)
(* errors and its refusal are.                                             *)
AnswerGoesToAsker ==
  /\ child # "off" \/ inbox # <<>> => socket \in {None, attempt.asker} \cup refused
  /\ life = "alive" => Kinds(late) \subseteq {"ERROR", "FAIL"}

(* As long as m_auth is set to log in automatically, from Display::start() *)
(* to handleAutologinFailure() and in the session that follows a success,  *)
(* no greeter has been started and none is about to be.                    *)
AutologinExcludesGreeter == auth.autologin => queued = 0 /\ ~wasStarted

(* No session is opened on the terminal of a greeter that was started,     *)
(* running or not (Display.cpp:299-304).                                   *)
SessionHasItsOwnTerminal ==
  child \in {"opening", "reporting", "session"} /\ wasStarted => attempt.vt # "greeter"

(* A display starts its greeter once: nothing, not even a second failed    *)
(* login, queues displayServerStarted() after the first greeter.           *)
GreeterStartsOnce == [][gChild = "off" /\ gChild' # "off" => ~wasStarted]_vars

(* The seat sees one life of a display: what Seat.cpp does to it and what  *)
(* it emits implement DisplayLifecycle, whatever helpers, greeters and     *)
(* re-entrant calls of Display::stop() do.                                 *)
Lifecycle == INSTANCE DisplayLifecycle WITH stops <- emitted
LivesOnce == Lifecycle!Spec

(* A Login whose helper could not be executed is not answered: startAuth() *)
(* does not ask.                                                           *)
NeverExecuted == child = "off" /\ fate = "NOEXEC"

(* The verdict of the running helper is still to come or to be handled, or *)
(* the helper's end will stop the display.                                 *)
VerdictComing ==
  \/ child \in {"auth", "asked"}
  \/ "OK" \in Kinds(inbox) \/ "FAIL" \in Kinds(inbox)
  \/ child = "dead" /\ fate # "AUTH_ERROR"

(* While a display is wanted, the connection that is owed an answer is the *)
(* one m_socket names, and an answer is on its way to it, whatever Logins, *)
(* frames of earlier helpers and ends of helpers come in between           *)
(* (Display.cpp:235-257, slotAuthenticationFinished).  The refusal of an   *)
(* earlier attempt counts as an answer, as the greeter takes it for one.   *)
NobodyForgotten ==
  life = "alive" /\ ~crashed
    => \A s \in waiting : socket = s /\ (VerdictComing \/ NeverExecuted)

(* The connection that is owed an answer gets it or is closed, unless PAM  *)
(* asks for a number of answers other than one or two, the helper could    *)
(* not be executed, or the daemon crashes.  The refusal of an earlier      *)
(* attempt counts as an answer here too.                                   *)
Unanswerable == child = "asked" /\ inbox = <<>>
LoginAnswered ==
  \A s \in Sockets :
    s \in waiting ~> (s \notin waiting \/ Unanswerable \/ NeverExecuted \/ crashed)

(* Once the user's session is up the greeter is stopped.                   *)
SessionStopsGreeter ==
  (child = "session" /\ ~timer) ~> (~gStarted \/ child # "session" \/ crashed)

(* Display.cpp:412: after a user's session has finished the display is     *)
(* stopped, which brings the greeter back; only an authentication error    *)
(* leaves it alone.                                                        *)
FinishedSessionEndsDisplay == child = "over" ~> life # "alive"

(* Auth.h:27: secrets alone are checked when no session is set, which is   *)
(* what Display.cpp:346 wants when the user's session can be reused.       *)
ReuseOnlyAuthenticates ==
  child # "off" /\ reuse # None => attempt.session = NoSession

(* Greeter.cpp:250: a finished helper resets m_started, so that stop()     *)
(* only dereferences m_auth while there is one.                            *)
StartedGreeterHasAuth == gStarted => gAuth

=============================================================================

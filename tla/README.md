# A formal model of the Sonic login manager

TLA+ modules, TLC configurations and machine-checked proofs about the login
manager in `src/`: the daemon that owns seats, displays and virtual terminals,
the helper that authenticates a user and runs the session, and the greeter that
asks for name and password. This file says what the system consists of, which
part each module models, what the runs and the theorems show, and what is left.

All modules live in this directory; paths below are relative to the
repository's `src/src/`.

## The system

```
          logind (D-Bus)            greeter (QML, runs as "soniclogin")
               |  signals, replies        |  Login, PowerOff, ... over a local socket
  +------------v-----------+   +----------v---------+
  | SeatManager            |   | SocketServer       |
  |   LogindSeat per seat  |   +----------+---------+
  |   Seat per graphical   |              | login()
  +------------+-----------+   +----------v---------+   Auth    +---------------------+
               | creates       | Display            +----------> soniclogin-helper    |
               +---------------> m_auth, m_greeter  |  frames   | HelperApp, PAM,     |
     start, stop, stopped()    |   Greeter (Auth)   +---------->| UserSession         |
                               +--------------------+           +---------------------+
```

The daemon is a single Qt event loop; every helper is a process of its own and
the greeter is a client on a socket. What makes the code hard is therefore not
threads. It is

* *order*: a helper's exit, its last frames, its socket's end, timers, deferred
  deletions and D-Bus replies reach the loop in any order;
* *re-entrancy*: `Auth::stop()` waits in `QProcess::waitForFinished()`, which
  emits `finished()` into the very object that is stopping;
* *partial failure*: PAM, terminals, sockets and processes fail one at a time,
  and the screen must end on something a user can log in with.

| Component | State | Operations | Hard behaviour | What makes it correct |
|---|---|---|---|---|
| `Display` (daemon/Display.cpp) | started flag, terminals, pass phrase, session to reuse, connection to answer, owned Auth, Greeter, SocketServer | start, stop, login, slots of Auth and Greeter | overlapping logins, late frames, nested stop, queued calls on removed displays | data of one login never reaches another; every login answered; one greeter; one life |
| `Greeter` (daemon/Greeter.cpp) | started flag, Auth | start, stop, slots | its helper's exit before its last frame, stop before start | never started without Auth; stopped when the user's session runs |
| `Auth` (auth/) | helper process, connection, properties | start, stop, frames, exit | frames of an earlier helper, crash, 5 s of SIGTERM | answers reach the helper that asked |
| `SocketServer` (daemon/SocketServer.cpp) | server, connections | start, stop, Login, results | a connection that goes away | see Display |
| `Seat` (daemon/Seat.cpp) | displays, first-login token | create, start (3 tries), remove, displayStopped | several `stopped()` of one display, no terminal, sessions that ended meanwhile | the seat is served or the daemon exits; one successor; terminals exclusive |
| `SeatManager`, `LogindSeat` (daemon/SeatManager.cpp) | seats of logind, seats in use | seats come and go, switchToGreeter | signals crossing replies | seats in use = graphical seats |
| `DisplayManager` (daemon/DisplayManager.cpp) | bus objects of seats and sessions | AddSeat, RemoveSeat | removal while iterating | bus objects = seats in use |
| `HelperApp`, `UserSession`, PAM (helper/) | position in doAuth, PAM's credentials and session, session process, what the daemon was told | doAuth, waits for answers, session's start, stop and end, SIGTERM, destructor | waits without a deadline, no event loop inside doAuth, a helper killed after 5 s while its session is given 60 | a process only inside PAM's session; what the daemon is told keeps a contract; the helper ends |
| PAM conversation (helper/backend/PamBackend.cpp, auth/AuthRequest.cpp) | stored prompts and answers, the daemon's request | converse, answer, no answer | prompts are guessed ahead, kept, replaced, asked again | an answer goes to the prompt it belongs to, once |
| X11 user helper (helper/HelperStartX11User.cpp, xorguserhelper.cpp) | X server, client, scripts | start, cookie, client, stop | server, client and SIGTERM end in any order, also before the event loop | all ends with one; nothing is left |
| `VirtualTerminal` (common/) | console mode of a terminal | openVt, setUpNewVt, jumpToVt | no free terminal, mode changes | screen on an existing terminal |
| Settings module (frontend/kcm) | operation that waits for the password, operation that was sent | save, synchronize, reset, password, deadline | deadline against a daemon that is still at work | success is only shown when it is true; a password pays for one request |
| `KcmIpcServer` (daemon/) | request that is handled, the greeter's files | sync, reset, save | death of the daemon anywhere in a request | files are written after what they select; success of a sync or reset means all of it |
| `ThemeSync` (common/) | copies and markers of themes | install, prune, reset | failure between two renames, of the restoring too | old or new, never half; independent themes stay |
| `PowerManager`, `GreeterProxy` | services, capabilities that are shown | capabilities, power off, reboot, suspend, hibernate | several services, which change their mind | one call for one request |
| Start-up of the greeter's session (frontend/startkde) | own environment, the environment of the user's systemd | clean, import, start, end | a run that was killed leaves its environment | components see this run's session only |
| `SelfProvisioner`, `SignalHandler`, `DaemonApp` | account, directories, bytes in the socket pair | repair, construct, SIGTERM, quit | interrupted provisioning, a new account, SIGTERM at any time | ready means owned; a SIGTERM is kept |
| Configuration (common/ConfigReader.cpp) | layers of files, value, newest time seen | load | reload by modification time | the layer with the most influence wins |

`PROJECT.json` lists each of these with its files and status, and under
`hazards` every place where the code can go wrong in a way tests would hardly
reach, with the properties that watch it.

## The modules

### `Display.tla`: one display

The core. `Display`, the `Auth` it owns, its `Greeter` with the Auth of the
greeter's helper, and the two helper processes as environment. An action is one
handler of the event loop with everything it calls, or one step of a process.

| In the model | In the code |
|---|---|
| `life` | the display object: alive, `deleteLater()` posted, deleted |
| `started`, `terminal`, `sessionVt`, `wasStarted`, `passPhrase`, `reuse`, `socket`, `autologin` | `m_started`, `m_terminalId`, `m_sessionTerminalId`, `m_greeterWasStarted`, `m_passPhrase`, `m_reuseSessionId`, `m_socket`, `m_autologinUser`/`m_autologinSession` |
| `queued` | `displayServerStarted()` calls posted with `Qt::QueuedConnection` |
| `auth` | properties of `m_auth`; they outlive an attempt |
| `child`, `fate` | the helper process: where it is in `doAuth()`, how it ended |
| `attempt` | what the helper was started with and who asked (a history of the arguments) |
| `inbox`, `late` | frames not yet handled, of this helper and of earlier ones |
| `gStarted`, `gAuth`, `gChild`, `gFate`, `gStatus` | the same for the greeter |
| `waiting`, `refused` | the connection that is owed an answer; those whose latest Login was refused (history) |
| `timer` | the 5 s single shot of `slotSessionStarted()` |
| `emitted` | `stopped()` signals that reached the seat |

`Stop` is the whole of `Display::stop()`, nested calls included: it stops the
greeter, whose `finished()` may call `stop()` again, then `m_auth`, whose
`finished()` may call it again. Each of the calls gets to the end and emits
`stopped()`. `AuthStop` says which helpers end within `Auth::stop()`: one whose
session runs obeys SIGTERM; inside `doAuth()` there is no event loop to see the
signal with, so the helper is killed after 5 s and its end is noticed later. One
that has not got as far as `doAuth()` obeys SIGTERM too, and exits with 0, which the
display takes for success; both outcomes are there. A helper that refuses or dies
within the 5 s is one that did so right before the stop. The user in
AUTHENTICATED is PAM's `PAM_USER` (HelperApp.cpp:211), taken to be the one the helper
was started with: a PAM stack that renames its user is not modelled.
A null dereference (`Greeter::stop()` with no Auth) sets `crashed` and ends the
behaviour.

Abstracted: texts, the session's environment, numbers of terminals (only
"the greeter's" or "a new one"), the framing of messages.

### `DisplayLifecycle.tla`: what a seat sees of a display

The abstract specification: begin once, stop in one step with at most three
`stopped()`, give up, delete. `Display` implements it with `stops <- emitted`
(`LivesOnce`, checked and proved), and `Seat` is built on it: its displays emit
`stopped()` up to three times in one stop and do nothing afterwards.

### `Seat.tla`: one seat

`Seat.cpp`: displays with their terminals, the three tries of `startDisplay()`,
Relogin and the first-login token, `displayStopped()` once per `stopped()`,
`displayServerFailed` and `ttyFailed` with the exits 12 and 23, the jump to a
terminal after a display stops, `SeatManager::switchToGreeter()`. A display's
inside is condensed to a phase (waiting, automatic login, greeter, session,
reusing another display's session, stopped, doomed, gone). Between two
`stopped()` of one stop nothing else happens (`emitting`), as in the code, where
they are direct calls. A login is one step: `OpenSession` when it succeeds, which
switches to the terminal, `LoginFails` when it does not, which leaves a new
`m_reuseSessionId` behind (each `startAuth()` sets it). The terminal that a failed
attempt had reserved is left out: the next attempt reserves its own.
A display is given the initial terminal if that can be
opened, whoever uses it, else the active one, else a free one, if it can be opened
(`Available`).

### `SeatManager.tla`: seats following logind

`LogindSeat`, `SeatManager` and the seats of `DisplayManager`. logind's signals
and replies arrive in the order they were sent; a reply tells what was true
when logind answered. The reply to ListSeats is handled one seat per step.
`RemoveNamed` is `DisplayManager::RemoveSeat()`, which shortens the list it is
walking over, up to the end it had before: elements behind the new end are still
read.

### `Helper.tla`, `HelperContract.tla`: one run of `soniclogin-helper`

`doAuth()` runs in one slot, so its position is a variable and each of its waits
a step; what happens meanwhile outside is the environment.

| In the model | In the code |
|---|---|
| `at` | `start`: connecting; `auth`, `acct`: inside `pam_authenticate()` and `pam_acct_mgmt()`; `vouched`: `authenticated()` was sent and the daemon's environment is awaited; `opening`: `openSession()`; `reporting`: `sessionOpened()` waits; `loop`: the event loop; `left`: `exit()` was called; `stopping`: `UserSession::stop()`; `closing`: `closeSession()` and `pam_end()`; `gone` |
| `asking`, `env` | the question that is with the daemon, the environment it has sent |
| `cred`, `open` | PAM's credentials and session |
| `session`, `sessionCode` | the process of `UserSession` and how it ended |
| `daemon`, `term` | the connection, and SIGTERM |
| `verdict`, `status`, `ended` | AUTHENTICATED, SESSION_STATUS and the exit code, as the daemon sees them |

`HelperContract` is what `Display` takes a helper for: at most one verdict, after a
good one at most one report about the session, and an exit code that fits.
`Helper` implements it with the same three variables (`KeepsContract`, checked
and proved).

### `Conversation.tla`: PAM's questions

`PamBackend::converse()` with the prompts `PamData` keeps from one call of PAM
to the next, the request in the daemon, and the display's answer. PAM is the
environment: it calls with any messages, in any order. A prompt is its type;
texts are left out, but errors and informations are looked up among the prompts
too, as in the code.

### `XSession.tla`: the helper of an X11 session

`main()` of `soniclogin-helper-start-x11user`: server, display number, client,
cookie, Xsetup, event loop, `stop()`, destructors. The client is forked
(`starts`) before it is executed. Signals and ends of processes are noticed in
the event loop only.

### `HelperSide.tla`: helper and session together

With an X11 session the process that `UserSession` starts is `XSession`'s: its
return is the end of the helper's session with that exit code, the signals of
`UserSession::stop()` reach it, and when the helper is killed it goes on alone.
The variable `part` picks, once per behaviour, this composition or
`Conversation`, which is what happens behind `asking`.

### `ThemeSync.tla`, `KcmIpcServer.tla`, `Kcm.tla`: settings

Three layers, each extending the one before: the steps of `install()` and
`prune()`; the daemon's request from its frame to its answer, with the daemon's
death between any two steps (what is set aside then stays set aside); the
settings module, which collects themes, waits for the password of the
administrator, sends, and shows what came back before its deadline. A copy of a
theme, and a file, is the number of the request that wrote it; `Own` is a theme
installed by somebody else. Writes whose result the daemon does not look at
(`WriteText`, `WriteWallpapers`) may leave less than they were given. `taken` is a
history: themes that a request set aside or removed while a file selected them.
`kdeglobals` stands for `kcminputrc` too, which selects the cursor theme along with it.
Each request carries the password, which
the daemon gives to PAM; polkit has no part in it.

### `GreeterChannel.tla`: power

The greeter's connection as far as it is not about logins: capabilities when
it connects, requests, and `PowerManager` asking its services one by one before
it tells one of them. What services allow may change between the question and
the call.

### `StartUp.tla`: the greeter's session

`main()` of `start-soniclogin-x11`, run after run. A session variable is the
number of the run it is from; the environment of the user's systemd outlives
the runs.

### `Configuration.tla`: layered files

One entry in three layers, their modification times and `load()`.

### `DaemonProcess.tla`: the daemon from start to end

`SelfProvisioner`, the construction of `DaemonApp` as far as signals are
concerned, SIGTERM through the socket pair to `quit()`; deaths, reboots, and an
account that is removed and made again between.

### `Services.tla`

These five parts share no state, so `Services` is not their product: a
behaviour is of one of them (`part`), and the others stand still.

### `MCDisplay.tla` and the modules of proofs

`MCDisplay` adds the symmetry for TLC. `DisplayProofs`, `SeatProofs`,
`SeatManagerProofs`, `HelperProofs`, `SettingsProofs`, `ProcessProofs` and
`ServicesProofs` hold the theorems, and `Induction` the lemmas about sequences and
numbers that several of them need.

## The runs

| Run | Module | Checks | Distinct states |
|---|---|---|---|
| `DisplaySafety` | MCDisplay | type invariant, five invariants, `GreeterStartsOnce`, `LivesOnce` | 2.3 million |
| `DisplayLive` | MCDisplay | `LoginAnswered`, `SessionStopsGreeter` | 0.32 million |
| `SeatSafety` | Seat | five invariants and `Recovers` | 1.4 million |
| `SeatManagerSafety` | SeatManager | four invariants | 2.2 million |
| `HelperSide` | HelperSide | type invariant, five invariants, `KeepsContract`, `HelperEnds`, `EndOfOneEndsAll` | 15 thousand |
| `Services` | Services | ten invariants and `IndependentIsKept` | 2.2 million |
| `FinishedSession`, `StaleSession`, `GreeterWithoutAuth`, `SharedTerminal`, `StraySeat`, `StaleConfiguration` | | one property each, violated by the code (below) | |

All runs switch the deadlock check off: a behaviour ends when its display is
deleted, the daemon or the helper exits, or a bound is reached.

What the passing runs show:

* `AttemptKeepsItsData`: a second Login that arrives while the helper of the
  first is running cannot change the name, the password or the session to unlock
  that the first one is answered with.
* `AnswerGoesToAsker`: what a helper sends is answered to the connection that
  asked for that attempt, with two exceptions, both in the property. A Login for
  the user `soniclogin` is refused *without* resetting `m_socket`, so it can draw
  the running login's answer to itself. And frames do not name their attempt
  (Auth.cpp:170): when the exit of a helper that refused is handled before its last
  frames, and the next Login starts a helper in between, the earlier refusal and its error are
  sent to the next Login. Only those are: no success, prompt or status of an
  earlier attempt ever reaches a later one.
* `NobodyForgotten`: the connection that is owed an answer is the one `m_socket`
  names, and a verdict of its helper, or the end of the display, is on its way;
  a helper that could not be executed is the named exception. A refusal of an
  earlier attempt (above) is taken for the verdict, here and in `LoginAnswered`,
  as the code takes it. A Login from a
  second connection takes `m_socket` away: the one that had it is answered no
  more, and neither this property nor `LoginAnswered` asks for it (one greeter
  has one connection; the hazard at `Display.cpp:263` records it).
* `AutologinExcludesGreeter`, `GreeterStartsOnce`: an automatic login and the
  greeter never run beside each other, and the greeter is started once.
* `SessionHasItsOwnTerminal`: no session opens on the terminal of a greeter
  that was started, running or not.
* `LivesOnce`: `Display` implements `DisplayLifecycle`.
* `LoginAnswered`: the connection that is owed an answer gets it or is closed, except in
  three cases the code leaves open, which the property names: PAM asks for a
  number of answers other than one or two, the helper could not be executed,
  the daemon crashed.
* `SessionStopsGreeter`: a greeter whose session is up is stopped once the
  user's session is.
* `SeatIsServed`, `Recovers`: the seat has a display, and one that only waits
  for a terminal starts or the daemon exits (so that systemd restarts it).
* `ListedOnceWhileWanted`: the list of displays is exactly the displays that are
  not doomed, each once.
* `OneSuccessor`: the repeated `stopped()` of one display do not multiply displays.
* `FirstLoginOnce`: an automatic login is granted by the first-login token once,
  whatever Relogin was between. (A seat that is unplugged and plugged in
  again is a new object with a new token; this is by seat object.)
* `SeatsFollowLogind`: when nothing is on its way, the seats in use are the
  graphical ones, however signals and replies crossed. It needs `DaemonKeepsUp` or
  `MatchesInTime`: `initialize()` asks for the list (SeatManager.cpp:113-115) and
  connects the signals only afterwards (126-143), so a seat that comes or goes
  after logind has answered and before the match is in place is missed for good.
* `NoStraySeat`, `PublishedAsUsed`: no Seat is forgotten in memory and the bus
  objects are the seats in use. Both need that the daemon keeps up with logind
  (`DaemonKeepsUp = TRUE`): no seat comes or goes while `initialize()` lists them,
  and none comes back while the message that it has gone is on its way. Without
  that they fail, see `StraySeat` below. `SeatsFollowLogind` holds without
  it if the matches are in place before logind answers (it is proved so).
* `SessionIsBacked`, `CleanExit`: a session's process runs inside PAM's session
  and credentials, and nothing is left when the helper has ended. The exception
  is the SIGKILL after 5 s: a session that needs longer than that to end
  outlives its helper (`UserSession::stop()` would wait 60 s).
  Credentials also stay when `pam_open_session()` fails: `closeSession()` looks
  at the session only.
* `KeepsContract`: whatever PAM, the daemon and the session do.
* `HelperEnds`: no wait of the helper is for ever once its session has ended, it
  was stopped, or the daemon is gone.
* `DisplayIsTakenDown`, `EndOfOneEndsAll`: X server, client and helper of an X11
  session end together, and Xstop runs as often as Xsetup has.
* `AnswersFit`, `AnsweredOnce`: no password where the name is asked for, no name
  where the password is, no answer given twice. The two exceptions are in the
  property: a guessed prompt for a new password gets the name, because the
  display answers every pair of prompts with name and password; and an
  information "Changing password for" replaces prompts that were already sent.
* `PreviousIsKept`, `IndependentIsKept`: while a theme is replaced there is always
  a copy, one failed rename is undone, and what others installed stays. A cursor
  theme that comes without its directory is unpacked in place: it is excepted.
* `AvailableBeforeSelected`: each file, of whatever request, selects only themes that
  are there as they were sent along with it, wherever a sync fails or the
  daemon dies. Except those that a later request has set aside or removed since: it
  does so before it rewrites the file, so without the exception it would not hold (see below).
* `SuccessIsWhole`: success of a sync or a reset means all of it (a reset may leave
  files it could not remove). Success of a save only means that nothing older was
  left whole, because the daemon does not look at what its writes return.
* `NoFalseSuccess`, `OneRequestPerPassword`: deadlines, lost connections and
  restarts of the daemon make the module say "failed" for what was applied, but
  never "done" for what was not.
* `PowerOnce`: no request is carried out twice, by one service or by two.
* `EnvironmentIsOfThisRun`: a greeter's session that was killed leaves nothing
  to the next one, unless D-Bus refuses to clean up.
* `PriorityHolds`: reload by modification time never leaves a lower layer's value
  while a higher one sets the entry.
* `ReadyMeansOwned`, `SigtermIsKept`: provisioning repairs what an earlier start,
  a reboot or a new account left; a SIGTERM before the event loop is not lost.

### Bounds

* `Sockets`, `Users`: two of each, so that logins of two users over two
  connections overlap; no action compares more than two. `MaxLogins = 2`: the
  running login and the one that interferes. The theorems are for any number.
* `Complaints = FALSE`: PAM's error messages (an ERROR frame before a question or
  a success) only add to the state graph; with them everything `DisplaySafety`
  checks holds too (5.0 million states), and the theorems cover both.
  A refusal, and a session that cannot be opened (`setCred()` included), have their
  optional ERROR frame in every run.
* `ExitCodes`: how a session may end. `DisplaySafety` takes one of each class the
  display tells apart; `TTY_ERROR` is treated like `SESSION_ERROR` by the display,
  `OTHER_ERROR` like `SUCCESS`.
* `Sessions`: one that starts and one whose file names no command.
* `DisplayLive`: one connection and one user: a liveness property of one login
  needs a single waiter, and the state graph must be small for the temporal check.
* `MaxDisplays = 3`: a display, its successor and one from `switchToGreeter()`.
  A display is not stopped when it is the last and no successor may be created.
* `Vts = {1, 2, 3}`: the initial one, a session's and a free one.
* `TtyFailureLimit = 1` (5 in the code): one failure is survived and two exit.
* `SeatManagerSafety` has `DaemonKeepsUp = TRUE` and `MatchesInTime = FALSE`;
  `StraySeat` the opposite, so that what it shows is not due to a late match.
* `MaxWatchers`, `MaxSeats`, `MaxChanges` = 5, 5, 5: two seats may come, go and
  come again, and change, while messages about them are under way. `StraySeat` needs
  4, 5, 4.
* `HelperSide`: all three jobs; one exit code of a session beside the helper's own
  (it is only handed on); `MaxMessages = 2`: `converse()` treats the first
  message, then the others alike. No other bound: the state graph is finite.
* `Services`, settings: one theme of each kind that `install()` treats
  differently (a colour scheme has its marker beside it, a directory inside it, a
  cursor theme may come without one); two requests, so that one replaces, prunes
  or overtakes the other; two passwords. Of the files a sync writes, `kdeglobals`
  and `plasmarc` stand for those that select themes.
* `Services`, others: two of four capabilities, which are treated alike, asked
  for twice; two session variables, so that one may be set in a run and the
  other not, and two runs, one of which leaves them to the other; two values,
  three layers and three changes, so that each layer changes after a load; two
  account ids and two signals, the second while the first is handled.

### Fairness

`Fairness` of `Display` is weak fairness of each handler of the event loop: Qt
delivers posted calls, process ends, frames and timers. The one strong fairness
is PAM's verdict: `HelperRefuses \/ HelperAccepts` is enabled again after each
question, and a PAM stack asks a bounded number of them. `HelperOpens` is
weakly fair: opening a session ends one way or the other. Users, sessions,
connections and the seat owe nothing: no fairness is put on them. `Seat` assumes
that its 2 s retry timer fires and that a signal's slot is called.

`Fairness` of `HelperSide` lets the helper's and the X11 helper's own code run
(weak fairness of `DoAuth`, `EventLoop`, `Destructor`, `XOwnSteps`), delivers a
SIGKILL that is due (`Kill`), and lets PAM come to a verdict (strong fairness of
`Passes \/ Fails`, which each question disables). Nothing makes a session end, a
connection break or the daemon answer: `HelperEnds` holds because of what does
happen. `Services` states safety only.

### What the code does that its documentation does not say

Each is a run that TLC must find violated, with the quoted line in
`PROJECT.json` under `findings`.

* `FinishedSession`: the helper exits with the exit code, or the signal number,
  of the user's session. A session ending with 1 is read as
  `HELPER_AUTH_ERROR`, the display is not stopped and no greeter returns.
* `StaleSession`: when the user's session can be reused, `startAuth()` leaves
  Auth's session alone; after an earlier login of another session failed, the
  helper starts that session instead of only authenticating.
* `GreeterWithoutAuth`: the last frame of a greeter's helper handled after its
  exit sets `m_started` on a greeter whose `m_auth` is null; the next `stop()`
  dereferences it.
* `SharedTerminal`: the initial terminal is opened for every display; two
  greeters, or an automatic login's session and a greeter, end up on it.
* `StraySeat`: a seat that appears between the subscription and the reply to
  ListSeats is added twice; one of its two Seats outlives it. So does a Seat of a
  seat that comes back, and then changes, before the daemon has handled its
  removal: logind tells both LogindSeats of the change.
* `StaleConfiguration`: `load()` assigns what files say and resets nothing: an
  `Autologin.User` whose line was removed still logs in until the daemon restarts.

Met while reading, about state that no module has:

* `helper/HelperApp.cpp:339` writes the logout to utmp for `processId()`, which
  is 0 when the session has ended, so it never does; lines 304 and 338 say it.
* `daemon/SelfProvisioner.h` says "Cleans up stale auth sockets", but
  `cleanupAuthSockets()` lists with `QDir::Files`, which leaves sockets out.
* `daemon/KcmIpcServer.cpp:449-470` replaces and prunes the themes of a sync before
  lines 487-499 rewrite the files. If it fails or the daemon dies in between, the files
  of the earlier sync select themes that are gone, until a sync succeeds. The
  comment there ("Make selected user-local assets available before switching
  configuration to them") is about the new files.
* `daemon/KcmIpcServer.cpp:627-630` (`<<`, `flush()`, `close()`), 645-648 and 711
  (`write()`) ignore their results: on a full disk a save whose configuration or
  wallpapers were cut short is answered with success. Empty names are skipped (674-676).
* `daemon/SeatManager.cpp:113-143`: a seat that comes or goes between logind's answer
  to ListSeats and the match on its signals is missed.
* `frontend/startkde/start-soniclogin.cpp:596` logs the "most-recent" user, while
  line 598 sorts by `QDir::Time | QDir::Reversed`, oldest first.
* Lines 1118-1119 there say that child processes "receive SIGTERM when this process
  exits"; nothing sends it. `cleanupPlasmaEnvironment()` (478) has no caller.

## The proofs

The theorems are checked by TLAPS and hold for every value of the constants; the
invariants they rest on were model-checked first.

### `DisplayProofs`

`DisplayProofs.tla` (1478 obligations) is about every set of
connections, users and sessions, every `CanTTY` and every bound. From
`NamesAssumption` (the greeter's user and the null value are nobody else's
name), `BoundsAssumption` and `CodesAssumption` (a session ends with some exit
code) it proves:

| Theorem | States |
|---|---|
| `TypeCorrect` | `Spec => []TypeOK` |
| `Inductive` | `Spec => []IInv` |
| `AttemptsDoNotMix` | `Spec => []AttemptKeepsItsData` |
| `AnswersFindTheAsker` | `Spec => []AnswerGoesToAsker`, with the two exceptions it names |
| `NobodyIsForgotten` | `Spec => []NobodyForgotten` |
| `AutologinOrGreeter` | `Spec => []AutologinExcludesGreeter` |
| `SessionsHaveTheirOwnTerminal` | `~VtsRunOut` implies `Spec => []SessionHasItsOwnTerminal` |
| `GreeterIsStartedOnce` | `Spec => GreeterStartsOnce` |
| `DisplaysLiveOnce` | `Spec => LivesOnce`, the refinement of `DisplayLifecycle` |

None of the invariants is inductive alone. `AttemptKeepsItsData` can be broken
by a frame AUTHENTICATED with a name of an earlier attempt; so `VouchedOnce`
says that such a frame is the last in its queue, carries the attempt's user, and
is never among the late ones. What is late are errors and a refusal, the second half of
`AnswerGoesToAsker`: a frame the helper waits or ends with is the last in the queue, and
a helper that ended with an authentication error has left no other (`InOrder`).
That needs `RefusedIsGone` (a helper that refused
is not alive, so the greeter that an automatic login falls back to starts
beside no helper) and `OneGreeter` (of an automatic login that can still fail, a
queued call and a started greeter there is at most one; nobody is connected
before the greeter, so no Login starts a second helper in between), which in turn
needs `Pristine` (a display that was not started has no helper, no frame and no
connection). `OwnTerminal` extends `SessionHasItsOwnTerminal` to helpers that
have not opened their session yet. `IInv` is the conjunction of these with
`TypeOK`; one lemma per group of actions shows that it is preserved, over lemmas
about the operators (`StopEffect`, `GreeterDoneEffect`, `FrameEffect`,
`StartAuthSucceedsSafe`, ...). `NobodyIsForgotten` adds `waiting \subseteq connected` to
`IInv`: a display that is started late has no connection, so nobody
waits on it. A helper that gives its verdict leaves OK or FAIL in its queue
(`HelperOwes`); once it has gone on from there the verdict has been handled and
nobody waits (`PastTheVerdict`, `HandleFrameOwes`). The refinement rests on `OneLife`: a started
display is alive and has emitted nothing.

### `Induction`

The provers cannot instantiate a theorem with an operator parameter, so
induction is stated about sets here: a set that has 0 and with each number the
next one (up to n) has every number (up to n), `SetInduction` and
`BoundedInduction`, which rest on `LessIsWellFounded`. `Recursion` says that a function
defined by its first value and a step exists; with it the recursive functions
`Without` (of `Seat`) and `RemoveNamed` (of `SeatManager`) are shown to do what
their loops are for (`WithoutRemoves`, `RemoveNamedRemoves`). `Distinct` and `Holds` are
what is said of the lists.

### `SeatProofs`

From the assumptions of `Seat`, for any numbers of displays, terminals, sessions
and failures:

| Theorem | States |
|---|---|
| `Invariant` | `Spec => []IInv` |
| `TypeCorrect` | `Spec => []TypeOK` |
| `SeatServed` | `Spec => []SeatIsServed` |
| `ListedOnce` | `Spec => []ListedOnceWhileWanted` |
| `Successor` | `Spec => []OneSuccessor` |
| `OneFirstLogin` | `Spec => []FirstLoginOnce` |

`SeatIsServed` and `OneSuccessor` rest on what the other parts of `IInv` say of
the list while a display emits its `stopped()`: `Births` (numbers are given in
order, so a successor is new), `Listed` (the list has each wanted display and
the one whose `stopped()` is still to be handled, once), `Emitting` (only the
display that emits can be stopped: the first of its `stopped()` takes it off the
list, and for the others the list is as it was, so a successor that is there
already is not made again), `Terminals` (a display that runs has one) and
`FirstLogin` (who logged in first did it with the token).

### `SeatManagerProofs`

From `SeatManagerAssumption`, for any seats and any number of objects and changes:

| Theorem | States |
|---|---|
| `TypeCorrect` | `Spec => []TypeOK` |
| `FollowsLogind` | `DaemonKeepsUp \/ MatchesInTime` implies `Spec => []SeatsFollowLogind` |
| `Invariant` | `DaemonKeepsUp` implies `Spec => []IInv` |
| `NoneStray` | `DaemonKeepsUp` implies `Spec => []NoStraySeat` |
| `Published` | `DaemonKeepsUp` implies `Spec => []PublishedAsUsed` |

`NoneStray` and `Published` need the hypothesis because the code breaks both without
(`StraySeat`). It leaves out two cases only: seats that come or go during
`initialize()`, and a seat that is back before its removal was handled.

What is on the bus decides what the daemon will take a seat for, so both
invariants speak of the whole queue. For `IInv`, `Timeline` is a
sequence of states of a seat ("none", "dark", "lit"), one for each message still to be handled:
the first is what the daemon takes the seat for, each message leads from one to
the next and comes only when it has something to say, and the last is what
logind knows, unless a Get is to be answered. `Channel` says that the list comes
first, `SeatObjects` that the Seats are those in `m_seats`.

For `FollowsLogind` it is one of two: with `DaemonKeepsUp` the property follows from
`IInv`; with `MatchesInTime` alone, which says that logind answers ListSeats after the
matches are in place, it has an invariant of its own. Then a name may have several LogindSeats, each with its own
opinion, and messages that come twice. `CatchesUp` replaces the three states by
a `View`: whether there is a Seat, the LogindSeat in `m_systemSeats`, what those
think that exist and those that messages will make. `Course` leads from the
view of now (`Begins`) to the last (`Ends`), which is right about the seat or
holds a LogindSeat whose Get is unanswered and will correct it (`Corrected`). It
is this second part that makes it inductive: two LogindSeats may disagree, and
each reply changes the Seat only if it is news to the LogindSeat it is for. The
other thing needed is `Backed`: when no LogindSeat is left, what the daemon
thinks is what one that is still to come will think. When a LogindSeat is made, views that
took it for an unborn one have it by number from then on (`Born`, `BornCourse`).

### `HelperProofs`

From `JobsAssumption` and `ConversationAssumption`, for any set of session codes and
calls of any length:

| Theorem | States |
|---|---|
| `HelperTypeCorrect` | `HelperSpec => []HelperTypeOK` |
| `SessionsAreBacked` | `HelperSpec => []SessionIsBacked` |
| `HelpersLeaveClean` | `HelperSpec => []CleanExit` |
| `HelpersKeepContract` | `HelperSpec => KeepsContract`, the refinement of `HelperContract` |
| `DisplaysAreTakenDown` | `XSpec => []DisplayIsTakenDown` |
| `AnswersAlwaysFit` | `ConversationSpec => []AnswersFit` |
| `ResponsesAreForgotten` | `ConversationSpec => []AnsweredOnce` |
| `PartsOfTheWhole` | `Spec => HelperSpec /\ ConversationSpec` |
| `TheWholeIsSafe` | `Spec` has all of these properties |

`HelperIInv` adds to the types what each position of `doAuth()` has behind it
(`NothingYet`: before the session is opened there is none of it, and the verdict is
what the position says), how process, session and credentials lie inside each
other up to the destructor (`Nested`), and that `exit()` was called with a code that
fits (`CodeFits`). The last is what the refinement needs: between `exit()` and the
end, the destructor reports nothing. An End of the contract is the one step to
`gone`.

`ConversationIInv` says what `PamData` holds between two calls of PAM: prompts that
were sent, with the password or with nothing as their response, or those for a
new password, which were not (`Stored`), each type once (`OneEach`); and that a
request asks for what PAM called for (`Asked`). `AnswersFit` needs it, since a
question may find its prompt among those of an earlier call. `TheWholeIsSafe` is about `HelperSide`, what the run checks:
its steps are those of the parts, except that a process of an X11 session may end
before it has become that session's helper, and that changes nothing.

### `SettingsProofs`

About `SettingsSpec`, for any themes and numbers of requests and passwords:

| Theorem | States |
|---|---|
| `PasswordsPayRequests` | `[]OneRequestPerPassword` |
| `AnswersAreTrue` | `[]NoFalseSuccess` |
| `PreviousCopiesAreKept` | `[]PreviousIsKept` |
| `SelectedThemesAreThere` | `[]AvailableBeforeSelected` |
| `SuccessIsComplete` | `[]SuccessIsWhole` |
| `IndependentThemesStay` | `IndependentIsKept` |

`SettingsIInv` has what is known at each step of a replacement (`Replaced`: where
the old copy is, and that the number of failed operations is 0 unless the install
has failed), that what a sync has installed as sent stays until its files are written
(`Retained`: later themes of the same request cannot disturb it, because each is
installed once), that what is being replaced counts as taken away from the files that
select it (`Filed`, with `CopiesAreTaken`: a copy changes by being taken away first), that a marked theme is never an independent one (`Marked`), and
what is done when an answer is due (`Complete`). `Paid` says that a password is
either counted or still there; `Truthful` that an answer on its way with success
has its request in `applied`. These two need the types only.

### `ProcessProofs`

| Theorem | States |
|---|---|
| `DirectoriesAreOwned` | `ProcessSpec => []ReadyMeansOwned` |
| `SigtermsAreKept` | `ProcessSpec => []SigtermIsKept` |
| `NothingIsLeftOver` | `StartUpSpec => []EnvironmentIsOfThisRun` |
| `LayersHavePriority` | `ConfigurationSpec => []PriorityHolds` |

The invariants are `Provisioned` (the directories dealt with so far belong to the
account), `Kept` (before the handler is installed no signal has come that
left the process alive), `Clean` (after the cleaning, systemd has variables of this
run only, and what runs was started in a run with them) and `Read` (`load()` has
seen every layer that is not stamped later). They
need `DaemonAssumption` and no other assumption.

### `ServicesProofs`

| Theorem | States |
|---|---|
| `PowerIsUsedOnce` | `ChannelSpec => []PowerOnce` |
| `EachPartRuns` | `ServicesSpec` implies the specifications of its five parts |
| `ServicesAreSafe` | `ServicesSpec` has every property its run checks |

`ChannelIInv` counts: requests on their way and the one being carried out are
those that were asked for and not yet used.

### What is only model-checked

Liveness: `LoginAnswered`, `SessionStopsGreeter`, `Recovers`, `HelperEnds` and
`EndOfOneEndsAll`. They rest on fairness, hence on ENABLED, which the prover
does not handle. Every safety property of a run that passes is a theorem.

## Not modelled, and planned

Left to do, in this order:

1. `Display` over `HelperContract`: its helper shown to be one of those the
   contract allows.
2. utmp and wtmp, the steps of the session's child before `exec()` (terminal, groups,
   capabilities), cgroups.
3. `VirtualTerminal`'s console modes and the kernel's release and acquire signals.
4. The layout of the screens, which a sync copies and the greeter's session
   applies without looking at the result; the import of older settings; log files.

`ConfigReader`'s `save()` and `wipe()` have no caller in the daemon and
`LogindDBusTypes` keeps no state.

Left out for good: drawing (QML, the settings module's widgets, the wallpaper),
translations, packaging data, PAM configurations, logging, D-Bus marshalling.
They keep no state that another component relies on.

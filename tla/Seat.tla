-------------------------------- MODULE Seat --------------------------------
(***************************************************************************)
(* One seat of the daemon (src/daemon/Seat.cpp): the displays it creates,  *)
(* starts, removes and replaces, the virtual terminals they reserve and    *)
(* the one on the screen.                                                  *)
(*                                                                         *)
(* A display is what DisplayLifecycle lets a seat see of it: it is started *)
(* once, stops in one step and may emit stopped() up to three times in     *)
(* that step.  Every call of displayStopped() is an action here; until the *)
(* last one has returned the event loop handles nothing else.  A login is  *)
(* one step, taken when its session opens or the attempt has failed.       *)
(*                                                                         *)
(* The seat is one with virtual terminals.  A helper switches to the       *)
(* terminal of the session it opens.  Not modelled: console modes.         *)
(***************************************************************************)
EXTENDS Integers, Sequences, FiniteSets

CONSTANTS
  MaxDisplays,       \* bound: displays the seat creates
  Vts,               \* numbers of the virtual terminals
  InitialVt,         \* getInitialVt()
  OpenVts,           \* terminals that can be opened once there is a device
  FirstBoot,         \* DaemonApp::isFirstBoot()
  TtyFailureLimit,   \* 5 in Display.cpp
  MaxSwitches        \* bound: switchToGreeter() calls

ASSUME SeatAssumption ==
  /\ Vts \subseteq Nat \ {0} /\ InitialVt \in Vts /\ OpenVts \subseteq Vts
  /\ FirstBoot \in BOOLEAN
  /\ MaxDisplays \in Nat \ {0} /\ TtyFailureLimit \in Nat /\ MaxSwitches \in Nat

VARIABLES
  displays,     \* m_displays
  phase,        \* what each display is doing
  tries,        \* tryNr of its last Display::start()
  auto,         \* displays with an autologin user
  greeting,     \* displays whose greeter's session logind lists
  vt,           \* m_terminalId, 0 when invalid
  sessionVt,    \* m_sessionTerminalId, 0 when invalid
  reuse,        \* display whose session m_reuseSessionId names, or 0
  token,        \* m_firstLoginLock
  firstLogins,  \* displays that got an autologin user from the token
  emitting,     \* the display emitting stopped(), and how many are left
  active,       \* the terminal on the screen
  exit,         \* the code QCoreApplication::exit() was called with, or 0
  ttyFailures,  \* s_ttyFailures
  switches      \* switchToGreeter() calls so far

displayVars == <<phase, tries, auto, greeting, vt, sessionVt, reuse>>
seatVars == <<displays, token, firstLogins>>
vars == <<displayVars, seatVars, emitting, active, exit, ttyFailures, switches>>

Ids == 1 .. MaxDisplays

(* unborn, waiting for a terminal, started with an automatic login, with a *)
(* greeter on its way or once started, with a session, authenticating for  *)
(* a session of another display; then stopped, doomed and gone.            *)
Started == {"autologin", "starting", "greeter", "session", "reused"}
Wanted  == Started \cup {"retrying"}
Phase   == Wanted \cup {"unborn", "stopped", "doomed", "gone"}

(* The event loop runs: no handler is active and exit() was not called.    *)
Quiet == emitting.left = 0 /\ exit = 0

Unborn == {d \in Ids : phase[d] = "unborn"}
NewDisplay == MaxDisplays - Cardinality(Unborn) + 1

(* Terminals held open by displays, and the lowest that is not in use,     *)
(* which is what VT_OPENQRY returns.                                       *)
Held == UNION {{vt[d], sessionVt[d]} : d \in Ids}
Lowest(vts) == {v \in vts : \A w \in vts : v <= w}
Free == Lowest(Vts \ (Held \cup {active}))

(* Seat::availableVt(): the initial terminal if it can be opened, whoever  *)
(* uses it, then the active one, then a free one.  0: there is no device   *)
(* yet.                                                                    *)
Available(free) ==
  {0} \cup (IF InitialVt \in OpenVts THEN {InitialVt}
           ELSE IF active \in OpenVts THEN {active} ELSE free \cap OpenVts)
AvailableVt == Available(Free)

(* Display::terminalId(), -1 when it is not valid.                         *)
TerminalId(d) ==
  LET t == IF phase[d] \in {"autologin", "session", "reused"} THEN sessionVt[d] ELSE vt[d]
  IN  IF t = 0 THEN -1 ELSE t

(* Mutant: nobody asks whether there is a terminal to jump to.             *)
JumpToAny(v) == active' = v

(* VirtualTerminal::jumpToVt(): activating terminal 0 fails.               *)
JumpToVt(v) == active' = IF v \in Vts THEN v ELSE active

-----------------------------------------------------------------------------
(* Display::start(): without a terminal it has to be tried again.          *)
AfterStart(v, isAuto) ==
  IF v = 0 THEN "retrying" ELSE IF isAuto THEN "autologin" ELSE "starting"

(* Mutant: the token is only taken when it is used.                        *)
TryLockKeepsToken(relogin) == token' = token

(* tryLockFirstLogin() is not called when Relogin is set.                  *)
TryLockFirstLogin(relogin) == token' = (token \/ ~relogin)

(* Seat::createDisplay() and the first try of startDisplay(), when the     *)
(* displays l are left, in the phases ph.  The configuration is read       *)
(* again: Relogin and the autologin user may have changed.                 *)
CreateDisplay(l, ph) ==
  LET d == NewDisplay IN
  /\ Unborn # {}
  /\ displays' = Append(l, d)
  /\ \E v \in AvailableVt, relogin \in BOOLEAN, user \in BOOLEAN :
       LET first  == ~relogin /\ ~token /\ FirstBoot
           isAuto == user /\ (relogin \/ first)
       IN
       /\ TryLockFirstLogin(relogin)
       /\ firstLogins' = IF isAuto /\ ~relogin THEN firstLogins \cup {d} ELSE firstLogins
       /\ auto' = IF isAuto THEN auto \cup {d} ELSE auto
       /\ vt' = [vt EXCEPT ![d] = v]
       /\ tries' = [tries EXCEPT ![d] = 1]
       /\ phase' = [ph EXCEPT ![d] = AfterStart(v, isAuto)]
       /\ sessionVt' = [sessionVt EXCEPT ![d] = IF isAuto THEN v ELSE 0]

(* The seat's constructor creates a display.                               *)
Init ==
  /\ active \in Vts
  /\ \E v \in Available(Lowest(Vts \ {active})),
        isAuto \in BOOLEAN, relogin \in BOOLEAN :
       /\ isAuto => relogin \/ FirstBoot
       /\ phase = [d \in Ids |-> IF d = 1 THEN AfterStart(v, isAuto) ELSE "unborn"]
       /\ vt = [d \in Ids |-> IF d = 1 THEN v ELSE 0]
       /\ sessionVt = [d \in Ids |-> IF d = 1 /\ isAuto THEN v ELSE 0]
       /\ auto = IF isAuto THEN {1} ELSE {}
       /\ token = ~relogin
       /\ firstLogins = IF isAuto /\ ~relogin THEN {1} ELSE {}
  /\ displays = <<1>>
  /\ tries = [d \in Ids |-> IF d = 1 THEN 1 ELSE 0]
  /\ greeting = {}
  /\ reuse = [d \in Ids |-> 0]
  /\ emitting = [display |-> 0, left |-> 0]
  /\ exit = 0 /\ ttyFailures = 0 /\ switches = 0

(* Seat::removeDisplay(): the display's stop() is muted and, coming from   *)
(* stopped(), has nothing left to do.                                      *)
Without(l, d) ==
  LET kept[i \in 0 .. Len(l)] ==
        IF i = 0 THEN <<>>
        ELSE IF l[i] = d THEN kept[i - 1] ELSE Append(kept[i - 1], l[i])
  IN  kept[Len(l)]

(* Mutant: the daemon is not told to exit.                                 *)
RemovedOnly(d) ==
  /\ displays' = Without(displays, d)
  /\ phase' = [phase EXCEPT ![d] = "doomed"]
  /\ greeting' = greeting \ {d}
  /\ UNCHANGED <<exit, tries, auto, vt, sessionVt, reuse, token, firstLogins>>

(* displayServerFailed(): the display is removed and the daemon exits.     *)
Removed(d) ==
  /\ displays' = Without(displays, d)
  /\ phase' = [phase EXCEPT ![d] = "doomed"]
  /\ greeting' = greeting \ {d}
  /\ exit' = 12
  /\ UNCHANGED <<tries, auto, vt, sessionVt, reuse, token, firstLogins>>

(* The 2 s timer of startDisplay(): try tries[d] + 1.                      *)

(* Mutant: the last try is not made.                                       *)
RetryTwice(d) ==
  /\ Quiet /\ phase[d] = "retrying" /\ tries[d] < 2
  /\ \/ \E v \in AvailableVt \ {0} :
          /\ vt' = [vt EXCEPT ![d] = v]
          /\ phase' = [phase EXCEPT ![d] = AfterStart(v, d \in auto)]
          /\ UNCHANGED tries
     \/ tries' = [tries EXCEPT ![d] = @ + 1] /\ UNCHANGED <<phase, vt>>
  /\ UNCHANGED <<seatVars, auto, greeting, sessionVt, reuse, emitting, active, exit,
                 ttyFailures, switches>>

RetryStart(d) ==
  /\ Quiet /\ phase[d] = "retrying"
  /\ \/ /\ \E v \in AvailableVt \ {0} :
               /\ vt' = [vt EXCEPT ![d] = v]
               /\ phase' = [phase EXCEPT ![d] = AfterStart(v, d \in auto)]
               /\ sessionVt' = [sessionVt EXCEPT ![d] = IF d \in auto THEN v ELSE 0]
          /\ UNCHANGED <<seatVars, tries, auto, greeting, reuse, exit>>
     \/ /\ tries[d] < 2
        /\ tries' = [tries EXCEPT ![d] = @ + 1]
        /\ UNCHANGED <<seatVars, phase, auto, greeting, vt, sessionVt, reuse, exit>>
     \/ tries[d] = 2 /\ Removed(d)      \* the third try: displayServerFailed()
  /\ UNCHANGED <<emitting, active, ttyFailures, switches>>

-----------------------------------------------------------------------------
(* What displays do.                                                       *)

Unstopped == <<displays, tries, auto, vt, token, firstLogins, emitting, exit, ttyFailures,
               switches>>

(* The greeter's session is up, on the display's terminal; or it ends in a *)
(* way that leaves the display alone.                                      *)
GreeterUp(d) ==
  /\ Quiet /\ phase[d] = "starting"
  /\ phase' = [phase EXCEPT ![d] = "greeter"]
  /\ greeting' = greeting \cup {d}
  /\ active' = vt[d]
  /\ UNCHANGED <<sessionVt, reuse, Unstopped>>

GreeterGone(d) ==
  /\ Quiet /\ d \in greeting
  /\ greeting' = greeting \ {d}
  /\ UNCHANGED <<phase, sessionVt, reuse, active, Unstopped>>

(* Seat::reusableSessionId(): every startAuth() asks anew whether the user *)
(* has a session in the background, before it can fail.                    *)
Online(e) == phase[e] = "session" /\ sessionVt[e] # active
Reusable == {0} \cup {e \in Ids : Online(e)}

(* A login that is refused leaves the session to reuse; the terminal it    *)
(* reserved is released by the next startAuth() and left out here.         *)
LoginFails(d) ==
  /\ Quiet /\ phase[d] = "greeter" /\ d \in greeting
  /\ \E e \in Reusable : reuse' = [reuse EXCEPT ![d] = e]
  /\ UNCHANGED <<phase, greeting, sessionVt, active, Unstopped>>

(* A login opens a session, after a greeter on a terminal that was free,   *)
(* automatically on the display's own.                                     *)
OpenSession(d) ==
  /\ Quiet
  /\ \/ phase[d] = "autologin" /\ UNCHANGED sessionVt
     \/ /\ phase[d] = "greeter" /\ d \in greeting
        /\ \E v \in Free : sessionVt' = [sessionVt EXCEPT ![d] = v]
  /\ phase' = [phase EXCEPT ![d] = "session"]
  /\ reuse' = [reuse EXCEPT ![d] = 0]
  /\ active' = sessionVt'[d]
  /\ UNCHANGED <<greeting, Unstopped>>

(* A login for a user with a session in the background: it is activated    *)
(* and the helper ends after it.                                           *)
ReuseSession(d, e) ==
  /\ Quiet /\ phase[d] \in {"greeter", "autologin"} /\ Online(e)
  /\ phase[d] = "greeter" => d \in greeting
  /\ \/ phase[d] = "autologin" /\ UNCHANGED sessionVt
     \/ /\ phase[d] = "greeter"
        /\ \E v \in Free : sessionVt' = [sessionVt EXCEPT ![d] = v]
  /\ phase' = [phase EXCEPT ![d] = "reused"]
  /\ reuse' = [reuse EXCEPT ![d] = e]
  /\ active' = sessionVt[e]
  /\ UNCHANGED <<greeting, Unstopped>>

AutologinFails(d) ==
  /\ Quiet /\ phase[d] = "autologin"
  /\ phase' = [phase EXCEPT ![d] = "starting"]
  /\ \E e \in Reusable : reuse' = [reuse EXCEPT ![d] = e]
  /\ UNCHANGED <<greeting, sessionVt, active, Unstopped>>

(* Display::stop(), from its helper, its greeter's or a D-Bus caller.      *)
Stop(d) ==
  /\ Len(displays) > 1 \/ Unborn # {}       \* bound
  /\ phase' = [phase EXCEPT ![d] = "stopped"]
  /\ greeting' = greeting \ {d}
  /\ \E n \in 1 .. 3 : emitting' = [display |-> d, left |-> n]
  /\ UNCHANGED <<tries, auto, vt, sessionVt, reuse, seatVars, switches>>

DisplayStops(d) ==
  /\ Quiet /\ phase[d] \in Started
  /\ Stop(d)
  /\ UNCHANGED <<active, exit, ttyFailures>>

(* Greeter::ttyFailed().                                                   *)
TtyFailed(d) ==
  /\ Quiet /\ phase[d] \in {"starting", "greeter"}
  /\ ttyFailures' = ttyFailures + 1
  /\ exit' = IF ttyFailures + 1 > TtyFailureLimit THEN 23 ELSE exit
  /\ JumpToVt(InitialVt)
  /\ Stop(d)

(* Mutant: the daemon is told to exit but the display stays in the list.   *)
DisplayServerFailedStays(d) ==
  /\ Quiet /\ phase[d] \in {"starting", "greeter"}
  /\ phase' = [phase EXCEPT ![d] = "doomed"]
  /\ exit' = 12
  /\ UNCHANGED <<displays, tries, auto, greeting, vt, sessionVt, reuse, token, firstLogins,
                 emitting, active, ttyFailures, switches>>

(* Display::displayServerFailed(), which may also come from inside stop(), *)
(* whose stopped() then follows.                                           *)
DisplayServerFailed(d) ==
  /\ Quiet /\ phase[d] \in Started \ {"autologin"}
  /\ Removed(d)
  /\ emitting' \in {emitting, [display |-> d, left |-> 1]}
  /\ UNCHANGED <<active, ttyFailures, switches>>

DeleteDisplay(d) ==
  /\ Quiet /\ phase[d] = "doomed"
  /\ phase' = [phase EXCEPT ![d] = "gone"]
  /\ tries' = [tries EXCEPT ![d] = 0] /\ auto' = auto \ {d}
  /\ vt' = [vt EXCEPT ![d] = 0] /\ sessionVt' = [sessionVt EXCEPT ![d] = 0]
  /\ reuse' = [reuse EXCEPT ![d] = 0]
  /\ UNCHANGED <<greeting, seatVars, emitting, active, exit, ttyFailures, switches>>

-----------------------------------------------------------------------------
(* Seat::displayStopped(), once per stopped().                             *)

(* Seat::vtForSession(): no value without a session to reuse; 0 when the   *)
(* session it names is gone by now.                                        *)
NoVt == -1
VtForSession(d) ==
  IF reuse[d] = 0 THEN NoVt
  ELSE IF phase[reuse[d]] = "session" THEN sessionVt[reuse[d]] ELSE 0

(* Mutant: every stopped() gets a new display.                             *)
ReplacedAlways(l) == TRUE

Replaced(l) == l = <<>>

(* The display is removed, unless an earlier stopped() did it.  If it was  *)
(* the last one there is a new one, else the screen goes to the reused     *)
(* session or to the last display.                                         *)
DisplayStopped ==
  LET d == emitting.display
      l == Without(displays, d)
      doomed == [phase EXCEPT ![d] = "doomed"]
      next == VtForSession(d)
  IN
  /\ emitting.left > 0
  /\ emitting' = [emitting EXCEPT !.left = @ - 1]
  /\ IF Replaced(l)
     THEN CreateDisplay(l, doomed) /\ JumpToVt(next)
     ELSE /\ displays' = l /\ phase' = doomed
          /\ JumpToVt(IF next = NoVt THEN TerminalId(l[Len(l)]) ELSE next)
          /\ UNCHANGED <<tries, auto, vt, sessionVt, token, firstLogins>>
  /\ UNCHANGED <<greeting, reuse, exit, ttyFailures, switches>>

-----------------------------------------------------------------------------
(* SeatManager::switchToGreeter(): the greeter's session that logind knows *)
(* is activated, else there is one more display.                           *)
SwitchToGreeter ==
  /\ Quiet /\ switches < MaxSwitches
  /\ switches' = switches + 1
  /\ \/ /\ \E d \in greeting : active' = vt[d]
        /\ UNCHANGED <<seatVars, displayVars>>
     \/ /\ greeting = {}
        /\ CreateDisplay(displays, phase)
        /\ UNCHANGED <<greeting, reuse, active>>
  /\ UNCHANGED <<emitting, exit, ttyFailures>>

(* Somebody switches to another display's terminal.                        *)
SwitchVt ==
  /\ Quiet
  /\ active' \in Held \ {0, active}
  /\ UNCHANGED <<seatVars, displayVars, emitting, exit, ttyFailures, switches>>

Next ==
  \/ \E d \in Ids :
       \/ RetryStart(d) \/ GreeterUp(d) \/ GreeterGone(d) \/ LoginFails(d)
       \/ OpenSession(d) \/ AutologinFails(d) \/ DisplayStops(d) \/ TtyFailed(d)
       \/ DisplayServerFailed(d) \/ DeleteDisplay(d)
       \/ \E e \in Ids : ReuseSession(d, e)
  \/ DisplayStopped \/ SwitchToGreeter \/ SwitchVt

Spec == Init /\ [][Next]_vars

(* Timers fire and a signal reaches its slot.                              *)
FairSpec ==
  /\ Spec
  /\ \A d \in Ids : WF_vars(RetryStart(d))
  /\ WF_vars(DisplayStopped)

-----------------------------------------------------------------------------
(* Every variable has its type.                                            *)
TypeOK ==
  /\ displays \in Seq(Ids)
  /\ phase \in [Ids -> Phase] /\ tries \in [Ids -> 0 .. 2]
  /\ auto \subseteq Ids /\ greeting \subseteq Ids /\ firstLogins \subseteq Ids
  /\ vt \in [Ids -> Vts \cup {0}] /\ sessionVt \in [Ids -> Vts \cup {0}]
  /\ reuse \in [Ids -> Ids \cup {0}]
  /\ token \in BOOLEAN
  /\ emitting \in [display : Ids \cup {0}, left : 0 .. 3]
  /\ active \in Vts /\ exit \in {0, 12, 23}
  /\ ttyFailures \in Nat /\ switches \in Nat

(* However a display ends, and however often it says so, the seat has a    *)
(* display or the daemon exits (displayStopped(), displayServerFailed()).  *)
SeatIsServed == displays # <<>> \/ exit # 0

(* m_displays holds each display that can still be used exactly once, and  *)
(* none that waits for its deletion: what jumpToVt() and the next          *)
(* displayStopped() look at is alive.                                      *)
ListedOnceWhileWanted ==
  emitting.left = 0 => \A d \in Ids :
             Cardinality({i \in DOMAIN displays : displays[i] = d})
               = IF phase[d] \in Wanted THEN 1 ELSE 0

(* The repeated stopped() of one display are answered with one successor   *)
(* at most: there are never more displays than switchToGreeter() calls     *)
(* account for.                                                            *)
OneSuccessor == Len(displays) <= 1 + switches

(* Seat.cpp:253: a seat has one first login, whatever becomes of Relogin   *)
(* in between.                                                             *)
FirstLoginOnce == Cardinality(firstLogins) <= 1

(* A seat that only waits for a terminal starts a display or the daemon    *)
(* exits.                                                                  *)
Served == \E d \in Ids : phase[d] \in Started
Recovers == ~Served ~> (Served \/ exit # 0)

(* Display.cpp:300: one more display server takes one more terminal.       *)
Shown(d) == (IF d \in greeting THEN {vt[d]} ELSE {})
            \cup (IF phase[d] = "session" THEN {sessionVt[d]} ELSE {})
TerminalsAreExclusive == \A d, e \in Ids : d # e => Shown(d) \cap Shown(e) = {}

=============================================================================

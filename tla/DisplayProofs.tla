--------------------------- MODULE DisplayProofs ---------------------------
(***************************************************************************)
(* What holds of every display, for any number of connections, users,      *)
(* sessions and Logins.                                                    *)
(***************************************************************************)
EXTENDS Display, SequenceTheorems, TLAPS

(* A display that was not started is as its constructor left it: start()   *)
(* is the only way in, and stop() leads to the display's removal.          *)
Pristine ==
  life = "alive" /\ ~started
    => /\ queued = 0 /\ ~wasStarted
       /\ child = "off" /\ inbox = <<>> /\ late = <<>>
       /\ socket = None /\ ~auth.autologin

(* Of an automatic login that may still fail, a queued call and a started  *)
(* greeter there is at most one; before the greeter nobody is connected.   *)
OneGreeter ==
  /\ queued \in {0, 1}
  /\ queued = 1 => ~wasStarted /\ ~auth.autologin
  /\ auth.autologin => queued = 0 /\ ~wasStarted
  /\ ~wasStarted => connected = {} /\ late = <<>>

(* A refusal comes from a helper that is gone, so the greeter that follows *)
(* an automatic login does not start beside its helper.                    *)
RefusedIsGone ==
  /\ "FAIL" \in Kinds(inbox) => child \notin Live
  /\ queued = 1 => child \notin Live

(* A helper sends the name of the user at most once, as its last frame     *)
(* before it waits, and no such frame outlives the attempt.                *)
VouchedOnce ==
  life = "alive" /\ ~crashed
    => /\ "OK" \notin Kinds(late)
       /\ \A i \in 1 .. Len(inbox) :
            inbox[i].kind = "OK" => /\ i = Len(inbox)
                                    /\ inbox[i].user = attempt.user
                                    /\ \/ child = "vouched"
                                       \/ child = "dead" /\ fate = "CRASH"

(* A helper has at most one frame under way that it waits or ends with,    *)
(* the last: before it there are only errors, and a helper that ended with *)
(* an authentication error has left nothing but errors and its refusal.    *)
Failures == {"ERROR", "FAIL"}

InOrder ==
  life = "alive" /\ ~crashed
    => /\ \A i \in 1 .. Len(inbox) : inbox[i].kind = "ERROR" \/ i = Len(inbox)
       /\ child \in {"auth", "opening", "session"} => Kinds(inbox) \subseteq {"ERROR"}
       /\ child = "off" \/ (child \in Gone /\ fate = "AUTH_ERROR")
            => Kinds(inbox) \subseteq Failures

(* After a greeter was started no helper has its terminal.                 *)
OwnTerminal ==
  ~VtsRunOut /\ wasStarted /\ child \in Live => attempt.vt # "greeter"

(* The inductive invariant.                                                *)
Safe ==
  /\ Pristine /\ OneGreeter /\ RefusedIsGone /\ VouchedOnce /\ InOrder /\ OwnTerminal
  /\ AttemptKeepsItsData /\ AnswerGoesToAsker

IInv == TypeOK /\ Safe

-----------------------------------------------------------------------------
(* Auth::stop() returns with the helper gone, or killed and still to be    *)
(* noticed; a helper that did not run is left alone.                       *)
LEMMA AuthStopEffect ==
  ASSUME NEW p \in Phase \cup GreeterPhase, NEW f \in Fate, NEW a \in AuthStop(p, f)
  PROVE  /\ a.phase \in {"off", "dead"} /\ a.done \in Status \cup {"none"}
         /\ p = "off" => a.phase = "off"
  BY CodesAssumption
     DEF AuthStop, Left, Reported, Phase, GreeterPhase, Live, GreeterLive, Gone, Fate, Status

(* The variables Display::stop() may change, well typed.                   *)
StopTypeOK ==
  /\ life \in {"alive", "doomed", "deleted"}
  /\ crashed \in BOOLEAN /\ started \in BOOLEAN
  /\ emitted \in Nat
  /\ child \in Phase /\ fate \in Fate
  /\ gStarted \in BOOLEAN /\ gAuth \in BOOLEAN
  /\ gChild \in GreeterPhase /\ gFate \in Fate
  /\ server \in BOOLEAN

(* Display::stop(), nested calls included: it never makes a helper run,    *)
(* and a display that is still wanted afterwards was not started.          *)
LEMMA StopEffect ==
  ASSUME StopTypeOK,
         NEW p \in Phase, NEW up \in BOOLEAN, NEW known \in BOOLEAN,
         NEW q \in GreeterPhase, NEW muted \in BOOLEAN,
         Stop(p, up, known, q, muted)
  PROVE  /\ StopTypeOK'
         /\ child' = p \/ child' \in {"off", "dead"}
         /\ p = "off" => child' = "off"
         /\ life' = "alive" => life = "alive" /\ started' = started
         /\ life' = "alive" /\ ~crashed' => ~started /\ child' = p /\ fate' = fate
         /\ q = "off" => gChild' = "off"
<1>1. CASE ~started
  BY <1>1 DEF Stop, StopTypeOK
<1>2. CASE started /\ up /\ ~known
  BY <1>2 DEF Stop, StopTypeOK
<1>3. CASE started /\ ~(up /\ ~known)
  <2>1. PICK a \in AuthStop(p, fate), g \in GreeterStop(up, q) :
          /\ child' = a.phase
          /\ fate' = IF a.phase = "dead" THEN "CRASH" ELSE fate
          /\ gChild' = g.phase
          /\ gFate' = IF up /\ g.phase = "dead" THEN "CRASH" ELSE gFate
          /\ gStarted' = (up /\ g.done = "none")
          /\ gAuth' = (known /\ g.done = "none")
          /\ server' = FALSE
          /\ started' = FALSE
          /\ life' = "doomed"
          /\ emitted' = IF muted THEN emitted ELSE emitted + Emissions(a.done, g.done)
          /\ UNCHANGED crashed
    BY <1>3 DEF Stop
  <2>2. a.phase \in {"off", "dead"} /\ (p = "off" => a.phase = "off")
    BY AuthStopEffect DEF StopTypeOK
  <2>3. g.phase \in GreeterPhase /\ (q = "off" => g.phase = "off")
    BY AuthStopEffect DEF StopTypeOK, GreeterStop, Left, GreeterPhase
  <2>4. Emissions(a.done, g.done) \in Nat
    BY DEF Emissions
  <2>5. gStarted' \in BOOLEAN /\ gAuth' \in BOOLEAN
    BY <2>1, Zenon
  <2>6. StopTypeOK'
    <3>1. child' \in Phase /\ fate' \in Fate /\ gFate' \in Fate
      BY <2>1, <2>2 DEF StopTypeOK, Phase, Gone, Fate
    <3>2. emitted' \in Nat
      BY <2>1, <2>4 DEF StopTypeOK
    <3> QED
      BY <2>1, <2>3, <2>5, <3>1, <3>2 DEF StopTypeOK
  <2> QED
    BY <2>1, <2>2, <2>3, <2>6
<1> QED
  BY <1>1, <1>2, <1>3

(* The rest of Greeter::onHelperFinished() likewise.                       *)
LEMMA GreeterDoneEffect ==
  ASSUME StopTypeOK, NEW st, NEW p \in Phase, GreeterDone(st, p)
  PROVE  /\ StopTypeOK'
         /\ child' = p \/ child' \in {"off", "dead"}
         /\ p = "off" => child' = "off"
         /\ life' = "alive" => life = "alive" /\ started' = started
         /\ life' = "alive" /\ ~crashed' => child' = p /\ fate' = fate
         /\ gChild' = "off"
<1>1. "off" \in GreeterPhase
  BY DEF GreeterPhase
<1>2. CASE StopsDisplay(st)
  BY <1>1, <1>2, StopEffect DEF GreeterDone
<1>3. CASE ~StopsDisplay(st) /\ st = "DISPLAYSERVER_ERROR"
  BY <1>1, <1>3, StopEffect DEF GreeterDone
<1>4. CASE ~StopsDisplay(st) /\ st # "DISPLAYSERVER_ERROR"
  BY <1>1, <1>4 DEF GreeterDone, StopTypeOK
<1> QED
  BY <1>2, <1>3, <1>4

-----------------------------------------------------------------------------
(* Types.                                                                  *)
LEMMA TypeOKSplits == TypeOK => StopTypeOK
  BY DEF TypeOK, StopTypeOK

LEMMA StopKeepsType ==
  ASSUME TypeOK, StopTypeOK', UNCHANGED stopKeeps, timer' \in BOOLEAN
  PROVE  TypeOK'
  BY DEF TypeOK, StopTypeOK, stopKeeps, attemptVars, loginVars

LEMMA StartAuthFailsType ==
  ASSUME TypeOK, NEW u \in Users, NEW x, NEW pw \in Users \cup {None}, StartAuthFails(u, x, pw)
  PROVE  /\ passPhrase' \in Users \cup {None} /\ reuse' \in Users \cup {None}
         /\ sessionVt' \in {"none", "greeter", "new"}
         /\ UNCHANGED <<auth, attempt, child, fate, inbox, late>>
  BY DEF StartAuthFails, TypeOK

LEMMA StartAuthSucceedsType ==
  ASSUME TypeOK, NEW u \in Users, NEW x \in Sessions, NEW pw \in Users \cup {None},
         NEW asker \in Sockets \cup {None}, NEW auto \in BOOLEAN,
         StartAuthSucceeds(u, x, pw, asker, auto)
  PROVE  /\ passPhrase' \in Users \cup {None} /\ reuse' \in Users \cup {None}
         /\ sessionVt' \in {"none", "greeter", "new"}
         /\ auth' \in [user : Users \cup {None}, session : Sessions \cup {NoSession},
                       autologin : BOOLEAN]
         /\ attempt' \in [user : Users \cup {None}, session : Sessions \cup {NoSession},
                          vt : {"none", "greeter", "new"}, asker : Sockets \cup {None}]
         /\ child' \in Phase /\ fate' \in Fate
         /\ inbox' \in Seq(Frame) /\ late' \in Seq(Frame)
<1>1. sessionVt' \in {"none", "greeter", "new"}
  BY DEF StartAuthSucceeds, SessionTerminals
<1>2. auth' \in [user : Users \cup {None}, session : Sessions \cup {NoSession},
                autologin : BOOLEAN]
  BY DEF StartAuthSucceeds, TypeOK
<1>3. attempt' \in [user : Users \cup {None}, session : Sessions \cup {NoSession},
                   vt : {"none", "greeter", "new"}, asker : Sockets \cup {None}]
  BY <1>1, <1>2 DEF StartAuthSucceeds
<1>4. child' \in Phase /\ fate' \in Fate
  BY DEF StartAuthSucceeds, TypeOK, Phase, Live, Fate, Status
<1>5. inbox' \in Seq(Frame) /\ late' \in Seq(Frame)
  <2>1. inbox \in Seq(Frame) /\ late \in Seq(Frame)
    BY DEF TypeOK
  <2>2. late \o inbox \in Seq(Frame)
    BY <2>1
  <2>3. \/ late' = late \o inbox /\ inbox' = <<>>
        \/ late' = late /\ inbox' = inbox
    BY DEF StartAuthSucceeds
  <2> QED
    BY <2>1, <2>2, <2>3, EmptySeq
<1>6. passPhrase' \in Users \cup {None} /\ reuse' \in Users \cup {None}
  BY DEF StartAuthSucceeds
<1> QED
  BY <1>1, <1>2, <1>3, <1>4, <1>5, <1>6

LEMMA PlainType == \A k \in Kind : Plain(k) \in Frame
  BY DEF Plain, Frame

LEMMA FrameType ==
  ASSUME TypeOK, NEW f \in Frame, OnFrame(f)
  PROVE  /\ queued' \in Nat
         /\ auth' \in [user : Users \cup {None}, session : Sessions \cup {NoSession},
                       autologin : BOOLEAN]
         /\ child' \in Phase /\ fate' \in Fate
         /\ socket' \in Sockets \cup {None} /\ waiting' \subseteq Sockets
         /\ timer' \in BOOLEAN
<1>1. CASE OnError
  BY <1>1 DEF OnError, TypeOK
<1>2. CASE OnRequest(f.kind)
  <2>1. child' \in Phase
    BY <1>2 DEF OnRequest, Answered, TypeOK, Phase, Live
  <2> QED
    BY <1>2, <2>1 DEF OnRequest, TypeOK
<1>3. CASE OnAuthenticated(f.user)
  <2>1. f.user \in Users \cup {None}
    BY DEF Frame
  <2>2. auth' \in [user : Users \cup {None}, session : Sessions \cup {NoSession},
                  autologin : BOOLEAN]
    BY <1>3, <2>1 DEF OnAuthenticated, TypeOK
  <2>3. child' \in Phase /\ fate' \in Fate
    BY <1>3 DEF OnAuthenticated, Answered, TypeOK, Phase, Live, Gone, Fate, Status
  <2> QED
    BY <1>3, <2>2, <2>3 DEF OnAuthenticated, TypeOK
<1>4. CASE OnNotAuthenticated
  <2>1. auth' \in [user : Users \cup {None}, session : Sessions \cup {NoSession},
                  autologin : BOOLEAN]
    BY <1>4 DEF OnNotAuthenticated, TypeOK
  <2> QED
    BY <1>4, <2>1 DEF OnNotAuthenticated, TypeOK
<1>5. CASE OnSessionStatus(f.kind)
  <2>1. child' \in Phase /\ fate' \in Fate
    BY <1>5 DEF OnSessionStatus, Answered, TypeOK, Phase, Live, Gone, Fate, Status
  <2> QED
    BY <1>5, <2>1 DEF OnSessionStatus, TypeOK
<1> QED
  BY <1>1, <1>2, <1>3, <1>4, <1>5 DEF OnFrame, Frame, Kind

LEMMA QueueType ==
  ASSUME TypeOK, NEW k \in Kind
  PROVE  /\ Append(inbox, Plain(k)) \in Seq(Frame)
         /\ inbox \o <<Plain("ERROR"), Plain("FAIL")>> \in Seq(Frame)
<1>1. Plain(k) \in Frame /\ Plain("ERROR") \in Frame /\ Plain("FAIL") \in Frame
  BY DEF Plain, Frame, Kind
<1>2. inbox \in Seq(Frame) /\ <<Plain("ERROR"), Plain("FAIL")>> \in Seq(Frame)
  BY <1>1 DEF TypeOK
<1> QED
  BY <1>1, <1>2, ConcatProperties

(* Every action keeps the types.                                           *)
LEMMA InitType == Init => TypeOK
<1> SUFFICES ASSUME Init PROVE TypeOK
  OBVIOUS
<1>1. terminal \in BOOLEAN
  BY BoundsAssumption DEF Init
<1>2. attempt \in [user : Users \cup {None}, session : Sessions \cup {NoSession},
                  vt : {"none", "greeter", "new"}, asker : Sockets \cup {None}]
  BY DEF Init, NoAttempt
<1>3. auth \in [user : Users \cup {None}, session : Sessions \cup {NoSession},
               autologin : BOOLEAN]
  BY DEF Init
<1>4. inbox \in Seq(Frame) /\ late \in Seq(Frame)
  BY EmptySeq DEF Init
<1>5. child \in Phase /\ gChild \in GreeterPhase /\ fate \in Fate /\ gFate \in Fate
  BY DEF Init, Phase, GreeterPhase, Fate, Status
<1> QED
  BY <1>1, <1>2, <1>3, <1>4, <1>5 DEF Init, TypeOK

LEMMA StartType == TypeOK /\ Start => TypeOK'
<1> SUFFICES ASSUME TypeOK, Start PROVE TypeOK'
  OBVIOUS
<1> USE DEF objectVars, loginVars, greeterVars
<1>1. CASE UNCHANGED <<started, terminal, queued, attemptVars, helperVars>>
  BY <1>1 DEF Start, TypeOK, attemptVars, helperVars
<1>2. CASE autologin = NoLogin /\ started' = TRUE /\ terminal' = CanTTY /\ queued' = queued + 1
           /\ UNCHANGED <<attemptVars, helperVars>>
  BY <1>2, BoundsAssumption DEF Start, TypeOK, attemptVars, helperVars
<1>3. CASE autologin # NoLogin /\ started' = TRUE /\ terminal' = CanTTY /\ queued' = queued
           /\ StartAuthSucceeds(autologin.user, autologin.session, None, None, TRUE)
  <2>1. autologin.user \in Users /\ autologin.session \in Sessions
    BY <1>3 DEF TypeOK, Login0
  <2> QED
    <3>1. /\ passPhrase' \in Users \cup {None} /\ reuse' \in Users \cup {None}
          /\ sessionVt' \in {"none", "greeter", "new"}
          /\ auth' \in [user : Users \cup {None}, session : Sessions \cup {NoSession},
                        autologin : BOOLEAN]
          /\ attempt' \in [user : Users \cup {None}, session : Sessions \cup {NoSession},
                           vt : {"none", "greeter", "new"}, asker : Sockets \cup {None}]
          /\ child' \in Phase /\ fate' \in Fate
          /\ inbox' \in Seq(Frame) /\ late' \in Seq(Frame)
      BY <1>3, <2>1, StartAuthSucceedsType
    <3> QED
      BY <1>3, <3>1, BoundsAssumption DEF Start, TypeOK
<1>4. CASE autologin # NoLogin /\ started' = TRUE /\ terminal' = CanTTY /\ queued' = queued + 1
           /\ StartAuthFails(autologin.user, autologin.session, None)
  <2>1. autologin.user \in Users
    BY <1>4 DEF TypeOK, Login0
  <2> QED
    BY <1>4, <2>1, StartAuthFailsType, BoundsAssumption DEF Start, TypeOK
<1> QED
  BY <1>1, <1>2, <1>3, <1>4 DEF Start

LEMMA SeatType == TypeOK /\ (GiveUp \/ DisplayServerStarted \/ Destroy) => TypeOK'
<1> SUFFICES ASSUME TypeOK, GiveUp \/ DisplayServerStarted \/ Destroy PROVE TypeOK'
  OBVIOUS
<1> USE DEF attemptVars, helperVars, loginVars, greeterVars
<1>1. CASE GiveUp
  BY <1>1 DEF GiveUp, TypeOK
<1>2. CASE DisplayServerStarted
  <2>1. gChild' \in GreeterPhase
    BY <1>2 DEF DisplayServerStarted, TypeOK, GreeterPhase, GreeterLive
  <2>2. queued' \in Nat
    BY <1>2 DEF DisplayServerStarted, TypeOK
  <2>3. server' \in BOOLEAN
    BY <1>2, Zenon DEF DisplayServerStarted, TypeOK
  <2>4. gAuth' \in BOOLEAN /\ wasStarted' \in BOOLEAN
    BY <1>2 DEF DisplayServerStarted, TypeOK
  <2> QED
    BY <1>2, <2>1, <2>2, <2>3, <2>4 DEF DisplayServerStarted, TypeOK
<1>3. CASE Destroy
  <2>1. CASE gStarted /\ ~gAuth
    BY <1>3, <2>1 DEF Destroy, TypeOK
  <2>2. CASE ~(gStarted /\ ~gAuth)
    <3>1. inbox' \in Seq(Frame) /\ late' \in Seq(Frame)
      BY <1>3, <2>2, EmptySeq DEF Destroy
    <3>2. child' \in Phase /\ gChild' \in GreeterPhase
      BY <1>3, <2>2 DEF Destroy, Phase, GreeterPhase
    <3>3. /\ life' = "deleted" /\ started' = FALSE /\ queued' = 0
          /\ socket' = None /\ connected' = {} /\ waiting' = {} /\ refused' = {}
          /\ gStarted' = FALSE /\ gAuth' = FALSE /\ gStatus' = "none"
          /\ server' = FALSE /\ timer' = FALSE
          /\ UNCHANGED <<crashed, emitted, fate, logins, wasStarted, gFate, autologin, terminal,
                         sessionVt, passPhrase, reuse, auth, attempt>>
      BY <1>3, <2>2 DEF Destroy
    <3>4. /\ connected' \subseteq Sockets /\ waiting' \subseteq Sockets
          /\ refused' \subseteq Sockets /\ socket' \in Sockets \cup {None}
      BY <3>3
    <3>5. /\ started' \in BOOLEAN /\ gStarted' \in BOOLEAN /\ gAuth' \in BOOLEAN
          /\ server' \in BOOLEAN /\ timer' \in BOOLEAN
      BY <3>3
    <3>6. /\ fate' \in Fate /\ gFate' \in Fate /\ crashed' \in BOOLEAN /\ wasStarted' \in BOOLEAN
          /\ emitted' \in Nat /\ logins' \in Nat /\ terminal' \in BOOLEAN
      BY <3>3 DEF TypeOK
    <3> QED
      BY <3>1, <3>2, <3>3, <3>4, <3>5, <3>6 DEF TypeOK
  <2> QED
    BY <2>1, <2>2
<1> QED
  BY <1>1, <1>2, <1>3

LEMMA LoginType == ASSUME TypeOK, NEW s \in Sockets, Connect(s) \/ Disconnect(s) \/ Login(s)
                   PROVE  TypeOK'
<1> USE DEF objectVars, greeterVars
<1>1. CASE Connect(s)
  BY <1>1 DEF Connect, TypeOK, attemptVars, helperVars
<1>2. CASE Disconnect(s)
  BY <1>2 DEF Disconnect, TypeOK, attemptVars, helperVars
<1>3. CASE Login(s) /\ LoginRefused(s)
  BY <1>3 DEF Login, LoginRefused, TypeOK, attemptVars, helperVars
<1>4. ASSUME Login(s), NEW u \in Users, NEW x \in Sessions, LoginRejected(s, u, x)
      PROVE  TypeOK'
  BY <1>4, StartAuthFailsType DEF Login, LoginRejected, TypeOK
<1>5. ASSUME Login(s), NEW u \in Users, NEW x \in Sessions, LoginStarted(s, u, x)
      PROVE  TypeOK'
  <2>1. auth.autologin \in BOOLEAN
    BY DEF TypeOK
  <2> QED
    BY <1>5, <2>1, StartAuthSucceedsType DEF Login, LoginStarted, TypeOK
<1> QED
  BY <1>1, <1>2, <1>3, <1>4, <1>5 DEF Login

(* What a helper sends goes to the end of the queue.                       *)
LEMMA SendType ==
  ASSUME inbox \in Seq(Frame), NEW f \in Frame, NEW c \in BOOLEAN, Send(f, c)
  PROVE  inbox' \in Seq(Frame)
<1>1. Plain("ERROR") \in Frame
  BY PlainType DEF Kind
<1> QED
  BY <1>1 DEF Send

LEMMA HelperType == TypeOK /\ Helper => TypeOK'
<1> SUFFICES ASSUME TypeOK, Helper PROVE TypeOK'
  OBVIOUS
<1>1. HelperStep
  BY DEF Helper, HelperAsks, HelperRefuses, HelperAccepts, HelperOpens, SessionEnds, HelperCrashes
<1>2. child' \in Phase /\ fate' \in Fate
  BY CodesAssumption
     DEF Helper, HelperAsks, HelperRefuses, HelperAccepts, HelperOpens, SessionEnds,
         HelperCrashes, TypeOK, Phase, Live, Gone, Fate, Status
<1>3. inbox' \in Seq(Frame)
  <2>1. CASE SessionEnds \/ HelperCrashes
    BY <2>1 DEF SessionEnds, HelperCrashes, TypeOK
  <2>2. CASE HelperAsks \/ HelperRefuses \/ HelperAccepts \/ HelperOpens
    <3>1. \A k \in Kind : Plain(k) \in Frame
      BY PlainType
    <3>2. [kind |-> "OK", user |-> attempt.user] \in Frame /\ inbox \in Seq(Frame)
      BY DEF TypeOK, Frame, Kind
    <3>3. \E f \in Frame, c \in BOOLEAN : Send(f, c)
      BY <2>2, <3>1, <3>2, BoundsAssumption
         DEF HelperAsks, HelperRefuses, HelperAccepts, HelperOpens, Kind
    <3> QED
      BY <3>2, <3>3, SendType
  <2> QED
    BY <2>1, <2>2 DEF Helper
<1> QED
  BY <1>1, <1>2, <1>3
     DEF HelperStep, TypeOK, objectVars, attemptVars, loginVars, greeterVars

LEMMA EventType ==
  TypeOK /\ (HandleFrame \/ HelperFinished \/ GreeterFinished \/ StopGreeter) => TypeOK'
<1> SUFFICES ASSUME TypeOK, HandleFrame \/ HelperFinished \/ GreeterFinished \/ StopGreeter
             PROVE  TypeOK'
  OBVIOUS
<1>1. StopTypeOK
  BY TypeOKSplits
<1>2. CASE HandleFrame
  <2>1. PICK f \in Frame : OnFrame(f)
    BY <1>2 DEF HandleFrame, TypeOK
  <2>2. inbox' \in Seq(Frame) /\ late' \in Seq(Frame)
    <3>1. inbox \in Seq(Frame) /\ late \in Seq(Frame)
      BY DEF TypeOK
    <3>2. \/ inbox # <<>> /\ inbox' = Tail(inbox) /\ late' = late
          \/ late # <<>> /\ late' = Tail(late) /\ inbox' = inbox
      BY <1>2 DEF HandleFrame
    <3> QED
      BY <3>1, <3>2, HeadTailProperties
  <2> QED
    BY <1>2, <2>1, <2>2, FrameType DEF HandleFrame, TypeOK, greeterVars
<1>3. CASE HelperFinished
  <2>1. StopTypeOK'
    <3>1. CASE fate = "AUTH_ERROR"
      BY <1>1, <1>3, <3>1 DEF HelperFinished, StopTypeOK, Phase
    <3>2. CASE fate # "AUTH_ERROR"
      <4>1. Stop("off", gStarted, gAuth, gChild, FALSE)
        BY <1>3, <3>2 DEF HelperFinished
      <4>2. /\ "off" \in Phase /\ gStarted \in BOOLEAN /\ gAuth \in BOOLEAN
            /\ gChild \in GreeterPhase
        BY <1>1 DEF StopTypeOK, Phase
      <4> QED
        BY <1>1, <4>1, <4>2, StopEffect
    <3> QED
      BY <3>1, <3>2
  <2> QED
    BY <1>3, <2>1, StopKeepsType DEF HelperFinished, TypeOK
<1>4. CASE GreeterFinished
  <2>1. child \in Phase
    BY DEF TypeOK
  <2>2. StopTypeOK'
    BY <1>1, <1>4, <2>1, GreeterDoneEffect DEF GreeterFinished
  <2> QED
    BY <1>4, <2>2, StopKeepsType DEF GreeterFinished, TypeOK
<1>5. CASE StopGreeter
  <2>1. StopTypeOK'
    <3>1. CASE ~gStarted \/ ~gAuth
      BY <1>1, <1>5, <3>1 DEF StopGreeter, StopTypeOK, stopVars
    <3>2. CASE gStarted /\ gAuth
      <4>1. PICK g \in AuthStop(gChild, gFate) :
              IF g.done # "none" THEN GreeterDone(g.done, child)
              ELSE /\ gChild' = g.phase
                   /\ gFate' = IF g.phase = "dead" THEN "CRASH" ELSE gFate
                   /\ UNCHANGED <<life, crashed, started, emitted, server, child, fate,
                                  gStarted, gAuth>>
        BY <1>5, <3>2 DEF StopGreeter
      <4>2. g.phase \in {"off", "dead"} /\ child \in Phase
        BY <1>1, AuthStopEffect DEF StopTypeOK
      <4>3. CASE g.done # "none"
        BY <1>1, <4>1, <4>2, <4>3, GreeterDoneEffect
      <4>4. CASE g.done = "none"
        BY <1>1, <4>1, <4>2, <4>4 DEF StopTypeOK, GreeterPhase, Fate
      <4> QED
        BY <4>3, <4>4
    <3> QED
      BY <3>1, <3>2 DEF StopTypeOK
  <2> QED
    BY <1>5, <2>1, StopKeepsType DEF StopGreeter
<1> QED
  BY <1>2, <1>3, <1>4, <1>5

LEMMA GreeterType ==
  TypeOK /\ (GreeterHelper \/ GreeterSessionStarted \/ GreeterAuthDeleted) => TypeOK'
<1> SUFFICES ASSUME TypeOK, GreeterHelper \/ GreeterSessionStarted \/ GreeterAuthDeleted
             PROVE  TypeOK'
  OBVIOUS
<1> USE DEF objectVars, attemptVars, helperVars, loginVars
<1>1. CASE GreeterHelper
  <2>1. gChild' \in GreeterPhase /\ gFate' \in Fate /\ gStatus' \in {"none", "ok", "fail"}
    BY <1>1, CodesAssumption
       DEF GreeterHelper, GreeterReports, GreeterAsks, GreeterEnds, TypeOK, GreeterPhase,
           GreeterLive, Fate, Status
  <2>2. GreeterStep
    BY <1>1 DEF GreeterHelper, GreeterReports, GreeterAsks, GreeterEnds
  <2> QED
    BY <2>1, <2>2 DEF GreeterStep, TypeOK
<1>2. CASE GreeterSessionStarted
  <2>1. gChild' \in GreeterPhase /\ gFate' \in Fate
    BY <1>2 DEF GreeterSessionStarted, TypeOK, GreeterPhase, GreeterLive, Fate, Status
  <2>2. gStarted' \in BOOLEAN
    BY <1>2, Zenon DEF GreeterSessionStarted
  <2> QED
    BY <1>2, <2>1, <2>2 DEF GreeterSessionStarted, TypeOK
<1>3. CASE GreeterAuthDeleted
  BY <1>3 DEF GreeterAuthDeleted, TypeOK
<1> QED
  BY <1>1, <1>2, <1>3

LEMMA StutterType == TypeOK /\ UNCHANGED vars => TypeOK'
  BY DEF TypeOK, vars, objectVars, attemptVars, helperVars, loginVars, greeterVars

(* In every state each variable has its type, whatever the number of       *)
(* connections, users, sessions and Logins.                                *)
THEOREM TypeCorrect == Spec => []TypeOK
<1>1. TypeOK /\ [Next]_vars => TypeOK'
  BY StartType, SeatType, LoginType, HelperType, EventType, GreeterType, StutterType
     DEF Next, Seat, Greeters, EventLoop
<1> QED
  BY InitType, <1>1, PTL DEF Spec

-----------------------------------------------------------------------------
(* Queues of frames.                                                       *)
LEMMA KindsOfEmpty == Kinds(<<>>) = {}
  BY DEF Kinds

LEMMA KindsOfAppend ==
  ASSUME NEW q \in Seq(Frame), NEW f \in Frame
  PROVE  Kinds(Append(q, f)) = Kinds(q) \cup {f.kind}
<1>1. /\ Len(q) \in Nat /\ Len(Append(q, f)) = Len(q) + 1
      /\ \A i \in 1 .. Len(q) : Append(q, f)[i] = q[i]
      /\ Append(q, f)[Len(q) + 1] = f
  BY AppendProperties, LenProperties
<1>2. 1 .. (Len(q) + 1) = (1 .. Len(q)) \cup {Len(q) + 1}
  BY <1>1
<1> QED
  BY <1>1, <1>2 DEF Kinds

LEMMA TailIndex ==
  ASSUME NEW q \in Seq(Frame), q # <<>>
  PROVE  /\ Len(q) \in Nat /\ Len(q) > 0 /\ Head(q) = q[1] /\ Len(Tail(q)) = Len(q) - 1
         /\ \A i \in 1 .. Len(Tail(q)) : i + 1 \in 1 .. Len(q) /\ Tail(q)[i] = q[i + 1]
         /\ Kinds(Tail(q)) \subseteq Kinds(q)
         /\ Head(q).kind \in Kinds(q)
<1>1. /\ Len(q) \in Nat /\ Len(q) > 0 /\ Head(q) = q[1] /\ Len(Tail(q)) = Len(q) - 1
      /\ \A i \in 1 .. Len(Tail(q)) : i + 1 \in 1 .. Len(q) /\ Tail(q)[i] = q[i + 1]
  BY HeadTailProperties, LenProperties, EmptySeq
<1>2. Kinds(Tail(q)) \subseteq Kinds(q)
  BY <1>1 DEF Kinds
<1>3. Head(q).kind \in Kinds(q)
  BY <1>1 DEF Kinds
<1> QED
  BY <1>1, <1>2, <1>3

-----------------------------------------------------------------------------
(* What the invariant says is about these variables.                       *)
LEMMA UntouchedSafe ==
  ASSUME Safe,
         UNCHANGED <<life, crashed, started, queued, wasStarted, child, fate, inbox, late, socket,
                     auth, connected, attempt, passPhrase, reuse, refused>>
  PROVE  Safe'
<1>1. InOrder'
  BY DEF Safe, InOrder, Kinds
<1> QED
  BY <1>1
     DEF Safe, Pristine, OneGreeter, RefusedIsGone, VouchedOnce, OwnTerminal,
         AttemptKeepsItsData, AnswerGoesToAsker, Kinds

(* A helper that is stopped or whose end is noticed.                       *)
LEMMA StoppedSafe ==
  ASSUME TypeOK, Safe, Running, UNCHANGED stopKeeps,
         child' = child \/ child' \in {"off", "dead"},
         child = "off" => child' = "off",
         life' = "alive" => life = "alive" /\ started' = started,
         life' = "alive" /\ ~crashed'
           => (child' = child /\ fate' = fate) \/ (child \in Gone /\ fate = "AUTH_ERROR")
  PROVE  Safe'
<1> USE DEF stopKeeps, attemptVars, loginVars
<1>1. child' \in Live => child' = child
  BY DEF Live
<1>2. Pristine'
  BY DEF Safe, Pristine
<1>3. OneGreeter'
  BY DEF Safe, OneGreeter
<1>4. RefusedIsGone'
  BY <1>1 DEF Safe, RefusedIsGone, Kinds
<1>5. VouchedOnce'
  BY DEF Safe, VouchedOnce, Kinds, Running, Gone
<1>6. OwnTerminal'
  BY <1>1 DEF Safe, OwnTerminal
<1>7. AttemptKeepsItsData'
  BY DEF Safe, AttemptKeepsItsData
<1>8. AnswerGoesToAsker'
  BY DEF Safe, AnswerGoesToAsker
<1>9. InOrder'
  BY DEF Safe, InOrder, Kinds, Running, Gone
<1> QED
  BY <1>2, <1>3, <1>4, <1>5, <1>6, <1>7, <1>8, <1>9 DEF Safe

LEMMA HelperFinishedSafe == IInv /\ HelperFinished => Safe'
<1> SUFFICES ASSUME IInv, HelperFinished PROVE Safe'
  OBVIOUS
<1>1. StopTypeOK /\ TypeOK /\ Safe /\ Running /\ UNCHANGED stopKeeps /\ child \in Gone
  BY TypeOKSplits DEF IInv, HelperFinished
<1>2. CASE fate = "AUTH_ERROR"
  BY <1>1, <1>2, StoppedSafe DEF HelperFinished, Gone
<1>3. CASE fate # "AUTH_ERROR"
  <2>1. Stop("off", gStarted, gAuth, gChild, FALSE)
    BY <1>3 DEF HelperFinished
  <2>2. /\ child' = "off"
        /\ life' = "alive" => life = "alive" /\ started' = started
        /\ life' = "alive" /\ ~crashed' => ~started
    BY <1>1, <2>1, StopEffect DEF StopTypeOK, Phase
  <2>3. ~(life' = "alive" /\ ~crashed')
    BY <1>1, <2>2 DEF Safe, Pristine, Gone
  <2> QED
    BY <1>1, <2>2, <2>3, StoppedSafe
<1> QED
  BY <1>2, <1>3

LEMMA GreeterFinishedSafe == IInv /\ GreeterFinished => Safe'
<1> SUFFICES ASSUME IInv, GreeterFinished PROVE Safe'
  OBVIOUS
<1>1. StopTypeOK /\ TypeOK /\ Safe /\ Running /\ UNCHANGED stopKeeps /\ child \in Phase
  BY TypeOKSplits DEF IInv, GreeterFinished, TypeOK
<1>2. GreeterDone(Reported(gFate), child)
  BY DEF GreeterFinished
<1> QED
  BY <1>1, <1>2, GreeterDoneEffect, StoppedSafe

LEMMA StopGreeterSafe == IInv /\ StopGreeter => Safe'
<1> SUFFICES ASSUME IInv, StopGreeter PROVE Safe'
  OBVIOUS
<1>1. StopTypeOK /\ TypeOK /\ Safe /\ Running /\ UNCHANGED stopKeeps /\ child \in Phase
  BY TypeOKSplits DEF IInv, StopGreeter, TypeOK
<1>2. CASE \E g \in AuthStop(gChild, gFate) : g.done # "none" /\ GreeterDone(g.done, child)
  BY <1>1, <1>2, GreeterDoneEffect, StoppedSafe
<1>3. CASE UNCHANGED <<life, started, child, fate>>
  BY <1>1, <1>3, StoppedSafe
<1> QED
  BY <1>2, <1>3 DEF StopGreeter, stopVars

-----------------------------------------------------------------------------
(* The helper's steps.  Only one of them sends the user's name, and only   *)
(* PAM's refusal, which ends the helper, sends a failure.                  *)
LEMMA HelperKeeps ==
  ASSUME TypeOK, Safe, HelperStep, child # "off",
         child' \in Phase, child' # "off", child' \in Live => child \in Live
  PROVE  Pristine' /\ OneGreeter' /\ OwnTerminal' /\ AttemptKeepsItsData' /\ AnswerGoesToAsker'
<1> USE DEF HelperStep, objectVars, attemptVars, loginVars, greeterVars
<1>1. Pristine'
  BY DEF Safe, Pristine
<1>2. OneGreeter'
  BY DEF Safe, OneGreeter
<1>3. OwnTerminal'
  BY DEF Safe, OwnTerminal
<1>4. AttemptKeepsItsData' /\ AnswerGoesToAsker'
  BY DEF Safe, AttemptKeepsItsData, AnswerGoesToAsker
<1> QED
  BY <1>1, <1>2, <1>3, <1>4

(* What a helper sends, and what an ERROR before it leaves of the queue.   *)
LEMMA SendEffect ==
  ASSUME inbox \in Seq(Frame), NEW f \in Frame, NEW c \in BOOLEAN, Send(f, c)
  PROVE  /\ Kinds(inbox') \subseteq Kinds(inbox) \cup {"ERROR", f.kind}
         /\ f.kind \in Kinds(inbox') /\ inbox'[Len(inbox')] = f
         /\ \A i \in 1 .. Len(inbox') :
              i = Len(inbox') \/ inbox'[i].kind \in Kinds(inbox) \cup {"ERROR"}
<1>1. /\ Plain("ERROR") \in Frame /\ Plain("ERROR").kind = "ERROR"
      /\ Append(inbox, Plain("ERROR")) \in Seq(Frame)
  BY PlainType DEF Kind, Plain
<1>2. Kinds(Append(inbox, Plain("ERROR"))) = Kinds(inbox) \cup {"ERROR"}
  BY <1>1, KindsOfAppend
<1>3. PICK q \in Seq(Frame) :
        inbox' = Append(q, f) /\ Kinds(q) \subseteq Kinds(inbox) \cup {"ERROR"}
  BY <1>1, <1>2 DEF Send
<1>4. Kinds(inbox') = Kinds(q) \cup {f.kind}
  BY <1>3, KindsOfAppend
<1>5. /\ Len(inbox') = Len(q) + 1 /\ Len(q) \in Nat /\ inbox'[Len(q) + 1] = f
      /\ \A i \in 1 .. Len(q) : inbox'[i] = q[i]
  BY <1>3, AppendProperties, LenProperties
<1>6. \A i \in 1 .. Len(inbox') : i = Len(inbox') \/ i \in 1 .. Len(q)
  BY <1>5
<1> QED
  BY <1>3, <1>4, <1>5, <1>6 DEF Kinds

LEMMA HelperSafe == IInv /\ Helper => Safe'
<1> SUFFICES ASSUME IInv, Helper PROVE Safe'
  OBVIOUS
<1>1. /\ TypeOK /\ Safe /\ HelperStep
      /\ child # "off" /\ child' \in Phase /\ child' # "off" /\ (child' \in Live => child \in Live)
  BY DEF IInv, Helper, HelperAsks, HelperRefuses, HelperAccepts, HelperOpens, SessionEnds,
         HelperCrashes, Live, Gone, Phase
<1>2. inbox \in Seq(Frame) /\ Complaints \in BOOLEAN /\ \A k \in Kind : Plain(k) \in Frame
  BY <1>1, PlainType, BoundsAssumption DEF TypeOK
<1>3. Running /\ UNCHANGED <<life, crashed, queued, late, attempt>>
  BY <1>1 DEF HelperStep, objectVars, attemptVars
<1>4. child \in Live
        => /\ "FAIL" \notin Kinds(inbox) /\ queued # 1
           /\ child # "vouched" /\ life = "alive" => "OK" \notin Kinds(inbox)
  BY <1>1, <1>3 DEF Safe, RefusedIsGone, VouchedOnce, Running, Kinds, Live
<1>12. child \in {"auth", "opening", "session"} /\ life = "alive"
         => Kinds(inbox) \subseteq {"ERROR"}
  BY <1>1, <1>3 DEF Safe, InOrder, Running
<1>5. ASSUME NEW k \in Kind, k # "OK", Send(Plain(k), TRUE) \/ Send(Plain(k), Complaints),
             child \in {"auth", "opening"}, child' \notin {"off", "auth", "opening", "session"},
             child' \in Live => k # "FAIL",
             child' \in Gone => k = "FAIL"
      PROVE  RefusedIsGone' /\ VouchedOnce' /\ InOrder'
  <2>1. Kinds(inbox') \subseteq Kinds(inbox) \cup {"ERROR", k}
    BY <1>2, <1>5, SendEffect DEF Plain
  <2>2. RefusedIsGone'
    BY <1>3, <1>4, <1>5, <2>1 DEF RefusedIsGone, Live
  <2>3. life = "alive" => \A i \in 1 .. Len(inbox') : inbox'[i].kind # "OK"
    BY <1>4, <1>5, <2>1 DEF Kinds, Live
  <2>4. Kinds(late)' = Kinds(late)
    BY <1>3 DEF Kinds
  <2>5. InOrder'
    <3>1. Plain(k) \in Frame /\ Plain(k).kind = k
      BY <1>2 DEF Plain
    <3>2. \A i \in 1 .. Len(inbox') :
            i = Len(inbox') \/ inbox'[i].kind \in Kinds(inbox) \cup {"ERROR"}
      BY <1>2, <1>5, <3>1, SendEffect
    <3> QED
      BY <1>3, <1>5, <1>12, <2>1, <3>2 DEF InOrder, Failures
  <2>6. VouchedOnce'
    BY <1>1, <1>3, <2>3, <2>4 DEF VouchedOnce, Safe
  <2> QED
    BY <2>2, <2>5, <2>6
<1>6. ASSUME UNCHANGED inbox, child' \in Gone,
             (child' = "dead" /\ fate' = "CRASH") \/ child = "session"
      PROVE  RefusedIsGone' /\ VouchedOnce' /\ InOrder'
  <2>1. Kinds(late)' = Kinds(late) /\ Kinds(inbox)' = Kinds(inbox)
    BY <1>3, <1>6 DEF Kinds
  <2>2. RefusedIsGone'
    BY <1>6, <2>1 DEF RefusedIsGone, Gone, Live
  <2>3. VouchedOnce'
    BY <1>1, <1>3, <1>4, <1>6, <2>1 DEF Safe, VouchedOnce, Live, Kinds
  <2>4. InOrder'
    BY <1>1, <1>3, <1>6, <1>12, <2>1 DEF Safe, InOrder, Gone, Failures
  <2> QED
    BY <2>2, <2>3, <2>4
<1>7. CASE HelperAsks
  <2>1. PICK k \in {"ASK1", "ASK2", "ASKN"} : Send(Plain(k), Complaints)
    BY <1>7 DEF HelperAsks
  <2> QED
    BY <1>1, <1>5, <1>7, <2>1, HelperKeeps DEF HelperAsks, Kind, Safe, Live, Gone
<1>8. CASE HelperOpens
  <2>1. PICK k \in {"OPENED", "NOTOPENED"} : Send(Plain(k), Complaints) \/ Send(Plain(k), TRUE)
    BY <1>8 DEF HelperOpens
  <2> QED
    BY <1>1, <1>5, <1>8, <2>1, HelperKeeps DEF HelperOpens, Kind, Safe, Live, Gone
<1>9. CASE HelperRefuses
  BY <1>1, <1>5, <1>9, HelperKeeps DEF HelperRefuses, Kind, Safe, Live, Gone
<1>10. CASE SessionEnds \/ HelperCrashes
  BY <1>1, <1>6, <1>10, HelperKeeps DEF SessionEnds, HelperCrashes, Safe, Gone, Live
<1>11. CASE HelperAccepts
  <2> DEFINE ok == [kind |-> "OK", user |-> attempt.user]
  <2>1. /\ ok \in Frame /\ ok.kind = "OK" /\ ok.user = attempt.user
        /\ Send(ok, Complaints) /\ child = "auth" /\ child' = "vouched"
    BY <1>1, <1>11 DEF HelperAccepts, TypeOK, Frame, Kind
  <2> HIDE DEF ok
  <2>2. /\ Kinds(inbox') \subseteq Kinds(inbox) \cup {"ERROR", "OK"} /\ inbox'[Len(inbox')] = ok
        /\ \A i \in 1 .. Len(inbox') :
             i = Len(inbox') \/ inbox'[i].kind \in Kinds(inbox) \cup {"ERROR"}
    BY <1>2, <2>1, SendEffect
  <2>3. RefusedIsGone'
    BY <1>3, <1>4, <2>1, <2>2 DEF RefusedIsGone, Live
  <2>4. VouchedOnce'
    BY <1>1, <1>3, <1>4, <2>1, <2>2 DEF Safe, VouchedOnce, Kinds, Live
  <2>5. InOrder'
    BY <1>3, <1>12, <2>1, <2>2 DEF InOrder, Gone
  <2> QED
    BY <1>1, <2>1, <2>3, <2>4, <2>5, HelperKeeps DEF Safe
<1> QED
  BY <1>7, <1>8, <1>9, <1>10, <1>11 DEF Helper

-----------------------------------------------------------------------------
(* Handling a frame, wherever it comes from.                               *)
LEMMA FrameEffect ==
  ASSUME TypeOK, NEW f \in Frame, OnFrame(f)
  PROVE  /\ child' \in Live => child \in Live
         /\ child = "off" <=> child' = "off"
         /\ f.kind # "OK" /\ (child = "vouched" \/ child \notin Live)
              => child' = child /\ fate' = fate
         /\ child \notin Live => child' = child /\ fate' = fate
         /\ f.kind \in Failures => child' = child /\ fate' = fate
         /\ auth'.user = IF f.kind = "OK" THEN f.user ELSE auth.user
         /\ socket' \in {socket, None}
         /\ \/ queued' = queued /\ auth'.autologin = auth.autologin
            \/ f.kind = "FAIL" /\ auth.autologin /\ queued' = queued + 1 /\ ~auth'.autologin
<1> USE DEF Live, Gone, Failures
<1>1. CASE f.kind = "ERROR"
  BY <1>1 DEF OnFrame, OnError
<1>2. CASE f.kind \in {"ASK1", "ASK2", "ASKN"}
  BY <1>2 DEF OnFrame, OnRequest, Answered
<1>3. CASE f.kind = "OK"
  <2>1. OnAuthenticated(f.user)
    BY <1>3 DEF OnFrame
  <2>2. auth'.user = f.user /\ auth'.autologin = auth.autologin
    BY <2>1 DEF OnAuthenticated, TypeOK
  <2>3. child' = child \/ (child = "vouched" /\ child' \in {"dead", "opening"})
    <3>1. CASE attempt.session = NoSession
      BY <2>1, <3>1 DEF OnAuthenticated, Answered
    <3>2. CASE attempt.session # NoSession
      BY <2>1, <3>2 DEF OnAuthenticated, Answered
    <3> QED
      BY <3>1, <3>2
  <2>4. child \notin Live => child' = child /\ fate' = fate
    BY <2>1 DEF OnAuthenticated, Answered
  <2> QED
    BY <1>3, <2>1, <2>2, <2>3, <2>4 DEF OnAuthenticated
<1>4. CASE f.kind = "FAIL"
  <2>1. OnNotAuthenticated
    BY <1>4 DEF OnFrame
  <2>2. /\ auth'.user = auth.user
        /\ IF auth.autologin THEN ~auth'.autologin /\ queued' = queued + 1
           ELSE auth' = auth /\ queued' = queued
    BY <2>1 DEF OnNotAuthenticated, TypeOK
  <2> QED
    BY <1>4, <2>1, <2>2 DEF OnNotAuthenticated
<1>5. CASE f.kind \in {"OPENED", "NOTOPENED"}
  BY <1>5 DEF OnFrame, OnSessionStatus, Answered
<1> QED
  BY <1>1, <1>2, <1>3, <1>4, <1>5 DEF Frame, Kind

LEMMA HandleFrameSafe == IInv /\ HandleFrame => Safe'
<1> SUFFICES ASSUME IInv, HandleFrame PROVE Safe'
  OBVIOUS
<1>1. /\ TypeOK /\ Safe /\ Running
      /\ UNCHANGED <<life, crashed, started, passPhrase, reuse, attempt, connected, refused,
                     wasStarted>>
  BY DEF IInv, HandleFrame, greeterVars
<1>2. inbox \in Seq(Frame) /\ late \in Seq(Frame)
  BY <1>1 DEF TypeOK
<1>3. PICK f \in Frame :
        /\ OnFrame(f)
        /\ \/ inbox # <<>> /\ f = Head(inbox) /\ inbox' = Tail(inbox) /\ late' = late
           \/ late # <<>> /\ f = Head(late) /\ late' = Tail(late) /\ inbox' = inbox
  BY <1>2, HeadTailProperties DEF HandleFrame
<1>4. /\ Kinds(inbox') \subseteq Kinds(inbox) /\ Kinds(late') \subseteq Kinds(late)
      /\ \/ f.kind \in Kinds(inbox) /\ inbox # <<>>
         \/ f.kind \in Kinds(late) /\ late # <<>>
  <2>1. CASE inbox # <<>> /\ f = Head(inbox) /\ inbox' = Tail(inbox) /\ late' = late
    BY <1>2, <2>1, TailIndex
  <2>2. CASE late # <<>> /\ f = Head(late) /\ late' = Tail(late) /\ inbox' = inbox
    BY <1>2, <2>2, TailIndex
  <2> QED
    BY <1>3, <2>1, <2>2
<1>5. Pristine'
  BY <1>1, <1>4 DEF Safe, Pristine
<1>6. OneGreeter'
  <2>1. ~wasStarted => late' = <<>>
    BY <1>1, <1>3 DEF Safe, OneGreeter
  <2> QED
    BY <1>1, <1>3, <2>1, FrameEffect DEF Safe, OneGreeter, TypeOK
<1>7. RefusedIsGone'
  <2>1. f.kind = "FAIL" /\ auth.autologin => child \notin Live
    BY <1>1, <1>4 DEF Safe, RefusedIsGone, OneGreeter
  <2>2. child' \in Live => child \in Live
    BY <1>1, <1>3, FrameEffect
  <2> QED
    BY <1>1, <1>3, <1>4, <2>1, <2>2, FrameEffect DEF Safe, RefusedIsGone
<1>8. VouchedOnce'
  <2> SUFFICES ASSUME life = "alive", ~crashed
               PROVE  VouchedOnce'
    BY <1>1 DEF VouchedOnce
  <2>1. "OK" \notin Kinds(late')
    BY <1>1, <1>4 DEF Safe, VouchedOnce
  <2>2. ASSUME NEW i \in 1 .. Len(inbox'), inbox'[i].kind = "OK"
        PROVE  /\ i = Len(inbox') /\ inbox'[i].user = attempt.user
               /\ child' = "vouched" \/ (child' = "dead" /\ fate' = "CRASH")
    <3>1. PICK j \in 1 .. Len(inbox) :
            /\ inbox[j] = inbox'[i]
            /\ j = Len(inbox) => i = Len(inbox')
            /\ (f = inbox[1] /\ j # 1) \/ f.kind \in Kinds(late)
      <4>1. CASE inbox # <<>> /\ f = Head(inbox) /\ inbox' = Tail(inbox)
        <5>1. i + 1 \in 1 .. Len(inbox) /\ inbox[i + 1] = inbox'[i]
          BY <1>2, <2>2, <4>1, TailIndex
        <5>2. i + 1 = Len(inbox) => i = Len(inbox')
          BY <1>2, <2>2, <4>1, TailIndex
        <5>3. f = inbox[1] /\ i + 1 # 1
          BY <1>2, <2>2, <4>1, TailIndex
        <5> QED
          BY <5>1, <5>2, <5>3
      <4>2. CASE inbox' = inbox /\ late # <<>> /\ f = Head(late)
        BY <1>2, <2>2, <4>2, TailIndex
      <4> QED
        BY <1>3, <4>1, <4>2
    <3>2. /\ j = Len(inbox) /\ inbox[j].user = attempt.user
          /\ child = "vouched" \/ (child = "dead" /\ fate = "CRASH")
      <4>1. inbox[j].kind = "OK" /\ j \in 1 .. Len(inbox)
        BY <2>2, <3>1
      <4>2. VouchedOnce
        BY <1>1 DEF Safe
      <4> QED
        BY <4>1, <4>2 DEF VouchedOnce
    <3>3. f.kind # "OK"
      <4>1. CASE f.kind \in Kinds(late)
        BY <1>1, <4>1 DEF Safe, VouchedOnce
      <4>2. CASE f = inbox[1] /\ j # 1
        <5>1. Len(inbox) \in Nat /\ 1 \in 1 .. Len(inbox)
          BY <1>2, LenProperties
        <5> QED
          BY <1>1, <3>2, <4>2, <5>1 DEF Safe, VouchedOnce
      <4> QED
        BY <3>1, <4>1, <4>2
    <3>4. child' = child /\ fate' = fate
      BY <1>1, <1>3, <3>2, <3>3, FrameEffect DEF Live
    <3> QED
      BY <2>2, <3>1, <3>2, <3>4
  <2> QED
    BY <1>1, <2>1, <2>2 DEF VouchedOnce, Kinds
<1>9. OwnTerminal'
  BY <1>1, <1>3, FrameEffect DEF Safe, OwnTerminal
<1>10. AttemptKeepsItsData'
  <2>1. life = "alive" /\ f.kind = "OK" => f.user = attempt.user
    <3> SUFFICES ASSUME life = "alive", f.kind = "OK" PROVE f.user = attempt.user
      OBVIOUS
    <3>1. inbox # <<>> /\ f = inbox[1] /\ 1 \in 1 .. Len(inbox)
      BY <1>1, <1>2, <1>3, <1>4, TailIndex DEF Safe, VouchedOnce, Running
    <3> QED
      BY <1>1, <3>1 DEF Safe, VouchedOnce, Running
  <2> QED
    BY <1>1, <1>3, <2>1, FrameEffect DEF Safe, AttemptKeepsItsData
<1>11. AnswerGoesToAsker'
  <2>1. inbox' # <<>> => inbox # <<>>
    BY <1>3
  <2>2. socket' \in {socket, None} /\ (child' # "off" => child # "off")
    BY <1>1, <1>3, FrameEffect
  <2> QED
    BY <1>1, <1>4, <2>1, <2>2 DEF Safe, AnswerGoesToAsker
<1>12. InOrder'
  <2> SUFFICES ASSUME life = "alive", ~crashed PROVE InOrder'
    BY <1>1 DEF InOrder
  <2>1. InOrder /\ Kinds(late) \subseteq Failures
    BY <1>1 DEF Safe, AnswerGoesToAsker, Failures
  <2>2. CASE inbox # <<>> /\ f = Head(inbox) /\ inbox' = Tail(inbox) /\ f.kind # "ERROR"
    <3>1. inbox' = <<>>
      BY <1>2, <2>1, <2>2, TailIndex, EmptySeq DEF InOrder
    <3> QED
      BY <3>1, KindsOfEmpty DEF InOrder
  <2>3. CASE inbox # <<>> /\ inbox' = Tail(inbox) /\ f.kind = "ERROR"
    <3>1. \A i \in 1 .. Len(inbox') : inbox'[i].kind = "ERROR" \/ i = Len(inbox')
      BY <1>2, <2>1, <2>3, TailIndex DEF InOrder
    <3>2. child' = child /\ fate' = fate
      BY <1>1, <1>3, <2>3, FrameEffect DEF Failures
    <3> QED
      BY <1>4, <2>1, <3>1, <3>2 DEF InOrder
  <2>4. CASE late # <<>> /\ f = Head(late) /\ inbox' = inbox
    <3>1. f.kind \in Failures
      BY <1>2, <2>1, <2>4, TailIndex
    <3>2. child' = child /\ fate' = fate
      BY <1>1, <1>3, <3>1, FrameEffect
    <3> QED
      BY <2>1, <2>4, <3>2 DEF InOrder, Kinds
  <2> QED
    BY <1>3, <2>2, <2>3, <2>4
<1> QED
  BY <1>5, <1>6, <1>7, <1>8, <1>9, <1>10, <1>11, <1>12 DEF Safe

-----------------------------------------------------------------------------
(* startAuth(): what an attempt starts with.  A rejected one leaves a      *)
(* running helper and its data alone.                                      *)
LEMMA StartAuthFailsSafe ==
  ASSUME TypeOK, Safe, NEW u, NEW x, NEW pw, StartAuthFails(u, x, pw)
  PROVE  /\ UNCHANGED <<auth, attempt, child, fate, inbox, late>>
         /\ child # "off" => UNCHANGED <<passPhrase, reuse>>
  BY DEF StartAuthFails

LEMMA StartAuthSucceedsSafe ==
  ASSUME TypeOK, Safe, life = "alive" => Kinds(inbox) \subseteq Failures,
         NEW u, NEW x, NEW pw, NEW asker, NEW auto, StartAuthSucceeds(u, x, pw, asker, auto),
         UNCHANGED <<life, crashed>>
  PROVE  /\ child = "off" /\ auth'.user = u /\ auth'.autologin = auto
         /\ attempt'.user = u /\ attempt'.asker = asker
         /\ passPhrase' = pw /\ reuse' \in {None, u}
         /\ ~VtsRunOut /\ wasStarted => attempt'.vt # "greeter"
         /\ inbox' = <<>> /\ Kinds(inbox') = {}
         /\ life = "alive" => Kinds(late') \subseteq Failures
         /\ VouchedOnce' /\ InOrder'
<1>1. child = "off"
  BY DEF StartAuthSucceeds
<1>2. ~VtsRunOut /\ wasStarted => sessionVt' # "greeter"
  BY DEF StartAuthSucceeds, SessionTerminals
<1>3. late' = late \o inbox /\ inbox' = <<>> /\ Kinds(inbox') = {}
  BY KindsOfEmpty DEF StartAuthSucceeds
<1>4. inbox \in Seq(Frame) /\ late \in Seq(Frame)
  BY DEF TypeOK
<1>5. life = "alive" => Kinds(late') \subseteq Failures
  <2>1. /\ Len(late') = Len(late) + Len(inbox) /\ Len(late) \in Nat /\ Len(inbox) \in Nat
        /\ \A i \in 1 .. Len(late) + Len(inbox) :
             late'[i] = IF i <= Len(late) THEN late[i] ELSE inbox[i - Len(late)]
    BY <1>3, <1>4, ConcatProperties, LenProperties
  <2>2. \A i \in 1 .. Len(late') :
          late'[i].kind \in Kinds(late) \/ late'[i].kind \in Kinds(inbox)
    BY <2>1 DEF Kinds
  <2>3. Kinds(late') \subseteq Kinds(late) \cup Kinds(inbox)
    BY <2>2 DEF Kinds
  <2> QED
    BY <2>3 DEF Safe, AnswerGoesToAsker, Failures
<1>6. VouchedOnce' /\ InOrder'
  BY <1>3, <1>5 DEF VouchedOnce, InOrder, Kinds, Failures
<1> QED
  BY <1>1, <1>2, <1>3, <1>5, <1>6 DEF StartAuthSucceeds

(* Of a helper that is gone only errors and its refusal are left.          *)
LEMMA OnlyFailuresLeft ==
  ASSUME Safe, Running, child = "off", life = "alive"
  PROVE  Kinds(inbox) \subseteq Failures
  BY DEF Safe, InOrder, Running

LEMMA StartSafe == IInv /\ Start => Safe'
<1> SUFFICES ASSUME IInv, Start PROVE Safe'
  OBVIOUS
<1> USE DEF loginVars, greeterVars, attemptVars, helperVars
<1>1. /\ TypeOK /\ Safe /\ Running /\ life = "alive" /\ ~started
      /\ UNCHANGED <<life, crashed, wasStarted, connected, socket, refused>>
  BY DEF IInv, Start
<1>2. /\ queued = 0 /\ ~wasStarted /\ child = "off" /\ inbox = <<>> /\ late = <<>> /\ socket = None
      /\ ~auth.autologin
  BY <1>1 DEF Safe, Pristine
<1>3. CASE UNCHANGED <<started, queued, attemptVars, helperVars>>
  BY <1>1, <1>3, UntouchedSafe
<1>4. CASE /\ started' = TRUE /\ queued' = queued + 1
           /\ UNCHANGED <<child, fate, inbox, late, auth, attempt>>
  BY <1>1, <1>2, <1>4, KindsOfEmpty
     DEF Safe, Pristine, OneGreeter, RefusedIsGone, VouchedOnce, InOrder, OwnTerminal,
         AttemptKeepsItsData, AnswerGoesToAsker, Kinds, Live
<1>5. CASE /\ started' = TRUE /\ UNCHANGED queued
           /\ StartAuthSucceeds(autologin.user, autologin.session, None, None, TRUE)
  <2>1. /\ auth'.user = autologin.user /\ attempt'.user = autologin.user
        /\ attempt'.asker = None /\ passPhrase' = None /\ reuse' \in {None, autologin.user}
        /\ inbox' = <<>> /\ Kinds(inbox') = {}
        /\ VouchedOnce' /\ InOrder'
    BY <1>1, <1>2, <1>5, OnlyFailuresLeft, StartAuthSucceedsSafe
  <2>2. late' = <<>>
    BY <1>2, <1>5 DEF StartAuthSucceeds
  <2>3. Pristine' /\ OneGreeter'
    BY <1>1, <1>2, <1>5, <2>2 DEF Safe, Pristine, OneGreeter
  <2>4. RefusedIsGone' /\ OwnTerminal'
    BY <1>1, <1>2, <1>5, <2>1 DEF RefusedIsGone, OwnTerminal, Live
  <2>5. AttemptKeepsItsData' /\ AnswerGoesToAsker'
    BY <1>1, <1>2, <2>1, <2>2, KindsOfEmpty DEF AttemptKeepsItsData, AnswerGoesToAsker
  <2> QED
    BY <2>1, <2>3, <2>4, <2>5 DEF Safe
<1> QED
  BY <1>1, <1>2, <1>3, <1>4, <1>5, StartAuthFailsSafe DEF Start

LEMMA SeatSafe == IInv /\ (GiveUp \/ DisplayServerStarted \/ Destroy) => Safe'
<1> SUFFICES ASSUME IInv, GiveUp \/ DisplayServerStarted \/ Destroy PROVE Safe'
  OBVIOUS
<1> USE DEF loginVars, greeterVars, attemptVars, helperVars
<1>1. TypeOK /\ Safe /\ Running
  BY DEF IInv, GiveUp, DisplayServerStarted, Destroy
<1>2. CASE GiveUp
  <2>1. UNCHANGED stopKeeps /\ life' = "doomed" /\ UNCHANGED <<crashed, started, child, fate>>
    BY <1>2 DEF GiveUp, stopKeeps
  <2> QED
    BY <1>1, <2>1, StoppedSafe
<1>3. CASE DisplayServerStarted
  <2>1. /\ queued = 1 /\ queued' = 0 /\ ~auth.autologin /\ child \notin Live
        /\ ~(life = "alive" /\ ~started)
        /\ UNCHANGED <<life, crashed, started, child, fate, inbox, late, socket, auth, connected,
                       attempt, passPhrase, reuse, refused>>
    BY <1>1, <1>3 DEF DisplayServerStarted, Safe, Pristine, OneGreeter, RefusedIsGone
  <2>2. wasStarted' = wasStarted \/ wasStarted' = TRUE
    BY <1>3 DEF DisplayServerStarted
  <2>3. Pristine' /\ OneGreeter'
    BY <1>1, <2>1, <2>2 DEF Safe, Pristine, OneGreeter
  <2>4. RefusedIsGone' /\ VouchedOnce' /\ InOrder' /\ OwnTerminal'
    BY <1>1, <2>1 DEF Safe, RefusedIsGone, VouchedOnce, InOrder, OwnTerminal, Kinds
  <2>5. AttemptKeepsItsData' /\ AnswerGoesToAsker'
    BY <1>1, <2>1 DEF Safe, AttemptKeepsItsData, AnswerGoesToAsker
  <2> QED
    BY <2>3, <2>4, <2>5 DEF Safe
<1>4. CASE Destroy /\ gStarted /\ ~gAuth
  BY <1>1, <1>4 DEF Destroy, Safe, Pristine, OneGreeter, RefusedIsGone, VouchedOnce, InOrder,
                    OwnTerminal, AttemptKeepsItsData, AnswerGoesToAsker, Kinds
<1>5. CASE Destroy /\ ~(gStarted /\ ~gAuth)
  <2>1. /\ life' = "deleted" /\ queued' = 0 /\ child' = "off" /\ late' = <<>> /\ connected' = {}
        /\ wasStarted' = wasStarted /\ auth' = auth /\ inbox' = <<>>
    BY <1>5 DEF Destroy
  <2> QED
    BY <1>1, <2>1 DEF Safe, Pristine, OneGreeter, RefusedIsGone, VouchedOnce, InOrder,
                      OwnTerminal, AttemptKeepsItsData, AnswerGoesToAsker, Live
<1> QED
  BY <1>2, <1>3, <1>4, <1>5

LEMMA ConnectSafe ==
  ASSUME IInv, NEW s \in Sockets, Connect(s) \/ Disconnect(s)
  PROVE  Safe'
<1> USE DEF objectVars, attemptVars, helperVars, greeterVars
<1>1. /\ Safe
      /\ UNCHANGED <<life, crashed, started, queued, wasStarted, child, fate, inbox, late, auth,
                     attempt, passPhrase, reuse>>
  BY DEF IInv, Connect, Disconnect
<1>2. /\ connected' = {} \/ connected' \subseteq connected \/ wasStarted
      /\ socket' \in {socket, None}
      /\ socket' = None \/ (socket \in refused <=> socket \in refused')
  BY DEF Connect, Disconnect
<1>3. Pristine' /\ OneGreeter' /\ RefusedIsGone' /\ VouchedOnce' /\ InOrder' /\ OwnTerminal'
  BY <1>1, <1>2
     DEF Safe, Pristine, OneGreeter, RefusedIsGone, VouchedOnce, InOrder, OwnTerminal, Kinds
<1>4. AttemptKeepsItsData' /\ AnswerGoesToAsker'
  BY <1>1, <1>2 DEF Safe, AttemptKeepsItsData, AnswerGoesToAsker
<1> QED
  BY <1>3, <1>4 DEF Safe

LEMMA LoginSafe ==
  ASSUME IInv, NEW s \in Sockets, Login(s)
  PROVE  Safe'
<1> USE DEF objectVars, attemptVars, helperVars, greeterVars
<1>1. /\ TypeOK /\ Safe /\ Running /\ wasStarted
      /\ UNCHANGED <<life, crashed, started, queued, wasStarted, connected>>
  BY DEF IInv, Login, Safe, OneGreeter
<1>2. queued = 0 /\ ~auth.autologin /\ ~(life = "alive" /\ ~started)
  BY <1>1 DEF Safe, Pristine, OneGreeter
<1>3. CASE LoginRefused(s)
  <2>1. /\ UNCHANGED <<child, fate, inbox, late, auth, attempt, passPhrase, reuse>>
        /\ socket' \in refused'
    BY <1>3 DEF LoginRefused
  <2>2. /\ Pristine' /\ OneGreeter' /\ RefusedIsGone' /\ VouchedOnce' /\ InOrder'
        /\ OwnTerminal'
    BY <1>1, <1>2, <2>1
       DEF Safe, Pristine, OneGreeter, RefusedIsGone, VouchedOnce, InOrder, OwnTerminal, Kinds
  <2> QED
    BY <1>1, <2>1, <2>2 DEF Safe, AttemptKeepsItsData, AnswerGoesToAsker
<1>4. ASSUME NEW u \in Users, NEW x \in Sessions, LoginRejected(s, u, x) PROVE Safe'
  <2>1. /\ UNCHANGED <<child, fate, inbox, late, auth, attempt>> /\ socket' = None
        /\ child # "off" => UNCHANGED <<passPhrase, reuse>>
    BY <1>1, <1>4, StartAuthFailsSafe DEF LoginRejected
  <2>2. /\ Pristine' /\ OneGreeter' /\ RefusedIsGone' /\ VouchedOnce' /\ InOrder'
        /\ OwnTerminal'
    BY <1>1, <1>2, <2>1
       DEF Safe, Pristine, OneGreeter, RefusedIsGone, VouchedOnce, InOrder, OwnTerminal, Kinds
  <2> QED
    BY <1>1, <2>1, <2>2 DEF Safe, AttemptKeepsItsData, AnswerGoesToAsker
<1>5. ASSUME NEW u \in Users, NEW x \in Sessions, LoginStarted(s, u, x) PROVE Safe'
  <2>1. StartAuthSucceeds(u, x, u, s, auth.autologin) /\ socket' = s
    BY <1>5 DEF LoginStarted
  <2>2. life = "alive" => Kinds(inbox) \subseteq Failures
    BY <1>1, <2>1, OnlyFailuresLeft DEF StartAuthSucceeds
  <2>3. /\ auth'.user = u /\ auth'.autologin = auth.autologin
        /\ attempt'.user = u /\ attempt'.asker = s /\ passPhrase' = u /\ reuse' \in {None, u}
        /\ ~VtsRunOut => attempt'.vt # "greeter"
        /\ VouchedOnce' /\ InOrder'
    BY <1>1, <2>1, <2>2, StartAuthSucceedsSafe
  <2>4. /\ inbox' = <<>> /\ Kinds(inbox') = {}
        /\ life = "alive" => Kinds(late') \subseteq Failures
    BY <1>1, <2>1, <2>2, StartAuthSucceedsSafe
  <2>5. s # None
    BY NamesAssumption
  <2>6. Pristine' /\ OneGreeter' /\ RefusedIsGone' /\ OwnTerminal'
    BY <1>1, <1>2, <2>3, <2>4 DEF Pristine, OneGreeter, RefusedIsGone, OwnTerminal, Live
  <2>7. AttemptKeepsItsData' /\ AnswerGoesToAsker'
    BY <1>1, <2>1, <2>3, <2>4, <2>5 DEF AttemptKeepsItsData, AnswerGoesToAsker, Failures
  <2> QED
    BY <2>3, <2>6, <2>7 DEF Safe
<1> QED
  BY <1>3, <1>4, <1>5 DEF Login

LEMMA GreeterSafe ==
  IInv /\ (GreeterHelper \/ GreeterSessionStarted \/ GreeterAuthDeleted \/ UNCHANGED vars) => Safe'
<1> USE DEF objectVars, attemptVars, helperVars, loginVars, greeterVars
<1> QED
  BY UntouchedSafe
     DEF IInv, GreeterHelper, GreeterReports, GreeterAsks, GreeterEnds, GreeterStep,
         GreeterSessionStarted, GreeterAuthDeleted, vars

-----------------------------------------------------------------------------
LEMMA InitSafe == Init => Safe
  BY KindsOfEmpty, NamesAssumption
     DEF Init, Safe, Pristine, OneGreeter, RefusedIsGone, VouchedOnce, InOrder, OwnTerminal,
         AttemptKeepsItsData, AnswerGoesToAsker, Live

LEMMA StepSafe == IInv /\ [Next]_vars => Safe'
  BY StartSafe, SeatSafe, ConnectSafe, LoginSafe, HelperSafe, HandleFrameSafe, HelperFinishedSafe,
     GreeterFinishedSafe, StopGreeterSafe, GreeterSafe
     DEF Next, Seat, Greeters, EventLoop

(* The invariant is inductive.                                             *)
THEOREM Inductive == Spec => []IInv
<1>1. Init => IInv
  BY InitType, InitSafe DEF IInv
<1>2. IInv /\ [Next]_vars => IInv'
  <2>1. TypeOK /\ [Next]_vars => TypeOK'
    BY StartType, SeatType, LoginType, HelperType, EventType, GreeterType, StutterType
       DEF Next, Seat, Greeters, EventLoop
  <2> QED
    BY <2>1, StepSafe DEF IInv
<1> QED
  BY <1>1, <1>2, PTL DEF Spec

(* Overlapping Logins never mix the name, the password or the session to   *)
(* unlock of two attempts (AttemptKeepsItsData).                           *)
THEOREM AttemptsDoNotMix == Spec => []AttemptKeepsItsData
<1>1. IInv => AttemptKeepsItsData
  BY DEF IInv, Safe
<1> QED
  BY Inductive, <1>1, PTL

(* What a running helper sends is answered to the connection that asked,   *)
(* or to one refused as the greeter's user, and of an earlier attempt      *)
(* nothing but its failure is answered to a later Login                    *)
(* (AnswerGoesToAsker).                                                    *)
THEOREM AnswersFindTheAsker == Spec => []AnswerGoesToAsker
<1>1. IInv => AnswerGoesToAsker
  BY DEF IInv, Safe
<1> QED
  BY Inductive, <1>1, PTL

(* An automatic login and a greeter exclude each other                     *)
(* (AutologinExcludesGreeter).                                             *)
THEOREM AutologinOrGreeter == Spec => []AutologinExcludesGreeter
<1>1. IInv => AutologinExcludesGreeter
  BY DEF IInv, Safe, OneGreeter, AutologinExcludesGreeter
<1> QED
  BY Inductive, <1>1, PTL

(* As long as there are free terminals, no session runs on the terminal of *)
(* a greeter that was started (SessionHasItsOwnTerminal).                  *)
THEOREM SessionsHaveTheirOwnTerminal ==
  ASSUME ~VtsRunOut
  PROVE  Spec => []SessionHasItsOwnTerminal
<1>1. IInv => SessionHasItsOwnTerminal
  BY DEF IInv, Safe, OwnTerminal, SessionHasItsOwnTerminal, Live
<1> QED
  BY Inductive, <1>1, PTL

-----------------------------------------------------------------------------
(* The answer that is owed.  Only connections are owed one, and a helper   *)
(* that is past PAM's verdict owes none.                                   *)
Owed == NobodyForgotten /\ waiting \subseteq connected

LEMMA PastTheVerdict ==
  ASSUME IInv, Owed, Running, life = "alive",
         child \in {"opening", "reporting", "declined", "session"}
  PROVE  waiting = {}
<1>1. "FAIL" \notin Kinds(inbox) /\ "OK" \notin Kinds(inbox)
  BY DEF IInv, Safe, RefusedIsGone, VouchedOnce, Running, Kinds, Live
<1> QED
  BY <1>1 DEF Owed, NobodyForgotten, VerdictComing, NeverExecuted, Running

LEMMA OwedWhileUntouched ==
  ASSUME Owed, Running, UNCHANGED <<child, fate, inbox, socket, waiting, connected>>,
         life' = "alive" => life = "alive"
  PROVE  Owed'
  BY DEF Owed, NobodyForgotten, VerdictComing, NeverExecuted, Running, Kinds

LEMMA HelperOwes == IInv /\ Owed /\ Helper => Owed'
<1> SUFFICES ASSUME IInv, Owed, Helper PROVE Owed'
  OBVIOUS
<1>1. /\ TypeOK /\ Running /\ UNCHANGED <<life, crashed, socket, waiting, connected>>
  BY DEF IInv, Helper, HelperAsks, HelperRefuses, HelperAccepts, HelperOpens, SessionEnds,
         HelperCrashes, HelperStep, objectVars, loginVars
<1>2. CASE HelperAsks
  BY <1>1, <1>2 DEF HelperAsks, Owed, NobodyForgotten, VerdictComing
<1>3. CASE HelperRefuses \/ HelperAccepts
  <2>1. "OK" \in Kinds(inbox') \/ "FAIL" \in Kinds(inbox')
    <3>1. inbox \in Seq(Frame) /\ Complaints \in BOOLEAN /\ Plain("FAIL") \in Frame
      BY <1>1, PlainType, BoundsAssumption DEF TypeOK, Kind
    <3>2. CASE HelperRefuses
      <4>1. Send(Plain("FAIL"), TRUE) /\ Plain("FAIL").kind = "FAIL"
        BY <3>2 DEF HelperRefuses, Plain
      <4> QED
        BY <3>1, <4>1, SendEffect
    <3>3. CASE HelperAccepts
      <4> DEFINE ok == [kind |-> "OK", user |-> attempt.user]
      <4>1. Send(ok, Complaints) /\ ok \in Frame /\ ok.kind = "OK"
        BY <1>1, <3>3 DEF HelperAccepts, TypeOK, Frame, Kind
      <4> HIDE DEF ok
      <4> QED
        BY <3>1, <4>1, SendEffect
    <3> QED
      BY <1>3, <3>2, <3>3
  <2> QED
    BY <1>1, <2>1 DEF Owed, NobodyForgotten, VerdictComing
<1>4. CASE HelperOpens \/ SessionEnds
  BY <1>1, <1>4, PastTheVerdict DEF HelperOpens, SessionEnds, Owed, NobodyForgotten
<1>5. CASE HelperCrashes
  BY <1>1, <1>5 DEF HelperCrashes, Owed, NobodyForgotten, VerdictComing
<1> QED
  BY <1>2, <1>3, <1>4, <1>5 DEF Helper

LEMMA HandleFrameOwes == IInv /\ Owed /\ HandleFrame => Owed'
<1> SUFFICES ASSUME IInv, Owed, HandleFrame PROVE Owed'
  OBVIOUS
<1>1. /\ TypeOK /\ Safe /\ Running
      /\ UNCHANGED <<life, crashed, connected, attempt>>
  BY DEF IInv, HandleFrame
<1>2. inbox \in Seq(Frame) /\ late \in Seq(Frame)
  BY <1>1 DEF TypeOK
<1>3. PICK f \in Frame :
        /\ OnFrame(f)
        /\ \/ inbox # <<>> /\ f = Head(inbox) /\ inbox' = Tail(inbox)
           \/ late # <<>> /\ f = Head(late) /\ inbox' = inbox
  BY <1>2, HeadTailProperties DEF HandleFrame
<1>4. Kinds(inbox) \subseteq Kinds(inbox') \cup {f.kind}
  <2>1. CASE inbox # <<>> /\ f = Head(inbox) /\ inbox' = Tail(inbox)
    <3>1. /\ Len(inbox) \in Nat /\ Len(inbox') = Len(inbox) - 1 /\ f = inbox[1]
          /\ \A i \in 1 .. Len(inbox') : inbox'[i] = inbox[i + 1]
      BY <1>2, <2>1, HeadTailProperties, LenProperties
    <3>2. \A j \in 1 .. Len(inbox) : inbox[j] = f \/ inbox[j].kind \in Kinds(inbox')
      <4> SUFFICES ASSUME NEW j \in 1 .. Len(inbox), j # 1 PROVE inbox[j].kind \in Kinds(inbox')
        BY <3>1
      <4>1. j - 1 \in 1 .. Len(inbox') /\ inbox'[j - 1] = inbox[j]
        BY <3>1
      <4> QED
        BY <4>1 DEF Kinds
    <3> QED
      BY <3>2 DEF Kinds
  <2>2. CASE inbox' = inbox
    BY <2>2
  <2> QED
    BY <1>3, <2>1, <2>2
<1>5. waiting' \subseteq waiting
  BY <1>3 DEF OnFrame, OnError, OnRequest, OnAuthenticated, OnNotAuthenticated, OnSessionStatus
<1> SUFFICES ASSUME life = "alive", ~crashed, waiting # {}
             PROVE  \A s \in waiting' : socket' = s /\ (VerdictComing' \/ NeverExecuted')
  BY <1>1, <1>5 DEF Owed, NobodyForgotten
<1>6. waiting = {socket} /\ (VerdictComing \/ NeverExecuted) /\ wasStarted /\ ~auth.autologin
  BY <1>1 DEF Owed, NobodyForgotten, Safe, OneGreeter
<1>7. CASE f.kind \in {"ERROR", "OK", "FAIL"}
  <2>1. waiting' = waiting \ {socket}
    BY <1>3, <1>6, <1>7 DEF OnFrame, OnError, OnAuthenticated, OnNotAuthenticated
  <2> QED
    BY <1>6, <2>1
<1>8. CASE f.kind \in {"ASK1", "ASK2", "ASKN"}
  <2>1. /\ socket' = socket /\ fate' = fate
        /\ child' = child \/ (child = "asked" /\ child' = "auth")
    BY <1>3, <1>8 DEF OnFrame, OnRequest, Answered
  <2> QED
    BY <1>4, <1>5, <1>6, <1>8, <2>1 DEF VerdictComing, NeverExecuted
<1>9. CASE f.kind \in {"OPENED", "NOTOPENED"}
  <2>1. child \notin {"reporting", "declined"}
    BY <1>1, <1>6, PastTheVerdict
  <2>2. socket' = socket /\ child' = child /\ fate' = fate
    BY <1>3, <1>9, <2>1 DEF OnFrame, OnSessionStatus, Answered
  <2> QED
    BY <1>4, <1>5, <1>6, <1>9, <2>2 DEF VerdictComing, NeverExecuted
<1> QED
  BY <1>7, <1>8, <1>9 DEF Frame, Kind

(* A helper or greeter that is stopped, or whose end is noticed.           *)
LEMMA StopOwes ==
  ASSUME IInv, Owed, HelperFinished \/ GreeterFinished \/ StopGreeter
  PROVE  Owed'
<1>1. /\ TypeOK /\ Safe /\ StopTypeOK /\ Running
      /\ UNCHANGED <<inbox, socket, waiting, connected>>
      /\ child \in Phase /\ gStarted \in BOOLEAN /\ gAuth \in BOOLEAN /\ gChild \in GreeterPhase
      /\ "off" \in Phase
  BY TypeOKSplits
     DEF IInv, HelperFinished, GreeterFinished, StopGreeter, stopKeeps, loginVars, TypeOK, Phase
<1>2. CASE HelperFinished /\ fate = "AUTH_ERROR"
  BY <1>1, <1>2 DEF HelperFinished, Owed, NobodyForgotten, VerdictComing, NeverExecuted, Running,
                    Gone
<1>3. CASE HelperFinished /\ fate # "AUTH_ERROR"
  <2>1. Stop("off", gStarted, gAuth, gChild, FALSE) /\ child # "off"
    BY <1>3 DEF HelperFinished, Gone
  <2>2. ~(life' = "alive" /\ ~crashed')
    BY <1>1, <2>1, StopEffect DEF Safe, Pristine
  <2> QED
    BY <1>1, <2>2 DEF Owed, NobodyForgotten
<1>4. CASE GreeterFinished
  BY <1>1, <1>4, GreeterDoneEffect
     DEF GreeterFinished, Owed, NobodyForgotten, VerdictComing, NeverExecuted, Running
<1>5. CASE StopGreeter
  <2>1. CASE \E g \in AuthStop(gChild, gFate) : GreeterDone(g.done, child)
    BY <1>1, <2>1, GreeterDoneEffect
       DEF Owed, NobodyForgotten, VerdictComing, NeverExecuted, Running
  <2>2. CASE UNCHANGED <<life, child, fate>>
    BY <1>1, <2>2, OwedWhileUntouched
  <2> QED
    BY <1>5, <2>1, <2>2 DEF StopGreeter, stopVars
<1> QED
  BY <1>2, <1>3, <1>4, <1>5

LEMMA LoginOwes ==
  ASSUME IInv, Owed, NEW s \in Sockets, Connect(s) \/ Disconnect(s) \/ Login(s)
  PROVE  Owed'
<1>1. CASE Connect(s) \/ Disconnect(s)
  BY <1>1 DEF Connect, Disconnect, objectVars, helperVars, Owed, NobodyForgotten, VerdictComing,
              NeverExecuted, Kinds
<1>2. CASE Login(s)
  <2>1. s \in connected /\ connected' = connected /\ waiting' \in {{}, {s}}
    BY <1>2 DEF Login, LoginRefused, LoginRejected, LoginStarted
  <2>2. waiting' = {s} => socket' = s /\ (child' = "auth" \/ (child' = "off" /\ fate' = "NOEXEC"))
    BY <1>2 DEF Login, LoginRefused, LoginRejected, LoginStarted, StartAuthSucceeds
  <2> QED
    BY <2>1, <2>2 DEF Owed, NobodyForgotten, VerdictComing, NeverExecuted
<1> QED
  BY <1>1, <1>2

LEMMA SeatOwes ==
  ASSUME IInv, Owed, Start \/ GiveUp \/ Destroy \/ DisplayServerStarted
  PROVE  Owed'
<1>1. CASE Start
  <2>1. waiting = {} /\ UNCHANGED <<waiting, connected>>
    BY <1>1, NamesAssumption
       DEF Start, loginVars, IInv, Safe, Pristine, OneGreeter, Owed
  <2> QED
    BY <2>1 DEF Owed, NobodyForgotten
<1>2. CASE GiveUp \/ Destroy
  BY <1>2 DEF GiveUp, Destroy, loginVars, Owed, NobodyForgotten
<1>3. CASE DisplayServerStarted
  BY <1>3, OwedWhileUntouched DEF DisplayServerStarted, helperVars, loginVars
<1> QED
  BY <1>1, <1>2, <1>3

LEMMA GreeterOwes ==
  ASSUME Owed, GreeterHelper \/ GreeterSessionStarted \/ GreeterAuthDeleted
  PROVE  Owed'
  BY OwedWhileUntouched
     DEF GreeterHelper, GreeterReports, GreeterAsks, GreeterEnds, GreeterStep,
         GreeterSessionStarted, GreeterAuthDeleted, objectVars, helperVars, loginVars

(* While a display is wanted, an answer is on its way to the connection    *)
(* that is owed one (NobodyForgotten).                                     *)
THEOREM NobodyIsForgotten == Spec => []NobodyForgotten
<1>1. Init => Owed
  BY DEF Init, Owed, NobodyForgotten
<1>2. IInv /\ Owed /\ [Next]_vars => Owed'
  <2>1. IInv /\ Owed /\ UNCHANGED vars => Owed'
    BY DEF vars, objectVars, helperVars, loginVars, Owed, NobodyForgotten, VerdictComing,
           NeverExecuted, Kinds
  <2> QED
    BY <2>1, HelperOwes, HandleFrameOwes, StopOwes, LoginOwes, SeatOwes, GreeterOwes
       DEF Next, Seat, Greeters, EventLoop
<1>3. Owed => NobodyForgotten
  BY DEF Owed
<1> QED
  BY Inductive, <1>1, <1>2, <1>3, PTL DEF Spec

-----------------------------------------------------------------------------
(* Nothing but displayServerStarted() makes a greeter's helper run.        *)
LEMMA GreeterStaysOff ==
  ASSUME TypeOK, Next, ~DisplayServerStarted, gChild = "off"
  PROVE  gChild' = "off"
<1>1. /\ StopTypeOK /\ child \in Phase /\ gStarted \in BOOLEAN /\ gAuth \in BOOLEAN
      /\ gChild \in GreeterPhase /\ gFate \in Fate /\ "off" \in Phase
  BY TypeOKSplits DEF TypeOK, Phase
<1>2. CASE Start \/ GiveUp \/ Destroy
  BY <1>2 DEF Start, GiveUp, Destroy, greeterVars
<1>3. ASSUME NEW s \in Sockets, Connect(s) \/ Disconnect(s) \/ Login(s) PROVE gChild' = "off"
  BY <1>3 DEF Connect, Disconnect, Login, greeterVars
<1>4. CASE Helper
  BY <1>4 DEF Helper, HelperAsks, HelperRefuses, HelperAccepts,
              HelperOpens, SessionEnds, HelperCrashes, HelperStep, greeterVars
<1>5. CASE GreeterHelper \/ GreeterSessionStarted \/ GreeterAuthDeleted
  BY <1>5 DEF GreeterHelper, GreeterReports, GreeterAsks, GreeterEnds, GreeterLive,
              GreeterSessionStarted, GreeterAuthDeleted
<1>6. CASE HandleFrame
  BY <1>6 DEF HandleFrame, greeterVars
<1>7. CASE HelperFinished
  BY <1>1, <1>7, StopEffect DEF HelperFinished
<1>8. CASE GreeterFinished
  BY <1>1, <1>8, GreeterDoneEffect DEF GreeterFinished
<1>9. CASE StopGreeter
  <2>1. CASE UNCHANGED gChild
    BY <2>1
  <2>2. CASE \E g \in AuthStop(gChild, gFate) : GreeterDone(g.done, child)
    BY <1>1, <2>2, GreeterDoneEffect
  <2>3. CASE \E g \in AuthStop(gChild, gFate) : gChild' = g.phase
    BY <1>1, <2>3, AuthStopEffect
  <2> QED
    BY <1>9, <2>1, <2>2, <2>3 DEF StopGreeter, stopVars
<1> QED
  BY <1>2, <1>3, <1>4, <1>5, <1>6, <1>7, <1>8, <1>9 DEF Next, Seat, Greeters, EventLoop

(* A display starts a greeter at most once (GreeterStartsOnce).            *)
THEOREM GreeterIsStartedOnce == Spec => GreeterStartsOnce
<1>1. IInv /\ [Next]_vars => [gChild = "off" /\ gChild' # "off" => ~wasStarted]_vars
  <2>1. IInv /\ DisplayServerStarted => ~wasStarted
    BY DEF IInv, Safe, OneGreeter, TypeOK, DisplayServerStarted
  <2> QED
    BY <2>1, GreeterStaysOff DEF IInv
<1> QED
  BY Inductive, <1>1, PTL DEF Spec, GreeterStartsOnce

-----------------------------------------------------------------------------
(* A started display is wanted and has not emitted stopped() yet.          *)
OneLife == started => life = "alive" /\ emitted = 0

LifeStep == OneLife' /\ [Lifecycle!Next]_(Lifecycle!vars)

(* Display::stop() with all that it calls is one step of the lifecycle.    *)
LEMMA StopIsOneStep ==
  ASSUME OneLife, Running, NEW p, NEW up, NEW known, NEW q, NEW muted \in BOOLEAN,
         life \in {"alive", "doomed", "deleted"}, started \in BOOLEAN, crashed \in BOOLEAN,
         Stop(p, up, known, q, muted)
  PROVE  LifeStep
<1> USE DEF LifeStep, OneLife, Running, Lifecycle!vars, Lifecycle!Next
<1>1. CASE ~started
  BY <1>1 DEF Stop, Lifecycle!GiveUp
<1>2. CASE started /\ up /\ ~known
  BY <1>2 DEF Stop, Lifecycle!Crash
<1>3. CASE started /\ ~(up /\ ~known)
  <2>1. /\ started' = FALSE /\ life' = "doomed" /\ crashed' = crashed
        /\ \E a \in AuthStop(p, fate), g \in GreeterStop(up, q) :
             emitted' = IF muted THEN emitted ELSE emitted + Emissions(a.done, g.done)
    BY <1>3 DEF Stop
  <2>2. emitted' \in 0 .. 3
    BY <1>3, <2>1 DEF Emissions
  <2> QED
    BY <1>3, <2>1, <2>2 DEF Lifecycle!Stop
<1> QED
  BY <1>1, <1>2, <1>3

LEMMA GreeterDoneIsOneStep ==
  ASSUME OneLife, Running, NEW st, NEW p,
         life \in {"alive", "doomed", "deleted"}, started \in BOOLEAN, crashed \in BOOLEAN,
         GreeterDone(st, p)
  PROVE  LifeStep
<1>1. CASE StopsDisplay(st)
  BY <1>1, StopIsOneStep DEF GreeterDone
<1>2. CASE ~StopsDisplay(st) /\ st = "DISPLAYSERVER_ERROR"
  BY <1>2, StopIsOneStep DEF GreeterDone
<1>3. CASE ~StopsDisplay(st) /\ st # "DISPLAYSERVER_ERROR"
  BY <1>3 DEF GreeterDone, LifeStep, OneLife, Lifecycle!vars
<1> QED
  BY <1>1, <1>2, <1>3

LEMMA StepOfLife == TypeOK /\ OneLife /\ [Next]_vars => LifeStep
<1> SUFFICES ASSUME TypeOK, OneLife, [Next]_vars PROVE LifeStep
  OBVIOUS
<1>1. life \in {"alive", "doomed", "deleted"} /\ started \in BOOLEAN /\ crashed \in BOOLEAN
  BY DEF TypeOK
<1>2. CASE UNCHANGED <<life, started, emitted, crashed>>
  BY <1>2 DEF LifeStep, OneLife, Lifecycle!vars
<1>3. CASE Start
  BY <1>1, <1>2, <1>3
     DEF Start, Running, LifeStep, OneLife, Lifecycle!vars, Lifecycle!Next, Lifecycle!Begin
<1>4. CASE GiveUp
  BY <1>1, <1>4
     DEF GiveUp, Running, LifeStep, OneLife, Lifecycle!vars, Lifecycle!Next, Lifecycle!GiveUp
<1>5. CASE Destroy
  <2>1. CASE gStarted /\ ~gAuth
    BY <1>1, <1>5, <2>1
       DEF Destroy, Running, LifeStep, OneLife, Lifecycle!vars, Lifecycle!Next, Lifecycle!Crash
  <2>2. CASE ~(gStarted /\ ~gAuth)
    BY <1>1, <1>5, <2>2
       DEF Destroy, Running, LifeStep, OneLife, Lifecycle!vars, Lifecycle!Next, Lifecycle!Delete
  <2> QED
    BY <2>1, <2>2
<1>6. CASE HelperFinished
  <2>1. CASE fate = "AUTH_ERROR"
    BY <1>2, <1>6, <2>1 DEF HelperFinished
  <2>2. CASE fate # "AUTH_ERROR"
    BY <1>1, <1>6, <2>2, StopIsOneStep DEF HelperFinished
  <2> QED
    BY <2>1, <2>2
<1>7. CASE GreeterFinished
  BY <1>1, <1>7, GreeterDoneIsOneStep DEF GreeterFinished
<1>8. CASE StopGreeter
  <2>1. CASE ~gStarted
    BY <1>2, <1>8, <2>1 DEF StopGreeter, stopVars
  <2>2. CASE gStarted /\ ~gAuth
    BY <1>1, <1>8, <2>2
       DEF StopGreeter, Running, LifeStep, OneLife, Lifecycle!vars, Lifecycle!Next,
           Lifecycle!Crash
  <2>3. CASE \E g \in AuthStop(gChild, gFate) : GreeterDone(g.done, child)
    BY <1>1, <1>8, <2>3, GreeterDoneIsOneStep DEF StopGreeter
  <2> QED
    BY <1>2, <1>8, <2>1, <2>2, <2>3 DEF StopGreeter
<1>9. CASE Greeters \/ Helper \/ GreeterHelper \/ DisplayServerStarted \/ HandleFrame
           \/ GreeterSessionStarted \/ GreeterAuthDeleted \/ UNCHANGED vars
  <2>1. UNCHANGED <<life, started, emitted, crashed>>
    BY <1>9 DEF Greeters, Connect, Disconnect, Login, Helper, HelperAsks, HelperRefuses,
                HelperAccepts, HelperOpens, SessionEnds, HelperCrashes, HelperStep,
                GreeterHelper, GreeterReports, GreeterAsks, GreeterEnds, GreeterStep,
                DisplayServerStarted, HandleFrame, GreeterSessionStarted,
                GreeterAuthDeleted, objectVars, vars
  <2> QED
    BY <1>2, <2>1
<1> QED
  BY <1>3, <1>4, <1>5, <1>6, <1>7, <1>8, <1>9 DEF Next, Seat, EventLoop

(* A display implements the lifecycle its seat relies on (LivesOnce).      *)
THEOREM DisplaysLiveOnce == Spec => LivesOnce
<1>1. Init => OneLife /\ Lifecycle!Init
  BY DEF Init, OneLife, Lifecycle!Init
<1>2. TypeOK /\ OneLife /\ [Next]_vars => OneLife' /\ [Lifecycle!Next]_(Lifecycle!vars)
  BY StepOfLife DEF LifeStep
<1> QED
  BY TypeCorrect, <1>1, <1>2, PTL DEF Spec, LivesOnce, Lifecycle!Spec

=============================================================================

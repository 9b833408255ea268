------------------------------ MODULE HelperProofs ------------------------------
(***************************************************************************)
(* What holds of every helper, whatever it was started for and however     *)
(* sessions end, of the processes of an X11 session, and of the answers to *)
(* PAM's prompts; and of the three together.                               *)
(***************************************************************************)
EXTENDS HelperSide, SequenceTheorems, TLAPS

(* Before the session is opened nothing of it is there; PAM is asked only  *)
(* by doAuth(), and the verdict is what doAuth() has come to.              *)
NothingYet ==
  /\ at # "gone" => ended = "no"
  /\ asking => at \in {"auth", "acct"}
  /\ at \in {"start", "auth", "acct", "vouched"} =>
       status = "none" /\ session = "none" /\ env = "none" /\ ~open /\ ~cred
  /\ at \in {"start", "auth", "acct"} => verdict = "none"
  /\ at \in {"vouched", "opening", "reporting", "loop"} => verdict = "yes"
  /\ at = "opening" => status = "none" /\ session = "none"

(* PAM's session lies inside its credentials and a process inside both,    *)
(* until closeSession(); what was reported tells whether there is one.     *)
Nested ==
  /\ at = "reporting" => status # "none"
  /\ at = "loop" => status = "ok"
  /\ open => cred
  /\ status = "ok" => verdict = "yes" /\ (at # "gone" => open)
  /\ cred /\ ~open /\ at \notin {"opening", "gone"} => status = "failed"
  /\ session = "running" => status = "ok" /\ env = "daemon" /\ at # "closing"
  /\ at = "gone" /\ ended # "killed" =>
       /\ ~open /\ session # "running"
       /\ cred => status = "failed"

(* exit() was called with a code that fits what the daemon was told.       *)
CodeFits == at \in {"left", "stopping", "closing"} => code \in Contract!Fitting

(* The inductive invariant.                                                *)
HelperIInv == HelperTypeOK /\ NothingYet /\ Nested /\ CodeFits

-------------------------------------------------------------------------------
(* Every step keeps the types.                                             *)
LEMMA TypeStep ==
  ASSUME HelperTypeOK, [HelperNext]_helperVars
  PROVE  HelperTypeOK'
<1> USE DEF HelperTypeOK
<1>1. CASE NoServer
  BY <1>1 DEF NoServer, Leave, pamVars, procVars, toldVars, Codes
<1>2. CASE Connect
  BY <1>2 DEF Connect, Refuse, Leave, pamVars, procVars, Codes
<1>3. CASE Asks
  BY <1>3 DEF Asks, pamVars, procVars, toldVars
<1>4. CASE Answer
  <2>1. asking' \in BOOLEAN /\ UNCHANGED <<job, daemon, term, at, env, pamVars, procVars, code, toldVars>>
    BY <1>4 DEF Answer
  <2> QED
    BY <2>1 DEF pamVars, procVars, toldVars
<1>5. CASE NoAnswer
  <2>1. /\ asking' \in BOOLEAN /\ at' = "left" /\ code' = "AUTH_ERROR" /\ verdict' = "no"
        /\ UNCHANGED <<job, daemon, term, env, pamVars, procVars, status, ended>>
    BY <1>5 DEF NoAnswer, Refuse, Leave
  <2> QED
    BY <2>1 DEF pamVars, procVars, Codes
<1>6. CASE Passes
  BY <1>6 DEF Passes, pamVars, procVars
<1>7. CASE Fails
  BY <1>7 DEF Fails, Refuse, Leave, pamVars, procVars, Codes
<1>8. CASE GotEnvironment
  BY <1>8 DEF GotEnvironment, Leave, pamVars, procVars, toldVars, Codes
<1>9. CASE SetCred
  <2>1. /\ cred' \in BOOLEAN /\ at' \in {at, "reporting"} /\ status' \in {status, "failed"}
        /\ UNCHANGED <<job, daemon, term, asking, env, open, procVars, code, verdict, ended>>
    BY <1>9 DEF SetCred, Reported
  <2> QED
    BY <2>1 DEF procVars
<1>10. CASE OpenSession
  <2>1. /\ open' \in BOOLEAN /\ at' \in {at, "reporting"} /\ status' \in {status, "failed"}
        /\ UNCHANGED <<job, daemon, term, asking, env, cred, procVars, code, verdict, ended>>
    BY <1>10 DEF OpenSession, Reported
  <2> QED
    BY <2>1 DEF procVars
<1>11. CASE StartSession
  BY <1>11 DEF StartSession, Reported, pamVars
<1>12. CASE SessionOpened
  BY <1>12 DEF SessionOpened, Leave, pamVars, procVars, toldVars, Codes
<1>13. CASE SessionFinished
  BY <1>13 DEF SessionFinished, Leave, pamVars, procVars, toldVars, Codes
<1>14. CASE SigtermReceived
  BY <1>14 DEF SigtermReceived, Leave, pamVars, procVars, toldVars, Codes
<1>15. CASE StopSession
  BY <1>15 DEF StopSession, pamVars, procVars, toldVars
<1>16. CASE SessionStopped
  BY <1>16 DEF SessionStopped, pamVars, procVars, toldVars
<1>17. CASE KillSession
  BY <1>17 DEF KillSession, pamVars, toldVars
<1>18. CASE CloseSession
  BY <1>18 DEF CloseSession, procVars
<1>19. CASE SessionEnds
  BY <1>19 DEF SessionEnds, pamVars, toldVars, Codes
<1>20. CASE DaemonLost
  BY <1>20 DEF DaemonLost, pamVars, procVars, toldVars
<1>21. CASE Terminate
  BY <1>21 DEF Terminate, pamVars, procVars, toldVars
<1>22. CASE Kill
  BY <1>22 DEF Kill, pamVars, procVars
<1>23. CASE UNCHANGED helperVars
  BY <1>23 DEF helperVars, pamVars, procVars, toldVars
<1> QED
  BY <1>1, <1>2, <1>3, <1>4, <1>5, <1>6, <1>7, <1>8, <1>9, <1>10, <1>11,
     <1>12, <1>13, <1>14, <1>15, <1>16, <1>17, <1>18, <1>19, <1>20, <1>21, <1>22, <1>23
     DEF HelperNext, DoAuth, EventLoop, Destructor, Pam, Environment

(* doAuth() goes through its places in order and nothing is there early.   *)
LEMMA NothingYetStep ==
  ASSUME HelperIInv, [HelperNext]_helperVars
  PROVE  NothingYet'
<1> USE DEF HelperIInv, HelperTypeOK, NothingYet
<1>1. CASE NoServer
  BY <1>1 DEF NoServer, Leave, pamVars, procVars, toldVars
<1>2. CASE Connect
  BY <1>2 DEF Connect, Refuse, Leave, pamVars, procVars
<1>3. CASE Asks
  BY <1>3 DEF Asks, pamVars, procVars, toldVars
<1>4. CASE Answer
  BY <1>4 DEF Answer, pamVars, procVars, toldVars
<1>5. CASE NoAnswer
  BY <1>5 DEF NoAnswer, Refuse, Leave, pamVars, procVars
<1>6. CASE Passes
  BY <1>6 DEF Passes, pamVars, procVars
<1>7. CASE Fails
  BY <1>7 DEF Fails, Refuse, Leave, pamVars, procVars
<1>8. CASE GotEnvironment
  BY <1>8 DEF GotEnvironment, Leave, pamVars, procVars, toldVars
<1>9. CASE SetCred
  BY <1>9 DEF SetCred, Reported, procVars
<1>10. CASE OpenSession
  BY <1>10 DEF OpenSession, Reported, procVars
<1>11. CASE StartSession
  BY <1>11 DEF StartSession, Reported, pamVars
<1>12. CASE SessionOpened
  BY <1>12 DEF SessionOpened, Leave, pamVars, procVars, toldVars
<1>13. CASE SessionFinished
  BY <1>13 DEF SessionFinished, Leave, pamVars, procVars, toldVars
<1>14. CASE SigtermReceived
  BY <1>14 DEF SigtermReceived, Leave, pamVars, procVars, toldVars
<1>15. CASE StopSession
  BY <1>15 DEF StopSession, pamVars, procVars, toldVars
<1>16. CASE SessionStopped
  BY <1>16 DEF SessionStopped, pamVars, procVars, toldVars
<1>17. CASE KillSession
  BY <1>17 DEF KillSession, pamVars, toldVars
<1>18. CASE CloseSession
  BY <1>18 DEF CloseSession, procVars
<1>19. CASE SessionEnds
  BY <1>19 DEF SessionEnds, pamVars, toldVars
<1>20. CASE DaemonLost
  BY <1>20 DEF DaemonLost, pamVars, procVars, toldVars
<1>21. CASE Terminate
  BY <1>21 DEF Terminate, pamVars, procVars, toldVars
<1>22. CASE Kill
  BY <1>22 DEF Kill, pamVars, procVars
<1>23. CASE UNCHANGED helperVars
  BY <1>23 DEF helperVars, pamVars, procVars, toldVars
<1> QED
  BY <1>1, <1>2, <1>3, <1>4, <1>5, <1>6, <1>7, <1>8, <1>9, <1>10, <1>11,
     <1>12, <1>13, <1>14, <1>15, <1>16, <1>17, <1>18, <1>19, <1>20, <1>21, <1>22, <1>23
     DEF HelperNext, DoAuth, EventLoop, Destructor, Pam, Environment

(* The session opens from the outside in and is closed from the inside.    *)
LEMMA NestedStep ==
  ASSUME HelperIInv, [HelperNext]_helperVars
  PROVE  Nested'
<1> USE DEF HelperIInv, HelperTypeOK, NothingYet, Nested
<1>1. CASE NoServer
  BY <1>1 DEF NoServer, Leave, pamVars, procVars, toldVars
<1>2. CASE Connect
  BY <1>2 DEF Connect, Refuse, Leave, pamVars, procVars
<1>3. CASE Asks
  BY <1>3 DEF Asks, pamVars, procVars, toldVars
<1>4. CASE Answer
  BY <1>4 DEF Answer, pamVars, procVars, toldVars
<1>5. CASE NoAnswer
  BY <1>5 DEF NoAnswer, Refuse, Leave, pamVars, procVars
<1>6. CASE Passes
  BY <1>6 DEF Passes, pamVars, procVars
<1>7. CASE Fails
  BY <1>7 DEF Fails, Refuse, Leave, pamVars, procVars
<1>8. CASE GotEnvironment
  BY <1>8 DEF GotEnvironment, Leave, pamVars, procVars, toldVars
<1>9. CASE SetCred
  BY <1>9 DEF SetCred, Reported, procVars
<1>10. CASE OpenSession
  BY <1>10 DEF OpenSession, Reported, procVars
<1>11. CASE StartSession
  BY <1>11 DEF StartSession, Reported, pamVars
<1>12. CASE SessionOpened
  BY <1>12 DEF SessionOpened, Leave, pamVars, procVars, toldVars
<1>13. CASE SessionFinished
  BY <1>13 DEF SessionFinished, Leave, pamVars, procVars, toldVars
<1>14. CASE SigtermReceived
  BY <1>14 DEF SigtermReceived, Leave, pamVars, procVars, toldVars
<1>15. CASE StopSession
  BY <1>15 DEF StopSession, pamVars, procVars, toldVars
<1>16. CASE SessionStopped
  BY <1>16 DEF SessionStopped, pamVars, procVars, toldVars
<1>17. CASE KillSession
  BY <1>17 DEF KillSession, pamVars, toldVars
<1>18. CASE CloseSession
  BY <1>18 DEF CloseSession, procVars
<1>19. CASE SessionEnds
  BY <1>19 DEF SessionEnds, pamVars, toldVars
<1>20. CASE DaemonLost
  BY <1>20 DEF DaemonLost, pamVars, procVars, toldVars
<1>21. CASE Terminate
  BY <1>21 DEF Terminate, pamVars, procVars, toldVars
<1>22. CASE Kill
  BY <1>22 DEF Kill, pamVars, procVars
<1>23. CASE UNCHANGED helperVars
  BY <1>23 DEF helperVars, pamVars, procVars, toldVars
<1> QED
  BY <1>1, <1>2, <1>3, <1>4, <1>5, <1>6, <1>7, <1>8, <1>9, <1>10, <1>11,
     <1>12, <1>13, <1>14, <1>15, <1>16, <1>17, <1>18, <1>19, <1>20, <1>21, <1>22, <1>23
     DEF HelperNext, DoAuth, EventLoop, Destructor, Pam, Environment

(* Every way out of doAuth() and of the event loop has its code.           *)
LEMMA CodeFitsStep ==
  ASSUME HelperIInv, [HelperNext]_helperVars
  PROVE  CodeFits'
<1> USE DEF HelperIInv, HelperTypeOK, NothingYet, Nested, CodeFits, Contract!Fitting
<1>1. CASE NoServer
  BY <1>1 DEF NoServer, Leave, pamVars, procVars, toldVars
<1>2. CASE Connect
  BY <1>2 DEF Connect, Refuse, Leave, pamVars, procVars
<1>3. CASE Asks
  BY <1>3 DEF Asks, pamVars, procVars, toldVars
<1>4. CASE Answer
  BY <1>4 DEF Answer, pamVars, procVars, toldVars
<1>5. CASE NoAnswer
  BY <1>5 DEF NoAnswer, Refuse, Leave, pamVars, procVars
<1>6. CASE Passes
  BY <1>6 DEF Passes, pamVars, procVars
<1>7. CASE Fails
  BY <1>7 DEF Fails, Refuse, Leave, pamVars, procVars
<1>8. CASE GotEnvironment
  BY <1>8 DEF GotEnvironment, Leave, pamVars, procVars, toldVars
<1>9. CASE SetCred
  BY <1>9 DEF SetCred, Reported, procVars
<1>10. CASE OpenSession
  BY <1>10 DEF OpenSession, Reported, procVars
<1>11. CASE StartSession
  BY <1>11 DEF StartSession, Reported, pamVars
<1>12. CASE SessionOpened
  BY <1>12 DEF SessionOpened, Leave, pamVars, procVars, toldVars
<1>13. CASE SessionFinished
  BY <1>13 DEF SessionFinished, Leave, pamVars, procVars, toldVars
<1>14. CASE SigtermReceived
  BY <1>14 DEF SigtermReceived, Leave, pamVars, procVars, toldVars, Codes
<1>15. CASE StopSession
  BY <1>15 DEF StopSession, pamVars, procVars, toldVars
<1>16. CASE SessionStopped
  BY <1>16 DEF SessionStopped, pamVars, procVars, toldVars
<1>17. CASE KillSession
  BY <1>17 DEF KillSession, pamVars, toldVars
<1>18. CASE CloseSession
  BY <1>18 DEF CloseSession, procVars
<1>19. CASE SessionEnds
  BY <1>19 DEF SessionEnds, pamVars, toldVars
<1>20. CASE DaemonLost
  BY <1>20 DEF DaemonLost, pamVars, procVars, toldVars
<1>21. CASE Terminate
  BY <1>21 DEF Terminate, pamVars, procVars, toldVars
<1>22. CASE Kill
  BY <1>22 DEF Kill, pamVars, procVars
<1>23. CASE UNCHANGED helperVars
  BY <1>23 DEF helperVars, pamVars, procVars, toldVars
<1> QED
  BY <1>1, <1>2, <1>3, <1>4, <1>5, <1>6, <1>7, <1>8, <1>9, <1>10, <1>11,
     <1>12, <1>13, <1>14, <1>15, <1>16, <1>17, <1>18, <1>19, <1>20, <1>21, <1>22, <1>23
     DEF HelperNext, DoAuth, EventLoop, Destructor, Pam, Environment

(* The inductive invariant holds always.                                   *)
LEMMA HelperInvariant == HelperSpec => []HelperIInv
<1>1. HelperInit => HelperIInv
  BY JobsAssumption
     DEF HelperInit, HelperIInv, HelperTypeOK, NothingYet, Nested, CodeFits, Codes
<1>2. HelperIInv /\ [HelperNext]_helperVars => HelperIInv'
  BY TypeStep, NothingYetStep, NestedStep, CodeFitsStep DEF HelperIInv
<1> QED
  BY <1>1, <1>2, PTL DEF HelperSpec

-------------------------------------------------------------------------------
(* Every variable has its type (HelperTypeOK).                             *)
THEOREM HelperTypeCorrect == HelperSpec => []HelperTypeOK
<1>1. HelperIInv => HelperTypeOK
  BY DEF HelperIInv
<1> QED
  BY HelperInvariant, <1>1, PTL

(* No session runs without the user PAM accepted, the daemon's environment *)
(* and an open PAM session around it (SessionIsBacked).                    *)
THEOREM SessionsAreBacked == HelperSpec => []SessionIsBacked
<1>1. HelperIInv => SessionIsBacked
  BY DEF HelperIInv, HelperTypeOK, NothingYet, Nested, SessionIsBacked
<1> QED
  BY HelperInvariant, <1>1, PTL

(* A helper that ends by itself leaves neither a process nor a PAM session *)
(* behind (CleanExit).                                                     *)
THEOREM HelpersLeaveClean == HelperSpec => []CleanExit
<1>1. HelperIInv => CleanExit
  BY DEF HelperIInv, Nested, CleanExit
<1> QED
  BY HelperInvariant, <1>1, PTL

(* A step of the helper is a step of the contract or none.                 *)
LEMMA StepOfContract ==
  ASSUME HelperIInv, [HelperNext]_helperVars
  PROVE  [Contract!ContractNext]_(Contract!contractVars)
<1> USE DEF HelperIInv, HelperTypeOK, NothingYet, Nested, CodeFits,
            Contract!ContractNext, Contract!contractVars
<1>1. CASE NoServer
  BY <1>1 DEF NoServer, Leave, pamVars, procVars, toldVars
<1>2. CASE Connect
  BY <1>2 DEF Connect, Refuse, Leave, pamVars, procVars, Contract!Judge
<1>3. CASE Asks
  BY <1>3 DEF Asks, pamVars, procVars, toldVars
<1>4. CASE Answer
  BY <1>4 DEF Answer, pamVars, procVars, toldVars
<1>5. CASE NoAnswer
  BY <1>5 DEF NoAnswer, Refuse, Leave, pamVars, procVars, Contract!Judge
<1>6. CASE Passes
  BY <1>6 DEF Passes, pamVars, procVars, Contract!Judge
<1>7. CASE Fails
  BY <1>7 DEF Fails, Refuse, Leave, pamVars, procVars, Contract!Judge
<1>8. CASE GotEnvironment
  BY <1>8 DEF GotEnvironment, Leave, pamVars, procVars, toldVars
<1>9. CASE SetCred
  BY <1>9 DEF SetCred, Reported, procVars, Contract!Report
<1>10. CASE OpenSession
  BY <1>10 DEF OpenSession, Reported, procVars, Contract!Report
<1>11. CASE StartSession
  BY <1>11 DEF StartSession, Reported, pamVars, Contract!Report
<1>12. CASE SessionOpened
  BY <1>12 DEF SessionOpened, Leave, pamVars, procVars, toldVars
<1>13. CASE SessionFinished
  BY <1>13 DEF SessionFinished, Leave, pamVars, procVars, toldVars
<1>14. CASE SigtermReceived
  BY <1>14 DEF SigtermReceived, Leave, pamVars, procVars, toldVars
<1>15. CASE StopSession
  BY <1>15 DEF StopSession, pamVars, procVars, toldVars
<1>16. CASE SessionStopped
  BY <1>16 DEF SessionStopped, pamVars, procVars, toldVars
<1>17. CASE KillSession
  BY <1>17 DEF KillSession, pamVars, toldVars
<1>18. CASE CloseSession
  BY <1>18 DEF CloseSession, procVars, Contract!End
<1>19. CASE SessionEnds
  BY <1>19 DEF SessionEnds, pamVars, toldVars
<1>20. CASE DaemonLost
  BY <1>20 DEF DaemonLost, pamVars, procVars, toldVars
<1>21. CASE Terminate
  BY <1>21 DEF Terminate, pamVars, procVars, toldVars
<1>22. CASE Kill
  BY <1>22 DEF Kill, pamVars, procVars, Contract!End
<1>23. CASE UNCHANGED helperVars
  BY <1>23 DEF helperVars, toldVars
<1> QED
  BY <1>1, <1>2, <1>3, <1>4, <1>5, <1>6, <1>7, <1>8, <1>9, <1>10, <1>11,
     <1>12, <1>13, <1>14, <1>15, <1>16, <1>17, <1>18, <1>19, <1>20, <1>21, <1>22, <1>23
     DEF HelperNext, DoAuth, EventLoop, Destructor, Pam, Environment

(* A helper keeps the contract the daemon relies on (KeepsContract).       *)
THEOREM HelpersKeepContract == HelperSpec => KeepsContract
<1>1. HelperInit => Contract!ContractInit
  BY DEF HelperInit, Contract!ContractInit
<1>2. HelperIInv /\ [HelperNext]_helperVars => [Contract!ContractNext]_(Contract!contractVars)
  BY StepOfContract
<1> QED
  BY HelperInvariant, <1>1, <1>2, PTL DEF HelperSpec, KeepsContract, Contract!ContractSpec

-------------------------------------------------------------------------------
(* XSession.  Where its process is tells what it has started and run.      *)
Progress ==
  /\ xAt \in {"init", "server", "display", "setup", "loop", "stopping", "returning", "exited"}
  /\ server \in {"none", "running", "ended"} /\ client \in {"none", "running", "ended"}
  /\ starts \in BOOLEAN
  /\ scripts \in [setup : {0, 1}, stop : {0, 1}]
  /\ xAt = "init" => server = "none"
  /\ xAt \in {"init", "server"} => client = "none" /\ ~starts
  /\ xAt \in {"init", "server", "display", "setup"} => scripts.setup = 0
  /\ xAt \in {"loop", "stopping"} => scripts.setup = 1
  /\ xAt \notin {"returning", "exited"} => scripts.stop = 0 /\ xCode = "SUCCESS"
  /\ xAt = "returning" =>
       /\ scripts.stop = scripts.setup
       /\ xCode = IF scripts.setup = 1 THEN "SUCCESS" ELSE "DISPLAYSERVER_ERROR"
  /\ DisplayIsTakenDown

LEMMA ProgressInit == XInit => Progress
<1> SUFFICES ASSUME XInit PROVE Progress
  OBVIOUS
<1>1. scripts \in [setup : {0, 1}, stop : {0, 1}] /\ scripts.setup = 0 /\ scripts.stop = 0
  BY DEF XInit
<1> QED
  BY <1>1 DEF XInit, Progress, DisplayIsTakenDown

(* The steps of the process, of the server and of the client.              *)
LEMMA ProgressStep ==
  ASSUME Progress, [XNext]_xVars
  PROVE  Progress'
<1> USE DEF Progress, DisplayIsTakenDown
<1>1. CASE StartServer
  BY <1>1 DEF StartServer, GiveUpDisplay
<1>2. CASE NoDisplayNumber
  BY <1>2 DEF NoDisplayNumber, GiveUpDisplay
<1>3. CASE DisplayChanged
  BY <1>3 DEF DisplayChanged
<1>4. CASE AddCookie
  BY <1>4 DEF AddCookie, GiveUpDisplay
<1>5. CASE StartDisplayCommand
  BY <1>5 DEF StartDisplayCommand
<1>6. CASE Quit
  BY <1>6 DEF Quit
<1>7. CASE StopServer
  BY <1>7 DEF StopServer
<1>8. CASE Return
  BY <1>8 DEF Return, Ended
<1>9. CASE ServerEnds
  BY <1>9 DEF ServerEnds
<1>10. CASE ClientStarts
  BY <1>10 DEF ClientStarts
<1>11. CASE ClientEnds
  BY <1>11 DEF ClientEnds
<1>12. CASE AskStop
  BY <1>12 DEF AskStop
<1>13. CASE KillHelper
  BY <1>13 DEF KillHelper
<1>14. CASE UNCHANGED xVars
  BY <1>14 DEF xVars
<1> QED
  BY <1>1, <1>2, <1>3, <1>4, <1>5, <1>6, <1>7, <1>8, <1>9, <1>10, <1>11, <1>12, <1>13, <1>14
     DEF XNext, XOwnSteps

(* The process ends before it has become the helper of the session.        *)
LEMMA ProgressEarly ==
  ASSUME Progress, xAt = "init", xAt' = "exited", xCode' # "SUCCESS",
         UNCHANGED <<server, client, starts, stopAsked, scripts>>
  PROVE  Progress'
BY DEF Progress, DisplayIsTakenDown

(* On its own, a process that ends by itself has taken its display down    *)
(* (DisplayIsTakenDown).                                                   *)
THEOREM DisplaysAreTakenDown == XSpec => []DisplayIsTakenDown
<1>1. Progress => DisplayIsTakenDown
  BY DEF Progress
<1> QED
  BY <1>1, ProgressInit, ProgressStep, PTL DEF XSpec
-------------------------------------------------------------------------------
(* Conversation.  PAM's single messages: what the folds do with them.      *)
Take(data, m) ==
  CASE m \in Types    -> InsertPrompt(data, m, TRUE)
    [] m = "changing" -> HandleInfo(data, TRUE)
    [] OTHER          -> data

LEMMA GatheredOne ==
  ASSUME NEW m
  PROVE  Gathered(<<m>>) = Take([prompts |-> prompts, sent |-> sent, new |-> FALSE], m)
<1> DEFINE l == <<m>>
           base == [prompts |-> prompts, sent |-> sent, new |-> FALSE]
           op(data, x) == CASE x \in Types    -> InsertPrompt(data, x, Len(l) = 1)
                            [] x = "changing" -> HandleInfo(data, Len(l) = 1)
                            [] OTHER          -> data
           Is(f) == f = [s \in SUBSET (DOMAIN l) |->
                           IF s = {} THEN base ELSE LET x == Max(s) IN op(f[s \ {x}], l[x])]
           fold == CHOOSE f : Is(f)
<1>1. Gathered(<<m>>) = fold[DOMAIN l]
  BY Zenon DEF Gathered, FoldLeft, MapThenFoldSet
<1>2. DOMAIN l = {1} /\ l[1] = m /\ Len(l) = 1 /\ SUBSET {1} = {{}, {1}} /\ Max({1}) = 1
  BY DEF Max
<1>3. \A d, x : op(d, x) = Take(d, x)
  BY <1>2, Zenon DEF Take
<1> HIDE DEF op, l, base
<1>4. \E f : Is(f)
  <2> DEFINE g == [s \in SUBSET (DOMAIN l) |-> IF s = {} THEN base ELSE op(base, m)]
             h == [s \in SUBSET (DOMAIN l) |->
                     IF s = {} THEN base ELSE LET x == Max(s) IN op(g[s \ {x}], l[x])]
  <2>1. g[{}] = base
    BY {} \in SUBSET DOMAIN l, Zenon
  <2>2. ASSUME NEW s \in SUBSET (DOMAIN l) PROVE g[s] = h[s]
    <3>1. CASE s = {}
      BY <3>1, Zenon
    <3>2. CASE s = {1}
      <4>1. s \ {Max(s)} = {} /\ l[Max(s)] = m
        BY <1>2, <3>2
      <4>2. h[s] = op(g[s \ {Max(s)}], l[Max(s)])
        BY <3>2, Zenon
      <4>3. g[s] = op(base, m)
        BY <3>2, Zenon
      <4> HIDE DEF g, h
      <4> QED
        BY <2>1, <4>1, <4>2, <4>3
    <3> QED
      BY <1>2, <3>1, <3>2
  <2>3. g = h
    BY <2>2, Zenon
  <2> QED
    BY <2>3
<1>5. Is(fold)
  <2> HIDE DEF Is
  <2> QED
    BY <1>4
<1> HIDE DEF fold
<1>6. fold[{}] = base
  BY <1>5, {} \in SUBSET DOMAIN l, Zenon
<1>7. fold[{1}] = op(fold[{}], m)
  <2>1. {1} \in SUBSET DOMAIN l /\ {1} # {}
    BY <1>2
  <2>2. fold[{1}] = op(fold[{1} \ {Max({1})}], l[Max({1})])
    BY <1>5, <2>1, Zenon
  <2>3. {1} \ {Max({1})} = {} /\ l[Max({1})] = m
    BY <1>2
  <2> QED
    BY <2>2, <2>3
<1> QED
  BY <1>1, <1>2, <1>3, <1>6, <1>7 DEF base

LEMMA AnsweredOne ==
  ASSUME NEW m, NEW data
  PROVE  FoldLeft(GetResponse, data, <<m>>) = GetResponse(data, m)
<1> DEFINE l == <<m>>
           Is(f) == f = [s \in SUBSET (DOMAIN l) |->
                           IF s = {} THEN data
                           ELSE LET x == Max(s) IN GetResponse(f[s \ {x}], l[x])]
           fold == CHOOSE f : Is(f)
<1>1. FoldLeft(GetResponse, data, <<m>>) = fold[DOMAIN l]
  BY Zenon DEF FoldLeft, MapThenFoldSet
<1>2. DOMAIN l = {1} /\ l[1] = m /\ Len(l) = 1 /\ SUBSET {1} = {{}, {1}} /\ Max({1}) = 1
  BY DEF Max
<1> HIDE DEF l
<1>3. \E f : Is(f)
  <2> DEFINE g == [s \in SUBSET (DOMAIN l) |-> IF s = {} THEN data ELSE GetResponse(data, m)]
             h == [s \in SUBSET (DOMAIN l) |->
                     IF s = {} THEN data ELSE LET x == Max(s) IN GetResponse(g[s \ {x}], l[x])]
  <2>1. g[{}] = data
    BY {} \in SUBSET DOMAIN l, Zenon
  <2>2. ASSUME NEW s \in SUBSET (DOMAIN l) PROVE g[s] = h[s]
    <3>1. CASE s = {}
      BY <3>1, Zenon
    <3>2. CASE s = {1}
      <4>1. s \ {Max(s)} = {} /\ l[Max(s)] = m
        BY <1>2, <3>2
      <4>2. h[s] = GetResponse(g[s \ {Max(s)}], l[Max(s)])
        BY <3>2, Zenon
      <4>3. g[s] = GetResponse(data, m)
        BY <3>2, Zenon
      <4> HIDE DEF g, h
      <4> QED
        BY <2>1, <4>1, <4>2, <4>3
    <3> QED
      BY <1>2, <3>1, <3>2
  <2>3. g = h
    BY <2>2, Zenon
  <2> QED
    BY <2>3
<1>4. Is(fold)
  <2> HIDE DEF Is
  <2> QED
    BY <1>3
<1> HIDE DEF fold
<1>5. fold[{}] = data
  BY <1>4, {} \in SUBSET DOMAIN l, Zenon
<1>6. fold[{1}] = GetResponse(fold[{}], m)
  <2>1. {1} \in SUBSET DOMAIN l /\ {1} # {}
    BY <1>2
  <2>2. fold[{1}] = GetResponse(fold[{1} \ {Max({1})}], l[Max({1})])
    BY <1>4, <2>1, Zenon
  <2>3. {1} \ {Max({1})} = {} /\ l[Max({1})] = m
    BY <1>2
  <2> QED
    BY <2>2, <2>3
<1> QED
  BY <1>1, <1>2, <1>5, <1>6

(* New prompts have no responses.                                          *)
LEMMA BlankPrompts ==
  ASSUME NEW ts \in Seq(Types)
  PROVE  /\ Blank(ts) \in Seq(Prompt) /\ Len(Blank(ts)) = Len(ts)
         /\ \A i \in 1 .. Len(ts) : Blank(ts)[i].type = ts[i] /\ Blank(ts)[i].response = "empty"
<1> DEFINE k == Len(ts)
           b == [i \in 1 .. k |-> [type |-> ts[i], response |-> "empty"]]
<1>1. k \in Nat /\ \A i \in 1 .. k : ts[i] \in Types
  OBVIOUS
<1>2. Blank(ts) = b
  BY DEF Blank
<1>3. \A i \in 1 .. k : [type |-> ts[i], response |-> "empty"] \in Prompt
  BY <1>1 DEF Prompt
<1> HIDE DEF k
<1>4. b \in [1 .. k -> Prompt] /\ \A i \in 1 .. k : b[i] = [type |-> ts[i], response |-> "empty"]
  BY <1>3
<1> HIDE DEF b
<1>5. b \in Seq(Prompt)
  BY <1>1, <1>4, SeqDef
<1>6. Len(b) = k
  <2>1. DOMAIN b = 1 .. Len(b) /\ Len(b) \in Nat
    BY <1>5, LenProperties
  <2> QED
    BY <1>1, <1>4, <2>1
<1> QED
  BY <1>2, <1>4, <1>5, <1>6 DEF k

(* A response that is given is forgotten, and no other.                    *)
LEMMA RemoveAtRemoves ==
  ASSUME NEW ps \in Seq(Prompt), NEW i \in 1 .. Len(ps)
  PROVE  /\ RemoveAt(ps, i) \in Seq(Prompt) /\ Len(RemoveAt(ps, i)) = Len(ps) - 1
         /\ \A j \in 1 .. Len(ps) - 1 : RemoveAt(ps, i)[j] = IF j < i THEN ps[j] ELSE ps[j + 1]
<1> DEFINE a == SubSeq(ps, 1, i - 1)
           b == SubSeq(ps, i + 1, Len(ps))
<1>1. PICK k \in Nat : k = Len(ps)
  OBVIOUS
<1>2. a \in Seq(Prompt) /\ Len(a) = i - 1 /\ \A j \in 1 .. i - 1 : a[j] = ps[j]
  OBVIOUS
<1>3. b \in Seq(Prompt) /\ Len(b) = k - i /\ \A j \in 1 .. k - i : b[j] = ps[i + j]
  BY <1>1
<1>4. RemoveAt(ps, i) = a \o b
  BY DEF RemoveAt
<1> HIDE DEF a, b
<1>5. /\ a \o b \in Seq(Prompt) /\ Len(a \o b) = Len(a) + Len(b)
      /\ \A j \in 1 .. Len(a) + Len(b) :
           (a \o b)[j] = IF j <= Len(a) THEN a[j] ELSE b[j - Len(a)]
  BY <1>2, <1>3, ConcatProperties
<1>6. ASSUME NEW j \in 1 .. k - 1 PROVE (a \o b)[j] = IF j < i THEN ps[j] ELSE ps[j + 1]
  <2>1. CASE j < i
    BY <1>1, <1>2, <1>3, <1>5, <2>1
  <2>2. CASE j >= i
    <3>1. j - (i - 1) \in 1 .. k - i /\ i + (j - (i - 1)) = j + 1
      BY <1>1, <2>2
    <3>2. (a \o b)[j] = b[j - (i - 1)]
      BY <1>1, <1>2, <1>3, <1>5, <2>2
    <3> QED
      BY <1>3, <2>2, <3>1, <3>2
  <2>3. j < i \/ j >= i
    BY <1>1
  <2> QED
    BY <2>1, <2>2, <2>3
<1> QED
  BY <1>1, <1>2, <1>3, <1>4, <1>5, <1>6

(* The inductive invariant.  Prompts are kept between calls when they were *)
(* sent, with what belongs to them, or when they are those for a new       *)
(* password; a type is asked for once.                                     *)
OneEach(ps) == \A i, j \in 1 .. Len(ps) : ps[i].type = ps[j].type => i = j

Stored ==
  state = "idle" =>
    /\ prompts \in Seq(Prompt) /\ OneEach(prompts) /\ sent \in BOOLEAN /\ announced \in BOOLEAN
    /\ ~sent => prompts = <<>> \/ prompts = changePassRequest
    /\ sent => prompts # <<>> /\ \A i \in 1 .. Len(prompts) :
         /\ \/ announced /\ prompts[i].response = "empty"
            \/ prompts[i].response = "pass"
         /\ prompts[i].type # "user"
         /\ prompts[i].type # Detected(call[1])

(* What is asked for a single message.  Display answers one prompt with    *)
(* the password and two with the name and the password.                    *)
AsksFor(ps, m) ==
  /\ ps \in Seq(Prompt) /\ OneEach(ps)
  /\ m \in Types /\ \E i \in 1 .. Len(ps) : ps[i].type = m
  /\ Len(ps) = 1 => m # "user"
  /\ Len(ps) = 2 =>
       m \in {"user", "new"} /\ ps[1].type = m /\ ps[2].type \in {"password", "repeat"}

Asked == state = "asked" /\ Len(call) = 1 => AsksFor(request, call[1])

CallOfPam == call \in Seq(Messages) /\ announced \in BOOLEAN

ConversationIInv == Stored /\ Asked /\ CallOfPam /\ AnswersFit

LEMMA Guesses ==
  /\ loginRequest \in Seq(Prompt) /\ Len(loginRequest) = 2 /\ OneEach(loginRequest)
  /\ loginRequest[1].type = "user" /\ loginRequest[2].type = "password"
  /\ changePassNoOldRequest \in Seq(Prompt) /\ Len(changePassNoOldRequest) = 2
  /\ OneEach(changePassNoOldRequest)
  /\ changePassNoOldRequest[1].type = "new" /\ changePassNoOldRequest[2].type = "repeat"
  /\ changePassRequest \in Seq(Prompt) /\ Len(changePassRequest) = 3 /\ OneEach(changePassRequest)
  /\ changePassRequest[1].type = "current"
  /\ \A i \in 1 .. 3 : changePassRequest[i].response = "empty" /\ changePassRequest[i].type # "user"
  /\ AsksFor(loginRequest, "user") /\ AsksFor(changePassNoOldRequest, "new")
  /\ AsksFor(changePassRequest, "current")
<1>1. /\ <<"user", "password">> \in Seq(Types) /\ <<"new", "repeat">> \in Seq(Types)
      /\ <<"current", "new", "repeat">> \in Seq(Types)
  BY DEF Types
<1>2. /\ loginRequest \in Seq(Prompt) /\ Len(loginRequest) = 2
      /\ loginRequest[1].type = "user" /\ loginRequest[2].type = "password"
  <2>1. PICK ts \in Seq(Types) :
          ts = <<"user", "password">> /\ Len(ts) = 2 /\ ts[1] = "user" /\ ts[2] = "password"
    BY <1>1
  <2>2. 1 \in 1 .. 2 /\ 2 \in 1 .. 2
    OBVIOUS
  <2>3. loginRequest = Blank(ts)
    BY <2>1, Zenon DEF loginRequest
  <2>4. /\ Blank(ts) \in Seq(Prompt) /\ Len(Blank(ts)) = Len(ts)
        /\ \A i \in 1 .. Len(ts) : Blank(ts)[i].type = ts[i] /\ Blank(ts)[i].response = "empty"
    BY BlankPrompts
  <2> QED
    BY <2>1, <2>2, <2>3, <2>4
<1>3. /\ changePassNoOldRequest \in Seq(Prompt) /\ Len(changePassNoOldRequest) = 2
      /\ changePassNoOldRequest[1].type = "new" /\ changePassNoOldRequest[2].type = "repeat"
  <2>1. PICK ts \in Seq(Types) :
          ts = <<"new", "repeat">> /\ Len(ts) = 2 /\ ts[1] = "new" /\ ts[2] = "repeat"
    BY <1>1
  <2>2. 1 \in 1 .. 2 /\ 2 \in 1 .. 2
    OBVIOUS
  <2>3. changePassNoOldRequest = Blank(ts)
    BY <2>1, Zenon DEF changePassNoOldRequest
  <2>4. /\ Blank(ts) \in Seq(Prompt) /\ Len(Blank(ts)) = Len(ts)
        /\ \A i \in 1 .. Len(ts) : Blank(ts)[i].type = ts[i] /\ Blank(ts)[i].response = "empty"
    BY BlankPrompts
  <2> QED
    BY <2>1, <2>2, <2>3, <2>4
<1>4. /\ changePassRequest \in Seq(Prompt) /\ Len(changePassRequest) = 3
      /\ changePassRequest[1].type = "current" /\ changePassRequest[2].type = "new"
      /\ changePassRequest[3].type = "repeat"
      /\ \A i \in 1 .. 3 : changePassRequest[i].response = "empty"
  <2>1. PICK ts \in Seq(Types) :
          ts = <<"current", "new", "repeat">> /\ Len(ts) = 3 /\ ts[1] = "current" /\ ts[2] = "new" /\ ts[3] = "repeat"
    BY <1>1
  <2>2. 1 \in 1 .. 3 /\ 2 \in 1 .. 3 /\ 3 \in 1 .. 3
    OBVIOUS
  <2>3. changePassRequest = Blank(ts)
    BY <2>1, Zenon DEF changePassRequest
  <2>4. /\ Blank(ts) \in Seq(Prompt) /\ Len(Blank(ts)) = Len(ts)
        /\ \A i \in 1 .. Len(ts) : Blank(ts)[i].type = ts[i] /\ Blank(ts)[i].response = "empty"
    BY BlankPrompts
  <2> QED
    BY <2>1, <2>2, <2>3, <2>4
<1>5. OneEach(loginRequest) /\ OneEach(changePassNoOldRequest)
  BY <1>2, <1>3 DEF OneEach
<1>6. \A i \in 1 .. 3 : i = 1 \/ i = 2 \/ i = 3
  OBVIOUS
<1>7. OneEach(changePassRequest) /\ \A i \in 1 .. 3 : changePassRequest[i].type # "user"
  BY <1>4, <1>6 DEF OneEach
<1>8. 1 \in 1 .. 2 /\ 1 \in 1 .. 3 /\ {"user", "new", "current"} \subseteq Types
  BY DEF Types
<1>9. AsksFor(loginRequest, "user") /\ AsksFor(changePassNoOldRequest, "new")
  BY <1>2, <1>3, <1>5, <1>8 DEF AsksFor
<1>10. AsksFor(changePassRequest, "current")
  BY <1>4, <1>7, <1>8 DEF AsksFor
<1> QED
  BY <1>2, <1>3, <1>4, <1>5, <1>7, <1>9, <1>10

(* A prompt of PAM is answered from the store or asked for.                *)
LEMMA Prompted ==
  ASSUME Stored, state = "idle", NEW m \in Types,
         NEW data, data = InsertPrompt([prompts |-> prompts, sent |-> sent, new |-> FALSE], m, TRUE)
  PROVE  \/ /\ sent /\ ~data.new /\ data.prompts = prompts /\ data.sent
            /\ \E i \in 1 .. Len(prompts) : prompts[i].type = m
         \/ data.new /\ ~data.sent /\ AsksFor(data.prompts, m)
<1> DEFINE old == [prompts |-> prompts, sent |-> sent, new |-> FALSE]
<1>1. Found(old, m) = {i \in 1 .. Len(prompts) : prompts[i].type = m}
  BY DEF Found, Detected, Stored
<1>2. PICK k \in Nat : k = Len(prompts)
  BY DEF Stored
<1>3. CASE Found(old, m) # {}
  <2>1. PICK i \in 1 .. Len(prompts) : prompts[i].type = m
    BY <1>1, <1>3
  <2>2. data.prompts = prompts /\ data.sent = sent /\ data.new = ~sent
    BY <1>3 DEF InsertPrompt
  <2>3. ASSUME ~sent PROVE AsksFor(prompts, m)
    <3>1. prompts = changePassRequest
      BY <2>1, <2>3 DEF Stored
    <3> QED
      BY <2>1, <3>1, Guesses DEF AsksFor
  <2> QED
    BY <2>1, <2>2, <2>3 DEF Stored
<1>4. CASE Found(old, m) = {}
  <2> DEFINE kept == IF sent THEN <<>> ELSE prompts
  <2>1. /\ data.new /\ (data.sent <=> sent /\ prompts = <<>>)
        /\ data.prompts = IF Predicted(m) # <<>> THEN Predicted(m) ELSE kept \o Blank(<<m>>)
    BY <1>4, Zenon DEF InsertPrompt
  <2>2. ~data.sent
    BY <2>1 DEF Stored
  <2>3. CASE m = "user"
    <3>1. Predicted(m) = loginRequest /\ loginRequest # <<>>
      BY <2>3, Guesses DEF Predicted
    <3> QED
      BY <2>1, <2>2, <2>3, <3>1, Guesses
  <2>4. CASE m = "new"
    <3>1. Predicted(m) = changePassNoOldRequest /\ changePassNoOldRequest # <<>>
      BY <2>4, Guesses DEF Predicted
    <3> QED
      BY <2>1, <2>2, <2>4, <3>1, Guesses
  <2>5. CASE m = "current"
    <3>1. Predicted(m) = changePassRequest /\ changePassRequest # <<>>
      BY <2>5, Guesses DEF Predicted
    <3> QED
      BY <2>1, <2>2, <2>5, <3>1, Guesses
  <2>6. CASE m \notin {"user", "new", "current"}
    <3>1. Predicted(m) = <<>>
      BY <2>6 DEF Predicted
    <3>2. /\ Blank(<<m>>) \in Seq(Prompt) /\ Len(Blank(<<m>>)) = 1
          /\ Blank(<<m>>)[1].type = m
      <4>1. PICK ts \in Seq(Types) : ts = <<m>> /\ Len(ts) = 1 /\ ts[1] = m
        <5>1. <<m>> \in Seq(Types) /\ Len(<<m>>) = 1 /\ <<m>>[1] = m
          OBVIOUS
        <5> QED
          BY <5>1, Zenon
      <4>2. Blank(ts) \in Seq(Prompt) /\ Len(Blank(ts)) = 1 /\ Blank(ts)[1].type = m
        <5>1. /\ Blank(ts) \in Seq(Prompt) /\ Len(Blank(ts)) = Len(ts)
              /\ \A i \in 1 .. Len(ts) : Blank(ts)[i].type = ts[i] /\ Blank(ts)[i].response = "empty"
          BY BlankPrompts
        <5> QED
          BY <4>1, <5>1, 1 \in 1 .. 1
      <4> QED
        BY <4>1, <4>2, Zenon
    <3>3. PICK b \in Seq(Prompt) : b = Blank(<<m>>) /\ Len(b) = 1 /\ b[1].type = m
      BY <3>2
    <3>4. PICK a \in Seq(Prompt) :
            /\ a = kept /\ OneEach(a) /\ (Len(a) = 0 \/ Len(a) = 3)
            /\ \A i \in 1 .. Len(a) : a[i].type # m
      <4>1. CASE sent \/ prompts = <<>>
        <5>1. kept = <<>> /\ <<>> \in Seq(Prompt) /\ Len(<<>>) = 0 /\ \A i \in 1 .. Len(<<>>) : FALSE
          BY <4>1
        <5> QED
          BY <5>1 DEF OneEach
      <4>2. CASE ~sent /\ prompts # <<>>
        <5>1. prompts = changePassRequest
          BY <4>2 DEF Stored
        <5> QED
          BY <1>1, <1>4, <4>2, <5>1, Guesses
      <4> QED
        BY <4>1, <4>2
    <3>5. data.prompts = a \o b
      BY <2>1, <3>1, <3>3, <3>4
    <3>6. /\ a \o b \in Seq(Prompt) /\ Len(a \o b) = Len(a) + Len(b)
          /\ \A i \in 1 .. Len(a) + Len(b) :
               (a \o b)[i] = IF i <= Len(a) THEN a[i] ELSE b[i - Len(a)]
      BY ConcatProperties
    <3>7. PICK l \in Nat : l = Len(a)
      BY <3>4
    <3>8. /\ \A i \in 1 .. l : (a \o b)[i] = a[i]
          /\ l + 1 \in 1 .. l + 1 /\ (a \o b)[l + 1] = b[1]
          /\ \A i \in 1 .. l + 1 : i \in 1 .. l \/ i = l + 1
      <4>1. \A i \in 1 .. l + 1 : (a \o b)[i] = IF i <= l THEN a[i] ELSE b[i - l]
        BY <3>3, <3>6, <3>7
      <4>2. \A i \in 1 .. l : i \in 1 .. l + 1 /\ i <= l
        OBVIOUS
      <4>3. l + 1 \in 1 .. l + 1 /\ ~(l + 1 <= l) /\ (l + 1) - l = 1
        OBVIOUS
      <4>4. \A i \in 1 .. l + 1 : i \in 1 .. l \/ i = l + 1
        OBVIOUS
      <4> QED
        BY <4>1, <4>2, <4>3, <4>4
    <3>9. OneEach(a \o b)
      <4> SUFFICES ASSUME NEW i \in 1 .. l + 1, NEW j \in 1 .. l + 1,
                          (a \o b)[i].type = (a \o b)[j].type
                   PROVE  i = j
        BY <3>3, <3>6, <3>7 DEF OneEach
      <4> QED
        BY <3>3, <3>4, <3>7, <3>8 DEF OneEach
    <3>10. AsksFor(a \o b, m)
      <4>1. Len(a \o b) = l + 1 /\ (l = 0 \/ l = 3)
        BY <3>3, <3>4, <3>6, <3>7
      <4>2. \E i \in 1 .. l + 1 : (a \o b)[i].type = m
        BY <3>3, <3>8
      <4> QED
        BY <2>6, <3>6, <3>9, <4>1, <4>2 DEF AsksFor
    <3> QED
      BY <2>1, <2>2, <3>5, <3>10
  <2> QED
    BY <2>3, <2>4, <2>5, <2>6
<1> QED
  BY <1>3, <1>4

(* The end of converse() for one message.                                  *)
LEMMA RespondsWithNothing ==
  ASSUME NEW m, NEW data, Respond(<<m>>, data), data.prompts \in Seq(Prompt),
         \A i \in 1 .. Len(data.prompts) : data.prompts[i].type # Detected(m)
  PROVE  /\ prompts' = data.prompts /\ (sent' <=> data.sent /\ data.prompts # <<>>)
         /\ sent' \in BOOLEAN /\ given' = <<"empty">> /\ call' = <<m>> /\ state' = "idle"
<1> DEFINE old == [prompts |-> data.prompts, sent |-> data.sent, given |-> <<>>]
<1>1. Found(old, m) = {}
  BY DEF Found
<1>2. GetResponse(old, m) = [old EXCEPT !.sent = @ /\ data.prompts # <<>>, !.given = Append(@, "empty")]
  BY <1>1, Zenon DEF GetResponse
<1>3. FoldLeft(GetResponse, old, <<m>>) = GetResponse(old, m)
  BY AnsweredOne
<1>4. /\ prompts' = GetResponse(old, m).prompts /\ sent' = GetResponse(old, m).sent
      /\ given' = GetResponse(old, m).given /\ call' = <<m>>
      /\ state' = IF Len(<<m>>) = 1 THEN "idle" ELSE "undefined"
  BY <1>3, Zenon DEF Respond
<1>5. Append(<<>>, "empty") = <<"empty">> /\ Len(<<m>>) = 1
  OBVIOUS
<1> QED
  BY <1>2, <1>4, <1>5

LEMMA RespondsFromStore ==
  ASSUME NEW m, NEW data, Respond(<<m>>, data), data.prompts \in Seq(Prompt), OneEach(data.prompts),
         NEW i \in 1 .. Len(data.prompts), data.prompts[i].type = Detected(m)
  PROVE  /\ prompts' = RemoveAt(data.prompts, i)
         /\ (sent' <=> data.sent /\ RemoveAt(data.prompts, i) # <<>>) /\ sent' \in BOOLEAN
         /\ given' = <<data.prompts[i].response>> /\ call' = <<m>> /\ state' = "idle"
<1> DEFINE old == [prompts |-> data.prompts, sent |-> data.sent, given |-> <<>>]
           left == RemoveAt(old.prompts, i)
           new == [prompts |-> left, sent |-> old.sent /\ left # <<>>,
                   given |-> Append(old.given, old.prompts[i].response)]
<1>1. Found(old, m) = {i}
  BY DEF Found, OneEach
<1>2. GetResponse(old, m) = new
  <2>1. i = CHOOSE j \in Found(old, m) : TRUE
    BY <1>1
  <2>2. Found(old, m) # {}
    BY <1>1
  <2> HIDE DEF old
  <2> QED
    BY <2>1, <2>2, Zenon DEF GetResponse
<1>3. FoldLeft(GetResponse, old, <<m>>) = GetResponse(old, m)
  BY AnsweredOne
<1>4. /\ prompts' = new.prompts /\ sent' = new.sent /\ given' = new.given /\ call' = <<m>>
      /\ state' = IF Len(<<m>>) = 1 THEN "idle" ELSE "undefined"
  BY <1>2, <1>3, Zenon DEF Respond
<1>5. \A r : Append(<<>>, r) = <<r>>
  OBVIOUS
<1>6. Len(<<m>>) = 1
  OBVIOUS
<1> QED
  BY <1>4, <1>5, <1>6

(* One message of PAM.                                                     *)
LEMMA ConverseOneKeeps ==
  ASSUME ConversationIInv, NEW m \in Messages, Converse(<<m>>)
  PROVE  ConversationIInv'
<1> DEFINE d == Take([prompts |-> prompts, sent |-> sent, new |-> FALSE], m)
<1>1. state = "idle" /\ Stored
  BY DEF Converse, ConversationIInv
<1>2. /\ IF d.new /\ ~d.sent
         THEN /\ request' = d.prompts /\ call' = <<m>> /\ state' = "asked"
         ELSE Respond(<<m>>, d)
      /\ announced' = (announced \/ (<<m>> = <<"changing">> /\ sent))
  <2>1. Gathered(<<m>>) = d
    BY GatheredOne
  <2>2. /\ IF Gathered(<<m>>).new /\ ~Gathered(<<m>>).sent
           THEN /\ request' = Gathered(<<m>>).prompts /\ call' = <<m>> /\ state' = "asked"
           ELSE Respond(<<m>>, Gathered(<<m>>))
        /\ announced' = (announced \/ (<<m>> = <<"changing">> /\ sent))
    BY Zenon DEF Converse, SetRequest
  <2> HIDE DEF d
  <2> QED
    BY <2>1, <2>2, Zenon
<1>3. /\ announced' \in BOOLEAN /\ (announced => announced')
      /\ m = "changing" /\ sent => announced'
  BY <1>1, <1>2 DEF Stored
<1>4. <<m>> \in Seq(Messages) /\ <<m>>[1] = m /\ \A t : <<m>> = <<t>> => m = t
  OBVIOUS
<1>5. \A r, t : <<r>> = <<t>> => r = t
  OBVIOUS
<1>6. CASE d.new /\ ~d.sent
  <2>1. m \in Types
    <3>1. ASSUME m \notin Types PROVE FALSE
      <4>1. ~d.new
        <5>1. CASE m = "changing"
          BY <3>1, <5>1 DEF Take, HandleInfo
        <5>2. CASE m # "changing"
          BY <3>1, <5>2 DEF Take
        <5> QED
          BY <5>1, <5>2
      <4> QED
        BY <1>6, <4>1
    <3> QED
      BY <3>1
  <2>2. d = InsertPrompt([prompts |-> prompts, sent |-> sent, new |-> FALSE], m, TRUE)
    BY <2>1 DEF Take, Types
  <2> HIDE DEF d
  <2>3. AsksFor(d.prompts, m)
    BY <1>1, <1>6, <2>1, <2>2, Prompted
  <2>4. request' = d.prompts /\ call' = <<m>> /\ state' = "asked"
    BY <1>2, <1>6
  <2> QED
    BY <1>3, <1>4, <2>3, <2>4 DEF ConversationIInv, Stored, Asked, CallOfPam, AnswersFit, LastAnswer
<1>7. CASE ~(d.new /\ ~d.sent) /\ m \notin Types
  <2>1. Detected(m) = "user"
    BY <1>7 DEF Detected
  <2>2. PICK ps \in Seq(Prompt) :
          /\ ps = d.prompts /\ d.sent = sent
          /\ OneEach(ps) /\ \A i \in 1 .. Len(ps) : ps[i].type # "user"
          /\ ~sent => ps = <<>> \/ ps = changePassRequest
          /\ sent => ps # <<>> /\ \A i \in 1 .. Len(ps) :
               (announced' /\ ps[i].response = "empty") \/ ps[i].response = "pass"
    <3>1. CASE m = "changing"
      <4>1. d.prompts = changePassRequest /\ d.sent = sent
        BY <1>7, <3>1 DEF Take, HandleInfo
      <4>2. changePassRequest # <<>>
        BY Guesses
      <4> QED
        BY <1>3, <3>1, <4>1, <4>2, Guesses
    <3>2. CASE m # "changing"
      <4>1. d.prompts = prompts /\ d.sent = sent
        BY <1>7, <3>2 DEF Take
      <4>2. ~sent => \A i \in 1 .. Len(prompts) : prompts[i].type # "user"
        BY <1>1, Guesses DEF Stored
      <4> QED
        BY <1>1, <1>3, <4>1, <4>2 DEF Stored
    <3> QED
      BY <3>1, <3>2
  <2>3. Respond(<<m>>, d)
    BY <1>2, <1>7
  <2> HIDE DEF d
  <2>4. /\ prompts' = ps /\ (sent' <=> sent /\ ps # <<>>)
        /\ sent' \in BOOLEAN /\ given' = <<"empty">> /\ call' = <<m>> /\ state' = "idle"
    BY <2>1, <2>2, <2>3, RespondsWithNothing
  <2>5. Stored'
    BY <1>1, <1>3, <1>4, <2>1, <2>2, <2>4 DEF Stored
  <2>6. AnswersFit'
    BY <1>4, <1>7, <2>4 DEF AnswersFit, LastAnswer, Types
  <2> QED
    BY <1>3, <1>4, <2>4, <2>5, <2>6 DEF ConversationIInv, Asked, CallOfPam
<1>8. CASE ~(d.new /\ ~d.sent) /\ m \in Types
  <2>1. d = InsertPrompt([prompts |-> prompts, sent |-> sent, new |-> FALSE], m, TRUE)
    BY <1>8 DEF Take, Types
  <2>2. Respond(<<m>>, d)
    BY <1>2, <1>8
  <2> HIDE DEF d
  <2>3. sent /\ d.prompts = prompts /\ d.sent /\ \E i \in 1 .. Len(prompts) : prompts[i].type = m
    BY <1>1, <1>8, <2>1, Prompted
  <2>4. PICK i \in 1 .. Len(prompts) : prompts[i].type = m
    BY <2>3
  <2>5. Detected(m) = m /\ m # "changing"
    BY <1>8 DEF Detected, Types
  <2>6. /\ prompts' = RemoveAt(prompts, i) /\ (sent' <=> RemoveAt(prompts, i) # <<>>)
        /\ sent' \in BOOLEAN /\ given' = <<prompts[i].response>> /\ call' = <<m>> /\ state' = "idle"
    BY <1>1, <2>2, <2>3, <2>4, <2>5, RespondsFromStore DEF Stored
  <2>7. /\ (announced /\ prompts[i].response = "empty") \/ prompts[i].response = "pass"
        /\ m # "user"
    BY <1>1, <2>3, <2>4 DEF Stored
  <2>8. AnswersFit'
    BY <1>3, <1>4, <1>5, <2>6, <2>7 DEF AnswersFit, LastAnswer
  <2>9. PICK k \in Nat : k = Len(prompts)
    BY <1>1 DEF Stored
  <2>10. /\ prompts' \in Seq(Prompt) /\ Len(prompts') = k - 1
         /\ \A j \in 1 .. k - 1 : prompts'[j] = IF j < i THEN prompts[j] ELSE prompts[j + 1]
    BY <1>1, <2>6, <2>9, RemoveAtRemoves DEF Stored
  <2>11. ASSUME NEW j \in 1 .. k - 1
         PROVE  \E x \in 1 .. k : prompts'[j] = prompts[x] /\ x # i /\ x = IF j < i THEN j ELSE j + 1
    BY <2>9, <2>10
  <2>12. OneEach(prompts')
    BY <1>1, <2>9, <2>10, <2>11 DEF Stored, OneEach
  <2>13. \A j \in 1 .. k - 1 :
           /\ (announced' /\ prompts'[j].response = "empty") \/ prompts'[j].response = "pass"
           /\ prompts'[j].type # "user" /\ prompts'[j].type # m
    BY <1>1, <1>3, <2>3, <2>4, <2>9, <2>11 DEF Stored, OneEach
  <2>14. Stored'
    BY <1>3, <1>4, <2>5, <2>6, <2>10, <2>12, <2>13 DEF Stored
  <2> QED
    BY <1>3, <1>4, <2>6, <2>8, <2>14 DEF ConversationIInv, Asked, CallOfPam
<1> QED
  BY <1>6, <1>7, <1>8

(* With more than one message nothing is known until converse() returns,   *)
(* and then nothing at all.                                                *)
LEMMA ConverseKeeps ==
  ASSUME ConversationIInv, NEW messages \in Calls, Converse(messages)
  PROVE  ConversationIInv'
<1>1. messages \in Seq(Messages)
  BY DEF Calls
<1>2. CASE Len(messages) = 1
  <2>1. messages = <<messages[1]>> /\ messages[1] \in Messages
    BY <1>1, <1>2
  <2>2. Converse(<<messages[1]>>)
    BY <2>1, Zenon
  <2> QED
    BY <2>1, <2>2, ConverseOneKeeps
<1>3. CASE Len(messages) # 1
  <2>1. call' = messages /\ state' \in {"asked", "undefined"}
    BY <1>3 DEF Converse, Respond
  <2>2. announced' \in BOOLEAN
    BY DEF Converse, ConversationIInv, CallOfPam
  <2> QED
    BY <1>1, <1>3, <2>1, <2>2
       DEF ConversationIInv, Stored, Asked, CallOfPam, AnswersFit, LastAnswer
<1> QED
  BY <1>2, <1>3

(* The answer of Display.                                                  *)
LEMMA ReplyKeeps ==
  ASSUME ConversationIInv, Reply
  PROVE  ConversationIInv'
<1>1. state = "asked" /\ UNCHANGED announced /\ call \in Seq(Messages) /\ announced \in BOOLEAN
  BY DEF Reply, ConversationIInv, CallOfPam
<1>2. PICK answer \in DisplayAnswer(request) :
        Respond(call, [prompts |-> [i \in DOMAIN request |->
                                      [request[i] EXCEPT !.response = answer[i]]],
                       sent |-> TRUE])
  BY DEF Reply
<1>3. CASE Len(call) # 1
  <2>1. call' = call /\ state' = "undefined"
    BY <1>2, <1>3 DEF Respond
  <2> QED
    BY <1>1, <2>1 DEF ConversationIInv, Stored, Asked, CallOfPam, AnswersFit, LastAnswer
<1>4. CASE Len(call) = 1
  <2>1. PICK m \in Types : call = <<m>> /\ AsksFor(request, m)
    <3>1. call = <<call[1]>>
      BY <1>1, <1>4
    <3>2. AsksFor(request, call[1]) /\ call[1] \in Types
      BY <1>1, <1>4 DEF ConversationIInv, Asked, AsksFor
    <3> QED
      BY <3>1, <3>2
  <2>2. PICK k \in {1, 2} : k = Len(request) /\ DOMAIN request = 1 .. k /\ request \in Seq(Prompt)
    BY <1>2, <2>1 DEF DisplayAnswer, AsksFor
  <2>3. \A i \in 1 .. k : answer[i] \in {"name", "pass"}
    BY <1>2, <2>2 DEF DisplayAnswer
  <2> DEFINE ps == [i \in DOMAIN request |-> [request[i] EXCEPT !.response = answer[i]]]
             data == [prompts |-> ps, sent |-> TRUE]
  <2>4. Respond(<<m>>, data) /\ data.prompts = ps /\ data.sent
    BY <1>2, <2>1
  <2>5. \A i \in 1 .. k : ps[i] \in Prompt /\ ps[i].type = request[i].type /\ ps[i].response = answer[i]
    <3>1. \A i \in 1 .. k : request[i] \in Prompt
      BY <2>2
    <3> QED
      BY <2>2, <2>3, <3>1 DEF Prompt
  <2>6. ps \in [1 .. k -> Prompt]
    BY <2>2, <2>5
  <2> HIDE DEF ps, data
  <2>7. ps \in Seq(Prompt) /\ Len(ps) = k
    <3>1. ps \in Seq(Prompt)
      BY <2>2, <2>6, SeqDef
    <3>2. DOMAIN ps = 1 .. Len(ps) /\ Len(ps) \in Nat
      BY <3>1, LenProperties
    <3> QED
      BY <2>2, <2>6, <3>1, <3>2
  <2>8. OneEach(ps) /\ 1 \in 1 .. k /\ ps[1].type = m
    BY <2>1, <2>2, <2>5, <2>7 DEF AsksFor, OneEach
  <2>9. Detected(m) = m
    BY DEF Detected
  <2>10. /\ prompts' = RemoveAt(ps, 1) /\ (sent' <=> RemoveAt(ps, 1) # <<>>) /\ sent' \in BOOLEAN
         /\ given' = <<answer[1]>> /\ call' = <<m>> /\ state' = "idle"
    BY <2>4, <2>5, <2>7, <2>8, <2>9, RespondsFromStore
  <2>11. /\ prompts' \in Seq(Prompt) /\ Len(prompts') = k - 1
         /\ \A j \in 1 .. k - 1 : prompts'[j] = ps[j + 1]
    <3>1. /\ RemoveAt(ps, 1) \in Seq(Prompt) /\ Len(RemoveAt(ps, 1)) = Len(ps) - 1
          /\ \A j \in 1 .. Len(ps) - 1 : RemoveAt(ps, 1)[j] = IF j < 1 THEN ps[j] ELSE ps[j + 1]
      BY <2>7, <2>8, RemoveAtRemoves
    <3> QED
      BY <2>7, <2>10, <3>1
  <2>12. <<m>>[1] = m /\ (\A t : <<m>> = <<t>> => m = t) /\ \A r, t : <<r>> = <<t>> => r = t
    OBVIOUS
  <2>13. CASE k = 1
    <3>1. answer[1] = "pass" /\ m # "user"
      BY <1>2, <2>1, <2>2, <2>13 DEF DisplayAnswer, AsksFor
    <3>2. prompts' = <<>> /\ Len(prompts') = 0 /\ ~sent'
      BY <2>10, <2>11, <2>13
    <3>3. Stored'
      <4>1. OneEach(prompts')
        BY <3>2 DEF OneEach
      <4> QED
        BY <1>1, <2>10, <2>11, <3>2, <4>1 DEF Stored
    <3>4. AnswersFit'
      BY <2>10, <2>12, <3>1 DEF AnswersFit, LastAnswer
    <3> QED
      BY <1>1, <2>1, <2>10, <3>3, <3>4 DEF ConversationIInv, Asked, CallOfPam
  <2>14. CASE k = 2
    <3>1. /\ answer[1] = "name" /\ answer[2] = "pass" /\ m \in {"user", "new"}
          /\ request[2].type \in {"password", "repeat"}
      BY <1>2, <2>1, <2>2, <2>14 DEF DisplayAnswer, AsksFor
    <3>2. Len(prompts') = 1 /\ prompts'[1] = ps[2] /\ prompts' # <<>> /\ sent'
      BY <2>10, <2>11, <2>14
    <3>3. prompts'[1].response = "pass" /\ prompts'[1].type \in {"password", "repeat"}
      BY <2>5, <2>14, <3>1, <3>2
    <3>4. Stored'
      BY <1>1, <2>9, <2>10, <2>11, <2>12, <3>1, <3>2, <3>3 DEF Stored, OneEach
    <3>5. AnswersFit'
      BY <2>10, <2>12, <3>1 DEF AnswersFit, LastAnswer
    <3> QED
      BY <1>1, <2>1, <2>10, <3>4, <3>5 DEF ConversationIInv, Asked, CallOfPam
  <2> QED
    BY <2>2, <2>13, <2>14
<1> QED
  BY <1>3, <1>4

LEMMA ConversationInvariant == ConversationSpec => []ConversationIInv
<1>1. ConversationInit => ConversationIInv
  <2> SUFFICES ASSUME ConversationInit PROVE ConversationIInv
    OBVIOUS
  <2>1. prompts = <<>> /\ <<>> \in Seq(Prompt) /\ OneEach(<<>>)
    BY DEF ConversationInit, OneEach
  <2>2. call = <<>> /\ <<>> \in Seq(Messages) /\ \A t : <<>> # <<t>>
    BY DEF ConversationInit
  <2> QED
    BY <2>1, <2>2
       DEF ConversationInit, ConversationIInv, Stored, Asked, CallOfPam, AnswersFit, LastAnswer
<1>2. ASSUME ConversationIInv, [ConversationNext]_conversationVars PROVE ConversationIInv'
  <2>1. ASSUME NEW messages \in Calls, Converse(messages) PROVE ConversationIInv'
    BY <1>2, <2>1, ConverseKeeps
  <2>2. CASE Reply
    BY <1>2, <2>2, ReplyKeeps
  <2>3. CASE NoReply
    BY <1>2, <2>3
       DEF NoReply, ConversationIInv, Stored, Asked, CallOfPam, AnswersFit, LastAnswer
  <2>4. CASE UNCHANGED conversationVars
    BY <1>2, <2>4
       DEF conversationVars, ConversationIInv, Stored, Asked, CallOfPam, AnswersFit, LastAnswer
  <2> QED
    BY <1>2, <2>1, <2>2, <2>3, <2>4 DEF ConversationNext
<1> QED
  BY <1>1, <1>2, PTL DEF ConversationSpec

(* No prompt is given what belongs to another one (AnswersFit).            *)
THEOREM AnswersAlwaysFit == ConversationSpec => []AnswersFit
<1>1. ConversationIInv => AnswersFit
  BY DEF ConversationIInv
<1> QED
  BY <1>1, ConversationInvariant, PTL

(* A response is given once (AnsweredOnce).                                *)
THEOREM ResponsesAreForgotten == ConversationSpec => []AnsweredOnce
<1>1. ConversationIInv => AnsweredOnce
  BY DEF ConversationIInv, Stored, AnsweredOnce
<1> QED
  BY <1>1, ConversationInvariant, PTL
-------------------------------------------------------------------------------
(* The helper's side as a whole: each part is what it is on its own, but   *)
(* for the process of an X11 session, which may end before it has become   *)
(* the helper of that session.                                             *)
LEMMA SideIsHelper == [Next]_vars => [HelperNext]_helperVars
<1> SUFFICES ASSUME [Next]_vars PROVE [HelperNext]_helperVars
  OBVIOUS
<1>1. CASE HelperStep
  <2>1. CASE HelperAlone
    BY <2>1 DEF HelperAlone
  <2>2. CASE XExits
    BY <2>2 DEF XExits, HelperNext, Environment
  <2>3. CASE XIsStopped
    BY <2>3 DEF XIsStopped, HelperNext, Destructor
  <2>4. CASE XRuns
    BY <2>4 DEF XRuns
  <2> QED
    BY <1>1, <2>1, <2>2, <2>3, <2>4 DEF HelperStep, X11Step
<1>2. CASE ConversationStep
  BY <1>2 DEF ConversationStep
<1>3. CASE UNCHANGED vars
  BY <1>3 DEF vars
<1> QED
  BY <1>1, <1>2, <1>3 DEF Next

LEMMA SideIsConversation == [Next]_vars => [ConversationNext]_conversationVars
BY DEF Next, HelperStep, ConversationStep, vars

LEMMA SideKeepsProgress == Progress /\ [Next]_vars => Progress'
<1> SUFFICES ASSUME Progress, [Next]_vars PROVE Progress'
  OBVIOUS
<1>1. CASE UNCHANGED xVars
  BY <1>1, ProgressStep
<1>2. CASE X11Step
  <2>1. CASE XExits
    <3>1. CASE Return
      BY <3>1, ProgressStep DEF XNext, XOwnSteps
    <3>2. CASE ~Return
      BY <2>1, <3>2, ProgressEarly DEF XExits
    <3> QED
      BY <3>1, <3>2
  <2>2. CASE XIsStopped
    BY <2>2, ProgressStep DEF XIsStopped, XNext
  <2>3. CASE XRuns
    BY <2>3, ProgressStep DEF XRuns, XNext
  <2> QED
    BY <1>2, <2>1, <2>2, <2>3 DEF X11Step
<1> QED
  BY <1>1, <1>2 DEF Next, HelperStep, HelperAlone, ConversationStep, vars

(* The helper and the conversation of the whole are those specified alone. *)
THEOREM PartsOfTheWhole == Spec => HelperSpec /\ ConversationSpec
<1>1. Init => HelperInit /\ ConversationInit
  BY DEF Init
<1> QED
  BY <1>1, SideIsHelper, SideIsConversation, PTL DEF Spec, HelperSpec, ConversationSpec

(* So the whole has the properties of its parts (SessionIsBacked,          *)
(* CleanExit, KeepsContract, DisplayIsTakenDown, AnswersFit, AnsweredOnce).*)
THEOREM TheWholeIsSafe ==
  Spec => /\ [](HelperTypeOK /\ SessionIsBacked /\ CleanExit) /\ KeepsContract
          /\ []DisplayIsTakenDown
          /\ [](AnswersFit /\ AnsweredOnce)
<1>1. Init => Progress
  BY ProgressInit DEF Init
<1>2. Progress => DisplayIsTakenDown
  BY DEF Progress
<1>3. Spec => []DisplayIsTakenDown
  BY <1>1, <1>2, SideKeepsProgress, PTL DEF Spec
<1> QED
  BY <1>3, PartsOfTheWhole, HelperTypeCorrect, SessionsAreBacked, HelpersLeaveClean,
     HelpersKeepContract, AnswersAlwaysFit, ResponsesAreForgotten, PTL
===============================================================================

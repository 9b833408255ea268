------------------------------ MODULE HelperSide ------------------------------
(***************************************************************************)
(* The helper's side of the system.  A behaviour is of one of two parts    *)
(* that share nothing but the question that is asked: the PAM conversation *)
(* (Conversation), or a helper (Helper) together with the session it runs, *)
(* which is XSession's process for X11 and any process otherwise.          *)
(***************************************************************************)
EXTENDS Helper, XSession, Conversation

VARIABLES
  part,  \* which of the two
  x11    \* the session's type

vars == <<part, x11, helperVars, xVars, conversationVars>>

Init ==
  /\ part \in {"helper", "conversation"} /\ x11 \in BOOLEAN
  /\ HelperInit /\ XInit /\ ConversationInit

(* The helper's steps that its session takes part in: the process ends,    *)
(* or UserSession::stop() sends it a signal.                               *)
Involved ==
  session = "running" /\ (session' # "running" \/ (at = "left" /\ at' = "stopping"))

HelperAlone == HelperNext /\ ~(x11 /\ Involved) /\ UNCHANGED xVars

(* The process ends with its own code, or before it became this helper.    *)
XExits ==
  \/ Return /\ SessionEnds /\ sessionCode' = xCode
  \/ /\ xAt = "init" /\ xAt' = "exited" /\ SessionEnds
     /\ sessionCode' # "SUCCESS" /\ xCode' = sessionCode'
     /\ UNCHANGED <<server, client, starts, stopAsked, scripts>>

XIsStopped ==
  \/ AskStop /\ StopSession /\ session = "running"
  \/ KillHelper /\ KillSession

(* It runs, also when the helper is no more; killed, it leaves its own     *)
(* processes behind.                                                       *)
XRuns ==
  /\ \/ session = "running" /\ XOwnSteps /\ xAt' # "exited"
     \/ ServerEnds \/ ClientStarts \/ ClientEnds
  /\ UNCHANGED helperVars

X11Step == x11 /\ (XExits \/ XIsStopped \/ XRuns)

HelperStep == part = "helper" /\ (HelperAlone \/ X11Step) /\ UNCHANGED <<part, x11, conversationVars>>

ConversationStep ==
  /\ part = "conversation" /\ ConversationNext
  /\ UNCHANGED <<part, x11, helperVars, xVars>>

Next == HelperStep \/ ConversationStep

Spec == Init /\ [][Next]_vars

(* HelperFairness and XFairness.                                           *)
Fairness ==
  /\ WF_vars(HelperStep /\ DoAuth) /\ WF_vars(HelperStep /\ EventLoop)
  /\ WF_vars(HelperStep /\ Destructor) /\ WF_vars(HelperStep /\ Kill)
  /\ SF_vars(HelperStep /\ (Passes \/ Fails))
  /\ WF_vars(HelperStep /\ XOwnSteps)

FairSpec == Spec /\ Fairness

===============================================================================

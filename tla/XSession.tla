------------------------------- MODULE XSession -------------------------------
(***************************************************************************)
(* soniclogin-helper-start-x11user (src/helper/HelperStartX11User.cpp,     *)
(* xorguserhelper.cpp): the process of a session, or a greeter, that       *)
(* starts the X server and, on the display it names, the client.           *)
(*                                                                         *)
(* Everything before exec() waits in place: signals and the ends of        *)
(* processes are noticed only in the event loop.  The server, the client,  *)
(* the scripts and the parent that stops the helper are the environment.   *)
(***************************************************************************)
EXTENDS Naturals

VARIABLES
  xAt,       \* init, server, display, setup, loop, stopping, returning, exited
  server,    \* the X server: none, running or ended
  client,    \* none (or never executed), running or ended
  starts,    \* client is still to be executed by the process that was forked
  stopAsked, \* SIGTERM was sent
  xCode,     \* the exit code
  scripts    \* Xsetup and Xstop that were run, in order

xVars == <<xAt, server, client, starts, stopAsked, xCode, scripts>>

XInit ==
  /\ xAt = "init" /\ server = "none" /\ client = "none" /\ starts = FALSE
  /\ stopAsked = FALSE /\ xCode = "SUCCESS" /\ scripts = [setup |-> 0, stop |-> 0]

-------------------------------------------------------------------------------
(* main() before exec().                                                   *)

(* main() returns without exec(), so without stop(); the destructors end   *)
(* the processes.                                                          *)
GiveUpDisplay ==
  /\ xAt' = "returning" /\ xCode' = "DISPLAYSERVER_ERROR"
  /\ UNCHANGED <<client, starts, scripts>>

(* XAuth::setup(), and the process of the server.                          *)
StartServer ==
  /\ xAt = "init"
  /\ \/ server' = "running" /\ xAt' = "server" /\ UNCHANGED <<client, starts, xCode, scripts>>
     \/ UNCHANGED server /\ GiveUpDisplay
  /\ UNCHANGED stopAsked

(* The end of the pipe the server should have written its display to.      *)
NoDisplayNumber ==
  /\ xAt = "server" /\ server = "ended" /\ GiveUpDisplay
  /\ UNCHANGED <<server, stopAsked>>

(* displayChanged(): the client is started; not if its command is empty.   *)
DisplayChanged ==
  /\ xAt = "server" /\ server = "running" /\ xAt' = "display"
  /\ starts' \in BOOLEAN
  /\ UNCHANGED <<server, client, stopAsked, xCode, scripts>>

(* Only then the cookie is written to the file the client will read.       *)
AddCookie ==
  /\ xAt = "display"
  /\ \/ xAt' = "setup" /\ UNCHANGED <<client, starts, xCode, scripts>>
     \/ GiveUpDisplay
  /\ UNCHANGED <<server, stopAsked>>

(* Xsetup, for up to 30 s.                                                 *)
StartDisplayCommand ==
  /\ xAt = "setup" /\ xAt' = "loop" /\ scripts' = [scripts EXCEPT !.setup = @ + 1]
  /\ UNCHANGED <<server, client, starts, stopAsked, xCode>>

-------------------------------------------------------------------------------
(* Mutant: only the client's end quits the application.                    *)
QuitForClient ==
  /\ xAt = "loop" /\ (client = "ended" \/ stopAsked)
  /\ xAt' = "stopping"
  /\ UNCHANGED <<server, client, starts, stopAsked, xCode, scripts>>

(* The end of the server or of the client, SIGTERM or SIGQUIT.  A client   *)
(* that could not be executed is only logged.                              *)
Quit ==
  /\ xAt = "loop" /\ (server = "ended" \/ client = "ended" \/ stopAsked)
  /\ xAt' = "stopping"
  /\ UNCHANGED <<server, client, starts, stopAsked, xCode, scripts>>

(* Mutant: with a server that has ended there is nothing to stop.          *)
StopRunningServer ==
  /\ xAt = "stopping" /\ xAt' = "returning" /\ server' = "ended"
  /\ scripts' = IF server = "running" THEN [scripts EXCEPT !.stop = @ + 1] ELSE scripts
  /\ UNCHANGED <<client, starts, stopAsked, xCode>>

(* stop(): the server ends or is killed, then Xstop.                       *)
StopServer ==
  /\ xAt = "stopping" /\ xAt' = "returning" /\ server' = "ended"
  /\ scripts' = [scripts EXCEPT !.stop = @ + 1]
  /\ UNCHANGED <<client, starts, stopAsked, xCode>>

Ended(process) == IF process = "running" THEN "ended" ELSE process

(* The destructors of the QProcesses kill what still runs.                 *)
Return ==
  /\ xAt = "returning" /\ xAt' = "exited"
  /\ server' = Ended(server) /\ client' = Ended(client) /\ starts' = FALSE
  /\ UNCHANGED <<stopAsked, xCode, scripts>>

-------------------------------------------------------------------------------
(* The environment.                                                        *)

ServerEnds ==
  /\ server = "running" /\ server' = "ended"
  /\ UNCHANGED <<xAt, client, starts, stopAsked, xCode, scripts>>

(* The client is executed, or cannot be; later it ends, perhaps because    *)
(* it came before the cookie.                                              *)
ClientStarts ==
  /\ starts /\ starts' = FALSE /\ client' \in {"running", "none"}
  /\ UNCHANGED <<xAt, server, stopAsked, xCode, scripts>>

ClientEnds ==
  /\ client = "running" /\ client' = "ended"
  /\ UNCHANGED <<xAt, server, starts, stopAsked, xCode, scripts>>

(* UserSession::stop(): SIGTERM, and SIGKILL when that does not help.      *)
AskStop ==
  /\ ~stopAsked /\ xAt # "exited" /\ stopAsked' = TRUE
  /\ UNCHANGED <<xAt, server, client, starts, xCode, scripts>>

KillHelper ==
  /\ stopAsked /\ xAt # "exited" /\ xAt' = "exited" /\ xCode' = "killed"
  /\ UNCHANGED <<server, client, starts, stopAsked, scripts>>

XOwnSteps == StartServer \/ NoDisplayNumber \/ DisplayChanged \/ AddCookie
             \/ StartDisplayCommand \/ Quit \/ StopServer \/ Return

XNext == XOwnSteps \/ ServerEnds \/ ClientStarts \/ ClientEnds \/ AskStop \/ KillHelper

(* Processes are started, events handled and waits limited; the server     *)
(* names its display or ends.                                              *)
XFairness == WF_xVars(XOwnSteps)

XSpec == XInit /\ [][XNext]_xVars

-------------------------------------------------------------------------------
(* A helper that ends by itself takes the server and the client with it,   *)
(* on the early returns of main() too; Xstop has run after Xsetup has, and *)
(* once, though the end of the server, of the client and SIGTERM can all   *)
(* lead to stop(); and only a display that came up is a success.           *)
DisplayIsTakenDown ==
  xAt = "exited" /\ xCode # "killed" =>
    /\ server # "running" /\ client # "running" /\ ~starts
    /\ scripts.stop = scripts.setup
    /\ xCode = "SUCCESS" <=> scripts.setup = 1

(* When the server or the client has ended, or SIGTERM has come, the       *)
(* helper ends.  (A client that could not be executed is none that ended.) *)
EndOfOneEndsAll == server = "ended" \/ client = "ended" \/ stopAsked ~> xAt = "exited"

===============================================================================

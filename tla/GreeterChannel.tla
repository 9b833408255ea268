---------------------------- MODULE GreeterChannel ----------------------------
(***************************************************************************)
(* The connection of a greeter with its display's server                   *)
(* (src/src/frontend/greeter/backend/GreeterProxy.cpp and                  *)
(* src/src/daemon/SocketServer.cpp), as far as it carries no login, and    *)
(* the power manager behind it (src/src/daemon/PowerManager.cpp).          *)
(*                                                                         *)
(* What the system can do is asked from the services when the greeter      *)
(* connects, to show it, and again when it is to be done; it may change at *)
(* any time between.  Logins are Display's.                                *)
(***************************************************************************)
EXTENDS Naturals, Sequences, FiniteSets

CONSTANTS
  Capable,  \* what may be asked for: a subset of Capability
  MaxAsks   \* bound: requests of the user

(* Hybrid sleep is a capability that no greeter asks for.                  *)
Capability == {"PowerOff", "Reboot", "Suspend", "Hibernate"}

ASSUME CapableAssumption == Capable \subseteq Capability /\ MaxAsks \in Nat

(* The services in the order of m_backends.                                *)
Backends == <<"login1", "ConsoleKit", "UPower">>

VARIABLES
  registered,    \* the services there were when the daemon started
  allowed,       \* of each service, what it allows now
  link,          \* the connection: none, up, lost
  toDaemon,      \* messages on their way
  toGreeter,
  offered,    \* m_capabilities of the greeter
  doing,         \* what the daemon is asked to do: a capability or "nothing"
  turn,          \* the backend it has come to
  calling,       \* this backend has said yes
  asks,          \* requests that were sent so far
  carried        \* how often a service did what it was told

channelVars == <<registered, allowed, link, toDaemon, toGreeter, offered,
                 doing, turn, calling, asks, carried>>

Names == {Backends[i] : i \in DOMAIN Backends}

ChannelInit ==
  /\ registered \in SUBSET Names /\ allowed \in [Names -> {{}, Capable}]
  /\ link = "none" /\ toDaemon = <<>> /\ toGreeter = <<>> /\ offered = {}
  /\ doing = "nothing" /\ turn = 0 /\ calling = FALSE /\ asks = 0 /\ carried = 0

(* capabilities() of a backend: UPower's own words don't matter for        *)
(* PowerOff and Reboot, which are commands of the system.                  *)
Can(s) ==
  IF s = "UPower" THEN ({"PowerOff", "Reboot"} \cap Capable) \cup allowed[s] ELSE allowed[s]

Capabilities == UNION {Can(s) : s \in registered}

-------------------------------------------------------------------------------
(* The greeter: it connects once; what it can't send is dropped.           *)

Connected ==
  /\ link = "none" /\ link' \in {"up", "lost"}
  /\ toDaemon' = IF link' = "up" THEN <<"Connect">> ELSE <<>>
  /\ UNCHANGED <<registered, allowed, toGreeter, offered, doing, turn, calling, asks, carried>>

Request(c) ==
  /\ c \in offered /\ asks < MaxAsks
  /\ \/ link = "up" /\ asks' = asks + 1 /\ toDaemon' = Append(toDaemon, c)
     \/ link # "up" /\ UNCHANGED <<asks, toDaemon>>
  /\ UNCHANGED <<registered, allowed, link, toGreeter, offered, doing, turn, calling, carried>>

FrameReceived ==
  /\ toGreeter # <<>> /\ toGreeter' = Tail(toGreeter) /\ offered' = Head(toGreeter)
  /\ UNCHANGED <<registered, allowed, link, toDaemon, doing, turn, calling, asks, carried>>

(* Either end goes; what the daemon has begun it finishes.                 *)
Disconnected ==
  /\ link = "up" /\ link' = "lost" /\ toGreeter' = <<>> /\ toDaemon' = <<>>
  /\ UNCHANGED <<registered, allowed, offered, doing, turn, calling, asks, carried>>

-------------------------------------------------------------------------------
(* The daemon.  It looks for the first backend that can do it, and asks    *)
(* no other.                                                               *)

SendCapabilities ==
  /\ doing = "nothing" /\ toDaemon # <<>> /\ Head(toDaemon) = "Connect"
  /\ toDaemon' = Tail(toDaemon) /\ toGreeter' = Append(toGreeter, Capabilities)
  /\ UNCHANGED <<registered, allowed, link, offered, doing, turn, calling, asks, carried>>

PowerRequest ==
  /\ doing = "nothing" /\ toDaemon # <<>> /\ Head(toDaemon) # "Connect"
  /\ toDaemon' = Tail(toDaemon) /\ doing' = Head(toDaemon) /\ turn' = 1
  /\ UNCHANGED <<registered, allowed, link, toGreeter, offered, calling, asks, carried>>

LoopEnds == doing' = "nothing" /\ turn' = 0 /\ calling' = FALSE

TryBackend ==
  /\ doing # "nothing" /\ ~calling
  /\ IF turn > Len(Backends) THEN LoopEnds
     ELSE /\ calling' = (Backends[turn] \in registered /\ doing \in Can(Backends[turn]))
          /\ turn' = (IF calling' THEN turn ELSE turn + 1)
          /\ UNCHANGED doing
  /\ UNCHANGED <<registered, allowed, link, toDaemon, toGreeter, offered, asks, carried>>

(* Mutant: the next backend is asked as well.                              *)
CallEach ==
  /\ calling /\ calling' = FALSE /\ turn' = turn + 1 /\ UNCHANGED doing
  /\ carried' = (IF doing \in Can(Backends[turn]) THEN carried + 1 ELSE carried)
  /\ UNCHANGED <<registered, allowed, link, toDaemon, toGreeter, offered, asks>>

(* The service may have changed its mind.                                  *)
CallBackend ==
  /\ calling /\ LoopEnds
  /\ carried' = (IF doing \in Can(Backends[turn]) THEN carried + 1 ELSE carried)
  /\ UNCHANGED <<registered, allowed, link, toDaemon, toGreeter, offered, asks>>

PolicyChanges ==
  /\ \E s \in Names : \E A \in {{}, Capable} : A # allowed[s] /\ allowed' = [allowed EXCEPT ![s] = A]
  /\ UNCHANGED <<registered, link, toDaemon, toGreeter, offered, doing, turn, calling, asks, carried>>

ChannelNext ==
  \/ Connected \/ (\E c \in Capable : Request(c)) \/ FrameReceived \/ Disconnected
  \/ SendCapabilities \/ PowerRequest \/ TryBackend \/ CallBackend \/ PolicyChanges

ChannelSpec == ChannelInit /\ [][ChannelNext]_channelVars

-------------------------------------------------------------------------------
(* The system is told to suspend, or to go down, at most once for each     *)
(* time it was asked to, however many services could do it and however     *)
(* they change their mind between the question and the call.               *)
PowerOnce ==
  carried + (IF doing # "nothing" THEN 1 ELSE 0)
          + Cardinality({i \in 1..Len(toDaemon) : toDaemon[i] # "Connect"}) <= asks

===============================================================================

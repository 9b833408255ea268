---------------------------- MODULE ServicesProofs ----------------------------
(***************************************************************************)
(* What holds of a greeter's connection and the power manager for any      *)
(* capabilities and any number of requests, and of the parts together.     *)
(***************************************************************************)
EXTENDS Services, SettingsProofs, ProcessProofs, SequenceTheorems, FiniteSetTheorems

Frames == Capability \cup {"Connect"}

(* Requests that are on their way: the greeter asks what is possible       *)
(* before it asks for anything, and once only.                             *)
OnTheWay ==
  IF toDaemon # <<>> /\ Head(toDaemon) = "Connect" THEN Len(toDaemon) - 1 ELSE Len(toDaemon)

Doing == IF doing # "nothing" THEN 1 ELSE 0

(* Every request that is on its way, or that the daemon is busy with, or   *)
(* that a service has done, is one of the user's.                          *)
ChannelIInv ==
  /\ toDaemon \in Seq(Frames) /\ asks \in Nat /\ carried \in Nat
  /\ link \in {"none", "up", "lost"} /\ (link # "up" => toDaemon = <<>>)
  /\ \A i \in 2..Len(toDaemon) : toDaemon[i] # "Connect"
  /\ calling \in BOOLEAN /\ (calling => doing # "nothing")
  /\ carried + Doing + OnTheWay <= asks

LEMMA WhatIsOnTheWay ==
  ASSUME ChannelIInv
  PROVE  Cardinality({i \in 1..Len(toDaemon) : toDaemon[i] # "Connect"}) = OnTheWay
<1> DEFINE Asked1 == {i \in 1..Len(toDaemon) : toDaemon[i] # "Connect"}
<1>1. Len(toDaemon) \in Nat /\ (toDaemon # <<>> => Len(toDaemon) > 0 /\ Head(toDaemon) = toDaemon[1])
  BY EmptySeq, HeadTailProperties DEF ChannelIInv
<1>2. toDaemon = <<>> => Len(toDaemon) = 0
  OBVIOUS
<1>3. CASE toDaemon # <<>> /\ Head(toDaemon) = "Connect"
  <2>1. Asked1 = 2..Len(toDaemon)
    BY <1>1, <1>3 DEF ChannelIInv
  <2>2. Cardinality(2..Len(toDaemon)) = Len(toDaemon) - 1
    BY <1>1, <1>3, FS_Interval
  <2> QED
    BY <1>3, <2>1, <2>2 DEF OnTheWay
<1>4. CASE ~(toDaemon # <<>> /\ Head(toDaemon) = "Connect")
  <2>1. Asked1 = 1..Len(toDaemon)
    BY <1>1, <1>2, <1>4 DEF ChannelIInv
  <2>2. Cardinality(1..Len(toDaemon)) = Len(toDaemon)
    BY <1>1, FS_Interval
  <2> QED
    BY <1>4, <2>1, <2>2 DEF OnTheWay
<1> QED
  BY <1>3, <1>4

(* The request the daemon is busy with counts as long as it is.            *)
LEMMA BusyCounts ==
  ASSUME NEW c \in Nat, NEW w \in Int, NEW a \in Nat, NEW later, NEW busy1,
         c + 1 + w <= a,
         \/ later = c /\ busy1 \in {0, 1}
         \/ later = c + 1 /\ busy1 = 0
  PROVE  later \in Nat /\ later + busy1 + w <= a
<1>1. CASE later = c /\ busy1 \in {0, 1}
  BY <1>1
<1>2. CASE later = c + 1 /\ busy1 = 0
  BY <1>2
<1> QED
  BY <1>1, <1>2

LEMMA ChannelStep ==
  ASSUME ChannelIInv, [ChannelNext]_channelVars
  PROVE  ChannelIInv'
<1> USE DEF ChannelIInv, Doing, OnTheWay
<1>1. CASE Connected
  <2>1. CASE link' = "up"
    <3>1. toDaemon' = <<"Connect">> /\ UNCHANGED <<asks, carried, doing, calling>>
          /\ toDaemon = <<>>
      BY <1>1, <2>1 DEF Connected
    <3>2. toDaemon' \in Seq(Frames) /\ Len(toDaemon') = 1 /\ Head(toDaemon') = "Connect"
          /\ Len(toDaemon) = 0 /\ toDaemon' # <<>>
      BY <3>1 DEF Frames
    <3> QED
      BY <2>1, <3>1, <3>2
  <2>2. CASE link' = "lost"
    BY <1>1, <2>2 DEF Connected
  <2> QED
    BY <1>1, <2>1, <2>2 DEF Connected
<1>2. CASE \E c \in Capable : Request(c)
  <2>1. PICK c \in Capable : Request(c)
    BY <1>2
  <2>2. CASE UNCHANGED <<asks, toDaemon>>
    BY <2>1, <2>2 DEF Request
  <2>3. CASE link = "up" /\ asks' = asks + 1 /\ toDaemon' = Append(toDaemon, c)
    <3>1. c \in Frames /\ c # "Connect"
      BY CapableAssumption DEF Frames, Capability
    <3>2. /\ toDaemon' \in Seq(Frames) /\ Len(toDaemon') = Len(toDaemon) + 1
          /\ \A i \in 1..Len(toDaemon) : toDaemon'[i] = toDaemon[i]
          /\ toDaemon'[Len(toDaemon) + 1] = c
      BY <2>3, <3>1, AppendProperties
    <3>3. toDaemon' # <<>> /\ Head(toDaemon') = IF toDaemon = <<>> THEN c ELSE Head(toDaemon)
      BY <2>3, <3>1, HeadTailAppend, AppendProperties
    <3>4. Len(toDaemon) \in Nat /\ (toDaemon = <<>> => Len(toDaemon) = 0)
      OBVIOUS
    <3>5. OnTheWay' = OnTheWay + 1
      BY <3>1, <3>2, <3>3, <3>4
    <3>6. UNCHANGED <<link, doing, calling, carried>>
      BY <2>1 DEF Request
    <3>7. \A i \in 2..Len(toDaemon') : toDaemon'[i] # "Connect"
      BY <3>1, <3>2, <3>4
    <3>8. OnTheWay \in Int
      BY <3>4
    <3>9. Doing' = Doing /\ Doing \in Int
      BY <3>6
    <3>10. carried' + Doing' + OnTheWay' <= asks'
      <4> HIDE DEF Doing, OnTheWay
      <4> QED
        BY <2>3, <3>5, <3>6, <3>8, <3>9
    <3> HIDE DEF Doing, OnTheWay
    <3> QED
      BY <2>3, <3>2, <3>6, <3>7, <3>10
  <2> QED
    BY <2>1, <2>2, <2>3 DEF Request
<1>3. CASE FrameReceived
  BY <1>3 DEF FrameReceived
<1>4. CASE Disconnected
  <2>1. Len(toDaemon) \in Nat /\ (toDaemon # <<>> => Len(toDaemon) > 0)
    BY EmptySeq
  <2>2. OnTheWay >= 0 /\ OnTheWay' = 0
    BY <1>4, <2>1 DEF Disconnected
  <2>3. /\ link' = "lost" /\ toDaemon' = <<>> /\ UNCHANGED <<asks, carried, doing, calling>>
        /\ Doing' = Doing
    BY <1>4 DEF Disconnected
  <2>4. toDaemon' \in Seq(Frames) /\ Len(toDaemon') = 0
    BY <2>3
  <2>5. Doing \in Int /\ OnTheWay \in Int
    BY <2>1
  <2> HIDE DEF Doing, OnTheWay
  <2> QED
    BY <2>2, <2>3, <2>4, <2>5
<1>5. CASE SendCapabilities \/ PowerRequest
  <2>1. toDaemon # <<>> /\ toDaemon' = Tail(toDaemon) /\ UNCHANGED <<link, asks, carried, calling>>
        /\ doing = "nothing"
    BY <1>5 DEF SendCapabilities, PowerRequest
  <2>2. /\ Head(toDaemon) = toDaemon[1] /\ toDaemon' \in Seq(Frames) /\ Len(toDaemon) > 0
        /\ Len(toDaemon) \in Nat /\ Len(toDaemon') = Len(toDaemon) - 1
        /\ \A i \in 1..Len(toDaemon') : toDaemon'[i] = toDaemon[i + 1]
    BY <2>1, HeadTailProperties, EmptySeq
  <2>3. \A i \in 1..Len(toDaemon') : toDaemon'[i] # "Connect"
    BY <2>2
  <2>4. toDaemon' # <<>> => Len(toDaemon') > 0 /\ Head(toDaemon') = toDaemon'[1]
    BY <2>2, HeadTailProperties, EmptySeq
  <2>5. OnTheWay' = Len(toDaemon) - 1
    BY <2>2, <2>3, <2>4
  <2>6. CASE SendCapabilities
    <3>1. OnTheWay = OnTheWay' /\ Doing' = Doing /\ doing' = doing
      BY <2>1, <2>5, <2>6 DEF SendCapabilities
    <3> HIDE DEF Doing, OnTheWay
    <3> QED
      BY <2>1, <2>2, <2>3, <3>1
  <2>7. CASE PowerRequest
    <3>1. OnTheWay' = OnTheWay - 1
      BY <2>1, <2>2, <2>5, <2>7 DEF PowerRequest
    <3>2. Doing' \in {0, 1} /\ Doing = 0 /\ OnTheWay = Len(toDaemon)
      BY <2>1, <2>7 DEF PowerRequest
    <3>3. ~calling
      BY <2>1
    <3>4. carried' + Doing' + OnTheWay' <= asks'
      <4> HIDE DEF Doing, OnTheWay
      <4> QED
        BY <2>1, <2>2, <3>1, <3>2
    <3> HIDE DEF Doing, OnTheWay
    <3> QED
      BY <2>1, <2>2, <2>3, <3>3, <3>4
  <2> QED
    BY <1>5, <2>6, <2>7
<1>6. CASE TryBackend
  <2>1. /\ UNCHANGED <<link, toDaemon, asks, carried>> /\ doing # "nothing" /\ ~calling
        /\ doing' \in {doing, "nothing"} /\ calling' \in BOOLEAN /\ (calling' => doing' = doing)
    BY <1>6 DEF TryBackend, LoopEnds
  <2>2. Doing = 1 /\ Doing' \in {0, 1} /\ OnTheWay' = OnTheWay /\ OnTheWay \in Int
    BY <2>1
  <2> HIDE DEF Doing, OnTheWay
  <2>3. carried' + Doing' + OnTheWay' <= asks' /\ carried' \in Nat
    BY <2>1, <2>2, BusyCounts
  <2>4. calling' \in BOOLEAN /\ (calling' => doing' # "nothing")
    BY <2>1
  <2>5. toDaemon' \in Seq(Frames) /\ \A i \in 2..Len(toDaemon') : toDaemon'[i] # "Connect"
    BY <2>1
  <2> QED
    BY <2>1, <2>3, <2>4, <2>5
<1>7. CASE CallBackend
  <2>1. /\ UNCHANGED <<link, toDaemon, asks>> /\ doing # "nothing" /\ doing' = "nothing"
        /\ calling' = FALSE /\ carried' \in {carried, carried + 1}
    BY <1>7 DEF CallBackend, LoopEnds
  <2>2. Doing = 1 /\ Doing' = 0 /\ OnTheWay' = OnTheWay /\ OnTheWay \in Int
    BY <2>1
  <2> HIDE DEF Doing, OnTheWay
  <2>3. carried' + Doing' + OnTheWay' <= asks' /\ carried' \in Nat
    BY <2>1, <2>2, BusyCounts
  <2>4. calling' \in BOOLEAN /\ (calling' => doing' # "nothing")
    BY <2>1
  <2>5. toDaemon' \in Seq(Frames) /\ \A i \in 2..Len(toDaemon') : toDaemon'[i] # "Connect"
    BY <2>1
  <2> QED
    BY <2>1, <2>3, <2>4, <2>5
<1>8. CASE PolicyChanges
  BY <1>8 DEF PolicyChanges
<1>9. CASE UNCHANGED channelVars
  BY <1>9 DEF channelVars
<1> QED
  BY <1>1, <1>2, <1>3, <1>4, <1>5, <1>6, <1>7, <1>8, <1>9 DEF ChannelNext

(* The system is told to suspend or to go down at most once for each time  *)
(* the user asks, whatever the services can do and whenever they change    *)
(* their mind.                                                             *)
THEOREM PowerIsUsedOnce == ChannelSpec => []PowerOnce
<1>1. ChannelInit => ChannelIInv
  <2> SUFFICES ASSUME ChannelInit PROVE ChannelIInv
    OBVIOUS
  <2>1. toDaemon = <<>> /\ toDaemon \in Seq(Frames) /\ Len(toDaemon) = 0
    BY DEF ChannelInit
  <2>2. Doing = 0 /\ OnTheWay = 0
    BY <2>1 DEF ChannelInit, Doing, OnTheWay
  <2>3. calling = FALSE
    BY DEF ChannelInit
  <2>4. 2..Len(toDaemon) = {}
    BY <2>1
  <2>5. carried + Doing + OnTheWay <= asks
    BY <2>2 DEF ChannelInit
  <2> QED
    BY <2>1, <2>3, <2>4, <2>5 DEF ChannelInit, ChannelIInv
<1>2. ChannelIInv /\ [ChannelNext]_channelVars => ChannelIInv'
  BY ChannelStep
<1>3. ChannelIInv => PowerOnce
  BY WhatIsOnTheWay DEF ChannelIInv, PowerOnce, Doing
<1> QED
  BY <1>1, <1>2, <1>3, PTL DEF ChannelSpec

-------------------------------------------------------------------------------
(* Whichever part a behaviour is of, it is a behaviour of every part: the  *)
(* others stand still.                                                     *)
THEOREM EachPartRuns ==
  ServicesSpec => SettingsSpec /\ ChannelSpec /\ StartUpSpec /\ ConfigurationSpec /\ ProcessSpec
<1>1. ServicesInit =>
        SettingsInit /\ ChannelInit /\ StartUpInit /\ ConfigurationInit /\ ProcessInit
  BY DEF ServicesInit
<1>2. [ServicesNext]_servicesVars =>
        /\ [SettingsNext]_settingsVars /\ [ChannelNext]_channelVars /\ [StartUpNext]_startUpVars
        /\ [ConfigurationNext]_configurationVars /\ [ProcessNext]_processVars
  BY DEF ServicesNext, servicesVars, SettingsPart, ChannelPart, StartUpPart, ConfigurationPart,
         ProcessPart
<1> QED
  BY <1>1, <1>2, PTL DEF ServicesSpec, SettingsSpec, ChannelSpec, StartUpSpec,
                         ConfigurationSpec, ProcessSpec

(* So what holds of the parts alone holds of a system that has them all    *)
(* (PreviousIsKept, AvailableBeforeSelected, SuccessIsWhole,               *)
(* NoFalseSuccess, OneRequestPerPassword, IndependentIsKept, PowerOnce,    *)
(* EnvironmentIsOfThisRun, PriorityHolds, ReadyMeansOwned, SigtermIsKept). *)
THEOREM ServicesAreSafe ==
  ServicesSpec => /\ [](PreviousIsKept /\ AvailableBeforeSelected /\ SuccessIsWhole)
                  /\ [](NoFalseSuccess /\ OneRequestPerPassword) /\ IndependentIsKept
                  /\ []PowerOnce
                  /\ []EnvironmentIsOfThisRun
                  /\ []PriorityHolds
                  /\ [](ReadyMeansOwned /\ SigtermIsKept)
<1> QED
  BY EachPartRuns, PreviousCopiesAreKept, SelectedThemesAreThere, SuccessIsComplete,
     AnswersAreTrue, PasswordsPayRequests, IndependentThemesStay, PowerIsUsedOnce,
     NothingIsLeftOver, LayersHavePriority, DirectoriesAreOwned, SigtermsAreKept, PTL
===============================================================================

------------------------------- MODULE Services -------------------------------
(***************************************************************************)
(* The parts of the system beside logins and helpers, each on its own: a   *)
(* behaviour is one of the settings module with the daemon's server (Kcm), *)
(* of a greeter's connection and the power manager (GreeterChannel), of    *)
(* the greeter session's launcher (StartUp), of the configuration          *)
(* (Configuration), or of the daemon's process (DaemonProcess).  They      *)
(* share nothing but files that one leaves for the other.                  *)
(***************************************************************************)
EXTENDS Kcm, GreeterChannel, StartUp, Configuration, DaemonProcess

VARIABLE part  \* which of them

servicesVars == <<part, settingsVars, channelVars, startUpVars, configurationVars, processVars>>

Parts == {"settings", "channel", "start-up", "configuration", "process"}

(* The parts that stand still have one state to do so.                     *)
ServicesInit ==
  /\ part \in Parts
  /\ SettingsInit /\ ChannelInit /\ StartUpInit /\ ConfigurationInit /\ ProcessInit
  /\ part # "settings" => \A t \in Themes : copy[t] = None
  /\ part # "channel" => registered = {} /\ \A s \in Names : allowed[s] = {}
  /\ part # "start-up" => systemd
  /\ part # "configuration" => \A l \in LayerNames : says[l] = Unset
  /\ part # "process" => account = NoId

SettingsPart ==
  /\ part = "settings" /\ SettingsNext
  /\ UNCHANGED <<part, channelVars, startUpVars, configurationVars, processVars>>

ChannelPart ==
  /\ part = "channel" /\ ChannelNext
  /\ UNCHANGED <<part, settingsVars, startUpVars, configurationVars, processVars>>

StartUpPart ==
  /\ part = "start-up" /\ StartUpNext
  /\ UNCHANGED <<part, settingsVars, channelVars, configurationVars, processVars>>

ConfigurationPart ==
  /\ part = "configuration" /\ ConfigurationNext
  /\ UNCHANGED <<part, settingsVars, channelVars, startUpVars, processVars>>

ProcessPart ==
  /\ part = "process" /\ ProcessNext
  /\ UNCHANGED <<part, settingsVars, channelVars, startUpVars, configurationVars>>

ServicesNext == SettingsPart \/ ChannelPart \/ StartUpPart \/ ConfigurationPart \/ ProcessPart

ServicesSpec == ServicesInit /\ [][ServicesNext]_servicesVars

===============================================================================

-------------------------- MODULE DisplayLifecycle --------------------------
(***************************************************************************)
(* What a seat may rely on in a display it created: the display is started *)
(* once at most, stops in one step, which is the only one to emit          *)
(* stopped(), and is then only waiting for its deletion.  stopped() may be *)
(* emitted up to three times in that step, because finished() and the      *)
(* greeter's failed() reach Display::stop() while it runs, or not at all,  *)
(* when the seat itself removes the display.                               *)
(***************************************************************************)
EXTENDS Naturals

VARIABLES
  life,     \* alive, doomed (deleteLater() posted) or deleted
  started,  \* between start() and stop()
  stops,    \* stopped() signals emitted
  crashed   \* the daemon is gone

vars == <<life, started, stops, crashed>>

Init == life = "alive" /\ started = FALSE /\ stops = 0 /\ crashed = FALSE

Begin ==
  /\ life = "alive" /\ ~started /\ stops = 0
  /\ started' = TRUE
  /\ UNCHANGED <<life, stops, crashed>>

Stop ==
  /\ life = "alive" /\ started
  /\ started' = FALSE
  /\ life' = "doomed"
  /\ stops' \in 0 .. 3
  /\ UNCHANGED crashed

GiveUp ==
  /\ life = "alive" /\ ~started
  /\ life' = "doomed"
  /\ UNCHANGED <<started, stops, crashed>>

Delete ==
  /\ life' = "deleted"
  /\ started' = FALSE
  /\ UNCHANGED <<stops, crashed>>

Crash ==
  /\ crashed' = TRUE
  /\ UNCHANGED <<life, started, stops>>

Next == ~crashed /\ life # "deleted" /\ (Begin \/ Stop \/ GiveUp \/ Delete \/ Crash)

Spec == Init /\ [][Next]_vars

=============================================================================

---------------------------- MODULE HelperContract ----------------------------
(***************************************************************************)
(* What the daemon may rely on when it starts a helper (src/auth/Auth.h):  *)
(* one verdict about the user, after a favourable one at most one report   *)
(* about the session, and an end whose exit code fits what was said.       *)
(* Display takes its helpers to behave like this; Helper does.             *)
(***************************************************************************)
CONSTANT Codes  \* the exit codes of a helper, those of a session included

VARIABLES
  verdict,  \* AUTHENTICATED: "none", "no" (without a user) or "yes"
  status,   \* SESSION_STATUS: "none", "failed" or "ok"
  ended     \* "no", "killed" or the exit code

contractVars == <<verdict, status, ended>>

ContractInit == verdict = "none" /\ status = "none" /\ ended = "no"

Judge ==
  /\ ended = "no" /\ verdict = "none"
  /\ verdict' \in {"no", "yes"} /\ UNCHANGED <<status, ended>>

Report ==
  /\ ended = "no" /\ verdict = "yes" /\ status = "none"
  /\ status' \in {"failed", "ok"} /\ UNCHANGED <<verdict, ended>>

(* The codes a helper may end with after what it has said.  Only a session *)
(* that was reported as running brings an exit code of its own.            *)
Fitting ==
  CASE verdict = "no"    -> {"AUTH_ERROR"}
    [] status = "failed" -> {"SESSION_ERROR"}
    [] status = "ok"     -> Codes
    [] OTHER             -> {"SUCCESS", "OTHER_ERROR"}

End ==
  /\ ended = "no"
  /\ ended' \in Fitting \cup {"killed"} /\ UNCHANGED <<verdict, status>>

ContractNext == Judge \/ Report \/ End

ContractSpec == ContractInit /\ [][ContractNext]_contractVars
===============================================================================

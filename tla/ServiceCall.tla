----------------------------- MODULE ServiceCall -----------------------------
(***************************************************************************)
(* What ServiceRegistry.async_call promises its callers, with no event     *)
(* bus, no listeners and no loop in sight: a call is answered by at most   *)
(* one execution of a handler, and a caller is told success only after its    *)
(* own call has been answered.  It may be told failure at any time, and the  *)
(* handler may still run afterwards.                                       *)
(***************************************************************************)
CONSTANT Calls

VARIABLES
  phase,     \* where each call is: "new", "open" or "over"
  runs,      \* how many handler runs each call has caused
  answered,  \* the calls whose handler has returned, or that were refused
  told       \* what the caller was told: "none", "success" or "failure"

vars == <<phase, runs, answered, told>>

Init ==
  /\ phase = [c \in Calls |-> "new"]
  /\ runs = [c \in Calls |-> 0]
  /\ answered = {}
  /\ told = [c \in Calls |-> "none"]

Issue(c) ==
  /\ phase[c] = "new"
  /\ phase' = [phase EXCEPT ![c] = "open"]
  /\ UNCHANGED <<runs, answered, told>>

(* The only run of a handler begins, and may be over at once.  The caller  *)
(* may have gone by then, but the call was made.                           *)
Start(c) ==
  /\ phase[c] # "new" /\ runs[c] = 0 /\ c \notin answered
  /\ runs' = [runs EXCEPT ![c] = 1]
  /\ answered' \in {answered, answered \cup {c}}
  /\ UNCHANGED <<phase, told>>

(* A handler returns, or the call is refused before any has begun.         *)
Answer(c) ==
  /\ phase[c] # "new" /\ c \notin answered
  /\ answered' = answered \cup {c}
  /\ UNCHANGED <<phase, runs, told>>

Return(c) ==
  /\ phase[c] = "open"
  /\ phase' = [phase EXCEPT ![c] = "over"]
  /\ \/ c \in answered /\ told' = [told EXCEPT ![c] = "success"]
     \/ told' = [told EXCEPT ![c] = "failure"]
  /\ UNCHANGED <<runs, answered>>

(* The caller goes away, or did not want to wait.                          *)
Leave(c) ==
  /\ phase[c] # "over"
  /\ phase' = [phase EXCEPT ![c] = "over"]
  /\ UNCHANGED <<runs, answered, told>>

Next == \E c \in Calls : Issue(c) \/ Start(c) \/ Answer(c) \/ Return(c) \/ Leave(c)

Spec == Init /\ [][Next]_vars
=============================================================================

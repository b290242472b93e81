----------------------------- MODULE SpiderJob -----------------------------
(***************************************************************************)
(* What the grab spider promises: each task it was given is processed by   *)
(* its handler or given up at a limit, and it stops only when none is left *)
(* or when it is told to; or when tasks have moved so steadily, between    *)
(* its threads, that it could not see them.                                *)
(***************************************************************************)
EXTENDS FiniteSets

CONSTANT Tasks

VARIABLES
  given,    \* tasks added so far
  open,     \* those neither processed nor given up yet
  told,     \* was it told to stop?
  hectic,   \* did tasks move whenever it looked for one?
  stopped

vars == <<given, open, told, hectic, stopped>>

Init == given = {} /\ open = {} /\ told = FALSE /\ hectic = FALSE /\ stopped = FALSE

(* Nobody gives it a task after it has stopped of itself.                  *)
Give(T) ==
  /\ stopped => told
  /\ given' = given \cup T /\ open' = open \cup (T \ given)
  /\ UNCHANGED <<told, hectic, stopped>>

(* A task ends; its handler may have asked for others.  The handlers go on *)
(* a while with what is open when it stops.                                *)
End(t, T) ==
  /\ t \in open
  /\ given' = given \cup T
  /\ open' = (open \cup (T \ given)) \ {t}
  /\ UNCHANGED <<told, hectic, stopped>>

Tell == ~stopped /\ told' = TRUE /\ UNCHANGED <<given, open, hectic, stopped>>

Stop ==
  /\ ~stopped /\ (open = {} \/ told' \/ hectic')
  /\ stopped' = TRUE
  /\ UNCHANGED <<given, open>>

Next ==
  \/ \E T \in SUBSET Tasks : Give(T) \/ \E t \in open : End(t, T)
  \/ Tell \/ Stop

Spec == Init /\ [][Next]_vars
=============================================================================

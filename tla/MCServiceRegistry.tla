-------------------------- MODULE MCServiceRegistry --------------------------
(***************************************************************************)
(* Small instances of ServiceRegistry: one service, which a function and a *)
(* coroutine function are registered for in turn, and two or three calls.  *)
(***************************************************************************)
EXTENDS ServiceRegistry, TLC

CONSTANTS light, turnOn, toggle

MCKind == turnOn :> "function" @@ toggle :> "coroutine"
MCName == [c \in Calls |-> light]
=============================================================================

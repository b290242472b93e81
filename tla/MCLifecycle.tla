----------------------------- MODULE MCLifecycle -----------------------------
(***************************************************************************)
(* Small instances of Lifecycle: three coroutines, three functions and a   *)
(* callback, one or more in every stage.                                   *)
(***************************************************************************)
EXTENDS Lifecycle, TLC

CONSTANTS a, b, c, d, e, f, g

MCKind == a :> "coroutine" @@ b :> "coroutine" @@ c :> "function" @@
          d :> "function" @@ e :> "function" @@ f :> "callback" @@ g :> "coroutine"

(* A component set up in stage 1; a START listener that hands a function   *)
(* to the executor, perhaps only once Home Assistant runs; STOP listeners  *)
(* in the executor and in the loop.                                        *)
MCListeners ==
  [x \in Stages |-> CASE x = "setup1" -> <<a>>
                      [] x = "START" -> <<b>>
                      [] x = "STOP" -> <<f, c>>
                      [] OTHER -> <<>>]

MCSpawns ==
  [j \in Jobs |-> CASE j = a -> {e} [] j = b -> {d} [] j = c -> {g} [] OTHER -> {}]
=============================================================================

----------------------------- MODULE MCEventBus -----------------------------
(***************************************************************************)
(* Small instances of EventBus: model values for events, functions and     *)
(* closures, and the kinds of listener each run needs.                     *)
(***************************************************************************)
EXTENDS EventBus

CONSTANTS f1, f2, w1

(* A callback and a sync function listen, nobody only once.               *)
MCKind == f1 :> "callback" @@ f2 :> "function"
NoTarget == <<>>

(* One coroutine listens, and also once.                                   *)
CoroutineKind == f1 :> "coroutine"
CoroutineTarget == w1 :> f1
=============================================================================

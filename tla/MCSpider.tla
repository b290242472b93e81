------------------------------ MODULE MCSpider ------------------------------
(***************************************************************************)
(* A small instance of Spider: a task whose handler asks for another, or   *)
(* two tasks at once.                                                      *)
(***************************************************************************)
EXTENDS Spider, TLC

CONSTANTS a, b, c, d

MCGenerators == {<<a>>, <<c, d>>}
MCChildren == a :> {b} @@ b :> {} @@ c :> {} @@ d :> {}

(* One task that yields nothing, for the code's default limits.            *)
MCAlone == {<<a>>}
MCNoChildren == [t \in Tasks |-> {}]
=============================================================================

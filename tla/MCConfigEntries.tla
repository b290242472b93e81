--------------------------- MODULE MCConfigEntries ---------------------------
(***************************************************************************)
(* A small instance: a light that needs a hub, which may, by mistake, need *)
(* the light.                                                              *)
(***************************************************************************)
EXTENDS ConfigEntries, TLC

CONSTANTS hub, light, f1

MCDependencies == {light :> {hub} @@ hub :> {}, light :> {hub} @@ hub :> {light}}
MCFlowDomain == [f \in Flows |-> light]
=============================================================================

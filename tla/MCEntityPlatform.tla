-------------------------- MODULE MCEntityPlatform --------------------------
EXTENDS EntityPlatform, TLC

CONSTANTS e1, e2, b1, b2

(* Which of the two is polled, and how each one comes by its id: a name    *)
(* of its own choice, one generated, or the registry's, old or new.        *)
Mix(b, P, new, old, own) ==
  [batch |-> (e1 :> b1 @@ e2 :> b), polled |-> P, unique |-> new \cup old, preset |-> own,
   registry |-> [e \in Entities |-> IF e \in old THEN 1 ELSE 0]]

MCMixes ==
  {Mix(b2, P, {}, {}, {e1, e2}) : P \in {{e1}, {e2}, {e1, e2}}}
    \cup {Mix(b, P, {}, {e1}, {e2}) : b \in {b1, b2}, P \in {{e1}, {e2}}}
    \cup {Mix(b, {e1, e2}, {e1}, {}, {}) : b \in {b1, b2}}
    \cup {Mix(b2, P, {e1}, {}, {e2}) : P \in {{e1}, {e2}}}
=============================================================================

------------------------------- MODULE KeySet -------------------------------
(***************************************************************************)
(* What redis' dict promises its callers: a set of keys, changed and       *)
(* queried one operation at a time.  `reply' is what the last call returned.*)
(***************************************************************************)
CONSTANT Keys

VARIABLES elements, reply

Init == elements = {} /\ reply = FALSE

\* Adds k, and says whether it was absent.
Add(k) == elements' = elements \cup {k} /\ reply' = (k \notin elements)

\* Removes k, and says whether it was present.
Delete(k) == elements' = elements \ {k} /\ reply' = (k \in elements)

\* Says whether k is present.
Find(k) == reply' = (k \in elements) /\ UNCHANGED elements

\* Says whether there is a key, and returns one.
Random == reply' = (elements # {}) /\ UNCHANGED elements

Clear == elements' = {} /\ reply' = TRUE

Next == (\E k \in Keys : Add(k) \/ Delete(k) \/ Find(k)) \/ Random \/ Clear

Spec == Init /\ [][Next]_<<elements, reply>>
=============================================================================

--------------------------- MODULE MCTurnDelivery ---------------------------
(* TurnDelivery on small sets.  A row has one wording; those in Alike share *)
(* theirs, those in Reworded have a second one of their own.                *)
EXTENDS TurnDelivery, TLC

CONSTANTS Alike, Reworded

MCTexts ==
  [r \in Reports |->
     {IF r \in Alike THEN <<"same">> ELSE <<"one of", r>>}
     \cup IF r \in Reworded THEN {<<"other of", r>>} ELSE {}]

MCNotices == UNION { MCTexts[r] : r \in Reports }

Symmetry == Permutations(Turns)

=============================================================================

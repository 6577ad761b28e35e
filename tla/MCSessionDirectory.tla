-------------------------- MODULE MCSessionDirectory --------------------------
(***************************************************************************)
(* Two starts and a stop: the second start may find the first session's    *)
(* directory stale.  Or one start and two stops: the second stop may find  *)
(* it gone.                                                                *)
(***************************************************************************)
EXTENDS SessionDirectory, TLC

MCCasts == {cast \in SUBSET (Sessions \cup Stops) :
              /\ Cardinality(cast) = 3
              /\ cast \cap Sessions # {} /\ cast \cap Stops # {}}

MCSymmetry == Permutations(Sessions) \cup Permutations(Stops)
=============================================================================

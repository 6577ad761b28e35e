-------------------------- MODULE MCSessionJournal --------------------------
(* SessionJournal on small sets, with identifiers as symmetric model values. *)
EXTENDS SessionJournal, TLC

Interchangeable == Permutations(EventIds) \cup Permutations(ResponseIds)
=============================================================================

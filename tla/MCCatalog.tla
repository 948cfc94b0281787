------------------------------ MODULE MCCatalog ------------------------------
(***************************************************************************)
(* One line with its listing, which two people review at a time.           *)
(***************************************************************************)
EXTENDS Catalog, TLC

\* Terms, photos and reviewers are interchangeable; the runs check invariants only.
Interchangeable ==
    Permutations(Terms) \cup Permutations(Photos) \cup Permutations(Reviewers)
=============================================================================

--------------------------- MODULE MCScmObserver ---------------------------
(***************************************************************************)
(* ScmObserver with symmetric commits, work trees, checks and errors.  The *)
(* properties of its runs are safety properties, which no permutation of   *)
(* these changes.                                                          *)
(***************************************************************************)
EXTENDS ScmObserver, TLC

Symmetry ==
  Permutations(Heads) \cup Permutations(Trees) \cup Permutations(Checks)
    \cup Permutations(Conclusions) \cup Permutations(GitErrors)

=============================================================================

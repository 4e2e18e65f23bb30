------------------------- MODULE MCObservationCycle -------------------------
(***************************************************************************)
(* ObservationCycle with the second source of the first project flaky.     *)
(***************************************************************************)
EXTENDS ObservationCycle

OneFlaky == {<<1, 2>>}

=============================================================================

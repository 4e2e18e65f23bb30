-------------------------- MODULE MCKnowledgeIndex --------------------------
(***************************************************************************)
(* KnowledgeIndex with files that share identifiers and fingerprints, are  *)
(* withdrawn, foreign, malformed, or repeat a fingerprint.                 *)
(***************************************************************************)
EXTENDS KnowledgeIndex

Problem ==
  [valid |-> TRUE, absent |-> FALSE, id |-> 1, type |-> "known_problem",
   status |-> "confirmed", scope |-> "project", own |-> TRUE, fits |-> TRUE,
   words |-> FALSE, fingerprints |-> <<1>>]

SharedLesson ==
  [Problem EXCEPT !.id = 2, !.type = "lesson", !.status = "approved",
                  !.scope = "shared", !.own = FALSE, !.words = TRUE]

SomeDocuments ==
  { Problem,
    [Problem EXCEPT !.status = "withdrawn"],
    [Problem EXCEPT !.fingerprints = <<2, 2, 1>>, !.words = TRUE],
    SharedLesson,
    [SharedLesson EXCEPT !.type = "prompt", !.status = "stable", !.fingerprints = << >>],
    Malformed }

=============================================================================

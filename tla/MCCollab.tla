------------------------------ MODULE MCCollab ------------------------------
(* Instances of CollabSubmission for TLC. *)
EXTENDS CollabSubmission, TLC

PageSymmetry == Permutations(Pages)

Scenario(who, pages, bad, slots) ==
  [asks |-> who, pages |-> pages, faults |-> bad, requests |-> slots]

\* Two students write while the server restarts; two students submit; one
\* submits as the deadline passes and a process dies, or as the teacher ends the
\* session or returns the document, with a request left behind by a timeout.
AllScenarios == {
  Scenario({}, Pages, 1, 0),
  Scenario({"submit"}, Pages, 0, 1)} \cup UNION {{
  Scenario({"submit", "auto"}, {p}, 1, 1),
  Scenario({"submit", "end", "return"}, {p}, 0, 1),
  Scenario({"submit", "return"}, {p}, 0, 2)} : p \in Pages}

Alone == {Scenario({"submit"}, {p}, 0, 1) : p \in Pages}
=============================================================================

---------------------------- MODULE MCDiscussion ----------------------------
(* Instances of EmotionSlots, and with it of Discussion, for TLC.            *)
EXTENDS EmotionSlots, TLC

CONSTANTS t1, t2, g1, g2, w1, w2

Members(m1, m2) == [g \in Groups |-> IF g = g1 THEN m1 ELSE m2]

Scenario(members, begins, span, asks, bad, workers) ==
  [members |-> members, begins |-> begins, limit |-> 1, span |-> span, asks |-> asks,
   mode |-> "none", faults |-> bad, workers |-> workers, agents |-> {}]

\* The emotion agent alone, and with the end of the session in its way.
Feedback(limit, span, asks, bad, agents) ==
  [members |-> Members({t1}, {}), begins |-> "discussing", limit |-> limit, span |-> span,
   asks |-> asks, mode |-> "emotion", faults |-> bad, workers |-> {}, agents |-> agents]

\* Two students enter while the teacher ends the session; one is returned the
\* document, and processes die; two groups, one of which fails; finalization by
\* two workers; then the emotion agent, at last with a slot that cannot even be
\* failed.
AllScenarios == {
  Scenario(Members({t1, t2}, {}), "draft", 2, {"enter", "end"}, 0, {w1}),
  Scenario(Members({t1}, {}), "running", 2, {"enter", "return", "end", "page", "crash"}, 1, {}),
  Scenario(Members({t1}, {t2}), "discussing", 1, {"return", "end"}, 1, {}),
  Scenario(Members({t1}, {}), "discussing", 1, {"submit", "end", "crash"}, 1, {w1, w2}),
  Feedback(5, 5, {"crash"}, 1, {w1}),
  Feedback(5, 5, {}, 0, {w1, w2}),
  Feedback(4, 4, {}, 1, {w1, w2}),
  Feedback(5, 5, {"submit"}, 0, {w1}),
  Feedback(3, 3, {}, 2, {w1})}

OneCrash == {Feedback(3, 4, {"crash"}, 1, {w1})}
=============================================================================

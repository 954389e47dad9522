-------------------------- MODULE MCEvaluationHarness --------------------------
EXTENDS EvaluationHarness

\* 08:59, 17:59, 18:59 and 20:00 in India: from there none, three, two and none
\* of the hours are open.
MinutesUsed == {209, 749, 809, 870}

AnswersUsed == {NoAnswer, [retry |-> 10, link |-> 90]}
=============================================================================

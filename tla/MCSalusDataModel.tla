-------------------------- MODULE MCSalusDataModel --------------------------
EXTENDS SalusDataModel

Week(h1, h2, h3, m) ==
  [k \in 0 .. 2 |-> [hour |-> <<h1, h2, h3>>[k + 1], minute |-> m, temperature |-> k % 2]]

Doc(h, d, work, rest, n) ==
  [hour |-> h, minute |-> 0, day |-> d, reads |-> n,
   program |-> [w \in {"WorkDays", "WeekEnds"} |-> IF w = "WorkDays" THEN work ELSE rest]]

MCSettings == Doc(1, 0, Week(0, 2, 3, 0), Week(1, 2, 3, 0), 21)

\* A whole document, and one each that fails in the clock, at the second item of
\* the work days, at its temperature, between the programs and at the last item of
\* the weekend.
MCFiles == {Doc(0, 1, Week(0, 1, 2, 1), Week(0, 3, 4, 1), 21),
            Doc(4, 1, Week(2, 3, 4, 0), Week(2, 3, 4, 0), 1),
            Doc(2, 1, Week(3, 4, 5, 0), Week(0, 1, 2, 0), 6),
            Doc(3, 0, Week(1, 3, 4, 1), Week(0, 1, 2, 0), 8),
            Doc(2, 0, Week(0, 3, 4, 0), Week(0, 1, 2, 0), 12),
            Doc(3, 1, Week(0, 2, 4, 0), Week(3, 4, 5, 1), 18)}
=============================================================================

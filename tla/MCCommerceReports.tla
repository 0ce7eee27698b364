-------------------------- MODULE MCCommerceReports --------------------------
(* Instances of the ledgers and their reports. *)
EXTENDS ReportFigures, TLC

CONSTANTS c1, c2, e1, e2, e3, p1, s1, l1, l2, camp, a1, a2, clean, dirty, sku, k1, r1, r2, d1

Money(gross, fee, cost) == [gross |-> gross, fee |-> fee, cost |-> cost]
MCEvidence == {Money(2, 1, 0)}

Move(a, r, s) == [available |-> a, reserved |-> r, sold |-> s]
MCMovements == {Move(2, 0, 0), Move(-1, 0, 1)}

MCStatements == {[k \in Kinds |-> 1], [k \in Kinds |-> IF k = "cogs" THEN Unknown ELSE 1]}

Update(t, p, d) == [text |-> t, published |-> p, disclosed |-> d]
MCEdits == {Update(Keep, TRUE, TRUE), Update(dirty, Keep, Keep), Update(clean, TRUE, TRUE),
            Update(Keep, FALSE, FALSE), Update(Keep, Keep, FALSE)}

MCRecorded == [e \in {e1} |-> l1]
MCDrafts == [a \in {a1} |-> [text |-> dirty, link |-> l1]]

Interchangeable == Permutations(Clients) \cup Permutations({e2, e3})
                                             \cup Permutations({r1, r2})
=============================================================================

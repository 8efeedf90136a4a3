----------------------------- MODULE MCGradingRun ------------------------------
(* GradingRun for TLC: two runs of a team, and another team's request whose *)
(* message is not JSON.                                                     *)
EXTENDS GradingRun, TLC

CONSTANTS w1, w2, r1, r2, other

OneWorker    == {w1}
TwoWorkers   == {w1, w2}
TwoRuns      == {r1, r2}
RunsAndOther == {r1, r2, other}
OnlyOther    == {other}
Teams        == [t \in Tests |-> IF t = other THEN "team 2" ELSE "team 1"]
AllFaults    == {{"overlap", "replies", "malformed"}, {"unchecked", "malformed"},
                 {"crash", "malformed"}}
================================================================================

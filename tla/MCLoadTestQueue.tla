---------------------------- MODULE MCLoadTestQueue ----------------------------
(* LoadTestQueue for TLC: two workers, up to two requests. *)
EXTENDS LoadTestQueue, TLC

CONSTANTS w1, w2, t1, t2

OneWorker   == {w1}
TwoWorkers  == {w1, w2}
WorkerSymmetry == Permutations(Workers)

OneTest     == {t1}
TwoTests    == {t1, t2}
SameTeam    == [t \in Tests |-> "team 1"]

NoFaults  == {{}}
LongTest  == {{"longTest"}}
SafetyFaults == {{"crash", "aging", "deadLetter"}, {"calls"}, {"overrun"},
                 {"crash", "malformed"}}

NoTest     == {}
SecondTest == {t2}
================================================================================

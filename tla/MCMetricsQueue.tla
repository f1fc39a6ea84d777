--------------------------- MODULE MCMetricsQueue ---------------------------
(* Instances of MetricsQueue for TLC.  Artifacts 1 and 2 have one name, as   *)
(* the daily reports do; artifact 3 has a name of its own.                   *)
EXTENDS MetricsQueue, TLC

CONSTANTS s1, s2, s3

MCName == [a \in Artifacts |-> IF a = 3 THEN "vault" ELSE "report"]

MCSuffixSymmetry == Permutations(Suffixes)

AllFaults ==
    {"commit_kill", "ingest_crash", "ingest_unlink", "ingest_copy",
     "suffix_reuse", "dispatch_link", "dispatch_unlink", "dispatch_crash",
     "sender_crash", "answer_lost", "archive_move", "vault_closed"}

\* Without the faults that leave one entry both in main_outbox and in the
\* channel queue, or give two entries one path.
HealingFaults ==
    AllFaults \ {"dispatch_unlink", "dispatch_crash", "suffix_reuse"}

OnlyDispatchCrash == {"dispatch_crash"}

=============================================================================

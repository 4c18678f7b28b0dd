-------------------------- MODULE MCCombinedSession --------------------------
(* A browser that kept nothing, or one copy of an earlier network session whose *)
(* report was accepted, or patched and retested; two reports, at most two      *)
(* journalled attempts (the journal's own limit) and three SDK calls.          *)
EXTENDS CombinedSession, TLC

CONSTANTS r1, r2

MCReports == {r1, r2}

Earlier(status, patched) ==
    [Fresh EXCEPT !.mode = "midnight", !.contractAddress = TRUE, !.deploymentTransactionId = 100,
                  !.report = r1, !.status = status, !.history = <<status>>,
                  !.patch = patched, !.retest = patched]

MCCopies == {Earlier("ACCEPTED", FALSE), Earlier("RETEST_PASSED", TRUE)}
=============================================================================

---------------------------- MODULE MCRoleJournal ----------------------------
(* MCRoleJournal.cfg: two tabs on one browser copy and one transaction, with   *)
(* edits of a draft.  MCRoleJournalLive.cfg: one tab; either two copies and two *)
(* transactions of a vendor, or one copy of a vault that an older release left  *)
(* with one attempt, which then takes every edit and one more attempt.          *)
EXTENDS RoleJournal, TLC

CONSTANTS copy1, report1, oldTx

Interchangeable == Permutations(Tabs) \cup Permutations(TxIds)

Vault(version, role, deployed, reports) ==
    [f \in fieldsOf(version) |->
        CASE f = "version" -> version [] f = "role" -> role [] f = "deployed" -> deployed
          [] f = "reports" -> reports [] f \in {"submissionAttempts", "reportNotes"} -> <<>>
          [] OTHER -> Null]

\* With the attempt that an older release recorded, without its intent.
Attempted(v) ==
    [v EXCEPT !.submissionAttempts = oldTx :> [f \in entryFieldsOf(v.version) |-> Null]]

\* The first copy holds v, the others are free, or were removed.
Holding(v, others) ==
    [c \in CopyIds |-> IF c = copy1 THEN [revision |-> 1, vault |-> v] ELSE others]

OneResearcher == {Holding(Vault(6, "researcher", TRUE, {report1}), Unused)}

Anyone ==
    {Holding(withReportNotes(Vault(12, "vendor", TRUE, {report1}), [reportId |-> report1, text |-> 1]), Unused)}
    \cup {Holding(v, Deleted) : v \in
             {Attempted(Vault(2, "researcher", TRUE, {})),
              Attempted(Vault(4, "vendor", FALSE, {})),
              Attempted(Vault(8, "researcher", TRUE, {report1}))}}
=============================================================================

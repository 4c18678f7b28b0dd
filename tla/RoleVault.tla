------------------------------ MODULE RoleVault -------------------------------
(***************************************************************************)
(* The vault of one role (web/src/role-recovery.ts): a document of twelve  *)
(* versions, in which a later version has more fields, and so has every    *)
(* entry of its submission journal.  The operations of the workspace raise *)
(* the version as far as they need and must fill in what that version asks *)
(* for, since a vault that does not validate can be neither saved nor      *)
(* restored.                                                               *)
(*                                                                         *)
(* A text is the number of its edits, a report its identifier; Null stands *)
(* for null.  A field that the version does not have is not in the domain. *)
(***************************************************************************)
EXTENDS Naturals, FiniteSets, SequencesExt

CONSTANTS Null,
          MaxAttempts,      \* MAX_SUBMISSION_ATTEMPTS, 200 in the source
          MaxReports        \* 100 in the source

ASSUME VaultBounds == MaxAttempts \in Nat /\ MaxReports \in Nat

\* The version that a field appears with.
FieldSince ==
    [submissionAttempts |-> 2, draft |-> 3, reportNotes |-> 4, attachmentDraft |-> 7,
     programDraft |-> 11]

EntryFieldSince ==
    [intent |-> 5, finalization |-> 6, notes |-> 8, retestPassed |-> 9,
     retestPatchCommitment |-> 10, deployment |-> 12]

fieldsOf(version) ==
    {"version", "role", "deployed", "reports"} \cup {f \in DOMAIN FieldSince : FieldSince[f] =< version}

entryFieldsOf(version) == {f \in DOMAIN EntryFieldSince : EntryFieldSince[f] =< version}

circuitsOf(role) ==
    IF role = "researcher" THEN {"submitReport", "submitRetest"}
    ELSE {"beginTriage", "acceptReport", "rejectReport", "anchorPatch", "authorizePayout", "closeReport"}

\* value[f] ?? null, and [] for a list.
get(v, f) ==
    IF f \in DOMAIN v THEN v[f]
    ELSE IF f \in {"submissionAttempts", "reportNotes"} THEN <<>> ELSE Null

journal(v) == get(v, "submissionAttempts")
assertSubmissionCapacity(v) == Cardinality(DOMAIN journal(v)) < MaxAttempts

-----------------------------------------------------------------------------
(* What can be saved and restored.                                         *)

validateIntent(intent, role) ==
    IF intent.circuit = "constructor" THEN role = "vendor" /\ intent.reportId = Null
    ELSE intent.circuit \in circuitsOf(role)

\* An entry of a vault, field by field and as far as they depend on each other.
validEntry(v, entry) ==
    LET intent == get(entry, "intent")
        circuit == IF intent = Null THEN Null ELSE intent.circuit
        has(f) == get(entry, f) # Null
    IN  /\ DOMAIN entry = entryFieldsOf(v.version)
        /\ has("intent") => /\ validateIntent(intent, v.role)
                            /\ intent.reportId # Null => intent.reportId \in v.reports
        /\ has("finalization") => has("intent") /\ v.deployed
        /\ has("notes") => has("intent") /\ entry.notes.reportId = intent.reportId
        /\ has("retestPassed") => circuit = "submitRetest"
        /\ has("retestPatchCommitment") => circuit = "submitRetest" /\ has("retestPassed")
        /\ has("deployment") => v.role = "vendor" /\ circuit = "constructor"

validateRoleVault(v) ==
    /\ v.version \in 1..12
    /\ DOMAIN v = fieldsOf(v.version)
    /\ Cardinality(v.reports) =< MaxReports
    /\ Cardinality(DOMAIN journal(v)) =< MaxAttempts
    /\ \A tx \in DOMAIN journal(v) : validEntry(v, journal(v)[tx])
    /\ ~v.deployed => v.role = "vendor" /\ v.reports = {}
    /\ DOMAIN get(v, "reportNotes") \subseteq v.reports
    /\ {get(v, "draft"), get(v, "attachmentDraft")} # {Null} => v.role = "researcher"
    /\ get(v, "programDraft") # Null => v.role = "vendor"

-----------------------------------------------------------------------------
(* The operations.                                                         *)

\* At least version n, with the fields given and those fields of every entry.
raise(v, n, fields, entryFields) ==
    LET filled(entry) == [f \in DOMAIN entry \cup entryFields |-> get(entry, f)]
    IN  [f \in DOMAIN v \cup fields |->
            CASE f = "version" -> IF v.version >= n THEN v.version ELSE n
              [] f = "submissionAttempts" -> [tx \in DOMAIN journal(v) |-> filled(journal(v)[tx])]
              [] OTHER -> get(v, f)]

withRoleDraft(v, draft) ==
    [raise(v, 3, {"submissionAttempts", "draft"}, {}) EXCEPT !.draft = draft]

withReportNotes(v, note) ==
    [raise(v, 4, {"submissionAttempts", "draft", "reportNotes"}, {})
        EXCEPT !.reportNotes = [r \in DOMAIN @ \cup {note.reportId} |->
                                   IF r = note.reportId THEN note.text ELSE @[r]]]

withAttachmentDraft_KeepsEntries(v, attachment) ==
    [raise(v, 7, {"submissionAttempts", "draft", "reportNotes", "attachmentDraft"}, {})
        EXCEPT !.attachmentDraft = attachment]

withAttachmentDraft(v, attachment) ==
    [raise(v, 7, {"submissionAttempts", "draft", "reportNotes", "attachmentDraft"},
           {"intent", "finalization"}) EXCEPT !.attachmentDraft = attachment]

withProgramDraft(v, draft) ==
    [raise(v, 11, {"submissionAttempts", "draft", "reportNotes", "attachmentDraft", "programDraft"},
           {"intent", "finalization", "notes", "retestPassed", "retestPatchCommitment"})
        EXCEPT !.programDraft = draft]

\* A new entry has every field of its version, an old one never gets an intent.
withSubmissionAttempt(v, tx, intent) ==
    LET w == raise(v, 5, {"submissionAttempts", "draft", "reportNotes"}, {"intent"})
        entry == [f \in entryFieldsOf(w.version) |-> IF f = "intent" THEN intent ELSE Null]
    IN  [w EXCEPT !.submissionAttempts = [x \in DOMAIN @ \cup {tx} |-> IF x = tx THEN entry ELSE @[x]]]

withDeploymentInputs(v, tx, inputs) ==
    [raise(v, 12, {"draft", "reportNotes", "attachmentDraft", "programDraft"}, DOMAIN EntryFieldSince)
        EXCEPT !.submissionAttempts[tx].deployment = inputs]

withSubmissionNotes(v, tx, note) ==
    [raise(v, 8, {"draft", "reportNotes", "attachmentDraft"}, {"intent", "finalization", "notes"})
        EXCEPT !.submissionAttempts[tx].notes = note]

\* The workspace always names the patch of a retest.
withRetestChoice(v, tx, passed, patch) ==
    [raise(v, 10, {"draft", "reportNotes", "attachmentDraft"},
           {"intent", "finalization", "notes", "retestPassed", "retestPatchCommitment"})
        EXCEPT !.submissionAttempts[tx].retestPassed = passed,
               !.submissionAttempts[tx].retestPatchCommitment = patch]

\* The finalization that is saved first stays.
withFinalizedSubmission(v, tx, finalization) ==
    [raise(v, 6, {"draft", "reportNotes"}, {"intent", "finalization"})
        EXCEPT !.submissionAttempts[tx].finalization = IF @ = Null THEN finalization ELSE @]

finalizedIn(entries) == {tx \in DOMAIN entries : get(entries[tx], "finalization") # Null}

\* What one journal says of an attempt, the other says as well.
keeps(old, new) ==
    \A tx \in DOMAIN old : tx \in DOMAIN new /\
        \A f \in DOMAIN old[tx] : old[tx][f] # Null => get(new[tx], f) = old[tx][f]
=============================================================================

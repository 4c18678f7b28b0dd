------------------------- MODULE RoleJournalProofs ---------------------------
(***************************************************************************)
(* No identifier that reached the wallet, and nothing a journal says of it, *)
(* is ever lost to a later save, for any tabs, copies, transactions and     *)
(* edits.                                                                   *)
(*                                                                         *)
(* The saves of a tab are compared and written one after the other, long    *)
(* after they were made, while other tabs write the same rows.  What makes  *)
(* them safe is what each says when it is made: an autosave, scheduled or   *)
(* queued, says of the attempts what the open vault says (Queued, Timed);   *)
(* what a submission saves adds to the open vault and comes last, for it    *)
(* drops the timer and disables the forms (Queued); and the open vault adds *)
(* to the row at the revision that its writer holds, which is never given   *)
(* again (Bound), nor is that of a write left behind (Abandoned) or of a    *)
(* row under review (Reviewed).  So a write whose revision still matches    *)
(* adds to its row (CopyStep), and any other write is refused.              *)
(*                                                                         *)
(* On top of that, what a tab holds can be saved (Sound): each operation    *)
(* fills in all that the version it raises a vault to asks for              *)
(* (RaisedValid).  And what a session broadcast has its receipt, or is the  *)
(* attempt that still waits for one (Attempting).                           *)
(***************************************************************************)
EXTENDS RoleJournal, SequenceTheorems, TLAPS

\* What one journal says, the other says too (keeps, without its defaults).
Adds(old, new) ==
    \A tx \in DOMAIN old :
        /\ tx \in DOMAIN new
        /\ \A f \in DOMAIN old[tx] :
              old[tx][f] # Null => f \in DOMAIN new[tx] /\ new[tx][f] = old[tx][f]

Same(v, w) == Adds(journal(v), journal(w)) /\ Adds(journal(w), journal(v))

-----------------------------------------------------------------------------
\* Adds is a preorder.
LEMMA AddsOrder ==
  ASSUME NEW a, NEW b, NEW c
  PROVE  /\ Adds(a, a)
         /\ Adds(a, b) => DOMAIN a \subseteq DOMAIN b
         /\ Adds(a, b) /\ Adds(b, c) => Adds(a, c)
  BY DEF Adds

\* What Adds says of fields that are there is what SavesOnlyAdd asks for.
LEMMA AddsKeeps ==
  ASSUME NEW a, NEW b, Adds(a, b)
  PROVE  keeps(a, b)
  BY DEF Adds, keeps, get

\* Equal journals.
LEMMA SameJournal ==
  ASSUME NEW v, NEW w, journal(v) = journal(w)
  PROVE  Same(v, w)
  BY AddsOrder DEF Same

\* Journals that say the same, in a row.
LEMMA SameOrder ==
  ASSUME NEW u, NEW v, NEW w, Same(u, v), Same(v, w)
  PROVE  Same(u, w)
<1> DEFINE a == journal(u) b == journal(v) c == journal(w)
<1>1. Adds(a, c)
  <2>1. Adds(a, b) /\ Adds(b, c)
    BY DEF Same
  <2> HIDE DEF a, b, c
  <2>2. QED
    BY <2>1, AddsOrder
<1>2. Adds(c, a)
  <2>1. Adds(c, b) /\ Adds(b, a)
    BY DEF Same
  <2> HIDE DEF a, b, c
  <2>2. QED
    BY <2>1, AddsOrder
<1>3. QED
  BY <1>1, <1>2 DEF Same

\* Raising the version fills in empty fields only.
LEMMA RaisedJournal ==
  ASSUME NEW v, NEW n, NEW fields, NEW entryFields,
         {"submissionAttempts", "reportNotes"} \cap entryFields = {}
  PROVE  Same(v, raise(v, n, fields, entryFields))
<1> DEFINE w == raise(v, n, fields, entryFields)
<1> DEFINE filled(entry) == [f \in DOMAIN entry \cup entryFields |-> get(entry, f)]
<1>1. CASE "submissionAttempts" \in DOMAIN v \cup fields
  <2>1. journal(w) = [tx \in DOMAIN journal(v) |-> filled(journal(v)[tx])]
    BY <1>1 DEF raise, get, journal
  <2> DEFINE old == journal(v)
             new == journal(w)
  <2> HIDE DEF w
  <2>2. new = [tx \in DOMAIN old |-> filled(old[tx])]
    BY <2>1
  <2> HIDE DEF old, new
  <2>3. Adds(old, new)
    BY <2>2 DEF Adds, get
  <2>4. Adds(new, old)
    <3> SUFFICES ASSUME NEW tx \in DOMAIN old, NEW f \in DOMAIN new[tx], new[tx][f] # Null
                 PROVE  f \in DOMAIN old[tx] /\ old[tx][f] = new[tx][f]
      BY <2>2 DEF Adds
    <3>1. new[tx] = filled(old[tx])
      BY <2>2
    <3>2. QED
      BY <3>1 DEF get
  <2>5. QED
    BY <2>3, <2>4 DEF Same, old, new, w
<1>2. CASE "submissionAttempts" \notin DOMAIN v \cup fields
  <2>1. journal(w) = <<>> /\ journal(v) = <<>>
    BY <1>2 DEF raise, journal, get
  <2> HIDE DEF w
  <2>2. Same(v, w)
    BY <2>1, SameJournal
  <2>3. QED
    BY <2>2 DEF w
<1>3. QED
  BY <1>1, <1>2

\* Another field of a vault.
LEMMA OtherField ==
  ASSUME NEW v, NEW f, NEW value, f # "submissionAttempts"
  PROVE  Same(v, [v EXCEPT ![f] = value])
  BY SameJournal DEF journal, get

-----------------------------------------------------------------------------
\* Drafts, notes and the program change no attempt.
LEMMA DraftKeeps ==
  ASSUME NEW v, NEW value
  PROVE  Same(v, withRoleDraft(v, value))
<1> DEFINE w == raise(v, 3, {"submissionAttempts", "draft"},
                      {})
<1>1. Same(v, w)
  BY RaisedJournal
<1>2. Same(w, [w EXCEPT !["draft"] = value])
  BY OtherField
<1>3. QED
  BY <1>1, <1>2, SameOrder DEF withRoleDraft

\* The draft of the attachments is no part of the journal.
LEMMA AttachmentKeeps ==
  ASSUME NEW v, NEW value
  PROVE  Same(v, withAttachmentDraft(v, value))
<1> DEFINE w == raise(v, 7, {"submissionAttempts", "draft", "reportNotes", "attachmentDraft"},
                      {"intent", "finalization"})
<1>1. Same(v, w)
  BY RaisedJournal
<1>2. Same(w, [w EXCEPT !["attachmentDraft"] = value])
  BY OtherField
<1>3. QED
  BY <1>1, <1>2, SameOrder DEF withAttachmentDraft

\* Nor is the draft of the program, which needs a newer version.
LEMMA ProgramKeeps ==
  ASSUME NEW v, NEW value
  PROVE  Same(v, withProgramDraft(v, value))
<1> DEFINE w == raise(v, 11, {"submissionAttempts", "draft", "reportNotes", "attachmentDraft", "programDraft"},
                      {"intent", "finalization", "notes", "retestPassed", "retestPatchCommitment"})
<1>1. Same(v, w)
  BY RaisedJournal
<1>2. Same(w, [w EXCEPT !["programDraft"] = value])
  BY OtherField
<1>3. QED
  BY <1>1, <1>2, SameOrder DEF withProgramDraft

\* Nor are the notes on a report.
LEMMA NotesKeep ==
  ASSUME NEW v, NEW note
  PROVE  Same(v, withReportNotes(v, note))
<1> DEFINE w == raise(v, 4, {"submissionAttempts", "draft", "reportNotes"}, {})
           notes == [r \in DOMAIN w.reportNotes \cup {note.reportId} |->
                        IF r = note.reportId THEN note.text ELSE w.reportNotes[r]]
<1>1. Same(v, w)
  BY RaisedJournal
<1>2. Same(w, [w EXCEPT !["reportNotes"] = notes])
  BY OtherField
<1>3. withReportNotes(v, note) = [w EXCEPT !["reportNotes"] = notes]
  BY DEF withReportNotes
<1>4. QED
  BY <1>1, <1>2, <1>3, SameOrder

\* Nor are the reports.
LEMMA ReportKeeps ==
  ASSUME NEW v, NEW r
  PROVE  Same(v, addReport(v, r))
  BY SameJournal DEF addReport, journal, get

\* No form changes what the journal says.
LEMMA EditKeeps ==
  ASSUME NEW v, NEW part, NEW w \in edited(v, part)
  PROVE  Same(v, w)
<1> DEFINE next == textOf(get(v, part)) + 1
<1>1. CASE w \in updateNotes(v)
  BY <1>1, NotesKeep DEF updateNotes
<1>2. CASE w \in acceptDisclosure(v)
  BY <1>2, ReportKeeps DEF acceptDisclosure
<1>3. CASE w \in onSeal(v)
  <2>1. PICK r \in Reports : w = withRoleDraft(addReport(v, r), Null)
    BY <1>3 DEF onSeal
  <2>2. QED
    BY <2>1, ReportKeeps, DraftKeeps, SameOrder
<1>4. CASE w = withRoleDraft(v, next) \/ w = withAttachmentDraft(v, next)
  BY <1>4, DraftKeeps, AttachmentKeeps
<1>5. CASE w = updateProgramDraft(v)
  BY <1>5, ProgramKeeps DEF updateProgramDraft
<1>6. QED
  BY <1>1, <1>2, <1>3, <1>4, <1>5 DEF edited

-----------------------------------------------------------------------------
(* A submission's journal.                                                 *)

\* A new attempt joins those that are there.
LEMMA AttemptAdded ==
  ASSUME NEW v, NEW tx, NEW intent, tx \notin DOMAIN journal(v)
  PROVE  LET w == withSubmissionAttempt(v, tx, intent)
         IN  tx \in DOMAIN journal(w) /\ Adds(journal(v), journal(w))
<1> DEFINE u == raise(v, 5, {"submissionAttempts", "draft", "reportNotes"}, {"intent"})
           entry == [f \in entryFieldsOf(u.version) |-> IF f = "intent" THEN intent ELSE Null]
           w == withSubmissionAttempt(v, tx, intent)
<1>1. Same(v, u)
  BY RaisedJournal
<1>2. /\ w = [u EXCEPT !["submissionAttempts"] = [x \in DOMAIN @ \cup {tx} |-> IF x = tx THEN entry ELSE @[x]]]
      /\ "submissionAttempts" \in DOMAIN u
  BY DEF withSubmissionAttempt, raise
<1> HIDE DEF entry, u, w
<1>3. journal(w) = [x \in DOMAIN journal(u) \cup {tx} |-> IF x = tx THEN entry ELSE journal(u)[x]]
  BY <1>2 DEF journal, get
<1>4. tx \notin DOMAIN journal(u)
  BY <1>1 DEF Same, Adds
<1> DEFINE a == journal(v)
           b == journal(u)
           c == journal(w)
<1> HIDE DEF a, b, c
<1>5. Adds(b, c)
  BY <1>3, <1>4 DEF Adds, b, c
<1>6. Adds(a, c)
  <2>1. Adds(a, b)
    BY <1>1 DEF Same, a, b
  <2>2. QED
    BY <2>1, <1>5, AddsOrder
<1>7. QED
  BY <1>3, <1>6 DEF w, a, c

\* What is noted of the new attempt concerns no other.
LEMMA NewEntryNoted ==
  ASSUME NEW a, NEW b, NEW c, NEW tx, Adds(a, b), tx \notin DOMAIN a, tx \in DOMAIN b,
         DOMAIN c = DOMAIN b, \A x \in DOMAIN b \ {tx} : c[x] = b[x]
  PROVE  tx \in DOMAIN c /\ Adds(a, c)
  BY DEF Adds

\* A newer version keeps what was added.
LEMMA RaisedAdds ==
  ASSUME NEW a, NEW v, NEW w, NEW tx, Same(v, w), Adds(a, journal(v)), tx \in DOMAIN journal(v)
  PROVE  Adds(a, journal(w)) /\ tx \in DOMAIN journal(w)
<1> DEFINE b == journal(v)
           c == journal(w)
<1>1. Adds(a, b) /\ Adds(b, c) /\ tx \in DOMAIN b
  BY DEF Same
<1> HIDE DEF b, c
<1>2. Adds(a, c) /\ tx \in DOMAIN c
  BY <1>1, AddsOrder DEF Adds
<1>3. QED
  BY <1>2 DEF c

\* The notes of a new attempt are put where there was nothing.
LEMMA NotesAdd ==
  ASSUME NEW a, NEW v, NEW tx, NEW note,
         Adds(a, journal(v)), tx \notin DOMAIN a, tx \in DOMAIN journal(v)
  PROVE  LET w == withSubmissionNotes(v, tx, note)
         IN  tx \in DOMAIN journal(w) /\ Adds(a, journal(w))
<1> DEFINE u == raise(v, 8, {"draft", "reportNotes", "attachmentDraft"}, {"intent", "finalization", "notes"})
           w == [u EXCEPT !.submissionAttempts[tx].notes = note]
<1>1. Adds(a, journal(u)) /\ tx \in DOMAIN journal(u)
  BY RaisedJournal, RaisedAdds
<1>2. w = withSubmissionNotes(v, tx, note)
  BY DEF withSubmissionNotes
<1>3. /\ DOMAIN journal(w) = DOMAIN journal(u)
      /\ \A x \in DOMAIN journal(u) \ {tx} : journal(w)[x] = journal(u)[x]
  <2> HIDE DEF u
  <2>1. QED
    BY DEF journal, get
<1> HIDE DEF u, w
<1>4. QED
  BY <1>1, <1>2, <1>3, NewEntryNoted

\* So are the inputs of a deployment,
LEMMA DeploymentAdds ==
  ASSUME NEW a, NEW v, NEW tx, NEW inputs,
         Adds(a, journal(v)), tx \notin DOMAIN a, tx \in DOMAIN journal(v)
  PROVE  LET w == withDeploymentInputs(v, tx, inputs)
         IN  tx \in DOMAIN journal(w) /\ Adds(a, journal(w))
<1> DEFINE u == raise(v, 12, {"draft", "reportNotes", "attachmentDraft", "programDraft"}, DOMAIN EntryFieldSince)
           w == [u EXCEPT !.submissionAttempts[tx].deployment = inputs]
<1>1. Adds(a, journal(u)) /\ tx \in DOMAIN journal(u)
  <2>1. {"submissionAttempts", "reportNotes"} \cap DOMAIN EntryFieldSince = {}
    BY DEF EntryFieldSince
  <2>2. QED
    BY <2>1, RaisedJournal, RaisedAdds
<1>2. w = withDeploymentInputs(v, tx, inputs)
  BY DEF withDeploymentInputs
<1>3. /\ DOMAIN journal(w) = DOMAIN journal(u)
      /\ \A x \in DOMAIN journal(u) \ {tx} : journal(w)[x] = journal(u)[x]
  <2> HIDE DEF u
  <2>1. QED
    BY DEF journal, get
<1> HIDE DEF u, w
<1>4. QED
  BY <1>1, <1>2, <1>3, NewEntryNoted

\* and the choice of a retest.
LEMMA ChoiceAdds ==
  ASSUME NEW a, NEW v, NEW tx, NEW passed, NEW patch,
         Adds(a, journal(v)), tx \notin DOMAIN a, tx \in DOMAIN journal(v)
  PROVE  LET w == withRetestChoice(v, tx, passed, patch)
         IN  tx \in DOMAIN journal(w) /\ Adds(a, journal(w))
<1> DEFINE u == raise(v, 10, {"draft", "reportNotes", "attachmentDraft"},
                      {"intent", "finalization", "notes", "retestPassed", "retestPatchCommitment"})
           w == [u EXCEPT !.submissionAttempts[tx].retestPassed = passed,
                          !.submissionAttempts[tx].retestPatchCommitment = patch]
<1>1. Adds(a, journal(u)) /\ tx \in DOMAIN journal(u)
  BY RaisedJournal, RaisedAdds
<1>2. w = withRetestChoice(v, tx, passed, patch)
  BY DEF withRetestChoice
<1>3. /\ DOMAIN journal(w) = DOMAIN journal(u)
      /\ \A x \in DOMAIN journal(u) \ {tx} : journal(w)[x] = journal(u)[x]
  <2> HIDE DEF u
  <2>1. QED
    BY DEF journal, get
<1> HIDE DEF u, w
<1>4. QED
  BY <1>1, <1>2, <1>3, NewEntryNoted

\* The journal of a submission has its identifier and what was there before.
LEMMA RecordedAdds ==
  ASSUME NEW v, NEW tx, NEW intent, tx \notin DOMAIN journal(v)
  PROVE  LET w == recorded(v, tx, intent)
         IN  tx \in DOMAIN journal(w) /\ Adds(journal(v), journal(w))
<1> DEFINE a == journal(v)
           u == withSubmissionAttempt(v, tx, intent)
           noted == withSubmissionNotes(u, tx, [reportId |-> intent.reportId, text |-> noteOn(v, intent.reportId)])
<1>1. tx \in DOMAIN journal(u) /\ Adds(a, journal(u))
  BY AttemptAdded
<1>2. \/ recorded(v, tx, intent) = withDeploymentInputs(u, tx, textOf(get(v, "programDraft")))
      \/ recorded(v, tx, intent) = withRetestChoice(noted, tx, TRUE, intent.reportId)
      \/ recorded(v, tx, intent) = noted
  BY DEF recorded
<1> HIDE DEF a, u
<1>3. tx \in DOMAIN journal(noted) /\ Adds(a, journal(noted))
  BY <1>1, NotesAdd DEF a
<1> HIDE DEF noted
<1>4. QED
  BY <1>1, <1>2, <1>3, DeploymentAdds, ChoiceAdds DEF a

\* A receipt is added where there is none.
LEMMA ReceiptAdds ==
  ASSUME NEW v, NEW tx
  PROVE  Adds(journal(v), journal(receipted(v, tx)))
<1> DEFINE deployed == [v EXCEPT !["deployed"] = TRUE]
           u == raise(deployed, 6, {"draft", "reportNotes"}, {"intent", "finalization"})
           w == receipted(v, tx)
<1>1. Same(v, u)
  <2>1. Same(v, deployed)
    BY OtherField
  <2>2. Same(deployed, u)
    BY RaisedJournal
  <2>3. QED
    BY <2>1, <2>2, SameOrder
<1> DEFINE old == u.submissionAttempts[tx].finalization
<1>2. w = [u EXCEPT !.submissionAttempts[tx].finalization = IF old = Null THEN "final" ELSE old]
  <2>1. deployed = [v EXCEPT !.deployed = TRUE]
    OBVIOUS
  <2> HIDE DEF deployed
  <2>2. QED
    BY <2>1 DEF receipted, withFinalizedSubmission
<1> DEFINE a == journal(v)
           b == journal(u)
           c == journal(w)
<1>3. Adds(a, b)
  BY <1>1 DEF Same
<1> HIDE DEF u, w
<1>4. /\ DOMAIN c = DOMAIN b
      /\ \A x \in DOMAIN b \ {tx} : c[x] = b[x]
      /\ tx \in DOMAIN b =>
            /\ DOMAIN c[tx] = DOMAIN b[tx]
            /\ \A f \in DOMAIN b[tx] : b[tx][f] # Null => c[tx][f] = b[tx][f]
  <2>1. CASE "submissionAttempts" \in DOMAIN u
    <3>1. b = u.submissionAttempts
      BY <2>1 DEF journal, get
    <3>2. c = [b EXCEPT ![tx] = [b[tx] EXCEPT !["finalization"] = IF b[tx].finalization = Null THEN "final"
                                                                  ELSE b[tx].finalization]]
      BY <1>2, <2>1, <3>1 DEF journal, get
    <3> HIDE DEF b, c
    <3>3. QED
      BY <3>2
  <2>2. CASE "submissionAttempts" \notin DOMAIN u
    BY <1>2, <2>2 DEF journal, get
  <2>3. QED
    BY <2>1, <2>2
<1> HIDE DEF a, b, c
<1>5. Adds(b, c)
  BY <1>4 DEF Adds
<1>6. Adds(a, c)
  BY <1>3, <1>5, AddsOrder
<1>7. QED
  BY <1>6 DEF a, c, w

-----------------------------------------------------------------------------
(* The invariant.                                                          *)

Recorded == UNION {DOMAIN entries : entries \in Recoverable}

CopiesTyped ==
    /\ DOMAIN copies = CopyIds
    /\ \A c \in CopyIds : /\ copies[c].revision \in Nat
                          /\ copies[c].revision = 0 => copies[c] \in {Unused, Deleted}

Domains ==
    /\ DOMAIN step = Tabs /\ DOMAIN attempt = Tabs /\ DOMAIN vault = Tabs /\ DOMAIN saved = Tabs
    /\ DOMAIN savedCopyId = Tabs /\ DOMAIN writer = Tabs /\ DOMAIN pending = Tabs
    /\ DOMAIN orphan = Tabs /\ DOMAIN timer = Tabs /\ DOMAIN review = Tabs

\* Copy c has had revision n, which is not given again.
Passed(c, n) ==
    /\ c \in CopyIds /\ n \in Nat \ {0}
    /\ copies[c] # Unused
    /\ copies[c].revision = 0 \/ copies[c].revision >= n

\* Writing these entries over revision n, if it still is the last one, takes nothing back.
Continues(c, n, entries) ==
    Passed(c, n) /\ (copies[c].revision = n => Adds(journal(copies[c].vault), entries))

\* An autosave says what the open vault says; what a submission saves comes last,
\* adds to it and has dropped the timer.  A journal may still wait when its
\* preparation has expired.
Queued(t) ==
    /\ \E S : pending[t] \in Seq(S)
    /\ \A i \in 1..Len(pending[t]) :
          LET s == pending[t][i]
          IN  /\ DOMAIN s = {"vault", "kind", "writing"}
              /\ s.kind = "autosave" => Same(s.vault, vault[t])
              /\ s.kind # "autosave" => /\ i = Len(pending[t])
                                        /\ Adds(journal(vault[t]), journal(s.vault))
                                        /\ s.kind = "journal" \/ s.kind = "receipt"
                                        /\ timer[t] = Nothing
              /\ s.kind = "journal" => step[t] \in {"recording", "expired"} /\ attempt[t] \in DOMAIN journal(s.vault)
              /\ s.kind = "receipt" => step[t] = "finalizing"

Timed(t) == timer[t] # Nothing => writer[t] # Nothing /\ Same(timer[t], vault[t])

Bound(t) ==
    /\ step[t] = "closed" => writer[t] = Nothing
    /\ pending[t] # <<>> => writer[t] # Nothing
    /\ writer[t] # Nothing => Continues(savedCopyId[t], writer[t], journal(vault[t]))

Abandoned(t) ==
    orphan[t] # Nothing => Continues(orphan[t].id, orphan[t].revision, journal(orphan[t].vault))

Reviewed(t) ==
    review[t] # Nothing =>
        /\ Passed(review[t].id, review[t].row.revision)
        /\ copies[review[t].id].revision = review[t].row.revision => copies[review[t].id] = review[t].row

Backed(t) ==
    /\ step[t] = "authorizing" => attempt[t] \in Recorded
    /\ saved[t] # Nothing => \E entries \in Recoverable : Adds(journal(saved[t]), entries)

TabInv(t) == Queued(t) /\ Timed(t) /\ Bound(t) /\ Abandoned(t) /\ Reviewed(t) /\ Backed(t)

JournalInv ==
    /\ CopiesTyped /\ Domains
    /\ broadcast \subseteq Recorded
    /\ \A t \in Tabs : TabInv(t)

-----------------------------------------------------------------------------
(* What a step may do to the copies.                                       *)

CopyStep ==
    /\ kept \subseteq kept'
    /\ \A c \in CopyIds :
        \/ copies'[c] = copies[c]
        \/ copies'[c] = Deleted /\ copies[c] # Unused /\ journal(copies[c].vault) \in kept'
        \/ /\ copies[c] # Deleted
           /\ copies'[c].revision = copies[c].revision + 1
           /\ exists(c) => Adds(journal(copies[c].vault), journal(copies'[c].vault))

\* Nothing that was recorded is lost.
LEMMA RecordsStay ==
  ASSUME CopiesTyped, CopyStep, NEW entries \in Recoverable
  PROVE  \E more \in Recoverable' : Adds(entries, more)
<1>1. CASE entries \in kept
  BY <1>1, AddsOrder DEF CopyStep, Recoverable
<1>2. ASSUME NEW c \in CopyIds, exists(c), entries = journal(copies[c].vault)
      PROVE  \E more \in Recoverable' : Adds(entries, more)
  <2>1. CASE copies'[c] = copies[c]
    <3>1. exists(c)'
      BY <1>2, <2>1 DEF exists
    <3>2. journal(copies[c].vault) = journal(copies[c].vault)'
      BY <2>1 DEF journal, get
    <3>3. entries \in Recoverable'
      BY <1>2, <3>1, <3>2 DEF Recoverable
    <3>4. QED
      BY <3>3, AddsOrder
  <2>2. CASE journal(copies[c].vault) \in kept'
    BY <1>2, <2>2, AddsOrder DEF Recoverable
  <2>3. CASE /\ copies'[c].revision = copies[c].revision + 1
             /\ Adds(journal(copies[c].vault), journal(copies'[c].vault))
    <3>1. exists(c)'
      BY <2>3 DEF exists, CopiesTyped
    <3>2. journal(copies'[c].vault) \in Recoverable'
      BY <3>1 DEF Recoverable
    <3>3. QED
      BY <1>2, <2>3, <3>2
  <2>4. QED
    BY <1>2, <2>1, <2>2, <2>3 DEF CopyStep
<1>3. QED
  BY <1>1, <1>2 DEF Recoverable

\* Nor is an identifier that was recorded.
LEMMA RecordedGrows ==
  ASSUME CopiesTyped, CopyStep
  PROVE  Recorded \subseteq Recorded'
<1>1. SUFFICES ASSUME NEW entries \in Recoverable, NEW tx \in DOMAIN entries
               PROVE  tx \in Recorded'
  BY DEF Recorded
<1>2. PICK more \in Recoverable' : Adds(entries, more)
  BY RecordsStay
<1>3. QED
  BY <1>2 DEF Adds, Recorded

\* A revision that has passed is not reached again.
LEMMA PassedStays ==
  ASSUME CopiesTyped, CopyStep, NEW c, NEW n, Passed(c, n)
  PROVE  /\ Passed(c, n)'
         /\ copies'[c].revision = n => copies'[c] = copies[c]
<1>1. /\ c \in CopyIds /\ n \in Nat \ {0} /\ copies[c].revision \in Nat
      /\ copies[c] # Unused /\ (copies[c].revision = 0 \/ copies[c].revision >= n)
  BY DEF Passed, CopiesTyped
<1>2. CASE copies'[c] = copies[c]
  BY <1>1, <1>2 DEF Passed
<1>3. CASE copies'[c] = Deleted
  BY <1>1, <1>3 DEF Passed, Deleted, Unused
<1>4. CASE copies[c] # Deleted /\ copies'[c].revision = copies[c].revision + 1
  <2>1. copies[c].revision # 0
    BY <1>1, <1>4 DEF CopiesTyped
  <2>2. copies'[c].revision > n /\ copies'[c].revision # 0
    BY <1>1, <1>4, <2>1
  <2>3. copies'[c] # Unused
    BY <2>2 DEF Unused
  <2>4. copies'[c].revision >= n /\ copies'[c].revision # n
    BY <1>1, <1>4, <2>2
  <2>5. QED
    BY <1>1, <2>3, <2>4 DEF Passed
<1>5. QED
  BY <1>1, <1>2, <1>3, <1>4 DEF CopyStep

\* What continued a row either still does or will be refused.
LEMMA ContinuesStays ==
  ASSUME CopiesTyped, CopyStep, NEW c, NEW n, NEW entries, Continues(c, n, entries)
  PROVE  /\ Passed(c, n)'
         /\ copies'[c].revision = n => Adds(journal(copies'[c].vault), entries)
<1>1. Passed(c, n)
  BY DEF Continues
<1>2. /\ Passed(c, n)'
      /\ copies'[c].revision = n => copies'[c] = copies[c]
  BY <1>1, PassedStays
<1>3. ASSUME copies'[c].revision = n PROVE Adds(journal(copies'[c].vault), entries)
  <2>1. copies'[c] = copies[c]
    BY <1>2, <1>3
  <2>2. copies[c].revision = n
    BY <1>3, <2>1
  <2>3. QED
    BY <2>1, <2>2 DEF Continues
<1>4. QED
  BY <1>2, <1>3

\* A write that continues what its row holds, or makes the row.
LEMMA PutStep ==
  ASSUME CopiesTyped, NEW c \in CopyIds, NEW n \in Nat, NEW v, put(c, n, v), kept' = kept,
         \/ n = 0 /\ copies[c] = Unused
         \/ Continues(c, n, journal(v)) /\ copies[c].revision = n
  PROVE  /\ CopyStep /\ CopiesTyped'
         /\ Continues(c, n + 1, journal(v))'
         /\ journal(v) \in Recoverable'
<1>1. /\ DOMAIN copies = CopyIds
      /\ copies' = [copies EXCEPT ![c] = [revision |-> n + 1, vault |-> v]]
  BY DEF put, CopiesTyped
<1>2. /\ DOMAIN copies' = CopyIds
      /\ copies'[c] = [revision |-> n + 1, vault |-> v]
      /\ \A d \in CopyIds \ {c} : copies'[d] = copies[d]
  BY <1>1
<1>3. CopiesTyped'
  <2>1. ASSUME NEW d \in CopyIds
        PROVE  copies'[d].revision \in Nat /\ (copies'[d].revision = 0 => copies'[d] \in {Unused, Deleted})
    <3>1. CASE d = c
      BY <1>2, <3>1
    <3>2. CASE d # c
      BY <1>2, <3>2 DEF CopiesTyped
    <3>3. QED
      BY <3>1, <3>2
  <2>2. QED
    BY <1>2, <2>1 DEF CopiesTyped
<1>4. copies[c] # Deleted /\ copies[c].revision = n
  BY DEF Continues, Passed, Unused, Deleted
<1>5. exists(c) => Adds(journal(copies[c].vault), journal(v))
  BY <1>4 DEF exists, Continues, Unused
<1>6. CopyStep
  <2>1. /\ copies'[c].revision = copies[c].revision + 1
        /\ exists(c) => Adds(journal(copies[c].vault), journal(copies'[c].vault))
    <3>1. copies'[c].revision = n + 1 /\ copies'[c].vault = v
      BY <1>2
    <3>2. QED
      BY <1>4, <1>5, <3>1
  <2>2. QED
    BY <1>2, <1>4, <2>1 DEF CopyStep
<1>7. Passed(c, n + 1)'
  <2>1. copies'[c] # Unused
    BY <1>2 DEF Unused
  <2>2. QED
    BY <1>2, <2>1 DEF Passed
<1>8. Continues(c, n + 1, journal(v))'
  BY <1>2, <1>7, AddsOrder DEF Continues
<1>9. journal(v) \in Recoverable'
  <2>1. exists(c)' /\ journal(copies'[c].vault) = journal(v)
    BY <1>2 DEF exists
  <2>2. QED
    BY <2>1 DEF Recoverable
<1>10. QED
  BY <1>3, <1>6, <1>8, <1>9

\* A step that writes no copy.
LEMMA SameCopies ==
  ASSUME CopiesTyped, copies' = copies, kept \subseteq kept'
  PROVE  CopyStep /\ CopiesTyped'
  BY DEF CopyStep, CopiesTyped

-----------------------------------------------------------------------------
(* What a step leaves of a tab.                                            *)

\* The queue of a tab, as long as its submission does not move on.
LEMMA QueuedStays ==
  ASSUME JournalInv, NEW t \in Tabs, pending'[t] = pending[t], vault'[t] = vault[t], timer'[t] = timer[t],
         \/ step'[t] = step[t] /\ attempt'[t] = attempt[t]
         \/ step[t] = "recording" /\ step'[t] = "expired" /\ attempt'[t] = attempt[t]
         \/ step[t] \notin {"recording", "expired", "finalizing"}
  PROVE  Queued(t)'
<1>1. Queued(t)
  BY DEF JournalInv, TabInv
<1>2. QED
  BY <1>1 DEF Queued

\* A write left behind, whatever is written meanwhile.
LEMMA AbandonedStays ==
  ASSUME JournalInv, CopyStep, NEW t \in Tabs, orphan'[t] = orphan[t]
  PROVE  Abandoned(t)'
<1>1. SUFFICES ASSUME orphan[t] # Nothing
               PROVE  Continues(orphan[t].id, orphan[t].revision, journal(orphan[t].vault))'
  BY DEF Abandoned
<1>2. Continues(orphan[t].id, orphan[t].revision, journal(orphan[t].vault)) /\ CopiesTyped
  BY <1>1 DEF JournalInv, TabInv, Abandoned
<1>3. QED
  BY <1>2, ContinuesStays DEF Continues

\* A row under review, whatever is written meanwhile.
LEMMA ReviewedStays ==
  ASSUME JournalInv, CopyStep, NEW t \in Tabs, review'[t] = review[t]
  PROVE  Reviewed(t)'
<1>1. SUFFICES ASSUME review[t] # Nothing
               PROVE  /\ Passed(review[t].id, review[t].row.revision)'
                      /\ copies'[review[t].id].revision = review[t].row.revision
                            => copies'[review[t].id] = review[t].row
  BY DEF Reviewed
<1>2. PICK c, n : c = review[t].id /\ n = review[t].row.revision
  OBVIOUS
<1>3. Passed(c, n) /\ (copies[c].revision = n => copies[c] = review[t].row) /\ CopiesTyped
  BY <1>1, <1>2 DEF JournalInv, TabInv, Reviewed
<1>4. Passed(c, n)' /\ (copies'[c].revision = n => copies'[c] = copies[c])
  BY <1>3, PassedStays
<1>5. Passed(review[t].id, review[t].row.revision)'
  BY <1>2, <1>4
<1>6. QED
  BY <1>2, <1>3, <1>4, <1>5

\* What is shown as backed up, whatever is written meanwhile.
LEMMA BackedStays ==
  ASSUME JournalInv, CopyStep, NEW t \in Tabs,
         step'[t] = "authorizing" => step[t] = "authorizing" /\ attempt'[t] = attempt[t],
         saved'[t] \in {saved[t], Nothing}
  PROVE  Backed(t)'
<1>1. CopiesTyped /\ Backed(t)
  BY DEF JournalInv, TabInv
<1>2. step'[t] = "authorizing" => attempt'[t] \in Recorded'
  BY <1>1, RecordedGrows DEF Backed
<1>3. ASSUME saved'[t] # Nothing
      PROVE  \E entries \in Recoverable' : Adds(journal(saved'[t]), entries)
  <2>1. saved'[t] = saved[t]
    BY <1>3
  <2>2. PICK entries \in Recoverable : Adds(journal(saved[t]), entries)
    BY <1>1, <1>3, <2>1 DEF Backed
  <2>3. PICK more \in Recoverable' : Adds(entries, more)
    BY <1>1, RecordsStay
  <2> DEFINE a == journal(saved[t])
  <2>4. Adds(a, more)
    <3>1. Adds(a, entries)
      BY <2>2
    <3> HIDE DEF a
    <3>2. QED
      BY <2>3, <3>1, AddsOrder
  <2>5. QED
    BY <2>1, <2>4
<1>4. QED
  BY <1>2, <1>3 DEF Backed

\* A writer, whatever is written meanwhile.
LEMMA BoundStays ==
  ASSUME JournalInv, CopyStep, NEW t \in Tabs, writer'[t] = writer[t],
         writer[t] # Nothing => savedCopyId'[t] = savedCopyId[t],
         Adds(journal(vault[t]), journal(vault'[t])),
         step'[t] = "closed" => step[t] = "closed",
         pending'[t] # <<>> => writer[t] # Nothing
  PROVE  Bound(t)'
<1>1. CopiesTyped /\ Bound(t)
  BY DEF JournalInv, TabInv
<1>2. ASSUME writer[t] # Nothing
      PROVE  Continues(savedCopyId[t], writer[t], journal(vault[t]))'
  <2>1. PICK c, n, a, b : c = savedCopyId[t] /\ n = writer[t] /\ a = journal(vault[t]) /\ b = journal(vault'[t])
    OBVIOUS
  <2>2. Continues(c, n, a) /\ Adds(a, b)
    BY <1>1, <1>2, <2>1 DEF Bound
  <2>3. /\ Passed(c, n)'
        /\ copies'[c].revision = n => Adds(journal(copies'[c].vault), a)
    BY <1>1, <2>2, ContinuesStays
  <2>4. copies'[c].revision = n => Adds(journal(copies'[c].vault), b)
    BY <2>2, <2>3, AddsOrder
  <2>5. Continues(c, n, b)'
    BY <2>3, <2>4 DEF Continues
  <2>6. QED
    BY <1>2, <2>1, <2>5
<1>3. QED
  BY <1>1, <1>2 DEF Bound

\* A tab that does nothing.
LEMMA TabStays ==
  ASSUME JournalInv, CopyStep, NEW t \in Tabs,
         step'[t] = step[t], attempt'[t] = attempt[t], vault'[t] = vault[t], saved'[t] = saved[t],
         savedCopyId'[t] = savedCopyId[t], writer'[t] = writer[t], pending'[t] = pending[t],
         orphan'[t] = orphan[t], timer'[t] = timer[t], review'[t] = review[t]
  PROVE  TabInv(t)'
<1>1. Timed(t) /\ Bound(t)
  BY DEF JournalInv, TabInv
<1>2. Timed(t)'
  BY <1>1 DEF Timed
<1>3. Adds(journal(vault[t]), journal(vault'[t]))
  BY AddsOrder
<1>4. Bound(t)'
  BY <1>1, <1>3, BoundStays DEF Bound
<1>5. QED
  BY <1>2, <1>4, QueuedStays, AbandonedStays, ReviewedStays, BackedStays DEF TabInv

-----------------------------------------------------------------------------
(* Queues.                                                                 *)

\* A queue with one more save,
LEMMA AppendedQueue ==
  ASSUME NEW q, \E S : q \in Seq(S), NEW e
  PROVE  /\ \E S : Append(q, e) \in Seq(S)
         /\ Len(q) \in Nat /\ Len(Append(q, e)) = Len(q) + 1
         /\ \A i \in 1..Len(q) : Append(q, e)[i] = q[i]
         /\ Append(q, e)[Len(q) + 1] = e
<1>1. PICK S : q \in Seq(S)
  OBVIOUS
<1>2. q \in Seq(S \cup {e})
  BY <1>1, SeqDef
<1>3. QED
  BY <1>2, AppendProperties, LenProperties

\* without its first one,
LEMMA RestOfQueue ==
  ASSUME NEW q, \E S : q \in Seq(S), q # <<>>
  PROVE  /\ \E S : Tail(q) \in Seq(S)
         /\ Len(q) \in Nat \ {0} /\ Head(q) = q[1]
         /\ Len(Tail(q)) = Len(q) - 1
         /\ \A i \in 1..Len(Tail(q)) : Tail(q)[i] = q[i + 1]
<1>1. PICK S : q \in Seq(S)
  OBVIOUS
<1>2. Len(q) \in Nat /\ Len(q) # 0
  BY <1>1, LenProperties, EmptySeq
<1>3. QED
  BY <1>1, <1>2, HeadTailProperties

\* and the empty one.
LEMMA NoQueue ==
  /\ \E S : <<>> \in Seq(S)
  /\ Len(<<>>) = 0 /\ 1..Len(<<>>) = {}
<1>1. <<>> \in Seq({})
  BY EmptySeq
<1>2. QED
  BY <1>1, EmptySeq

-----------------------------------------------------------------------------
(* Steps of one tab.                                                       *)

Others(t) ==
    \A u \in Tabs \ {t} :
        /\ step'[u] = step[u] /\ attempt'[u] = attempt[u] /\ vault'[u] = vault[u] /\ saved'[u] = saved[u]
        /\ savedCopyId'[u] = savedCopyId[u] /\ writer'[u] = writer[u] /\ pending'[u] = pending[u]
        /\ orphan'[u] = orphan[u] /\ timer'[u] = timer[u] /\ review'[u] = review[u]

\* A step of one tab leaves the others their invariant.
LEMMA StepOfTab ==
  ASSUME JournalInv, NEW t \in Tabs, Others(t), Domains', CopyStep, CopiesTyped', TabInv(t)',
         broadcast' \subseteq broadcast \cup Recorded
  PROVE  JournalInv'
<1>1. broadcast' \subseteq Recorded'
  BY RecordedGrows DEF JournalInv
<1>2. ASSUME NEW u \in Tabs \ {t}
      PROVE  TabInv(u)'
  BY TabStays DEF Others
<1>3. QED
  BY <1>1, <1>2 DEF JournalInv

\* Nothing waits to be saved.
LEMMA NothingQueued ==
  ASSUME NEW t \in Tabs, pending'[t] = <<>>
  PROVE  Queued(t)'
<1>1. /\ \E S : pending'[t] \in Seq(S)
      /\ 1..Len(pending'[t]) = {}
  BY NoQueue
<1>2. QED
  BY <1>1 DEF Queued

\* A review reads a row and its revision.
LEMMA ReviewStep ==
  ASSUME JournalInv, NEW t \in Tabs, NEW c \in CopyIds, reviewCopy(t, c)
  PROVE  JournalInv' /\ CopyStep
<1>1. /\ Others(t) /\ Domains'
      /\ copies' = copies /\ kept' = kept /\ broadcast' = broadcast
  BY DEF reviewCopy, session, chain, Others, JournalInv, Domains
<1>2. CopyStep /\ CopiesTyped'
  BY <1>1, SameCopies DEF JournalInv
<1>3. /\ Timed(t) /\ Bound(t) /\ Domains /\ CopiesTyped
  BY DEF JournalInv, TabInv
<1>4. Queued(t)' /\ Abandoned(t)' /\ Backed(t)'
  BY <1>2, QueuedStays, AbandonedStays, BackedStays DEF reviewCopy, session, chain
<1>5. Timed(t)'
  BY <1>3 DEF Timed, reviewCopy, session
<1>6. Bound(t)'
  <2>1. Adds(journal(vault[t]), journal(vault'[t]))
    BY AddsOrder DEF reviewCopy
  <2>2. QED
    BY <1>2, <1>3, <2>1, BoundStays DEF Bound, reviewCopy, session
<1>7. Reviewed(t)'
  <2>1. /\ review'[t] = [id |-> c, row |-> copies[c]]
        /\ copies[c].revision \in Nat \ {0} /\ copies[c] # Unused
    BY <1>3 DEF reviewCopy, exists, Domains, CopiesTyped, Unused
  <2>2. QED
    BY <1>1, <1>3, <2>1 DEF Reviewed, Passed
<1>8. TabInv(t)'
  BY <1>4, <1>5, <1>6, <1>7 DEF TabInv
<1>9. QED
  BY <1>1, <1>2, <1>8, StepOfTab

\* What is deleted was read at that revision.
LEMMA DeleteStep ==
  ASSUME JournalInv, NEW t \in Tabs, deleteCopy(t)
  PROVE  JournalInv' /\ CopyStep
<1>1. /\ Others(t) /\ Domains' /\ broadcast' = broadcast
      /\ writer[t] = Nothing /\ writer' = writer /\ vault' = vault /\ timer' = timer /\ pending' = pending
      /\ orphan' = orphan /\ step' = step /\ attempt' = attempt
      /\ review'[t] = Nothing /\ saved'[t] \in {saved[t], Nothing}
  BY DEF deleteCopy, onDeleted, session, chain, Others, JournalInv, Domains
<1>2. Timed(t) /\ Bound(t) /\ Reviewed(t) /\ Domains /\ CopiesTyped
  BY DEF JournalInv, TabInv
<1>3. CopyStep /\ CopiesTyped'
  <2> DEFINE c == review[t].id
  <2>1. CASE matches(c, review[t].row.revision)
    <3>1. /\ c \in CopyIds /\ copies[c] # Unused /\ copies[c] = review[t].row
      BY <1>2, <2>1 DEF deleteCopy, matches, Reviewed, Passed
    <3>2. /\ copies' = [copies EXCEPT ![c] = Deleted]
          /\ kept' = kept \cup {journal(copies[c].vault)}
      BY <2>1, <3>1 DEF deleteCopy
    <3> HIDE DEF c
    <3>3. CopyStep
      BY <1>2, <3>1, <3>2 DEF CopyStep, CopiesTyped
    <3>4. CopiesTyped'
      BY <1>2, <3>1, <3>2 DEF CopiesTyped, Deleted
    <3>5. QED
      BY <3>3, <3>4
  <2>2. CASE ~matches(c, review[t].row.revision)
    BY <1>2, <2>2, SameCopies DEF deleteCopy
  <2>3. QED
    BY <2>1, <2>2
<1>4. Queued(t)' /\ Abandoned(t)' /\ Backed(t)'
  BY <1>1, <1>3, QueuedStays, AbandonedStays, BackedStays
<1>5. Timed(t)' /\ Reviewed(t)'
  BY <1>1, <1>2 DEF Timed, Reviewed
<1>6. Bound(t)'
  <2>1. Adds(journal(vault[t]), journal(vault'[t]))
    BY <1>1, AddsOrder
  <2>2. QED
    BY <1>1, <1>2, <1>3, <2>1, BoundStays DEF Bound
<1>7. TabInv(t)'
  BY <1>4, <1>5, <1>6 DEF TabInv
<1>8. QED
  BY <1>1, <1>3, <1>7, StepOfTab

\* A writer continues the row that was read.
LEMMA OpenStep ==
  ASSUME JournalInv, NEW t \in Tabs, NEW c \in CopyIds, open(t, c)
  PROVE  JournalInv' /\ CopyStep
<1>1. /\ Others(t) /\ Domains' /\ broadcast' = broadcast /\ copies' = copies /\ kept' = kept
      /\ step[t] = "closed" /\ step'[t] = "idle" /\ pending' = pending /\ orphan' = orphan /\ timer' = timer
      /\ review' = review
      /\ vault'[t] = copies[c].vault /\ saved'[t] = copies[c].vault
      /\ writer'[t] = copies[c].revision /\ savedCopyId'[t] = c
  BY DEF open, bind, chain, Others, JournalInv, Domains
<1>2. Timed(t) /\ Bound(t) /\ CopiesTyped
  BY DEF JournalInv, TabInv
<1>3. CopyStep /\ CopiesTyped'
  BY <1>1, <1>2, SameCopies
<1>4. pending'[t] = <<>> /\ timer'[t] = Nothing
  BY <1>1, <1>2 DEF Timed, Bound
<1>5. Queued(t)' /\ Abandoned(t)' /\ Reviewed(t)'
  BY <1>1, <1>3, <1>4, NothingQueued, AbandonedStays, ReviewedStays
<1>6. Timed(t)'
  BY <1>4 DEF Timed
<1>7. copies[c].revision \in Nat \ {0} /\ copies[c] # Unused
  BY <1>2 DEF open, exists, CopiesTyped, Unused
<1>8. Bound(t)'
  BY <1>1, <1>4, <1>7, AddsOrder DEF Bound, Continues, Passed
<1>9. Backed(t)'
  <2>1. journal(saved'[t]) \in Recoverable'
    BY <1>1 DEF Recoverable, exists, open
  <2>2. QED
    BY <1>1, <2>1, AddsOrder DEF Backed
<1>10. TabInv(t)'
  BY <1>5, <1>6, <1>8, <1>9 DEF TabInv
<1>11. QED
  BY <1>1, <1>3, <1>10, StepOfTab

\* A fresh row holds the open vault.
LEMMA EnableStep ==
  ASSUME JournalInv, NEW t \in Tabs, NEW c \in CopyIds, enableAutosave(t, c)
  PROVE  JournalInv' /\ CopyStep
<1>1. /\ Others(t) /\ Domains' /\ broadcast' = broadcast /\ kept' = kept
      /\ step' = step /\ step[t] = "idle" /\ pending' = pending /\ pending[t] = <<>> /\ orphan' = orphan
      /\ timer' = timer /\ review' = review /\ vault' = vault /\ saved'[t] = vault[t]
      /\ writer[t] = Nothing /\ writer'[t] = 1 /\ savedCopyId'[t] = c
      /\ copies[c] = Unused /\ put(c, 0, vault[t])
  BY DEF enableAutosave, bind, session, chain, Others, JournalInv, Domains
<1>2. Timed(t) /\ CopiesTyped
  BY DEF JournalInv, TabInv
<1>3. /\ CopyStep /\ CopiesTyped'
      /\ Continues(c, 1, journal(vault[t]))'
      /\ journal(vault[t]) \in Recoverable'
  <2>1. PICK v : v = vault[t]
    OBVIOUS
  <2>2. /\ CopyStep /\ CopiesTyped'
        /\ Continues(c, 0 + 1, journal(v))'
        /\ journal(v) \in Recoverable'
    BY <1>1, <1>2, <2>1, PutStep
  <2>3. QED
    BY <1>1, <2>1, <2>2
<1>4. Queued(t)' /\ Abandoned(t)' /\ Reviewed(t)'
  BY <1>1, <1>3, NothingQueued, AbandonedStays, ReviewedStays
<1>5. Timed(t)'
  BY <1>1, <1>2 DEF Timed
<1>6. Bound(t)'
  BY <1>1, <1>3 DEF Bound
<1>7. Backed(t)'
  BY <1>1, <1>3, AddsOrder DEF Backed
<1>8. TabInv(t)'
  BY <1>4, <1>5, <1>6, <1>7 DEF TabInv
<1>9. QED
  BY <1>1, <1>3, <1>8, StepOfTab

\* Steps that neither write nor change what is open: they end the writer, or
\* change only how far a submission is.
LEMMA QuietStep ==
  ASSUME JournalInv, NEW t \in Tabs, Others(t), Domains', broadcast' \subseteq broadcast \cup Recorded,
         copies' = copies, kept' = kept, vault'[t] = vault[t], saved'[t] = saved[t],
         savedCopyId'[t] = savedCopyId[t], pending'[t] = pending[t], timer'[t] = timer[t],
         orphan'[t] = orphan[t], review'[t] = review[t],
         \/ step'[t] = step[t] /\ attempt'[t] = attempt[t]
         \/ step[t] = "recording" /\ step'[t] = "expired" /\ attempt'[t] = attempt[t]
         \/ /\ step[t] \notin {"recording", "expired", "finalizing"}
            /\ step'[t] \in {"idle", "preparing", "expired", "sent"},
         \/ writer'[t] = writer[t]
         \/ writer'[t] = Nothing /\ timer[t] = Nothing /\ pending[t] = <<>>
  PROVE  JournalInv' /\ CopyStep
<1>1. Timed(t) /\ Bound(t) /\ CopiesTyped
  BY DEF JournalInv, TabInv
<1>2. CopyStep /\ CopiesTyped'
  BY <1>1, SameCopies
<1>3. Queued(t)' /\ Abandoned(t)' /\ Reviewed(t)' /\ Backed(t)'
  BY <1>2, QueuedStays, AbandonedStays, ReviewedStays, BackedStays
<1>4. Timed(t)'
  BY <1>1 DEF Timed
<1>5. CASE writer'[t] = writer[t]
  <2>1. Adds(journal(vault[t]), journal(vault'[t]))
    BY AddsOrder
  <2>2. Bound(t)'
    BY <1>1, <1>2, <1>5, <2>1, BoundStays DEF Bound
  <2>3. QED
    BY <1>2, <1>3, <1>4, <2>2, StepOfTab DEF TabInv
<1>6. CASE writer'[t] = Nothing /\ timer[t] = Nothing /\ pending[t] = <<>>
  <2>1. Bound(t)'
    BY <1>1, <1>6 DEF Bound
  <2>2. QED
    BY <1>2, <1>3, <1>4, <2>1, StepOfTab DEF TabInv
<1>7. QED
  BY <1>5, <1>6

\* Which steps those are.
LEMMA QuietSteps ==
  ASSUME JournalInv, NEW t \in Tabs,
         stopAutosave(t) \/ begin(t) \/ prepareFails(t) \/ preparationExpires(t) \/ submit(t) \/ outcomeUnknown(t)
  PROVE  JournalInv' /\ CopyStep
<1>1. CASE stopAutosave(t)
  BY <1>1, QuietStep DEF stopAutosave, session, chain, Others, JournalInv, Domains
<1>2. CASE begin(t)
  BY <1>2, QuietStep DEF begin, rest, chain, Others, JournalInv, Domains
<1>3. CASE prepareFails(t)
  BY <1>3, QuietStep DEF prepareFails, rest, chain, Others, JournalInv, Domains
<1>4. CASE submit(t)
  <2>1. attempt[t] \in Recorded
    BY <1>4 DEF submit, JournalInv, TabInv, Backed
  <2>2. broadcast' \subseteq broadcast \cup Recorded
    BY <1>4, <2>1 DEF submit
  <2>3. QED
    BY <1>4, <2>2, QuietStep DEF submit, rest, Others, JournalInv, Domains
<1>5. CASE outcomeUnknown(t)
  BY <1>5, QuietStep DEF outcomeUnknown, rest, chain, Others, JournalInv, Domains
<1>6. CASE preparationExpires(t)
  BY <1>6, QuietStep DEF preparationExpires, rest, chain, Others, JournalInv, Domains
<1>7. QED
  BY <1>1, <1>2, <1>3, <1>4, <1>5, <1>6

\* A downloaded file keeps the journal of what is open.
LEMMA DownloadStep ==
  ASSUME JournalInv, NEW t \in Tabs, download(t)
  PROVE  JournalInv' /\ CopyStep
<1>1. /\ Others(t) /\ Domains' /\ broadcast' = broadcast /\ copies' = copies
      /\ kept' = kept \cup {journal(vault[t])} /\ saved'[t] = vault[t] /\ step[t] = "idle"
      /\ vault' = vault /\ writer' = writer /\ pending' = pending /\ orphan' = orphan /\ timer' = timer
      /\ review' = review /\ savedCopyId' = savedCopyId /\ step' = step /\ attempt' = attempt
  BY DEF download, session, chain, Others, JournalInv, Domains
<1>2. Timed(t) /\ Bound(t) /\ CopiesTyped
  BY DEF JournalInv, TabInv
<1>3. CopyStep /\ CopiesTyped'
  BY <1>1, <1>2, SameCopies
<1>4. Queued(t)' /\ Abandoned(t)' /\ Reviewed(t)'
  BY <1>1, <1>3, QueuedStays, AbandonedStays, ReviewedStays
<1>5. Timed(t)'
  BY <1>1, <1>2 DEF Timed
<1>6. Bound(t)'
  <2>1. Adds(journal(vault[t]), journal(vault'[t]))
    BY <1>1, AddsOrder
  <2>2. QED
    BY <1>1, <1>2, <1>3, <2>1, BoundStays DEF Bound
<1>7. Backed(t)'
  <2>1. journal(saved'[t]) \in Recoverable'
    BY <1>1 DEF Recoverable
  <2>2. QED
    BY <1>1, <2>1, AddsOrder DEF Backed
<1>8. QED
  BY <1>1, <1>3, <1>4, <1>5, <1>6, <1>7, StepOfTab DEF TabInv

\* An edit changes no attempt, so what was scheduled or queued still says what
\* the open vault says.
LEMMA EditStep ==
  ASSUME JournalInv, NEW t \in Tabs, edit(t)
  PROVE  JournalInv' /\ CopyStep
<1>1. /\ Others(t) /\ Domains' /\ broadcast' = broadcast /\ copies' = copies /\ kept' = kept
      /\ step[t] = "idle" /\ step' = step /\ attempt' = attempt /\ saved' = saved /\ writer' = writer
      /\ pending' = pending /\ orphan' = orphan /\ review' = review /\ savedCopyId' = savedCopyId
      /\ timer'[t] = IF writer[t] # Nothing THEN vault'[t] ELSE timer[t]
  BY DEF edit, session, chain, Others, JournalInv, Domains
<1>2. Queued(t) /\ Timed(t) /\ Bound(t) /\ CopiesTyped
  BY DEF JournalInv, TabInv
<1>3. CopyStep /\ CopiesTyped'
  BY <1>1, <1>2, SameCopies
<1>4. Same(vault[t], vault'[t])
  <2>1. PICK part, v : v \in edited(vault[t], part) /\ vault' = [vault EXCEPT ![t] = v]
    BY DEF edit
  <2>2. Same(vault[t], v)
    BY <2>1, EditKeeps
  <2>3. vault'[t] = v
    BY <2>1 DEF JournalInv, Domains
  <2>4. QED
    BY <2>2, <2>3
<1>5. Queued(t)'
  <2>1. ASSUME NEW i \in 1..Len(pending[t])
        PROVE  /\ DOMAIN pending[t][i] = {"vault", "kind", "writing"}
               /\ pending[t][i].kind = "autosave"
               /\ Same(pending[t][i].vault, vault'[t])
    <3>1. /\ DOMAIN pending[t][i] = {"vault", "kind", "writing"}
          /\ pending[t][i].kind = "autosave" /\ Same(pending[t][i].vault, vault[t])
      BY <1>1, <1>2 DEF Queued
    <3>2. QED
      BY <1>4, <3>1, SameOrder
  <2>2. QED
    BY <1>1, <1>2, <2>1 DEF Queued
<1>6. Timed(t)'
  <2>1. Same(vault'[t], vault'[t])
    BY SameJournal
  <2>2. QED
    BY <1>1, <1>2, <2>1 DEF Timed
<1>7. Bound(t)'
  <2>1. Adds(journal(vault[t]), journal(vault'[t]))
    BY <1>4 DEF Same
  <2>2. QED
    BY <1>1, <1>2, <1>3, <2>1, BoundStays DEF Bound
<1>8. Abandoned(t)' /\ Reviewed(t)' /\ Backed(t)'
  BY <1>1, <1>3, AbandonedStays, ReviewedStays, BackedStays
<1>9. QED
  BY <1>1, <1>3, <1>5, <1>6, <1>7, <1>8, StepOfTab DEF TabInv

\* What joins a queue: an autosave when no submission saves, or what a submission
\* saves, behind autosaves.
LEMMA Enqueued ==
  ASSUME JournalInv, NEW t \in Tabs, NEW v, NEW kind, enqueue(t, v, kind), vault'[t] = vault[t],
         timer[t] # Nothing \/ step[t] \notin {"recording", "expired", "finalizing"}, timer'[t] = Nothing,
         \/ kind = "autosave" /\ Same(v, vault[t])
         \/ /\ kind = "journal" /\ step'[t] = "recording" /\ attempt'[t] \in DOMAIN journal(v)
            /\ Adds(journal(vault[t]), journal(v))
         \/ kind = "receipt" /\ step'[t] = "finalizing" /\ Adds(journal(vault[t]), journal(v))
  PROVE  Queued(t)'
<1> DEFINE q == pending[t]
           e == [vault |-> v, kind |-> kind, writing |-> FALSE]
<1>1. Queued(t) /\ Domains
  BY DEF JournalInv, TabInv
<1>2. pending'[t] = Append(q, e)
  BY <1>1 DEF enqueue, Domains
<1>3. /\ \E S : Append(q, e) \in Seq(S)
      /\ Len(q) \in Nat /\ Len(Append(q, e)) = Len(q) + 1
      /\ \A i \in 1..Len(q) : Append(q, e)[i] = q[i]
      /\ Append(q, e)[Len(q) + 1] = e
  <2>1. \E S : q \in Seq(S)
    BY <1>1 DEF Queued
  <2> HIDE DEF q, e
  <2>2. QED
    BY <2>1, AppendedQueue
<1>4. \A i \in 1..Len(q) : /\ DOMAIN q[i] = {"vault", "kind", "writing"}
                           /\ q[i].kind = "autosave" /\ Same(q[i].vault, vault[t])
  BY <1>1 DEF Queued
<1>5. /\ DOMAIN e = {"vault", "kind", "writing"}
      /\ e.vault = v /\ e.kind = kind
  OBVIOUS
<1> HIDE DEF q, e
<1>6. ASSUME NEW i \in 1..Len(q) + 1
      PROVE  \/ i \in 1..Len(q) /\ pending'[t][i] = q[i]
             \/ i = Len(pending'[t]) /\ pending'[t][i] = e
  BY <1>2, <1>3
<1>7. QED
  BY <1>2, <1>3, <1>4, <1>5, <1>6 DEF Queued

\* The timer's vault says what the open one says.
LEMMA TimerStep ==
  ASSUME JournalInv, NEW t \in Tabs, timerFires(t)
  PROVE  JournalInv' /\ CopyStep
<1>1. /\ Others(t) /\ Domains' /\ broadcast' = broadcast /\ copies' = copies /\ kept' = kept
      /\ timer[t] # Nothing /\ timer'[t] = Nothing /\ enqueue(t, timer[t], "autosave")
      /\ step' = step /\ attempt' = attempt /\ vault' = vault /\ saved' = saved /\ writer' = writer
      /\ orphan' = orphan /\ review' = review /\ savedCopyId' = savedCopyId
  BY DEF timerFires, enqueue, session, chain, Others, JournalInv, Domains
<1>2. Timed(t) /\ Bound(t) /\ CopiesTyped
  BY DEF JournalInv, TabInv
<1>3. CopyStep /\ CopiesTyped'
  BY <1>1, <1>2, SameCopies
<1>4. Queued(t)'
  <2>1. PICK v : v = timer[t]
    OBVIOUS
  <2>2. /\ enqueue(t, v, "autosave") /\ Same(v, vault[t])
        /\ vault'[t] = vault[t]
    BY <1>1, <1>2, <2>1 DEF Timed, enqueue
  <2>3. QED
    BY <1>1, <2>2, Enqueued
<1>5. Timed(t)'
  BY <1>1 DEF Timed
<1>6. Bound(t)'
  <2>1. Adds(journal(vault[t]), journal(vault'[t])) /\ writer[t] # Nothing
    BY <1>1, <1>2, AddsOrder DEF Timed
  <2>2. QED
    BY <1>1, <1>3, <2>1, BoundStays
<1>7. Abandoned(t)' /\ Reviewed(t)' /\ Backed(t)'
  BY <1>1, <1>3, AbandonedStays, ReviewedStays, BackedStays
<1>8. QED
  BY <1>1, <1>3, <1>4, <1>5, <1>6, <1>7, StepOfTab DEF TabInv

\* The first save of the queue is being written.
LEMMA WriteStep ==
  ASSUME JournalInv, NEW t \in Tabs, startWrite(t)
  PROVE  JournalInv' /\ CopyStep
<1> DEFINE q == pending[t]
           p == [q EXCEPT ![1] = [q[1] EXCEPT !.writing = TRUE]]
<1>1. /\ Others(t) /\ Domains' /\ broadcast' = broadcast /\ copies' = copies /\ kept' = kept
      /\ step' = step /\ attempt' = attempt /\ vault' = vault /\ saved' = saved /\ writer' = writer
      /\ orphan' = orphan /\ review' = review /\ savedCopyId' = savedCopyId /\ timer' = timer
      /\ q # <<>> /\ pending'[t] = p
  BY DEF startWrite, session, chain, Others, JournalInv, Domains
<1>2. Queued(t) /\ Timed(t) /\ Bound(t) /\ CopiesTyped
  BY DEF JournalInv, TabInv
<1>3. CopyStep /\ CopiesTyped'
  BY <1>1, <1>2, SameCopies
<1>4. /\ \E S : p \in Seq(S)
      /\ Len(p) = Len(q) /\ Len(q) \in Nat \ {0}
      /\ \A i \in 2..Len(q) : p[i] = q[i]
      /\ p[1] = [q[1] EXCEPT !.writing = TRUE]
  <2>1. PICK S : q \in Seq(S)
    BY <1>2 DEF Queued
  <2> DEFINE e == [q[1] EXCEPT !.writing = TRUE]
             T == S \cup {e}
  <2>2. /\ Len(q) \in Nat \ {0}
        /\ q \in [1..Len(q) -> S]
    <3> HIDE DEF q
    <3>1. QED
      BY <1>1, <2>1, EmptySeq, LenProperties
  <2>3. p \in [1..Len(q) -> T] /\ p[1] = e /\ \A i \in 2..Len(q) : p[i] = q[i]
    <3>1. p = [q EXCEPT ![1] = e]
      OBVIOUS
    <3>2. 1 \in 1..Len(q) /\ DOMAIN q = 1..Len(q)
      BY <2>2
    <3> HIDE DEF q, e, p
    <3>3. QED
      BY <2>2, <3>1, <3>2
  <2> HIDE DEF q, e
  <2> HIDE DEF p, T
  <2>4. p \in Seq(T)
    BY <2>2, <2>3, SeqDef
  <2>5. Len(p) = Len(q)
    BY <2>2, <2>3, <2>4, LenProperties
  <2>6. QED
    BY <2>2, <2>3, <2>4, <2>5 DEF e
<1>5. Queued(t)'
  <2>1. ASSUME NEW i \in 1..Len(q)
        PROVE  DOMAIN p[i] = DOMAIN q[i] /\ p[i].vault = q[i].vault /\ p[i].kind = q[i].kind
    <3>1. DOMAIN q[i] = {"vault", "kind", "writing"}
      BY <1>2 DEF Queued
    <3> HIDE DEF q, p
    <3>2. CASE i = 1
      BY <1>4, <3>1, <3>2
    <3>3. CASE i # 1
      BY <1>4, <3>3
    <3>4. QED
      BY <3>2, <3>3
  <2>2. \A i \in 1..Len(pending'[t]) : i \in 1..Len(q)
    BY <1>1, <1>4
  <2> HIDE DEF p
  <2>3. QED
    BY <1>1, <1>2, <1>4, <2>1, <2>2 DEF Queued
<1>6. Timed(t)'
  BY <1>1, <1>2 DEF Timed
<1>7. Bound(t)'
  <2>1. Adds(journal(vault[t]), journal(vault'[t])) /\ writer[t] # Nothing
    BY <1>1, <1>2, AddsOrder DEF Bound
  <2>2. QED
    BY <1>1, <1>3, <2>1, BoundStays
<1>8. Abandoned(t)' /\ Reviewed(t)' /\ Backed(t)'
  BY <1>1, <1>3, AbandonedStays, ReviewedStays, BackedStays
<1>9. QED
  BY <1>1, <1>3, <1>5, <1>6, <1>7, <1>8, StepOfTab DEF TabInv

-----------------------------------------------------------------------------
(* Steps that may write a copy.                                            *)

\* The first save of a queue continues the row of its writer.
LEMMA HeadContinues ==
  ASSUME JournalInv, NEW t \in Tabs, pending[t] # <<>>
  PROVE  /\ writer[t] # Nothing
         /\ Head(pending[t]) = pending[t][1] /\ 1 \in 1..Len(pending[t])
         /\ Adds(journal(vault[t]), journal(Head(pending[t]).vault))
         /\ Continues(savedCopyId[t], writer[t], journal(Head(pending[t]).vault))
<1>1. Queued(t) /\ Bound(t)
  BY DEF JournalInv, TabInv
<1>2. Head(pending[t]) = pending[t][1] /\ 1 \in 1..Len(pending[t])
  <2>1. \E S : pending[t] \in Seq(S)
    BY <1>1 DEF Queued
  <2>2. QED
    BY <2>1, RestOfQueue
<1>3. Adds(journal(vault[t]), journal(Head(pending[t]).vault))
  BY <1>1, <1>2 DEF Queued, Same
<1>4. PICK a, b : a = journal(vault[t]) /\ b = journal(Head(pending[t]).vault)
  OBVIOUS
<1>5. Continues(savedCopyId[t], writer[t], a) /\ Adds(a, b)
  BY <1>1, <1>3, <1>4 DEF Bound
<1>6. Continues(savedCopyId[t], writer[t], b)
  BY <1>5, AddsOrder DEF Continues
<1>7. QED
  BY <1>1, <1>2, <1>3, <1>4, <1>6 DEF Bound

\* A save's write, as it succeeds or is committed after its deadline.
LEMMA HeadWritten ==
  ASSUME JournalInv, NEW t \in Tabs, pending[t] # <<>>, kept' = kept,
         matches(savedCopyId[t], writer[t]), put(savedCopyId[t], writer[t], Head(pending[t]).vault)
  PROVE  /\ CopyStep /\ CopiesTyped'
         /\ writer[t] \in Nat
         /\ \A c, n, v : c = savedCopyId[t] /\ n = writer[t] /\ v = Head(pending[t]).vault
               => Continues(c, n + 1, journal(v))' /\ journal(v) \in Recoverable'
<1>1. PICK c, n, v : c = savedCopyId[t] /\ n = writer[t] /\ v = Head(pending[t]).vault
  OBVIOUS
<1>2. Continues(c, n, journal(v)) /\ copies[c].revision = n /\ CopiesTyped
  BY <1>1, HeadContinues DEF matches, JournalInv
<1>3. c \in CopyIds /\ n \in Nat /\ put(c, n, v)
  BY <1>1, <1>2 DEF Continues, Passed
<1>4. /\ CopyStep /\ CopiesTyped'
      /\ Continues(c, n + 1, journal(v))'
      /\ journal(v) \in Recoverable'
  BY <1>2, <1>3, PutStep
<1>5. QED
  BY <1>1, <1>3, <1>4

\* A save that succeeds, for the rest of the queue continues what it wrote.
LEMMA SaveStep ==
  ASSUME JournalInv, NEW t \in Tabs, saveSucceeds(t)
  PROVE  JournalInv' /\ CopyStep
<1> DEFINE q == pending[t]
           s == Head(q)
<1>1. /\ Others(t) /\ Domains' /\ broadcast' = broadcast /\ kept' = kept
      /\ q # <<>> /\ matches(savedCopyId[t], writer[t]) /\ put(savedCopyId[t], writer[t], s.vault)
      /\ writer'[t] = writer[t] + 1 /\ pending'[t] = Tail(q)
      /\ vault'[t] = IF s.kind = "autosave" THEN vault[t] ELSE s.vault
      /\ saved'[t] = IF vault'[t] = s.vault THEN s.vault ELSE saved[t]
      /\ step'[t] = CASE s.kind = "autosave" -> step[t]
                      [] s.kind = "journal" -> IF assertActive(t) THEN "authorizing" ELSE step[t]
                      [] s.kind = "receipt" -> "idle"
      /\ attempt'[t] = IF s.kind = "receipt" THEN Nothing ELSE attempt[t]
      /\ orphan' = orphan /\ review' = review /\ savedCopyId' = savedCopyId /\ timer' = timer
  BY DEF saveSucceeds, chain, Others, JournalInv, Domains
<1>2. Queued(t) /\ Timed(t) /\ Bound(t) /\ Backed(t) /\ CopiesTyped
  BY DEF JournalInv, TabInv
<1>3. PICK c, n, v : c = savedCopyId[t] /\ n = writer[t] /\ v = s.vault
  OBVIOUS
<1>4. /\ CopyStep /\ CopiesTyped' /\ n \in Nat
      /\ Continues(c, n + 1, journal(v))'
      /\ journal(v) \in Recoverable'
  BY <1>1, <1>3, HeadWritten
<1>5. /\ \E S : Tail(q) \in Seq(S)
      /\ Len(q) \in Nat \ {0} /\ s = q[1]
      /\ Len(Tail(q)) = Len(q) - 1
      /\ \A i \in 1..Len(Tail(q)) : Tail(q)[i] = q[i + 1]
  <2>1. \E S : q \in Seq(S)
    BY <1>2 DEF Queued
  <2> HIDE DEF q
  <2>2. QED
    BY <1>1, <2>1, RestOfQueue
<1>6. Abandoned(t)' /\ Reviewed(t)'
  BY <1>1, <1>4, AbandonedStays, ReviewedStays
<1>7. \/ s.kind = "autosave" /\ Same(v, vault[t])
      \/ /\ Len(q) = 1 /\ s.kind = "journal" /\ step[t] \in {"recording", "expired"}
         /\ attempt[t] \in DOMAIN journal(v) /\ timer[t] = Nothing
      \/ Len(q) = 1 /\ s.kind = "receipt" /\ step[t] = "finalizing" /\ timer[t] = Nothing
  <2>1. 1 \in 1..Len(q)
    BY <1>5
  <2>2. QED
    <3>1. /\ q[1].kind = "autosave" => Same(q[1].vault, vault[t])
          /\ q[1].kind # "autosave" => /\ 1 = Len(q) /\ timer[t] = Nothing
                                       /\ q[1].kind = "journal" \/ q[1].kind = "receipt"
          /\ q[1].kind = "journal" => step[t] \in {"recording", "expired"} /\ attempt[t] \in DOMAIN journal(q[1].vault)
          /\ q[1].kind = "receipt" => step[t] = "finalizing"
      BY <1>2, <2>1 DEF Queued
    <3> HIDE DEF q, s
    <3>2. QED
      BY <1>3, <1>5, <3>1
<1>8. CASE s.kind = "autosave" /\ Same(v, vault[t])
  <2>1. step'[t] = step[t] /\ attempt'[t] = attempt[t] /\ vault'[t] = vault[t]
    BY <1>1, <1>8
  <2>2. Queued(t)'
    <3>1. ASSUME NEW i \in 1..Len(Tail(q))
          PROVE  /\ i + 1 \in 1..Len(q) /\ Tail(q)[i] = q[i + 1]
                 /\ i + 1 = Len(q) => i = Len(Tail(q))
      BY <1>5
    <3>2. ASSUME NEW j \in 1..Len(q)
          PROVE  /\ DOMAIN q[j] = {"vault", "kind", "writing"}
                 /\ q[j].kind = "autosave" => Same(q[j].vault, vault'[t])
                 /\ q[j].kind # "autosave" => /\ j = Len(q) /\ timer'[t] = Nothing
                                              /\ Adds(journal(vault'[t]), journal(q[j].vault))
                                              /\ q[j].kind = "journal" \/ q[j].kind = "receipt"
                 /\ q[j].kind = "journal" => /\ step'[t] \in {"recording", "expired"}
                                             /\ attempt'[t] \in DOMAIN journal(q[j].vault)
                 /\ q[j].kind = "receipt" => step'[t] = "finalizing"
      BY <1>1, <1>2, <2>1 DEF Queued
    <3>3. pending'[t] = Tail(q)
      BY <1>1
    <3> DEFINE p == Tail(q)
    <3> HIDE DEF q, s
    <3>4. \A i \in 1..Len(p) : i + 1 \in 1..Len(q) /\ p[i] = q[i + 1] /\ (i + 1 = Len(q) => i = Len(p))
      BY <3>1
    <3>5. (\E S : p \in Seq(S)) /\ pending'[t] = p
      BY <1>5, <3>3
    <3> HIDE DEF p
    <3>6. ASSUME NEW i \in 1..Len(p)
          PROVE  /\ DOMAIN p[i] = {"vault", "kind", "writing"}
                 /\ p[i].kind = "autosave" => Same(p[i].vault, vault'[t])
                 /\ p[i].kind # "autosave" => /\ i = Len(p) /\ timer'[t] = Nothing
                                              /\ Adds(journal(vault'[t]), journal(p[i].vault))
                                              /\ p[i].kind = "journal" \/ p[i].kind = "receipt"
                 /\ p[i].kind = "journal" => /\ step'[t] \in {"recording", "expired"}
                                             /\ attempt'[t] \in DOMAIN journal(p[i].vault)
                 /\ p[i].kind = "receipt" => step'[t] = "finalizing"
      <4>1. PICK j \in 1..Len(q) : p[i] = q[j] /\ (j = Len(q) => i = Len(p))
        BY <3>4
      <4>2. QED
        BY <3>2, <4>1
    <3>7. QED
      BY <3>5, <3>6 DEF Queued
  <2>3. Timed(t)'
    <3>1. writer'[t] # Nothing
      BY <1>1, <1>3, <1>4, JournalConstants
    <3>2. QED
      BY <1>1, <1>2, <2>1, <3>1 DEF Timed
  <2>4. Bound(t)'
    <3>1. PICK a : a = journal(vault[t])
      OBVIOUS
    <3>2. Continues(c, n + 1, a)'
      <4>1. PICK b : b = journal(v)
        OBVIOUS
      <4>2. Adds(b, a) /\ Continues(c, n + 1, b)'
        BY <1>4, <1>8, <3>1, <4>1 DEF Same
      <4>3. QED
        BY <4>2, AddsOrder DEF Continues
    <3>3. step[t] # "closed"
      BY <1>1, <1>2 DEF Bound
    <3>4. writer'[t] # Nothing
      BY <1>1, <1>3, <1>4, JournalConstants
    <3>5. QED
      BY <1>1, <1>3, <2>1, <3>1, <3>2, <3>3, <3>4 DEF Bound
  <2>5. Backed(t)'
    <3>1. CASE saved'[t] = saved[t]
      BY <1>4, <2>1, <3>1, BackedStays
    <3>2. CASE saved'[t] = v
      <4>1. step'[t] = "authorizing" => attempt'[t] \in Recorded'
        BY <1>2, <1>4, <2>1, RecordedGrows DEF Backed
      <4>2. QED
        BY <1>4, <3>2, <4>1, AddsOrder DEF Backed
    <3>3. QED
      BY <1>1, <1>3, <3>1, <3>2
  <2>6. QED
    BY <1>1, <1>4, <1>6, <2>2, <2>3, <2>4, <2>5, StepOfTab DEF TabInv
<1>9. CASE Len(q) = 1 /\ s.kind \in {"journal", "receipt"}
  <2>1. /\ vault'[t] = v /\ saved'[t] = v
        /\ step'[t] \in {"authorizing", "expired", "idle"}
        /\ step'[t] = "authorizing" => s.kind = "journal" /\ attempt'[t] = attempt[t]
    BY <1>1, <1>3, <1>9 DEF assertActive
  <2>2. Queued(t)'
    <3>1. 1..Len(Tail(q)) = {}
      <4>1. PICK k, n1 : k = Len(Tail(q)) /\ n1 = Len(q)
        OBVIOUS
      <4>2. k = n1 - 1 /\ n1 = 1
        <5>1. Len(Tail(q)) = Len(q) - 1 /\ Len(q) = 1
          BY <1>5, <1>9
        <5> HIDE DEF q, s
        <5>2. QED
          BY <4>1, <5>1
      <4>3. 1..k = {}
        BY <4>2
      <4> HIDE DEF q, s
      <4>4. QED
        BY <4>1, <4>3
    <3>2. QED
      BY <1>1, <1>5, <3>1 DEF Queued
  <2>3. Timed(t)'
    BY <1>1, <1>2, <1>7, <1>9, <2>1 DEF Timed
  <2>4. Bound(t)'
    <3>1. writer'[t] # Nothing
      BY <1>1, <1>3, <1>4, JournalConstants
    <3>2. QED
      BY <1>1, <1>3, <1>4, <2>1, <3>1 DEF Bound
  <2>5. Backed(t)'
    <3>1. step'[t] = "authorizing" => attempt'[t] \in Recorded'
      BY <1>4, <1>7, <2>1 DEF Recorded
    <3>2. QED
      BY <1>4, <2>1, <3>1, AddsOrder DEF Backed
  <2>6. QED
    BY <1>1, <1>4, <1>6, <2>2, <2>3, <2>4, <2>5, StepOfTab DEF TabInv
<1>10. QED
  BY <1>7, <1>8, <1>9

\* A save that fails: the row may be written all the same, nothing is left to save.
LEMMA FailedSaveStep ==
  ASSUME JournalInv, NEW t \in Tabs, saveFails(t)
  PROVE  JournalInv' /\ CopyStep
<1>1. /\ Others(t) /\ Domains' /\ broadcast' = broadcast /\ kept' = kept /\ pending[t] # <<>>
      /\ writer'[t] = Nothing /\ pending'[t] = <<>> /\ timer'[t] = Nothing
      /\ orphan' = orphan /\ review' = review /\ savedCopyId' = savedCopyId
      /\ \/ step'[t] = "idle"
         \/ step' = step /\ attempt' = attempt
  BY DEF saveFails, chain, Others, JournalInv, Domains
<1>2. saved'[t] \in {saved[t], Nothing}
  BY DEF saveFails, JournalInv, Domains
<1>3. CopiesTyped
  BY DEF JournalInv
<1>4. CopyStep /\ CopiesTyped'
  <2>1. CASE copies' = copies
    BY <1>1, <1>3, <2>1, SameCopies
  <2>2. CASE matches(savedCopyId[t], writer[t]) /\ put(savedCopyId[t], writer[t], Head(pending[t]).vault)
    BY <1>1, <2>2, HeadWritten
  <2>3. QED
    BY <2>1, <2>2 DEF saveFails
<1>5. Queued(t)' /\ Abandoned(t)' /\ Reviewed(t)' /\ Backed(t)'
  BY <1>1, <1>2, <1>4, NothingQueued, AbandonedStays, ReviewedStays, BackedStays
<1>6. Timed(t)' /\ Bound(t)'
  BY <1>1 DEF Timed, Bound
<1>7. QED
  BY <1>1, <1>4, <1>5, <1>6, StepOfTab DEF TabInv

\* A write left behind is refused when its row has moved on.
LEMMA OrphanStep ==
  ASSUME JournalInv, NEW t \in Tabs, orphanEnds(t)
  PROVE  JournalInv' /\ CopyStep
<1>1. /\ Others(t) /\ Domains' /\ broadcast' = broadcast /\ kept' = kept /\ orphan[t] # Nothing
      /\ orphan'[t] = Nothing /\ vault' = vault /\ saved' = saved /\ writer' = writer
      /\ pending' = pending /\ timer' = timer /\ review' = review /\ savedCopyId' = savedCopyId
      /\ step' = step /\ attempt' = attempt
  BY DEF orphanEnds, session, chain, Others, JournalInv, Domains
<1>2. Timed(t) /\ Bound(t) /\ Abandoned(t) /\ CopiesTyped
  BY DEF JournalInv, TabInv
<1>3. CopyStep /\ CopiesTyped'
  <2>1. CASE copies' = copies
    BY <1>1, <1>2, <2>1, SameCopies
  <2>2. CASE /\ matches(orphan[t].id, orphan[t].revision)
             /\ put(orphan[t].id, orphan[t].revision, orphan[t].vault)
    <3>1. PICK c, n, v : c = orphan[t].id /\ n = orphan[t].revision /\ v = orphan[t].vault
      OBVIOUS
    <3>2. Continues(c, n, journal(v)) /\ copies[c].revision = n
      BY <1>1, <1>2, <2>2, <3>1 DEF matches, Abandoned
    <3>3. c \in CopyIds /\ n \in Nat /\ put(c, n, v)
      BY <2>2, <3>1, <3>2 DEF Continues, Passed
    <3>4. QED
      BY <1>1, <1>2, <3>2, <3>3, PutStep
  <2>3. QED
    BY <2>1, <2>2 DEF orphanEnds
<1>4. Queued(t)' /\ Reviewed(t)' /\ Backed(t)'
  BY <1>1, <1>3, QueuedStays, ReviewedStays, BackedStays
<1>5. Timed(t)' /\ Abandoned(t)'
  BY <1>1, <1>2 DEF Timed, Abandoned
<1>6. Bound(t)'
  <2>1. Adds(journal(vault[t]), journal(vault'[t]))
    BY <1>1, AddsOrder
  <2>2. QED
    BY <1>1, <1>2, <1>3, <2>1, BoundStays DEF Bound
<1>7. QED
  BY <1>1, <1>3, <1>4, <1>5, <1>6, StepOfTab DEF TabInv

\* A writer that is discarded may leave its write behind.
LEMMA DiscardStep ==
  ASSUME JournalInv, NEW t \in Tabs, close(t) \/ remount(t)
  PROVE  JournalInv' /\ CopyStep
<1>1. /\ Others(t) /\ Domains' /\ broadcast' = broadcast /\ copies' = copies /\ kept' = kept
      /\ discard(t) /\ step'[t] \in {"closed", "idle"}
      /\ saved'[t] \in {saved[t], Nothing}
      /\ review'[t] = review[t] \/ review'[t] = Nothing
  BY DEF close, remount, discard, chain, Others, JournalInv, Domains
<1>2. /\ writer'[t] = Nothing /\ pending'[t] = <<>> /\ timer'[t] = Nothing
      /\ orphan'[t] = IF pending[t] # <<>> /\ Head(pending[t]).writing
                      THEN [id |-> savedCopyId[t], revision |-> writer[t], vault |-> Head(pending[t]).vault]
                      ELSE orphan[t]
  BY <1>1 DEF discard, JournalInv, Domains
<1>3. CopiesTyped
  BY DEF JournalInv
<1>4. CopyStep /\ CopiesTyped'
  BY <1>1, <1>3, SameCopies
<1>5. Abandoned(t)'
  <2>1. CASE pending[t] # <<>> /\ Head(pending[t]).writing
    <3>1. PICK c, n, v : c = savedCopyId[t] /\ n = writer[t] /\ v = Head(pending[t]).vault
      OBVIOUS
    <3>2. Continues(c, n, journal(v))
      BY <2>1, <3>1, HeadContinues
    <3>3. Continues(c, n, journal(v))'
      BY <1>1, <3>2 DEF Continues, Passed
    <3>4. orphan'[t].id = c /\ orphan'[t].revision = n /\ orphan'[t].vault = v
      BY <1>2, <2>1, <3>1
    <3>5. QED
      BY <3>3, <3>4 DEF Abandoned
  <2>2. CASE ~(pending[t] # <<>> /\ Head(pending[t]).writing)
    BY <1>2, <1>4, <2>2, AbandonedStays
  <2>3. QED
    BY <2>1, <2>2
<1>6. Reviewed(t)'
  <2>1. CASE review'[t] = review[t]
    BY <1>4, <2>1, ReviewedStays
  <2>2. CASE review'[t] = Nothing
    BY <2>2 DEF Reviewed
  <2>3. QED
    BY <1>1, <2>1, <2>2
<1>7. Queued(t)' /\ Backed(t)'
  BY <1>1, <1>2, <1>4, NothingQueued, BackedStays
<1>8. Timed(t)' /\ Bound(t)'
  BY <1>2 DEF Timed, Bound
<1>9. QED
  BY <1>1, <1>4, <1>5, <1>6, <1>7, <1>8, StepOfTab DEF TabInv
-----------------------------------------------------------------------------
(* Steps of a submission that save.                                        *)

\* What a submission saves joins the queue and takes the place of the timer.
LEMMA QueuesStep ==
  ASSUME JournalInv, NEW t \in Tabs, Others(t), Domains', NEW v, NEW kind, enqueue(t, v, kind),
         rest(t), chain, vault' = vault, saved' = saved, timer'[t] = Nothing,
         writer[t] # Nothing, step[t] \in {"preparing", "sent"},
         \/ /\ kind = "journal" /\ step'[t] = "recording" /\ attempt'[t] \in DOMAIN journal(v)
            /\ Adds(journal(vault[t]), journal(v))
         \/ kind = "receipt" /\ step'[t] = "finalizing" /\ Adds(journal(vault[t]), journal(v))
  PROVE  JournalInv' /\ CopyStep
<1>1. /\ broadcast' = broadcast /\ copies' = copies /\ kept' = kept /\ savedCopyId' = savedCopyId
      /\ writer' = writer /\ orphan' = orphan /\ review' = review /\ vault'[t] = vault[t]
      /\ step'[t] \notin {"authorizing", "closed"} /\ step[t] \notin {"recording", "expired", "finalizing"}
  BY DEF rest, chain
<1>2. CopiesTyped
  BY DEF JournalInv
<1>3. CopyStep /\ CopiesTyped'
  BY <1>1, <1>2, SameCopies
<1>4. Queued(t)'
  BY <1>1, Enqueued
<1>5. Timed(t)'
  BY DEF Timed
<1>6. Bound(t)'
  <2>1. Adds(journal(vault[t]), journal(vault'[t]))
    BY <1>1, AddsOrder
  <2>2. QED
    BY <1>1, <1>3, <2>1, BoundStays
<1>7. Abandoned(t)' /\ Reviewed(t)' /\ Backed(t)'
  BY <1>1, <1>3, AbandonedStays, ReviewedStays, BackedStays
<1>8. QED
  BY <1>1, <1>3, <1>4, <1>5, <1>6, <1>7, StepOfTab DEF TabInv

\* The journal with a new attempt adds to the one that is open.
LEMMA RecordStep ==
  ASSUME JournalInv, NEW t \in Tabs, NEW tx \in TxIds, recordSubmission(t, tx)
  PROVE  JournalInv' /\ CopyStep
<1>1. /\ Others(t) /\ Domains' /\ rest(t) /\ chain /\ vault' = vault /\ saved' = saved
      /\ timer'[t] = Nothing /\ writer[t] # Nothing /\ step[t] = "preparing"
      /\ step'[t] = "recording" /\ attempt'[t] = tx /\ tx \notin DOMAIN journal(vault[t])
  BY DEF recordSubmission, enqueue, rest, chain, Others, JournalInv, Domains
<1>2. PICK intent : enqueue(t, recorded(vault[t], tx, intent), "journal")
  BY DEF recordSubmission
<1>3. PICK u, v : u = vault[t] /\ v = recorded(vault[t], tx, intent)
  OBVIOUS
<1>4. tx \in DOMAIN journal(v) /\ Adds(journal(u), journal(v))
  <2>1. tx \notin DOMAIN journal(u) /\ v = recorded(u, tx, intent)
    BY <1>1, <1>3
  <2>2. QED
    BY <2>1, RecordedAdds
<1>5. enqueue(t, v, "journal") /\ Adds(journal(vault[t]), journal(v))
  BY <1>2, <1>3, <1>4
<1>6. QED
  BY <1>1, <1>4, <1>5, QueuesStep

\* Without a writer the receipt is in memory only: nothing waits and nothing is
\* shown as backed up.
LEMMA ReceiptStep ==
  ASSUME JournalInv, NEW t \in Tabs, recordReceipt(t)
  PROVE  JournalInv' /\ CopyStep
<1>1. PICK u, v, tx : u = vault[t] /\ tx = attempt[t] /\ v = receipted(vault[t], attempt[t])
  OBVIOUS
<1>2. Adds(journal(vault[t]), journal(v))
  BY <1>1, ReceiptAdds
<1>3. CASE writer[t] # Nothing
  <2>1. /\ Others(t) /\ Domains' /\ rest(t) /\ chain /\ vault' = vault /\ saved' = saved
        /\ timer'[t] = Nothing /\ step[t] = "sent" /\ step'[t] = "finalizing"
        /\ enqueue(t, receipted(vault[t], attempt[t]), "receipt")
    BY <1>3 DEF recordReceipt, enqueue, rest, chain, Others, JournalInv, Domains
  <2>2. enqueue(t, v, "receipt")
    BY <1>1, <2>1
  <2>3. QED
    BY <1>2, <1>3, <2>1, <2>2, QueuesStep
<1>4. CASE writer[t] = Nothing
  <2>1. /\ Others(t) /\ Domains' /\ broadcast' = broadcast /\ copies' = copies /\ kept' = kept
        /\ savedCopyId' = savedCopyId /\ writer' = writer /\ orphan' = orphan /\ review' = review
        /\ pending' = pending /\ timer' = timer /\ saved'[t] = Nothing /\ step'[t] = "idle"
    BY <1>4 DEF recordReceipt, rest, chain, Others, JournalInv, Domains
  <2>2. Timed(t) /\ Bound(t) /\ CopiesTyped
    BY DEF JournalInv, TabInv
  <2>3. pending'[t] = <<>> /\ timer'[t] = Nothing
    BY <1>4, <2>1, <2>2 DEF Timed, Bound
  <2>4. CopyStep /\ CopiesTyped'
    BY <2>1, <2>2, SameCopies
  <2>5. Queued(t)' /\ Abandoned(t)' /\ Reviewed(t)' /\ Backed(t)'
    BY <2>1, <2>3, <2>4, NothingQueued, AbandonedStays, ReviewedStays, BackedStays
  <2>6. Timed(t)' /\ Bound(t)'
    BY <1>4, <2>1, <2>3 DEF Timed, Bound
  <2>7. QED
    BY <2>1, <2>4, <2>5, <2>6, StepOfTab DEF TabInv
<1>5. QED
  BY <1>3, <1>4

-----------------------------------------------------------------------------
(* The invariant and the properties.                                       *)

\* What finality and stuttering leave alone.
LEMMA NothingMoves ==
  ASSUME JournalInv,
         copies' = copies, step' = step, attempt' = attempt, vault' = vault, saved' = saved,
         savedCopyId' = savedCopyId, writer' = writer, pending' = pending, orphan' = orphan,
         timer' = timer, review' = review, broadcast' = broadcast, kept' = kept
  PROVE  JournalInv' /\ CopyStep
<1>1. CopiesTyped
  BY DEF JournalInv
<1>2. CopyStep /\ CopiesTyped'
  BY <1>1, SameCopies
<1>3. \A t \in Tabs : TabInv(t)'
  BY <1>2, TabStays
<1>4. broadcast' \subseteq Recorded'
  BY <1>1, <1>2, RecordedGrows DEF JournalInv
<1>5. Domains'
  BY DEF JournalInv, Domains
<1>6. QED
  BY <1>2, <1>3, <1>4, <1>5 DEF JournalInv

\* Each step of a tab,
LEMMA TabStep ==
  ASSUME JournalInv, NEW t \in Tabs,
         \/ settle(t) \/ submission(t) \/ stopAutosave(t) \/ download(t) \/ edit(t)
         \/ orphanEnds(t) \/ close(t) \/ deleteCopy(t) \/ begin(t)
         \/ \E c \in CopyIds : open(t, c) \/ enableAutosave(t, c) \/ reviewCopy(t, c)
  PROVE  JournalInv' /\ CopyStep
<1>1. CASE settle(t)
  BY <1>1, TimerStep, WriteStep, SaveStep, FailedSaveStep DEF settle
<1>2. CASE submission(t)
  BY <1>2, QuietSteps, DiscardStep, RecordStep, ReceiptStep DEF submission
<1>3. CASE stopAutosave(t) \/ begin(t)
  BY <1>3, QuietSteps
<1>4. CASE download(t) \/ edit(t) \/ orphanEnds(t) \/ close(t) \/ deleteCopy(t)
  BY <1>4, DownloadStep, EditStep, OrphanStep, DiscardStep, DeleteStep
<1>5. CASE \E c \in CopyIds : open(t, c) \/ enableAutosave(t, c) \/ reviewCopy(t, c)
  BY <1>5, OpenStep, EnableStep, ReviewStep
<1>6. QED
  BY <1>1, <1>2, <1>3, <1>4, <1>5

\* and each step of the system.
LEMMA JournalStep ==
  ASSUME JournalInv, [Next]_vars
  PROVE  JournalInv' /\ CopyStep
<1>1. CASE UNCHANGED vars
  BY <1>1, NothingMoves DEF vars
<1>2. ASSUME NEW tx \in TxIds, finalize(tx)
      PROVE  JournalInv' /\ CopyStep
  BY <1>2, NothingMoves DEF finalize, session
<1>3. CASE \E t \in Tabs :
              \/ settle(t) \/ submission(t) \/ stopAutosave(t) \/ download(t) \/ edit(t)
              \/ orphanEnds(t) \/ close(t) \/ deleteCopy(t) \/ begin(t)
              \/ \E c \in CopyIds : open(t, c) \/ enableAutosave(t, c) \/ reviewCopy(t, c)
  BY <1>3, TabStep
<1>4. QED
  BY <1>1, <1>2, <1>3 DEF Next

\* In the beginning all tabs are closed.
LEMMA JournalInit == Init => JournalInv
<1>1. SUFFICES ASSUME Init PROVE JournalInv
  OBVIOUS
<1>2. CopiesTyped
  <2>1. PICK first \in FirstCopies : copies = first
    BY <1>1 DEF Init
  <2>2. DOMAIN first = CopyIds
    BY JournalConstants
  <2>3. ASSUME NEW c \in CopyIds
        PROVE  first[c].revision \in Nat /\ (first[c].revision = 0 => first[c] \in {Unused, Deleted})
    <3>1. first[c] \in {Unused, Deleted} \/ first[c].revision \in Nat \ {0}
      BY JournalConstants
    <3>2. QED
      BY <3>1 DEF Unused, Deleted
  <2>4. QED
    BY <2>1, <2>2, <2>3 DEF CopiesTyped
<1>3. Domains /\ broadcast = {}
  BY <1>1 DEF Init, Domains
<1>4. ASSUME NEW t \in Tabs
      PROVE  TabInv(t)
  <2>1. /\ step[t] = "closed" /\ saved[t] = Nothing /\ writer[t] = Nothing /\ pending[t] = <<>>
        /\ orphan[t] = Nothing /\ timer[t] = Nothing /\ review[t] = Nothing
    BY <1>1 DEF Init
  <2>2. Queued(t)
    BY <2>1, NoQueue DEF Queued
  <2>3. Timed(t) /\ Bound(t) /\ Abandoned(t) /\ Reviewed(t) /\ Backed(t)
    BY <2>1 DEF Timed, Bound, Abandoned, Reviewed, Backed
  <2>4. QED
    BY <2>2, <2>3 DEF TabInv
<1>5. QED
  BY <1>2, <1>3, <1>4 DEF JournalInv

\* What is open, queued, scheduled or left behind of each tab continues the row
\* it is meant for, whatever the tabs do.
THEOREM JournalInvariance == Spec => []JournalInv
<1>1. JournalInv /\ [Next]_vars => JournalInv'
  BY JournalStep
<1>2. QED
  BY JournalInit, <1>1, PTL DEF Spec

\* The wallet is called after the journal with its identifier was written, and
\* no later write, deletion, closed tab or late write loses the identifier.
THEOREM BroadcastSafety == Spec => []BroadcastIsRecorded
<1>1. JournalInv => BroadcastIsRecorded
  BY DEF JournalInv, Recorded, BroadcastIsRecorded
<1>2. QED
  BY <1>1, JournalInvariance, PTL

\* What a tab shows as backed up is in an encrypted copy, in a file or in a row
\* that a user deleted after reading it.
THEOREM BackupSafety == Spec => []BackedUpIsRestorable
<1>1. ASSUME JournalInv, NEW t \in Tabs, backedUp(t)
      PROVE  \E entries \in Recoverable : keeps(journal(vault[t]), entries)
  <2>1. saved[t] = vault[t]
    BY <1>1 DEF backedUp
  <2>2. PICK entries \in Recoverable : Adds(journal(vault[t]), entries)
    <3>1. saved[t] # Nothing => \E entries \in Recoverable : Adds(journal(saved[t]), entries)
      BY <1>1 DEF JournalInv, TabInv, Backed
    <3>2. QED
      BY <1>1, <2>1, <3>1 DEF backedUp
  <2> DEFINE a == journal(vault[t])
  <2>3. keeps(a, entries)
    <3>1. Adds(a, entries)
      BY <2>2
    <3> HIDE DEF a
    <3>2. QED
      BY <3>1, AddsKeeps
  <2>4. QED
    BY <2>3
<1>2. JournalInv => BackedUpIsRestorable
  BY <1>1 DEF BackedUpIsRestorable
<1>3. QED
  BY <1>2, JournalInvariance, PTL

\* A step leaves a row alone, deletes it, or writes its next revision with a
\* journal that adds to the one it replaces.
THEOREM SaveSafety == Spec => SavesOnlyAdd
<1> DEFINE Adding ==
      \A c \in CopyIds :
        exists(c) /\ copies'[c] # Deleted =>
            /\ keeps(journal(copies[c].vault), journal(copies'[c].vault))
            /\ copies[c].revision =< copies'[c].revision
<1>1. ASSUME JournalInv, [Next]_vars
      PROVE  Adding
  <2>1. SUFFICES ASSUME NEW c \in CopyIds, exists(c), copies'[c] # Deleted
                 PROVE  /\ keeps(journal(copies[c].vault), journal(copies'[c].vault))
                        /\ copies[c].revision =< copies'[c].revision
    OBVIOUS
  <2>2. copies[c].revision \in Nat
    BY <1>1 DEF JournalInv, CopiesTyped
  <2>3. CopyStep
    BY <1>1, JournalStep
  <2>4. CASE copies'[c] = copies[c]
    <3>1. PICK a : a = journal(copies[c].vault)
      OBVIOUS
    <3>2. keeps(a, a)
      BY AddsOrder, AddsKeeps
    <3>3. QED
      BY <2>2, <2>4, <3>1, <3>2
  <2>5. CASE /\ copies'[c].revision = copies[c].revision + 1
             /\ Adds(journal(copies[c].vault), journal(copies'[c].vault))
    <3>1. PICK a, b : a = journal(copies[c].vault) /\ b = journal(copies'[c].vault)
      OBVIOUS
    <3>2. keeps(a, b)
      BY <2>5, <3>1, AddsKeeps
    <3>3. QED
      BY <2>2, <2>5, <3>1, <3>2
  <2>6. QED
    BY <2>1, <2>3, <2>4, <2>5 DEF CopyStep
<1>2. QED
  BY <1>1, JournalInvariance, PTL DEF Spec, SavesOnlyAdd

-----------------------------------------------------------------------------
(* Vaults that can be saved stay so.                                       *)

\* The fields of each version.
LEMMA FieldsOfVersion ==
  ASSUME NEW n \in 1..12
  PROVE  /\ {"version", "role", "deployed", "reports"} \subseteq fieldsOf(n)
         /\ "submissionAttempts" \in fieldsOf(n) <=> n >= 2
         /\ "draft" \in fieldsOf(n) <=> n >= 3
         /\ "reportNotes" \in fieldsOf(n) <=> n >= 4
         /\ "attachmentDraft" \in fieldsOf(n) <=> n >= 7
         /\ "programDraft" \in fieldsOf(n) <=> n >= 11
         /\ fieldsOf(n) \subseteq {"version", "role", "deployed", "reports", "submissionAttempts",
                                   "draft", "reportNotes", "attachmentDraft", "programDraft"}
  BY DEF fieldsOf, FieldSince

\* The fields of an entry of each version.
LEMMA EntryFieldsOfVersion ==
  ASSUME NEW n \in 1..12
  PROVE  /\ "intent" \in entryFieldsOf(n) <=> n >= 5
         /\ "finalization" \in entryFieldsOf(n) <=> n >= 6
         /\ "notes" \in entryFieldsOf(n) <=> n >= 8
         /\ "retestPassed" \in entryFieldsOf(n) <=> n >= 9
         /\ "retestPatchCommitment" \in entryFieldsOf(n) <=> n >= 10
         /\ "deployment" \in entryFieldsOf(n) <=> n >= 12
         /\ entryFieldsOf(n) \subseteq {"intent", "finalization", "notes", "retestPassed",
                                        "retestPatchCommitment", "deployment"}
  BY DEF entryFieldsOf, EntryFieldSince

\* A later version has every field of an earlier one.
LEMMA VersionsGrow ==
  ASSUME NEW m \in 1..12, NEW n \in 1..12, m =< n
  PROVE  fieldsOf(m) \subseteq fieldsOf(n) /\ entryFieldsOf(m) \subseteq entryFieldsOf(n)
<1>1. fieldsOf(m) \subseteq fieldsOf(n)
  BY DEF fieldsOf, FieldSince
<1>2. entryFieldsOf(m) \subseteq entryFieldsOf(n)
  BY DEF entryFieldsOf, EntryFieldSince
<1>3. QED
  BY <1>1, <1>2

\* An entry stays valid when it gets the empty fields of a version that the
\* vault gets too.
LEMMA FilledEntry ==
  ASSUME NEW v, NEW w, NEW e, NEW d, validEntry(v, e),
         w.role = v.role, w.deployed = v.deployed, w.reports = v.reports,
         DOMAIN d = entryFieldsOf(w.version),
         \A f \in DOMAIN EntryFieldSince : get(d, f) = get(e, f)
  PROVE  validEntry(w, d)
<1>1. /\ get(d, "intent") = get(e, "intent") /\ get(d, "finalization") = get(e, "finalization")
      /\ get(d, "notes") = get(e, "notes") /\ get(d, "retestPassed") = get(e, "retestPassed")
      /\ get(d, "retestPatchCommitment") = get(e, "retestPatchCommitment")
      /\ get(d, "deployment") = get(e, "deployment")
  BY DEF EntryFieldSince
<1>2. get(d, "notes") # Null => d.notes = get(d, "notes") /\ e.notes = get(e, "notes")
  BY <1>1 DEF get
<1>3. QED
  BY <1>1, <1>2 DEF validEntry

\* An operation that fills in every field of its version leaves a valid vault.
LEMMA RaisedValid ==
  ASSUME NEW v, validateRoleVault(v), NEW n \in 1..12, NEW fields, NEW entryFields,
         fields \subseteq fieldsOf(n), entryFields \subseteq entryFieldsOf(n),
         fieldsOf(n) \subseteq fieldsOf(v.version) \cup fields,
         entryFieldsOf(n) \subseteq entryFields
  PROVE  LET w == raise(v, n, fields, entryFields)
         IN  /\ validateRoleVault(w)
             /\ w.version = IF v.version >= n THEN v.version ELSE n
             /\ w.role = v.role /\ w.deployed = v.deployed /\ w.reports = v.reports
             /\ DOMAIN w = fieldsOf(w.version)
             /\ DOMAIN journal(w) = DOMAIN journal(v)
<1> DEFINE w == raise(v, n, fields, entryFields)
           filled(entry) == [f \in DOMAIN entry \cup entryFields |-> get(entry, f)]
<1>1. v.version \in 1..12 /\ DOMAIN v = fieldsOf(v.version)
  BY DEF validateRoleVault
<1>2. {"version", "role", "deployed", "reports"} \subseteq DOMAIN v
  BY <1>1, FieldsOfVersion
<1>3. /\ DOMAIN w = DOMAIN v \cup fields
      /\ w.version = IF v.version >= n THEN v.version ELSE n
      /\ \A f \in DOMAIN w \ {"version", "submissionAttempts"} : w[f] = get(v, f)
      /\ "submissionAttempts" \in DOMAIN w =>
            w.submissionAttempts = [tx \in DOMAIN journal(v) |-> filled(journal(v)[tx])]
  BY <1>2 DEF raise
<1>4. /\ w.role = v.role /\ w.deployed = v.deployed /\ w.reports = v.reports
      /\ w.version \in 1..12
  BY <1>1, <1>2, <1>3 DEF get
<1> HIDE DEF w
<1>5. DOMAIN w = fieldsOf(w.version)
  <2>1. CASE v.version >= n
    BY <1>1, <1>3, <2>1, VersionsGrow
  <2>2. CASE ~(v.version >= n)
    <3>1. fieldsOf(v.version) \subseteq fieldsOf(n)
      BY <1>1, <2>2, VersionsGrow
    <3>2. QED
      BY <1>1, <1>3, <2>2, <3>1
  <2>3. QED
    BY <2>1, <2>2
<1>6. /\ DOMAIN journal(w) = DOMAIN journal(v)
      /\ \A tx \in DOMAIN journal(v) : journal(w)[tx] = filled(journal(v)[tx])
  <2>1. CASE "submissionAttempts" \in DOMAIN w
    BY <1>3, <2>1 DEF journal, get
  <2>2. CASE "submissionAttempts" \notin DOMAIN w
    BY <1>3, <2>2 DEF journal, get
  <2>3. QED
    BY <2>1, <2>2
<1>7. ASSUME NEW tx \in DOMAIN journal(w)
      PROVE  validEntry(w, journal(w)[tx])
  <2>1. PICK e : e = journal(v)[tx]
    OBVIOUS
  <2>2. validEntry(v, e) /\ journal(w)[tx] = filled(e)
    BY <1>6, <2>1 DEF validateRoleVault
  <2>3. DOMAIN e = entryFieldsOf(v.version)
    BY <2>2 DEF validEntry
  <2>4. DOMAIN filled(e) = entryFieldsOf(w.version)
    <3>1. CASE v.version >= n
      BY <1>1, <1>3, <2>3, <3>1, VersionsGrow
    <3>2. CASE ~(v.version >= n)
      BY <1>1, <1>3, <2>3, <3>2, VersionsGrow
    <3>3. QED
      BY <3>1, <3>2
  <2>5. \A f \in DOMAIN EntryFieldSince : get(filled(e), f) = get(e, f)
    BY DEF get
  <2> HIDE DEF filled
  <2>6. QED
    BY <1>4, <2>2, <2>4, <2>5, FilledEntry
<1>8. /\ get(w, "reportNotes") = get(v, "reportNotes") /\ get(w, "draft") = get(v, "draft")
      /\ get(w, "attachmentDraft") = get(v, "attachmentDraft")
      /\ get(w, "programDraft") = get(v, "programDraft")
  BY <1>3 DEF get
<1>9. validateRoleVault(w)
  BY <1>4, <1>5, <1>6, <1>7, <1>8 DEF validateRoleVault
<1>10. QED
  BY <1>3, <1>4, <1>5, <1>6, <1>9 DEF w

\* Setting a field that concerns no entry.
LEMMA FieldSet ==
  ASSUME NEW v, validateRoleVault(v), NEW f, NEW value, NEW w, w = [v EXCEPT ![f] = value],
         f \in DOMAIN v,
         \/ f \in {"draft", "attachmentDraft"} /\ v.role = "researcher"
         \/ f = "programDraft" /\ v.role = "vendor"
         \/ f = "reportNotes" /\ DOMAIN value \subseteq v.reports
  PROVE  validateRoleVault(w) /\ w.reports = v.reports
<1>1. DOMAIN w = DOMAIN v /\ w[f] = value /\ \A g \in DOMAIN v \ {f} : w[g] = v[g]
  OBVIOUS
<1>2. {"version", "role", "deployed", "reports"} \subseteq DOMAIN v
  BY FieldsOfVersion DEF validateRoleVault
<1>3. w.version = v.version /\ w.role = v.role /\ w.deployed = v.deployed /\ w.reports = v.reports
  BY <1>1, <1>2
<1>4. journal(w) = journal(v)
  BY <1>1 DEF journal, get
<1>5. \A g : g # f => get(w, g) = get(v, g)
  BY <1>1 DEF get
<1>6. get(w, f) = value
  BY <1>1 DEF get
<1>7. \A e : validEntry(v, e) => validEntry(w, e)
  BY <1>3 DEF validEntry
<1>8. QED
  BY <1>1, <1>3, <1>4, <1>5, <1>6, <1>7 DEF validateRoleVault

\* The draft of a researcher,
LEMMA DraftValid ==
  ASSUME NEW v, validateRoleVault(v), v.role = "researcher", NEW value
  PROVE  validateRoleVault(withRoleDraft(v, value)) /\ withRoleDraft(v, value).reports = v.reports
<1> DEFINE w == raise(v, 3, {"submissionAttempts", "draft"}, {})
<1>1. /\ {"submissionAttempts", "draft"} \subseteq fieldsOf(3) /\ {} \subseteq entryFieldsOf(3)
      /\ fieldsOf(3) \subseteq fieldsOf(v.version) \cup {"submissionAttempts", "draft"}
      /\ entryFieldsOf(3) \subseteq {}
  BY FieldsOfVersion, EntryFieldsOfVersion DEF validateRoleVault
<1>2. validateRoleVault(w) /\ w.role = v.role /\ w.reports = v.reports
  BY <1>1, RaisedValid
<1>3. "draft" \in DOMAIN w
  BY DEF raise
<1> HIDE DEF w
<1>4. validateRoleVault([w EXCEPT !["draft"] = value]) /\ [w EXCEPT !["draft"] = value].reports = v.reports
  BY <1>2, <1>3, FieldSet
<1>5. QED
  BY <1>4 DEF w, withRoleDraft

\* with its attachments,
LEMMA AttachmentValid ==
  ASSUME NEW v, validateRoleVault(v), v.role = "researcher", NEW value
  PROVE  validateRoleVault(withAttachmentDraft(v, value)) /\ withAttachmentDraft(v, value).reports = v.reports
<1> DEFINE fields == {"submissionAttempts", "draft", "reportNotes", "attachmentDraft"}
           entryFields == {"intent", "finalization"}
           w == raise(v, 7, fields, entryFields)
<1>1. /\ fields \subseteq fieldsOf(7) /\ entryFields \subseteq entryFieldsOf(7)
      /\ fieldsOf(7) \subseteq fieldsOf(v.version) \cup fields
      /\ entryFieldsOf(7) \subseteq entryFields
  BY FieldsOfVersion, EntryFieldsOfVersion DEF validateRoleVault
<1>2. validateRoleVault(w) /\ w.role = v.role /\ w.reports = v.reports
  BY <1>1, RaisedValid
<1>3. "attachmentDraft" \in DOMAIN w
  BY DEF raise
<1> HIDE DEF w
<1>4. /\ validateRoleVault([w EXCEPT !["attachmentDraft"] = value])
      /\ [w EXCEPT !["attachmentDraft"] = value].reports = v.reports
  BY <1>2, <1>3, FieldSet
<1>5. QED
  BY <1>4 DEF w, withAttachmentDraft

\* the program of a vendor,
LEMMA ProgramValid ==
  ASSUME NEW v, validateRoleVault(v), v.role = "vendor", NEW value
  PROVE  validateRoleVault(withProgramDraft(v, value)) /\ withProgramDraft(v, value).reports = v.reports
<1> DEFINE fields == {"submissionAttempts", "draft", "reportNotes", "attachmentDraft", "programDraft"}
           entryFields == {"intent", "finalization", "notes", "retestPassed", "retestPatchCommitment"}
           w == raise(v, 11, fields, entryFields)
<1>1. /\ fields \subseteq fieldsOf(11) /\ entryFields \subseteq entryFieldsOf(11)
      /\ fieldsOf(11) \subseteq fieldsOf(v.version) \cup fields
      /\ entryFieldsOf(11) \subseteq entryFields
  BY FieldsOfVersion, EntryFieldsOfVersion DEF validateRoleVault
<1>2. validateRoleVault(w) /\ w.role = v.role /\ w.reports = v.reports
  BY <1>1, RaisedValid
<1>3. "programDraft" \in DOMAIN w
  BY DEF raise
<1> HIDE DEF w
<1>4. /\ validateRoleVault([w EXCEPT !["programDraft"] = value])
      /\ [w EXCEPT !["programDraft"] = value].reports = v.reports
  BY <1>2, <1>3, FieldSet
<1>5. QED
  BY <1>4 DEF w, withProgramDraft

\* and the notes on a report leave a valid vault.
LEMMA NotesValid ==
  ASSUME NEW v, validateRoleVault(v), NEW note, note.reportId \in v.reports
  PROVE  validateRoleVault(withReportNotes(v, note)) /\ withReportNotes(v, note).reports = v.reports
<1> DEFINE fields == {"submissionAttempts", "draft", "reportNotes"}
           w == raise(v, 4, fields, {})
           notes == [r \in DOMAIN w.reportNotes \cup {note.reportId} |->
                        IF r = note.reportId THEN note.text ELSE w.reportNotes[r]]
<1>1. /\ fields \subseteq fieldsOf(4) /\ {} \subseteq entryFieldsOf(4)
      /\ fieldsOf(4) \subseteq fieldsOf(v.version) \cup fields
      /\ entryFieldsOf(4) \subseteq {}
  BY FieldsOfVersion, EntryFieldsOfVersion DEF validateRoleVault
<1>2. validateRoleVault(w) /\ w.role = v.role /\ w.reports = v.reports
  BY <1>1, RaisedValid
<1>3. "reportNotes" \in DOMAIN w /\ withReportNotes(v, note) = [w EXCEPT !["reportNotes"] = notes]
  BY DEF withReportNotes, raise
<1> HIDE DEF w
<1>4. DOMAIN notes \subseteq w.reports
  <2>1. DOMAIN w.reportNotes \subseteq w.reports
    BY <1>2, <1>3 DEF validateRoleVault, get
  <2>2. QED
    BY <1>2, <2>1
<1>5. PICK value : value = notes
  OBVIOUS
<1>6. withReportNotes(v, note) = [w EXCEPT !["reportNotes"] = value] /\ DOMAIN value \subseteq w.reports
  BY <1>3, <1>4, <1>5
<1> HIDE DEF notes
<1>7. /\ validateRoleVault(w) /\ "reportNotes" \in DOMAIN w
      /\ "reportNotes" = "reportNotes" /\ DOMAIN value \subseteq w.reports
  BY <1>2, <1>3, <1>6
<1>8. \A y : y = [w EXCEPT !["reportNotes"] = value] => validateRoleVault(y) /\ y.reports = w.reports
  BY <1>7, FieldSet
<1>9. QED
  BY <1>2, <1>6, <1>8

\* A vault that can be saved, with no receipt but of a finalized transaction.
Sound(v) ==
    /\ validateRoleVault(v) /\ v.reports \subseteq Reports
    /\ finalizedIn(journal(v)) \subseteq finalized

\* The journal of v has the transaction with what it is meant to do.
Intended(v, tx) == tx \in DOMAIN journal(v) /\ get(journal(v)[tx], "intent") # Null

\* What a journal adds to, the other has receipts for.
LEMMA ReceiptsKept ==
  ASSUME NEW a, NEW b, Adds(a, b)
  PROVE  finalizedIn(a) \subseteq finalizedIn(b)
  BY DEF Adds, finalizedIn, get

\* So journals that say the same have the same receipts and intents.
LEMMA SameReceipts ==
  ASSUME NEW v, NEW w, Same(v, w)
  PROVE  /\ finalizedIn(journal(w)) = finalizedIn(journal(v))
         /\ \A tx : Intended(v, tx) => Intended(w, tx)
<1> DEFINE a == journal(v)
           b == journal(w)
<1>1. Adds(a, b) /\ Adds(b, a)
  BY DEF Same
<1>2. finalizedIn(b) = finalizedIn(a)
  <2> HIDE DEF a, b
  <2>1. QED
    BY <1>1, ReceiptsKept
<1>3. ASSUME NEW tx, tx \in DOMAIN a, get(a[tx], "intent") # Null
      PROVE  tx \in DOMAIN b /\ get(b[tx], "intent") # Null
  <2> HIDE DEF a, b
  <2>1. QED
    BY <1>1, <1>3 DEF Adds, get
<1>4. QED
  BY <1>2, <1>3 DEF Intended

\* The reports of a role: what is sealed or taken over is one of the Reports.
LEMMA ReportValid ==
  ASSUME NEW v, NEW r \in Reports, v.reports \subseteq Reports, "reports" \in DOMAIN v
  PROVE  addReport(v, r).reports \subseteq Reports
  BY DEF addReport

\* The forms leave a vault that can be saved and no other receipts.
LEMMA EditSound ==
  ASSUME NEW v, Sound(v), NEW part, NEW w \in edited(v, part)
  PROVE  Sound(w)
<1> DEFINE next == textOf(get(v, part)) + 1
<1>1. validateRoleVault(v) /\ v.reports \subseteq Reports /\ finalizedIn(journal(v)) \subseteq finalized
  BY DEF Sound
<1>2. "reports" \in DOMAIN v
  BY <1>1, FieldsOfVersion DEF validateRoleVault
<1>3. finalizedIn(journal(w)) \subseteq finalized
  BY <1>1, EditKeeps, SameReceipts
<1>4. CASE part = "reports"
  <2>1. validateRoleVault(w) /\ w \in acceptDisclosure(v) \cup onSeal(v)
    BY <1>4 DEF edited
  <2>2. w.reports \subseteq Reports
    <3>1. CASE w \in acceptDisclosure(v)
      BY <1>1, <1>2, <3>1, ReportValid DEF acceptDisclosure
    <3>2. CASE w \in onSeal(v)
      <4>1. PICK r \in Reports : w = withRoleDraft(addReport(v, r), Null)
        BY <3>2 DEF onSeal
      <4>2. PICK u : u = addReport(v, r)
        OBVIOUS
      <4>3. u.reports \subseteq Reports /\ "reports" \in DOMAIN u
        BY <1>1, <1>2, <4>2, ReportValid DEF addReport
      <4>4. withRoleDraft(u, Null).reports = u.reports
        BY <4>3 DEF withRoleDraft, raise, get
      <4>5. QED
        BY <4>1, <4>2, <4>3, <4>4
    <3>3. QED
      BY <2>1, <3>1, <3>2
  <2>3. QED
    BY <1>3, <2>1, <2>2 DEF Sound
<1>5. CASE part # "reports"
  <2>1. \/ w \in updateNotes(v)
        \/ v.role = "researcher" /\ w = withRoleDraft(v, next)
        \/ v.role = "researcher" /\ w = withAttachmentDraft(v, next)
        \/ v.role = "vendor" /\ w = updateProgramDraft(v)
    BY <1>5 DEF edited
  <2>2. CASE w \in updateNotes(v)
    <3>1. PICK r \in v.reports : w = withReportNotes(v, [reportId |-> r, text |-> noteOn(v, r) + 1])
      BY <2>2 DEF updateNotes
    <3>2. validateRoleVault(w) /\ w.reports = v.reports
      BY <1>1, <3>1, NotesValid
    <3>3. QED
      BY <1>1, <1>3, <3>2 DEF Sound
  <2>3. CASE v.role = "researcher" /\ (w = withRoleDraft(v, next) \/ w = withAttachmentDraft(v, next))
    BY <1>1, <1>3, <2>3, DraftValid, AttachmentValid DEF Sound
  <2>4. CASE v.role = "vendor" /\ w = updateProgramDraft(v)
    BY <1>1, <1>3, <2>4, ProgramValid DEF Sound, updateProgramDraft
  <2>5. QED
    BY <2>1, <2>2, <2>3, <2>4
<1>6. QED
  BY <1>4, <1>5

\* w has a new attempt with its intent, and no other receipts or reports than v.
Attempts(v, w, tx) ==
    /\ Intended(w, tx)
    /\ finalizedIn(journal(w)) \subseteq finalizedIn(journal(v))
    /\ "reports" \in DOMAIN w /\ w.reports = v.reports

\* Raising the version does not change the reports.
LEMMA RaisedReports ==
  ASSUME NEW v, "reports" \in DOMAIN v, NEW n, NEW fields, NEW entryFields
  PROVE  LET w == raise(v, n, fields, entryFields)
         IN  "reports" \in DOMAIN w /\ w.reports = v.reports
  BY DEF raise, get

\* A newer version has the attempt too.
LEMMA RaisedAttempts ==
  ASSUME NEW v, NEW u, NEW tx, Attempts(v, u, tx), NEW n, NEW fields, NEW entryFields,
         {"submissionAttempts", "reportNotes"} \cap entryFields = {}
  PROVE  Attempts(v, raise(u, n, fields, entryFields), tx)
<1> DEFINE w == raise(u, n, fields, entryFields)
<1>1. Same(u, w)
  BY RaisedJournal
<1>2. "reports" \in DOMAIN w /\ w.reports = u.reports
  BY RaisedReports DEF Attempts
<1> HIDE DEF w
<1>3. Attempts(v, w, tx)
  BY <1>1, <1>2, SameReceipts DEF Attempts
<1>4. QED
  BY <1>3 DEF w

\* What is noted of an attempt is neither its intent nor its receipt.
LEMMA NotedAttempts ==
  ASSUME NEW v, NEW u, NEW w, NEW tx, Attempts(v, u, tx),
         "reports" \in DOMAIN w /\ w.reports = u.reports,
         DOMAIN journal(w) = DOMAIN journal(u),
         \A x \in DOMAIN journal(u) \ {tx} : journal(w)[x] = journal(u)[x],
         \A f \in {"intent", "finalization"} : get(journal(w)[tx], f) = get(journal(u)[tx], f)
  PROVE  Attempts(v, w, tx)
<1>1. finalizedIn(journal(w)) = finalizedIn(journal(u))
  BY DEF finalizedIn
<1>2. Intended(w, tx)
  BY DEF Attempts, Intended
<1>3. QED
  BY <1>1, <1>2 DEF Attempts

\* Setting one other field of the entry of an attempt.
LEMMA EntryNoted ==
  ASSUME NEW v, NEW u, NEW tx, Attempts(v, u, tx), NEW f, f \notin {"intent", "finalization"}, NEW value,
         NEW w, w = [u EXCEPT !.submissionAttempts[tx][f] = value]
  PROVE  Attempts(v, w, tx)
<1>1. "reports" \in DOMAIN u /\ tx \in DOMAIN journal(u)
  BY DEF Attempts, Intended
<1>2. "reports" \in DOMAIN w /\ w.reports = u.reports
  BY <1>1
<1>3. "submissionAttempts" \in DOMAIN u /\ journal(u) = u.submissionAttempts
  BY <1>1 DEF journal, get
<1>4. journal(w) = [journal(u) EXCEPT ![tx][f] = value]
  BY <1>3 DEF journal, get
<1> DEFINE a == journal(u)
           b == journal(w)
<1>5. /\ DOMAIN b = DOMAIN a /\ b[tx] = [a[tx] EXCEPT ![f] = value]
      /\ \A x \in DOMAIN a \ {tx} : b[x] = a[x]
  BY <1>1, <1>4
<1> HIDE DEF a, b
<1>6. \A g \in {"intent", "finalization"} : get(b[tx], g) = get(a[tx], g)
  BY <1>5 DEF get
<1>7. QED
  BY <1>2, <1>5, <1>6, NotedAttempts DEF a, b

\* The entry of a new attempt has its intent and no receipt.
LEMMA AttemptMade ==
  ASSUME NEW v, validateRoleVault(v), NEW tx, tx \notin DOMAIN journal(v), NEW intent, intent # Null
  PROVE  Attempts(v, withSubmissionAttempt(v, tx, intent), tx)
<1> DEFINE fields == {"submissionAttempts", "draft", "reportNotes"}
           u == raise(v, 5, fields, {"intent"})
           entry == [f \in entryFieldsOf(u.version) |-> IF f = "intent" THEN intent ELSE Null]
           w == withSubmissionAttempt(v, tx, intent)
<1>1. Same(v, u)
  BY RaisedJournal
<1>2. u.version \in 5..12 /\ "reports" \in DOMAIN u /\ u.reports = v.reports
  <2>1. /\ fields \subseteq fieldsOf(5) /\ {"intent"} \subseteq entryFieldsOf(5)
        /\ fieldsOf(5) \subseteq fieldsOf(v.version) \cup fields
        /\ entryFieldsOf(5) \subseteq {"intent"}
    BY FieldsOfVersion, EntryFieldsOfVersion DEF validateRoleVault
  <2>2. validateRoleVault(u) /\ u.version = (IF v.version >= 5 THEN v.version ELSE 5) /\ u.reports = v.reports
    BY <2>1, RaisedValid
  <2>3. v.version \in 1..12
    BY DEF validateRoleVault
  <2> HIDE DEF u
  <2>4. u.version \in 5..12
    BY <2>2, <2>3
  <2>5. "reports" \in DOMAIN u
    BY <2>2, FieldsOfVersion DEF validateRoleVault
  <2>6. QED
    BY <2>2, <2>4, <2>5
<1>3. /\ w = [u EXCEPT !["submissionAttempts"] = [x \in DOMAIN @ \cup {tx} |-> IF x = tx THEN entry ELSE @[x]]]
      /\ "submissionAttempts" \in DOMAIN u
  BY DEF withSubmissionAttempt, raise
<1> HIDE DEF u, w
<1>4. get(entry, "finalization") = Null /\ get(entry, "intent") = intent
  BY <1>2, EntryFieldsOfVersion DEF get
<1> HIDE DEF entry
<1>5. journal(w) = [x \in DOMAIN journal(u) \cup {tx} |-> IF x = tx THEN entry ELSE journal(u)[x]]
  BY <1>3 DEF journal, get
<1>6. "reports" \in DOMAIN w /\ w.reports = v.reports
  BY <1>2, <1>3
<1> DEFINE a == journal(u)
           b == journal(w)
<1>7. /\ tx \in DOMAIN b /\ b[tx] = entry
      /\ \A x \in DOMAIN b \ {tx} : x \in DOMAIN a /\ b[x] = a[x]
  BY <1>5
<1> HIDE DEF a, b
<1>8. finalizedIn(b) \subseteq finalizedIn(a) /\ get(b[tx], "intent") # Null
  BY <1>4, <1>7 DEF finalizedIn
<1>9. finalizedIn(a) = finalizedIn(journal(v))
  BY <1>1, SameReceipts DEF a
<1>10. QED
  BY <1>6, <1>7, <1>8, <1>9 DEF Attempts, Intended, w, b

\* So has the journal of a submission, whatever else is noted of the attempt.
LEMMA RecordedAttempts ==
  ASSUME NEW v, validateRoleVault(v), NEW tx, tx \notin DOMAIN journal(v), NEW intent, intent # Null
  PROVE  Attempts(v, recorded(v, tx, intent), tx)
<1>1. ASSUME NEW u, Attempts(v, u, tx), NEW note
      PROVE  Attempts(v, withSubmissionNotes(u, tx, note), tx)
  <2> DEFINE w == raise(u, 8, {"draft", "reportNotes", "attachmentDraft"}, {"intent", "finalization", "notes"})
  <2>1. Attempts(v, w, tx)
    BY <1>1, RaisedAttempts
  <2>2. withSubmissionNotes(u, tx, note) = [w EXCEPT !.submissionAttempts[tx]["notes"] = note]
    BY DEF withSubmissionNotes
  <2> HIDE DEF w
  <2>3. QED
    BY <2>1, <2>2, EntryNoted
<1>2. ASSUME NEW u, Attempts(v, u, tx), NEW inputs
      PROVE  Attempts(v, withDeploymentInputs(u, tx, inputs), tx)
  <2> DEFINE w == raise(u, 12, {"draft", "reportNotes", "attachmentDraft", "programDraft"}, DOMAIN EntryFieldSince)
  <2>1. {"submissionAttempts", "reportNotes"} \cap DOMAIN EntryFieldSince = {}
    BY DEF EntryFieldSince
  <2>2. Attempts(v, w, tx)
    BY <1>2, <2>1, RaisedAttempts
  <2>3. withDeploymentInputs(u, tx, inputs) = [w EXCEPT !.submissionAttempts[tx]["deployment"] = inputs]
    BY DEF withDeploymentInputs
  <2> HIDE DEF w
  <2>4. QED
    BY <2>2, <2>3, EntryNoted
<1>3. ASSUME NEW u, Attempts(v, u, tx), NEW passed, NEW patch
      PROVE  Attempts(v, withRetestChoice(u, tx, passed, patch), tx)
  <2> DEFINE w == raise(u, 10, {"draft", "reportNotes", "attachmentDraft"},
                        {"intent", "finalization", "notes", "retestPassed", "retestPatchCommitment"})
             x == [w EXCEPT !.submissionAttempts[tx]["retestPassed"] = passed]
  <2>1. Attempts(v, w, tx)
    BY <1>3, RaisedAttempts
  <2>2. withRetestChoice(u, tx, passed, patch) = [x EXCEPT !.submissionAttempts[tx]["retestPatchCommitment"] = patch]
    BY DEF withRetestChoice
  <2> HIDE DEF w
  <2>3. Attempts(v, x, tx)
    BY <2>1, EntryNoted
  <2> HIDE DEF x
  <2>4. QED
    BY <2>2, <2>3, EntryNoted
<1> DEFINE u == withSubmissionAttempt(v, tx, intent)
           noted == withSubmissionNotes(u, tx, [reportId |-> intent.reportId, text |-> noteOn(v, intent.reportId)])
<1>4. Attempts(v, u, tx)
  BY AttemptMade
<1>5. \/ recorded(v, tx, intent) = withDeploymentInputs(u, tx, textOf(get(v, "programDraft")))
      \/ recorded(v, tx, intent) = withRetestChoice(noted, tx, TRUE, intent.reportId)
      \/ recorded(v, tx, intent) = noted
  BY DEF recorded
<1> HIDE DEF u
<1>6. Attempts(v, noted, tx)
  BY <1>1, <1>4
<1> HIDE DEF noted
<1>7. QED
  BY <1>2, <1>3, <1>4, <1>5, <1>6

\* A deployed program.
LEMMA DeployedValid ==
  ASSUME NEW v, validateRoleVault(v), NEW w, w = [v EXCEPT !["deployed"] = TRUE]
  PROVE  /\ validateRoleVault(w) /\ w.deployed = TRUE /\ w.reports = v.reports /\ w.version = v.version
         /\ journal(w) = journal(v)
<1>1. {"version", "role", "deployed", "reports"} \subseteq DOMAIN v
  BY FieldsOfVersion DEF validateRoleVault
<1>2. /\ DOMAIN w = DOMAIN v /\ w.version = v.version /\ w.role = v.role /\ w.deployed = TRUE
      /\ w.reports = v.reports /\ journal(w) = journal(v)
  BY <1>1 DEF journal, get
<1>3. \A f : f # "deployed" => get(w, f) = get(v, f)
  BY DEF get
<1>4. \A e : validEntry(v, e) => validEntry(w, e)
  BY <1>2 DEF validEntry
<1>5. QED
  BY <1>2, <1>3, <1>4 DEF validateRoleVault

\* The receipt of a finalized attempt leaves a vault that can be saved.
LEMMA ReceiptSound ==
  ASSUME NEW v, Sound(v), NEW tx \in finalized, Intended(v, tx)
  PROVE  Sound(receipted(v, tx)) /\ tx \in finalizedIn(journal(receipted(v, tx)))
<1> DEFINE fields == {"draft", "reportNotes"}
           entryFields == {"intent", "finalization"}
           deployed == [v EXCEPT !["deployed"] = TRUE]
           u == raise(deployed, 6, fields, entryFields)
           old == u.submissionAttempts[tx].finalization
           w == receipted(v, tx)
<1>1. /\ validateRoleVault(v) /\ v.reports \subseteq Reports /\ v.version \in 5..12
      /\ finalizedIn(journal(v)) \subseteq finalized
  <2>1. DOMAIN journal(v)[tx] = entryFieldsOf(v.version) /\ "intent" \in DOMAIN journal(v)[tx]
    BY DEF Sound, validateRoleVault, validEntry, Intended, get
  <2>2. v.version \in 5..12
    BY <2>1, EntryFieldsOfVersion DEF Sound, validateRoleVault
  <2>3. QED
    BY <2>2 DEF Sound
<1>2. /\ validateRoleVault(deployed) /\ deployed.deployed = TRUE /\ deployed.reports = v.reports
      /\ deployed.version = v.version /\ journal(deployed) = journal(v)
  BY <1>1, DeployedValid
<1>3. w = [u EXCEPT !.submissionAttempts[tx]["finalization"] = IF old = Null THEN "final" ELSE old]
  <2>1. deployed = [v EXCEPT !.deployed = TRUE]
    OBVIOUS
  <2> HIDE DEF deployed
  <2>2. QED
    BY <2>1 DEF receipted, withFinalizedSubmission
<1> HIDE DEF deployed, w
<1>4. /\ validateRoleVault(u) /\ u.deployed = TRUE /\ u.reports = v.reports /\ u.version \in 6..12
      /\ Same(deployed, u)
  <2>1. /\ fields \subseteq fieldsOf(6) /\ entryFields \subseteq entryFieldsOf(6)
        /\ fieldsOf(6) \subseteq fieldsOf(deployed.version) \cup fields
        /\ entryFieldsOf(6) \subseteq entryFields
    BY <1>1, <1>2, FieldsOfVersion, EntryFieldsOfVersion
  <2>2. /\ validateRoleVault(u) /\ u.deployed = TRUE /\ u.reports = v.reports
        /\ u.version = IF deployed.version >= 6 THEN deployed.version ELSE 6
    BY <1>2, <2>1, RaisedValid
  <2>3. u.version \in 6..12
    BY <1>1, <1>2, <2>2
  <2>4. QED
    BY <2>2, <2>3, RaisedJournal
<1>5. Intended(u, tx) /\ finalizedIn(journal(u)) \subseteq finalized
  <2>1. Intended(deployed, tx) /\ finalizedIn(journal(deployed)) \subseteq finalized
    BY <1>1, <1>2 DEF Intended
  <2>2. QED
    BY <1>4, <2>1, SameReceipts
<1> HIDE DEF u
<1>6. "submissionAttempts" \in DOMAIN u /\ journal(u) = u.submissionAttempts
  BY <1>5 DEF Intended, journal, get
<1>7. {"version", "role", "deployed", "reports"} \subseteq DOMAIN u
  BY <1>4, FieldsOfVersion DEF validateRoleVault
<1>8. /\ DOMAIN w = DOMAIN u /\ w.version = u.version /\ w.role = u.role /\ w.deployed = TRUE
      /\ w.reports = u.reports /\ \A f \in DOMAIN u \ {"submissionAttempts"} : w[f] = u[f]
      /\ journal(w) = [journal(u) EXCEPT ![tx]["finalization"] = IF old = Null THEN "final" ELSE old]
  <2> HIDE DEF old
  <2>1. QED
    BY <1>3, <1>4, <1>6, <1>7 DEF journal, get
<1> DEFINE a == journal(u)
           b == journal(w)
<1>9. /\ DOMAIN b = DOMAIN a /\ tx \in DOMAIN a
      /\ \A x \in DOMAIN a \ {tx} : b[x] = a[x]
      /\ b[tx] = [a[tx] EXCEPT !["finalization"] = IF old = Null THEN "final" ELSE old]
  <2> HIDE DEF old
  <2>1. QED
    BY <1>5, <1>8 DEF Intended
<1>10. validEntry(u, a[tx]) /\ "finalization" \in DOMAIN a[tx] /\ get(a[tx], "intent") # Null
  BY <1>4, <1>5, EntryFieldsOfVersion DEF validateRoleVault, validEntry, Intended
<1>11. \A f : f # "submissionAttempts" => get(w, f) = get(u, f)
  BY <1>8 DEF get
<1> HIDE DEF a, b, old
<1>12. /\ \A f \in DOMAIN a[tx] : f # "finalization" => b[tx][f] = a[tx][f]
       /\ DOMAIN b[tx] = DOMAIN a[tx]
       /\ b[tx].finalization = IF old = Null THEN "final" ELSE old
  BY <1>9, <1>10
<1>13. get(b[tx], "finalization") # Null
  BY <1>10, <1>12, JournalConstants DEF get
<1>14. ASSUME NEW x \in DOMAIN b
       PROVE  validEntry(w, b[x])
  <2>1. CASE x = tx
    <3>1. \A f : f # "finalization" => get(b[tx], f) = get(a[tx], f)
      BY <1>12 DEF get
    <3>2. get(a[tx], "notes") # Null => b[tx].notes = a[tx].notes
      BY <1>12 DEF get
    <3>3. validEntry(w, b[tx])
      BY <1>8, <1>10, <1>12, <3>1, <3>2 DEF validEntry
    <3>4. QED
      BY <2>1, <3>3
  <2>2. CASE x # tx
    <3>1. validEntry(u, a[x]) /\ b[x] = a[x]
      BY <1>4, <1>9, <2>2 DEF validateRoleVault, a
    <3>2. QED
      BY <1>4, <1>8, <3>1 DEF validEntry
  <2>3. QED
    BY <2>1, <2>2
<1>15. validateRoleVault(w)
  <2>1. DOMAIN journal(w) = DOMAIN journal(u) /\ \A x \in DOMAIN journal(w) : validEntry(w, journal(w)[x])
    BY <1>9, <1>14 DEF a, b
  <2>2. QED
    BY <1>4, <1>8, <1>11, <2>1 DEF validateRoleVault
<1>16. finalizedIn(b) \subseteq finalized /\ tx \in finalizedIn(b)
  BY <1>5, <1>9, <1>13 DEF finalizedIn, a
<1>17. QED
  BY <1>1, <1>4, <1>8, <1>15, <1>16 DEF Sound, b, w

-----------------------------------------------------------------------------
(* What a session submits.                                                 *)

\* What a tab has open, scheduled, queued and left behind can be saved.
Held(t) ==
    /\ step[t] # "closed" => Sound(vault[t])
    /\ timer[t] # Nothing => Sound(timer[t])
    /\ \A i \in 1..Len(pending[t]) : Sound(pending[t][i].vault)
    /\ orphan[t] # Nothing => Sound(orphan[t].vault)

\* An attempt is journaled with its intent before the wallet is called, and what
\* a session broadcast has its receipt, or is the attempt that still waits for
\* one, or the session is at its end.
Attempting(t) ==
    /\ step[t] \in {"authorizing", "sent", "finalizing"} => Intended(vault[t], attempt[t])
    /\ \A i \in 1..Len(pending[t]) :
          LET s == pending[t][i]
          IN  /\ s.kind = "journal" => Intended(s.vault, attempt[t])
              /\ s.kind = "receipt" => attempt[t] \in finalizedIn(journal(s.vault))
    /\ step[t] = "closed" => vault[t] = Nothing /\ sent[t] = {}
    /\ recoveryRequired[t] => step[t] \in {"idle", "expired"}
    /\ \A tx \in sent[t] :
          \/ recoveryRequired[t] /\ step[t] = "idle"
          \/ tx \in finalizedIn(journal(vault[t]))
          \/ step[t] \in {"sent", "finalizing"} /\ tx = attempt[t]

Rows == \A c \in CopyIds : exists(c) => Sound(copies[c].vault)

KeptReceipts == \A entries \in kept : finalizedIn(entries) \subseteq finalized

SubmissionInv ==
    /\ DOMAIN sent = Tabs /\ DOMAIN recoveryRequired = Tabs
    /\ Rows /\ KeptReceipts
    /\ \A t \in Tabs : Held(t) /\ Attempting(t)

\* What finality and other tabs leave alone.
LEMMA HeldStays ==
  ASSUME SubmissionInv, NEW t \in Tabs, finalized \subseteq finalized',
         step'[t] = step[t], attempt'[t] = attempt[t], vault'[t] = vault[t], pending'[t] = pending[t],
         orphan'[t] = orphan[t], timer'[t] = timer[t], sent'[t] = sent[t],
         recoveryRequired'[t] = recoveryRequired[t]
  PROVE  Held(t)' /\ Attempting(t)'
<1>1. Held(t) /\ Attempting(t)
  BY DEF SubmissionInv
<1>2. \A v : Sound(v) => validateRoleVault(v) /\ v.reports \subseteq Reports /\ finalizedIn(journal(v)) \subseteq finalized'
  BY DEF Sound
<1>3. Held(t)'
  BY <1>1, <1>2 DEF Held, Sound
<1>4. Attempting(t)'
  BY <1>1 DEF Attempting, Intended
<1>5. QED
  BY <1>3, <1>4

\* The same of the rows.
LEMMA RowsStay ==
  ASSUME SubmissionInv, finalized \subseteq finalized', copies' = copies
  PROVE  Rows'
<1>1. \A v : Sound(v) => validateRoleVault(v) /\ v.reports \subseteq Reports /\ finalizedIn(journal(v)) \subseteq finalized'
  BY DEF Sound
<1>2. QED
  BY <1>1 DEF SubmissionInv, Rows, Sound, exists

\* A row that is written.
LEMMA RowWritten ==
  ASSUME SubmissionInv, CopiesTyped, finalized' = finalized, NEW c, NEW n, NEW v, put(c, n, v), Sound(v)
  PROVE  Rows'
<1>1. DOMAIN copies = CopyIds /\ copies' = [copies EXCEPT ![c] = [revision |-> n + 1, vault |-> v]]
  BY DEF CopiesTyped, put
<1>2. SUFFICES ASSUME NEW d \in CopyIds, exists(d)' PROVE Sound(copies[d].vault)'
  BY DEF Rows
<1>3. CASE d = c
  <2>1. copies'[d].vault = v
    BY <1>1, <1>3
  <2>2. QED
    BY <2>1 DEF Sound
<1>4. CASE d # c
  <2>1. copies'[d] = copies[d]
    BY <1>1, <1>4
  <2>2. Sound(copies[d].vault)
    BY <1>2, <2>1 DEF SubmissionInv, Rows, exists
  <2>3. QED
    BY <2>1, <2>2 DEF Sound
<1>5. QED
  BY <1>3, <1>4

\* A step of one tab leaves the others their invariant.
LEMMA SubmissionOfTab ==
  ASSUME SubmissionInv, NEW t \in Tabs, finalized' = finalized,
         \A u \in Tabs \ {t} :
            /\ step'[u] = step[u] /\ attempt'[u] = attempt[u] /\ vault'[u] = vault[u]
            /\ pending'[u] = pending[u] /\ orphan'[u] = orphan[u] /\ timer'[u] = timer[u]
            /\ sent'[u] = sent[u] /\ recoveryRequired'[u] = recoveryRequired[u],
         DOMAIN sent' = Tabs, DOMAIN recoveryRequired' = Tabs,
         Rows', kept' = kept \/ KeptReceipts', Held(t)', Attempting(t)'
  PROVE  SubmissionInv'
<1>1. KeptReceipts'
  BY DEF SubmissionInv, KeptReceipts
<1>2. ASSUME NEW u \in Tabs PROVE Held(u)' /\ Attempting(u)'
  <2>1. CASE u = t
    BY <2>1
  <2>2. CASE u # t
    BY <2>2, HeldStays
  <2>3. QED
    BY <2>1, <2>2
<1>3. QED
  BY <1>1, <1>2 DEF SubmissionInv

\* Steps that leave the vault and the queue of a tab alone,
LEMMA QuietHeld ==
  ASSUME SubmissionInv, NEW t \in Tabs, finalized' = finalized,
         vault'[t] = vault[t], pending'[t] = pending[t], timer'[t] \in {timer[t], Nothing},
         orphan'[t] \in {orphan[t], Nothing}, step'[t] # "closed" => step[t] # "closed"
  PROVE  Held(t)'
<1>1. Held(t)
  BY DEF SubmissionInv
<1>2. \A v : Sound(v) => validateRoleVault(v) /\ v.reports \subseteq Reports /\ finalizedIn(journal(v)) \subseteq finalized'
  BY DEF Sound
<1>3. QED
  BY <1>1, <1>2 DEF Held, Sound

\* and those of them that submit nothing.
LEMMA QuietAttempting ==
  ASSUME SubmissionInv, NEW t \in Tabs,
         vault'[t] = vault[t], pending'[t] = pending[t], step'[t] = step[t], attempt'[t] = attempt[t],
         sent'[t] = sent[t], recoveryRequired'[t] = recoveryRequired[t]
  PROVE  Attempting(t)'
<1>1. Attempting(t)
  BY DEF SubmissionInv
<1>2. QED
  BY <1>1 DEF Attempting, Intended

\* Unless a submission saves, only drafts wait to be saved; it drops the timer.
LEMMA OnlyDrafts ==
  ASSUME JournalInv, NEW t \in Tabs,
         timer[t] # Nothing \/ step[t] \notin {"recording", "expired", "finalizing"}
  PROVE  \A i \in 1..Len(pending[t]) : pending[t][i].kind = "autosave"
<1>1. Queued(t)
  BY DEF JournalInv, TabInv
<1>2. QED
  BY <1>1 DEF Queued

\* A review, the end of a writer, the end of a write that was left behind.
LEMMA AsideSteps ==
  ASSUME JournalInv, SubmissionInv, NEW t \in Tabs,
         (\E c \in CopyIds : reviewCopy(t, c)) \/ stopAutosave(t) \/ orphanEnds(t)
  PROVE  SubmissionInv'
<1>1. /\ finalized' = finalized /\ kept' = kept /\ step' = step /\ attempt' = attempt /\ vault' = vault
      /\ pending' = pending /\ timer' = timer /\ sent' = sent /\ recoveryRequired' = recoveryRequired
      /\ orphan'[t] \in {orphan[t], Nothing} /\ \A u \in Tabs \ {t} : orphan'[u] = orphan[u]
      /\ DOMAIN sent' = Tabs /\ DOMAIN recoveryRequired' = Tabs
  BY DEF reviewCopy, stopAutosave, orphanEnds, session, chain, SubmissionInv, JournalInv, Domains
<1>2. Rows'
  <2>1. CASE copies' = copies
    BY <1>1, <2>1, RowsStay
  <2>2. CASE copies' # copies
    <3>1. orphan[t] # Nothing /\ put(orphan[t].id, orphan[t].revision, orphan[t].vault)
      BY <2>2 DEF reviewCopy, stopAutosave, orphanEnds
    <3>2. PICK c, n, v : c = orphan[t].id /\ n = orphan[t].revision /\ v = orphan[t].vault
      OBVIOUS
    <3>3. Sound(v)
      BY <3>1, <3>2 DEF SubmissionInv, Held
    <3>4. put(c, n, v)
      BY <3>1, <3>2
    <3>5. QED
      BY <1>1, <3>3, <3>4, RowWritten DEF JournalInv
  <2>3. QED
    BY <2>1, <2>2
<1>3. Held(t)' /\ Attempting(t)'
  BY <1>1, QuietHeld, QuietAttempting
<1>4. QED
  BY <1>1, <1>2, <1>3, SubmissionOfTab

\* A new copy holds what is open.
LEMMA EnableSound ==
  ASSUME JournalInv, SubmissionInv, NEW t \in Tabs, NEW c \in CopyIds, enableAutosave(t, c)
  PROVE  SubmissionInv'
<1>1. /\ finalized' = finalized /\ kept' = kept /\ step' = step /\ attempt' = attempt /\ vault' = vault
      /\ pending' = pending /\ timer' = timer /\ sent' = sent /\ recoveryRequired' = recoveryRequired
      /\ orphan' = orphan /\ put(c, 0, vault[t]) /\ step[t] = "idle"
  BY DEF enableAutosave, session, chain
<1>2. Rows'
  <2>1. PICK v : v = vault[t]
    OBVIOUS
  <2>2. Sound(v)
    BY <1>1, <2>1 DEF SubmissionInv, Held
  <2>3. put(c, 0, v)
    BY <1>1, <2>1
  <2>4. QED
    BY <1>1, <2>2, <2>3, RowWritten DEF JournalInv
<1>3. Held(t)' /\ Attempting(t)'
  BY <1>1, QuietHeld, QuietAttempting
<1>4. QED
  BY <1>1, <1>2, <1>3, SubmissionOfTab DEF SubmissionInv

\* A file holds what is open.
LEMMA DownloadSound ==
  ASSUME JournalInv, SubmissionInv, NEW t \in Tabs, download(t)
  PROVE  SubmissionInv'
<1>1. /\ finalized' = finalized /\ copies' = copies /\ step' = step /\ attempt' = attempt /\ vault' = vault
      /\ pending' = pending /\ timer' = timer /\ sent' = sent /\ recoveryRequired' = recoveryRequired
      /\ orphan' = orphan /\ kept' = kept \cup {journal(vault[t])} /\ step[t] = "idle"
  BY DEF download, session, chain
<1>2. finalizedIn(journal(vault[t])) \subseteq finalized
  BY <1>1 DEF SubmissionInv, Held, Sound
<1>3. KeptReceipts'
  BY <1>1, <1>2 DEF SubmissionInv, KeptReceipts
<1>4. Rows' /\ Held(t)' /\ Attempting(t)'
  BY <1>1, RowsStay, QuietHeld, QuietAttempting
<1>5. QED
  BY <1>1, <1>3, <1>4, SubmissionOfTab DEF SubmissionInv

\* A row that is deleted is the one that was under review.
LEMMA DeleteSound ==
  ASSUME JournalInv, SubmissionInv, NEW t \in Tabs, deleteCopy(t)
  PROVE  SubmissionInv'
<1>1. /\ finalized' = finalized /\ step' = step /\ attempt' = attempt /\ vault' = vault
      /\ pending' = pending /\ timer' = timer /\ sent' = sent /\ recoveryRequired' = recoveryRequired
      /\ orphan' = orphan /\ review[t] # Nothing
  BY DEF deleteCopy, session, chain
<1>2. Rows' /\ KeptReceipts'
  <2>1. CASE copies' = copies /\ kept' = kept
    BY <1>1, <2>1, RowsStay DEF SubmissionInv, KeptReceipts
  <2>2. CASE ~(copies' = copies /\ kept' = kept)
    <3>1. PICK c : c = review[t].id
      OBVIOUS
    <3>2. /\ copies[c].revision = review[t].row.revision
          /\ copies' = [copies EXCEPT ![c] = Deleted]
          /\ kept' = kept \cup {journal(review[t].row.vault)}
      BY <2>2, <3>1 DEF deleteCopy, matches
    <3>3. c \in CopyIds /\ copies[c] = review[t].row /\ copies[c].revision # 0
      BY <1>1, <3>1, <3>2 DEF JournalInv, TabInv, Reviewed, Passed
    <3>4. finalizedIn(journal(copies[c].vault)) \subseteq finalized
      BY <3>3 DEF SubmissionInv, Rows, Sound, exists
    <3>5. KeptReceipts'
      BY <1>1, <3>2, <3>3, <3>4 DEF SubmissionInv, KeptReceipts
    <3>6. Rows'
      <4>1. SUFFICES ASSUME NEW d \in CopyIds, exists(d)' PROVE Sound(copies[d].vault)'
        BY DEF Rows
      <4>2. DOMAIN copies = CopyIds
        BY DEF JournalInv, CopiesTyped
      <4>3. d # c
        BY <3>2, <4>1, <4>2 DEF exists, Deleted
      <4>4. copies'[d] = copies[d] /\ Sound(copies[d].vault)
        BY <3>2, <4>1, <4>2, <4>3 DEF SubmissionInv, Rows, exists
      <4>5. QED
        BY <1>1, <4>4 DEF Sound
    <3>7. QED
      BY <3>5, <3>6
  <2>3. QED
    BY <2>1, <2>2
<1>3. Held(t)' /\ Attempting(t)'
  BY <1>1, QuietHeld, QuietAttempting
<1>4. QED
  BY <1>1, <1>2, <1>3, SubmissionOfTab DEF SubmissionInv

\* What is unlocked is what the row holds, in a new session.
LEMMA OpenSound ==
  ASSUME JournalInv, SubmissionInv, NEW t \in Tabs, NEW c \in CopyIds, open(t, c)
  PROVE  SubmissionInv'
<1>1. /\ finalized' = finalized /\ kept' = kept /\ copies' = copies /\ attempt' = attempt
      /\ pending' = pending /\ timer' = timer /\ sent' = sent /\ recoveryRequired' = recoveryRequired
      /\ orphan' = orphan /\ step[t] = "closed" /\ exists(c)
      /\ step' = [step EXCEPT ![t] = "idle"] /\ vault' = [vault EXCEPT ![t] = copies[c].vault]
  BY DEF open, bind, chain
<1>2. step'[t] = "idle" /\ vault'[t] = copies[c].vault
  BY <1>1 DEF JournalInv, Domains
<1>3. Sound(copies[c].vault)
  BY <1>1 DEF SubmissionInv, Rows
<1>4. Held(t)'
  BY <1>1, <1>2, <1>3 DEF SubmissionInv, Held, Sound
<1>5. Attempting(t)'
  <2>1. \A i \in 1..Len(pending[t]) : pending[t][i].kind = "autosave"
    BY <1>1, OnlyDrafts
  <2>2. QED
    BY <1>1, <1>2, <2>1 DEF SubmissionInv, Attempting
<1>6. Rows'
  BY <1>1, RowsStay
<1>7. QED
  BY <1>1, <1>4, <1>5, <1>6, SubmissionOfTab DEF SubmissionInv

\* The forms keep the receipts and leave a vault that can be saved.
LEMMA EditedSound ==
  ASSUME JournalInv, SubmissionInv, NEW t \in Tabs, edit(t)
  PROVE  SubmissionInv'
<1>1. /\ finalized' = finalized /\ kept' = kept /\ copies' = copies /\ attempt' = attempt
      /\ pending' = pending /\ sent' = sent /\ recoveryRequired' = recoveryRequired /\ step' = step
      /\ orphan' = orphan /\ step[t] = "idle"
      /\ timer' = [timer EXCEPT ![t] = IF writer[t] # Nothing THEN vault'[t] ELSE @]
  BY DEF edit, session, chain
<1>2. PICK part, w : w \in edited(vault[t], part) /\ vault' = [vault EXCEPT ![t] = w]
  BY DEF edit
<1>3. vault'[t] = w /\ timer'[t] \in {timer[t], w} /\ \A u \in Tabs \ {t} : vault'[u] = vault[u] /\ timer'[u] = timer[u]
  BY <1>1, <1>2 DEF JournalInv, Domains
<1>4. PICK v : v = vault[t]
  OBVIOUS
<1>5. Sound(v)
  BY <1>1, <1>4 DEF SubmissionInv, Held
<1>6. Sound(w) /\ finalizedIn(journal(w)) = finalizedIn(journal(v))
  BY <1>2, <1>4, <1>5, EditSound, EditKeeps, SameReceipts
<1>7. Held(t)'
  BY <1>1, <1>3, <1>6 DEF SubmissionInv, Held, Sound
<1>8. Attempting(t)'
  <2>1. \A i \in 1..Len(pending[t]) : pending[t][i].kind = "autosave"
    BY <1>1, OnlyDrafts
  <2>2. QED
    BY <1>1, <1>3, <1>4, <1>6, <2>1 DEF SubmissionInv, Attempting
<1>9. Rows'
  BY <1>1, RowsStay
<1>10. QED
  BY <1>1, <1>3, <1>7, <1>8, <1>9, SubmissionOfTab DEF SubmissionInv

\* A queue with one more vault that can be saved.
LEMMA QueueSound ==
  ASSUME JournalInv, SubmissionInv, NEW t \in Tabs, NEW v, Sound(v), NEW kind, enqueue(t, v, kind),
         timer[t] # Nothing \/ step[t] \notin {"recording", "expired", "finalizing"}
  PROVE  /\ \A i \in 1..Len(pending'[t]) : Sound(pending'[t][i].vault)
         /\ \A i \in 1..Len(pending'[t]) :
               \/ pending'[t][i].kind = "autosave"
               \/ pending'[t][i].kind = kind /\ pending'[t][i].vault = v
<1> DEFINE q == pending[t]
           e == [vault |-> v, kind |-> kind, writing |-> FALSE]
           p == Append(q, e)
<1>1. pending'[t] = p
  BY DEF enqueue, JournalInv, Domains
<1>2. \E S : q \in Seq(S)
  BY DEF JournalInv, TabInv, Queued
<1>3. \A i \in 1..Len(q) : Sound(q[i].vault) /\ q[i].kind = "autosave"
  BY OnlyDrafts DEF SubmissionInv, Held
<1>4. e.vault = v /\ e.kind = kind
  OBVIOUS
<1> HIDE DEF q, e
<1>5. /\ Len(q) \in Nat /\ Len(p) = Len(q) + 1
      /\ \A i \in 1..Len(q) : p[i] = q[i]
      /\ p[Len(q) + 1] = e
  BY <1>2, AppendedQueue
<1> HIDE DEF p
<1>6. \A i \in 1..Len(p) : p[i] = e \/ (i \in 1..Len(q) /\ p[i] = q[i])
  BY <1>5
<1>7. \A i \in 1..Len(p) : Sound(p[i].vault) /\ (p[i].kind = "autosave" \/ (p[i].kind = kind /\ p[i].vault = v))
  BY <1>3, <1>4, <1>6
<1>8. QED
  BY <1>1, <1>7

\* A scheduled draft, even while a submission waits.
LEMMA TimerSound ==
  ASSUME JournalInv, SubmissionInv, NEW t \in Tabs, timerFires(t)
  PROVE  SubmissionInv'
<1>1. /\ finalized' = finalized /\ kept' = kept /\ copies' = copies /\ attempt' = attempt
      /\ sent' = sent /\ recoveryRequired' = recoveryRequired /\ step' = step /\ vault' = vault
      /\ orphan' = orphan /\ timer[t] # Nothing /\ enqueue(t, timer[t], "autosave")
      /\ timer' = [timer EXCEPT ![t] = Nothing]
  BY DEF timerFires, session, chain
<1>2. PICK v : v = timer[t]
  OBVIOUS
<1>3. Sound(v) /\ enqueue(t, v, "autosave")
  BY <1>1, <1>2 DEF SubmissionInv, Held
<1>4. timer[t] # Nothing
  BY <1>1
<1>5. /\ \A i \in 1..Len(pending'[t]) : Sound(pending'[t][i].vault) /\ pending'[t][i].kind = "autosave"
      /\ timer'[t] = Nothing
      /\ \A u \in Tabs \ {t} : pending'[u] = pending[u] /\ timer'[u] = timer[u]
  <2>1. /\ timer'[t] = Nothing
        /\ \A u \in Tabs \ {t} : pending'[u] = pending[u] /\ timer'[u] = timer[u]
    BY <1>1 DEF enqueue, JournalInv, Domains
  <2>2. \A i \in 1..Len(pending'[t]) : Sound(pending'[t][i].vault) /\ pending'[t][i].kind = "autosave"
    BY <1>3, <1>4, QueueSound
  <2>3. QED
    BY <2>1, <2>2
<1>6. Held(t)'
  BY <1>1, <1>5 DEF SubmissionInv, Held, Sound
<1>7. Attempting(t)'
  BY <1>1, <1>5 DEF SubmissionInv, Attempting, Intended
<1>8. Rows'
  BY <1>1, RowsStay
<1>9. QED
  BY <1>1, <1>5, <1>6, <1>7, <1>8, SubmissionOfTab DEF SubmissionInv

\* A submission begins, is given up, reaches the wallet, or its outcome remains
\* unknown, which ends the transactions of the session.
LEMMA PhaseSound ==
  ASSUME JournalInv, SubmissionInv, NEW t \in Tabs,
         begin(t) \/ prepareFails(t) \/ submit(t) \/ outcomeUnknown(t)
  PROVE  SubmissionInv'
<1>1. /\ finalized' = finalized /\ kept' = kept /\ copies' = copies /\ vault' = vault
      /\ pending' = pending /\ timer' = timer /\ orphan' = orphan
      /\ step[t] \notin {"closed", "recording", "expired", "finalizing"}
  BY DEF begin, prepareFails, submit, outcomeUnknown, rest, chain
<1>2. /\ \A u \in Tabs \ {t} :
            /\ step'[u] = step[u] /\ attempt'[u] = attempt[u] /\ sent'[u] = sent[u]
            /\ recoveryRequired'[u] = recoveryRequired[u]
      /\ DOMAIN sent' = Tabs /\ DOMAIN recoveryRequired' = Tabs
  BY DEF begin, prepareFails, submit, outcomeUnknown, rest, chain, SubmissionInv, JournalInv, Domains
<1>3. Held(t)'
  BY <1>1, QuietHeld
<1>4. Attempting(t)'
  <2>1. \A i \in 1..Len(pending[t]) : pending[t][i].kind = "autosave"
    BY <1>1, OnlyDrafts
  <2>2. Attempting(t) /\ Domains /\ DOMAIN sent = Tabs /\ DOMAIN recoveryRequired = Tabs
    BY DEF SubmissionInv, JournalInv
  <2>3. CASE begin(t) \/ prepareFails(t)
    <3>1. /\ step'[t] \in {"preparing", "idle"} /\ sent' = sent /\ recoveryRequired' = recoveryRequired
          /\ ~recoveryRequired[t] /\ step[t] \in {"idle", "preparing"}
      BY <2>2, <2>3 DEF begin, prepareFails, rest, chain, Domains, Attempting
    <3>2. QED
      BY <1>1, <2>1, <2>2, <3>1 DEF Attempting
  <2>4. CASE submit(t)
    <3>1. /\ step[t] = "authorizing" /\ step'[t] = "sent" /\ attempt' = attempt
          /\ sent'[t] = sent[t] \cup {attempt[t]} /\ recoveryRequired' = recoveryRequired
      BY <2>2, <2>4 DEF submit, rest, Domains
    <3>2. QED
      BY <1>1, <2>1, <2>2, <3>1 DEF Attempting, Intended
  <2>5. CASE outcomeUnknown(t)
    <3>1. step'[t] = "idle" /\ recoveryRequired'[t] = TRUE
      BY <2>2, <2>5 DEF outcomeUnknown, Domains
    <3>2. QED
      BY <1>1, <2>1, <3>1 DEF Attempting
  <2>6. QED
    BY <2>3, <2>4, <2>5
<1>5. Rows'
  BY <1>1, RowsStay
<1>6. QED
  BY <1>1, <1>2, <1>3, <1>4, <1>5, SubmissionOfTab

\* A preparation expires: the session is at its end, what it saves goes on.
LEMMA ExpirySound ==
  ASSUME JournalInv, SubmissionInv, NEW t \in Tabs, preparationExpires(t)
  PROVE  SubmissionInv'
<1>1. /\ finalized' = finalized /\ kept' = kept /\ copies' = copies /\ vault' = vault
      /\ pending' = pending /\ timer' = timer /\ orphan' = orphan /\ attempt' = attempt /\ sent' = sent
      /\ step[t] \in {"preparing", "recording"} /\ step'[t] = "expired"
      /\ \A u \in Tabs \ {t} : step'[u] = step[u] /\ recoveryRequired'[u] = recoveryRequired[u]
      /\ DOMAIN sent' = Tabs /\ DOMAIN recoveryRequired' = Tabs
  BY DEF preparationExpires, rest, chain, SubmissionInv, JournalInv, Domains
<1>2. Held(t)' /\ Rows'
  BY <1>1, QuietHeld, RowsStay
<1>3. Attempting(t)'
  BY <1>1 DEF SubmissionInv, Attempting, Intended
<1>4. QED
  BY <1>1, <1>2, <1>3, SubmissionOfTab

\* The first save starts to write.
LEMMA WriteSound ==
  ASSUME JournalInv, SubmissionInv, NEW t \in Tabs, startWrite(t)
  PROVE  SubmissionInv'
<1> DEFINE q == pending[t]
           p == [q EXCEPT ![1] = [q[1] EXCEPT !.writing = TRUE]]
<1>1. /\ finalized' = finalized /\ kept' = kept /\ copies' = copies /\ attempt' = attempt /\ vault' = vault
      /\ sent' = sent /\ recoveryRequired' = recoveryRequired /\ step' = step /\ timer' = timer
      /\ orphan' = orphan /\ q # <<>> /\ pending'[t] = p
      /\ \A u \in Tabs \ {t} : pending'[u] = pending[u]
  BY DEF startWrite, session, chain, JournalInv, Domains
<1>2. (\E S : q \in Seq(S)) /\ \A i \in 1..Len(q) : DOMAIN q[i] = {"vault", "kind", "writing"}
  BY DEF JournalInv, TabInv, Queued
<1>3. Held(t) /\ Attempting(t)
  BY DEF SubmissionInv
<1> HIDE DEF q
<1>4. /\ Len(p) = Len(q) /\ 1 \in 1..Len(q)
      /\ \A i \in 1..Len(q) : p[i].vault = q[i].vault /\ p[i].kind = q[i].kind
  <2>1. PICK S : q \in Seq(S)
    BY <1>2
  <2>2. DOMAIN q = 1..Len(q) /\ 1 \in 1..Len(q) /\ Len(q) \in Nat
    BY <1>1, <2>1, LenProperties, EmptySeq
  <2>3. \A i \in 1..Len(q) : p[i].vault = q[i].vault /\ p[i].kind = q[i].kind
    BY <1>2, <2>2
  <2>4. DOMAIN p = 1..Len(q)
    BY <2>2
  <2>5. Len(p) = Len(q)
    <3> HIDE DEF p
    <3>1. QED
      BY <2>2, <2>4
  <2>6. QED
    BY <2>2, <2>3, <2>5
<1> HIDE DEF p
<1>5. Held(t)'
  BY <1>1, <1>3, <1>4 DEF Held, Sound, q
<1>6. Attempting(t)'
  BY <1>1, <1>3, <1>4 DEF Attempting, Intended, q
<1>7. Rows'
  BY <1>1, RowsStay
<1>8. QED
  BY <1>1, <1>5, <1>6, <1>7, SubmissionOfTab DEF SubmissionInv

\* The queue without its first save; what a submission saves is the last one.
LEMMA Dequeued ==
  ASSUME JournalInv, NEW t \in Tabs, pending[t] # <<>>, pending'[t] = Tail(pending[t])
  PROVE  /\ \A i \in 1..Len(pending'[t]) :
               i + 1 \in 1..Len(pending[t]) /\ pending'[t][i] = pending[t][i + 1]
         /\ Head(pending[t]).kind # "autosave" => 1..Len(pending'[t]) = {}
<1> DEFINE q == pending[t]
           p == Tail(q)
<1>1. /\ \E S : q \in Seq(S)
      /\ \A i \in 1..Len(q) : q[i].kind # "autosave" => i = Len(q)
  BY DEF JournalInv, TabInv, Queued
<1>2. q # <<>> /\ pending'[t] = p
  OBVIOUS
<1> HIDE DEF q
<1>3. /\ Len(q) \in Nat \ {0} /\ Head(q) = q[1] /\ Len(p) = Len(q) - 1
      /\ \A i \in 1..Len(p) : p[i] = q[i + 1]
  BY <1>1, <1>2, RestOfQueue
<1> HIDE DEF p
<1>4. \A i \in 1..Len(p) : i + 1 \in 1..Len(q) /\ p[i] = q[i + 1]
  BY <1>3
<1>5. Head(q).kind # "autosave" => 1..Len(p) = {}
  <2>1. Head(q).kind # "autosave" => Len(p) = 0
    BY <1>1, <1>3
  <2>2. QED
    BY <2>1
<1>6. QED
  BY <1>2, <1>4, <1>5 DEF q

\* A save that succeeds: the journal is there before the wallet is called, and
\* the receipt before the tab is free again.
LEMMA SaveSound ==
  ASSUME JournalInv, SubmissionInv, NEW t \in Tabs, saveSucceeds(t)
  PROVE  SubmissionInv'
<1>1. /\ finalized' = finalized /\ kept' = kept /\ sent' = sent /\ recoveryRequired' = recoveryRequired
      /\ timer' = timer /\ orphan' = orphan /\ pending[t] # <<>>
      /\ put(savedCopyId[t], writer[t], Head(pending[t]).vault)
  BY DEF saveSucceeds, chain
<1>2. /\ \A u \in Tabs \ {t} : /\ step'[u] = step[u] /\ attempt'[u] = attempt[u] /\ vault'[u] = vault[u]
                               /\ pending'[u] = pending[u]
      /\ pending'[t] = Tail(pending[t])
      /\ vault'[t] = IF Head(pending[t]).kind = "autosave" THEN vault[t] ELSE Head(pending[t]).vault
      /\ step'[t] = CASE Head(pending[t]).kind = "autosave" -> step[t]
                      [] Head(pending[t]).kind = "journal" -> IF assertActive(t) THEN "authorizing" ELSE step[t]
                      [] Head(pending[t]).kind = "receipt" -> "idle"
      /\ attempt'[t] = IF Head(pending[t]).kind = "receipt" THEN Nothing ELSE attempt[t]
  BY DEF saveSucceeds, JournalInv, Domains
<1>3. Held(t) /\ Attempting(t) /\ Queued(t)
  BY DEF SubmissionInv, JournalInv, TabInv
<1>4. PICK c, n, v, kind : /\ c = savedCopyId[t] /\ n = writer[t] /\ v = Head(pending[t]).vault
                           /\ kind = Head(pending[t]).kind
  OBVIOUS
<1>5. /\ 1 \in 1..Len(pending[t]) /\ pending[t][1].vault = v /\ pending[t][1].kind = kind
      /\ Adds(journal(vault[t]), journal(v))
  BY <1>1, <1>4, HeadContinues
<1>6. Sound(v)
  BY <1>3, <1>5 DEF Held
<1>7. Rows'
  BY <1>1, <1>4, <1>6, RowWritten DEF JournalInv
<1>8. /\ \A i \in 1..Len(pending'[t]) : i + 1 \in 1..Len(pending[t]) /\ pending'[t][i] = pending[t][i + 1]
      /\ kind # "autosave" => 1..Len(pending'[t]) = {}
  BY <1>1, <1>2, <1>4, Dequeued
<1>9. \/ kind = "autosave"
      \/ kind = "journal" /\ step[t] \in {"recording", "expired"}
      \/ kind = "receipt" /\ step[t] = "finalizing"
  BY <1>3, <1>5 DEF Queued
<1>10. Held(t)'
  <2>1. step[t] = "closed" => kind = "autosave"
    BY <1>9
  <2>2. \A i \in 1..Len(pending'[t]) : Sound(pending'[t][i].vault)
    BY <1>3, <1>8 DEF Held
  <2>3. step'[t] # "closed" => Sound(vault'[t])
    BY <1>2, <1>3, <1>4, <1>6, <1>9 DEF Held
  <2>4. QED
    BY <1>1, <1>3, <2>2, <2>3 DEF Held, Sound
<1>11. Attempting(t)'
  <2>1. CASE kind = "autosave"
    <3>1. step'[t] = step[t] /\ attempt'[t] = attempt[t] /\ vault'[t] = vault[t]
      BY <1>2, <1>4, <2>1
    <3>2. QED
      BY <1>1, <1>3, <1>8, <3>1 DEF Attempting, Intended
  <2>2. CASE kind # "autosave"
    <3>1. /\ vault'[t] = v /\ 1..Len(pending'[t]) = {}
          /\ recoveryRequired[t] => step[t] = "expired" /\ step'[t] = "expired"
          /\ kind = "journal" => /\ step'[t] \in {"authorizing", "expired"} /\ attempt'[t] = attempt[t]
                                 /\ Intended(v, attempt[t])
          /\ kind = "receipt" => step'[t] = "idle" /\ attempt[t] \in finalizedIn(journal(v))
      BY <1>2, <1>3, <1>4, <1>5, <1>8, <1>9, <2>2 DEF Attempting, assertActive
    <3>2. PICK a, b : a = journal(vault[t]) /\ b = journal(v)
      OBVIOUS
    <3>3. finalizedIn(a) \subseteq finalizedIn(b)
      BY <1>5, <3>2, ReceiptsKept
    <3>4. \A tx \in sent[t] : tx \in finalizedIn(journal(v))
      BY <1>3, <1>9, <2>2, <3>1, <3>2, <3>3 DEF Attempting
    <3>5. QED
      BY <1>1, <1>9, <2>2, <3>1, <3>4 DEF Attempting, Intended
  <2>3. QED
    BY <2>1, <2>2
<1>12. QED
  BY <1>1, <1>2, <1>7, <1>10, <1>11, SubmissionOfTab DEF SubmissionInv

\* A save that fails: a journal ends the submission unsent, a receipt is kept in
\* memory.
LEMMA FailureSound ==
  ASSUME JournalInv, SubmissionInv, NEW t \in Tabs, saveFails(t)
  PROVE  SubmissionInv'
<1> DEFINE q == pending[t]
           unsaved == {i \in DOMAIN q : q[i].kind = "receipt"}
           kinds == {q[i].kind : i \in DOMAIN q}
<1>1. /\ finalized' = finalized /\ kept' = kept /\ sent' = sent /\ recoveryRequired' = recoveryRequired
      /\ orphan' = orphan /\ q # <<>> /\ pending'[t] = <<>> /\ timer'[t] = Nothing
      /\ \A u \in Tabs \ {t} : /\ step'[u] = step[u] /\ attempt'[u] = attempt[u] /\ vault'[u] = vault[u]
                               /\ pending'[u] = pending[u] /\ timer'[u] = timer[u]
      /\ copies' = copies \/ put(savedCopyId[t], writer[t], Head(q).vault)
      /\ vault'[t] = IF unsaved # {} THEN q[CHOOSE i \in unsaved : TRUE].vault ELSE vault[t]
      /\ IF kinds \cap {"journal", "receipt"} # {} /\ step[t] # "expired" THEN step'[t] = "idle"
         ELSE step'[t] = step[t] /\ attempt'[t] = attempt[t]
  BY DEF saveFails, chain, JournalInv, Domains
<1>2. Held(t) /\ Attempting(t) /\ Queued(t)
  BY DEF SubmissionInv, JournalInv, TabInv
<1>3. DOMAIN q = 1..Len(q)
  <2>1. \E S : q \in Seq(S)
    BY <1>2 DEF Queued
  <2> HIDE DEF q
  <2>2. QED
    BY <2>1, LenProperties
<1>4. 1..Len(pending'[t]) = {}
  BY <1>1, NoQueue
<1>5. Rows'
  <2>1. CASE copies' = copies
    BY <1>1, <2>1, RowsStay
  <2>2. CASE put(savedCopyId[t], writer[t], Head(q).vault)
    <3>1. PICK c, n, v : c = savedCopyId[t] /\ n = writer[t] /\ v = Head(q).vault
      OBVIOUS
    <3>2. Sound(v)
      BY <1>1, <1>2, <3>1, HeadContinues DEF Held
    <3>3. put(c, n, v)
      BY <2>2, <3>1
    <3>4. QED
      BY <1>1, <3>2, <3>3, RowWritten DEF JournalInv
  <2>3. QED
    BY <1>1, <2>1, <2>2
<1>6. CASE unsaved # {}
  <2>1. PICK i \in 1..Len(q) : q[i].kind = "receipt" /\ vault'[t] = q[i].vault
    <3>1. (CHOOSE i \in unsaved : TRUE) \in unsaved
      BY <1>6
    <3>2. QED
      BY <1>1, <1>3, <1>6, <3>1
  <2>2. PICK v : v = q[i].vault
    OBVIOUS
  <2>3. /\ Sound(v) /\ Adds(journal(vault[t]), journal(v)) /\ step[t] = "finalizing"
        /\ attempt[t] \in finalizedIn(journal(v))
    BY <1>2, <2>1, <2>2 DEF Held, Queued, Attempting
  <2>4. step'[t] = "idle"
    <3>1. "receipt" \in kinds
      BY <1>3, <2>1
    <3> HIDE DEF kinds
    <3>2. QED
      BY <1>1, <2>3, <3>1
  <2>5. Held(t)'
    BY <1>1, <1>2, <1>4, <2>1, <2>2, <2>3 DEF Held, Sound
  <2>6. Attempting(t)'
    <3>1. PICK a, b : a = journal(vault[t]) /\ b = journal(v)
      OBVIOUS
    <3>2. finalizedIn(a) \subseteq finalizedIn(b)
      BY <2>3, <3>1, ReceiptsKept
    <3>3. ~recoveryRequired[t] /\ \A tx \in sent[t] : tx \in finalizedIn(journal(v))
      BY <1>2, <2>3, <3>1, <3>2 DEF Attempting
    <3>4. QED
      BY <1>1, <1>4, <2>1, <2>2, <2>4, <3>3 DEF Attempting
  <2>7. QED
    BY <1>1, <1>5, <2>5, <2>6, SubmissionOfTab DEF SubmissionInv
<1>7. CASE unsaved = {}
  <2>1. vault'[t] = vault[t]
    <3> HIDE DEF unsaved
    <3>1. QED
      BY <1>1, <1>7
  <2>2. \/ step'[t] = "idle" /\ step[t] = "recording"
        \/ step'[t] = step[t] /\ attempt'[t] = attempt[t]
    <3>1. CASE kinds \cap {"journal", "receipt"} # {} /\ step[t] # "expired"
      <4>1. PICK i \in 1..Len(q) : q[i].kind = "journal"
        BY <1>3, <1>7, <3>1
      <4>2. step[t] = "recording"
        <5>1. step[t] \in {"recording", "expired"}
          BY <1>2, <4>1 DEF Queued
        <5> HIDE DEF kinds
        <5>2. QED
          BY <3>1, <5>1
      <4> HIDE DEF kinds
      <4>3. QED
        BY <1>1, <3>1, <4>2
    <3> HIDE DEF kinds
    <3>2. QED
      BY <1>1, <3>1
  <2>3. Held(t)'
    BY <1>1, <1>2, <1>4, <2>1, <2>2 DEF Held, Sound
  <2>4. Attempting(t)'
    BY <1>1, <1>2, <1>4, <2>1, <2>2 DEF Attempting, Intended
  <2>5. QED
    BY <1>1, <1>5, <2>3, <2>4, SubmissionOfTab DEF SubmissionInv
<1>8. QED
  BY <1>6, <1>7

\* A writer that is discarded may leave its write behind.
LEMMA DiscardSound ==
  ASSUME JournalInv, SubmissionInv, NEW t \in Tabs, close(t) \/ remount(t)
  PROVE  SubmissionInv'
<1>1. /\ finalized' = finalized /\ kept' = kept /\ copies' = copies
      /\ DOMAIN sent' = Tabs /\ DOMAIN recoveryRequired' = Tabs
      /\ pending'[t] = <<>> /\ timer'[t] = Nothing
      /\ orphan'[t] = IF pending[t] # <<>> /\ Head(pending[t]).writing
                      THEN [id |-> savedCopyId[t], revision |-> writer[t], vault |-> Head(pending[t]).vault]
                      ELSE orphan[t]
      /\ \A u \in Tabs \ {t} : /\ step'[u] = step[u] /\ attempt'[u] = attempt[u] /\ vault'[u] = vault[u]
                               /\ pending'[u] = pending[u] /\ timer'[u] = timer[u] /\ orphan'[u] = orphan[u]
                               /\ sent'[u] = sent[u] /\ recoveryRequired'[u] = recoveryRequired[u]
      /\ \/ step'[t] = "closed" /\ vault'[t] = Nothing /\ sent'[t] = {} /\ recoveryRequired'[t] = FALSE
         \/ /\ step'[t] = "idle" /\ vault'[t] = vault[t] /\ sent'[t] = sent[t]
            /\ recoveryRequired'[t] = recoveryRequired[t] /\ step[t] = "expired"
  BY DEF close, remount, discard, chain, SubmissionInv, JournalInv, Domains
<1>2. 1..Len(pending'[t]) = {}
  BY <1>1, NoQueue
<1>3. Held(t) /\ Attempting(t)
  BY DEF SubmissionInv
<1>4. orphan'[t] # Nothing => Sound(orphan'[t].vault)
  <2>1. SUFFICES ASSUME pending[t] # <<>> /\ Head(pending[t]).writing
                 PROVE  Sound(orphan'[t].vault)
    BY <1>1, <1>3 DEF Held
  <2>2. PICK v : v = Head(pending[t]).vault
    OBVIOUS
  <2>3. Sound(v)
    BY <1>3, <2>1, <2>2, HeadContinues DEF Held
  <2>4. orphan'[t].vault = v
    BY <1>1, <2>1, <2>2
  <2>5. QED
    BY <2>3, <2>4
<1>5. Held(t)'
  BY <1>1, <1>2, <1>3, <1>4 DEF Held, Sound
<1>6. Attempting(t)'
  BY <1>1, <1>2, <1>3 DEF Attempting
<1>7. Rows'
  BY <1>1, RowsStay
<1>8. QED
  BY <1>1, <1>5, <1>6, <1>7, SubmissionOfTab

\* The journal of a new attempt has no receipt for it: it is not final yet.
LEMMA RecordSound ==
  ASSUME JournalInv, SubmissionInv, NEW t \in Tabs, NEW tx \in TxIds, recordSubmission(t, tx)
  PROVE  SubmissionInv'
<1>1. /\ finalized' = finalized /\ kept' = kept /\ copies' = copies /\ vault' = vault
      /\ sent' = sent /\ recoveryRequired' = recoveryRequired /\ orphan' = orphan
      /\ timer'[t] = Nothing /\ step[t] = "preparing" /\ step'[t] = "recording" /\ attempt'[t] = tx
      /\ tx \notin DOMAIN journal(vault[t])
      /\ \A u \in Tabs \ {t} : /\ step'[u] = step[u] /\ attempt'[u] = attempt[u]
                               /\ pending'[u] = pending[u] /\ timer'[u] = timer[u]
  BY DEF recordSubmission, enqueue, rest, chain, JournalInv, Domains
<1>2. Held(t) /\ Attempting(t)
  BY DEF SubmissionInv
<1>3. PICK intent : /\ intent \in intents(vault[t])
                    /\ validateRoleVault(recorded(vault[t], tx, intent))
                    /\ enqueue(t, recorded(vault[t], tx, intent), "journal")
  BY DEF recordSubmission
<1>4. PICK u, v : u = vault[t] /\ v = recorded(vault[t], tx, intent)
  OBVIOUS
<1>5. Sound(u)
  BY <1>1, <1>2, <1>4 DEF Held
<1>6. intent # Null
  <2>1. intent \in intents(u) /\ u.reports \subseteq Reports
    BY <1>3, <1>4, <1>5 DEF Sound
  <2>2. CASE intent = [circuit |-> "constructor", reportId |-> Null] /\ "constructor" \in Circuits
    BY <2>2, JournalConstants
  <2>3. CASE \E c \in Circuits, r \in u.reports : intent = [circuit |-> c, reportId |-> r]
    BY <2>1, <2>3, JournalConstants
  <2>4. QED
    BY <2>1, <2>2, <2>3 DEF intents
<1>7. Attempts(u, v, tx)
  <2>1. v = recorded(u, tx, intent) /\ tx \notin DOMAIN journal(u)
    BY <1>1, <1>4
  <2>2. QED
    BY <1>5, <1>6, <2>1, RecordedAttempts DEF Sound
<1>8. Sound(v) /\ enqueue(t, v, "journal")
  BY <1>3, <1>4, <1>5, <1>7 DEF Sound, Attempts
<1>9. /\ \A i \in 1..Len(pending'[t]) : Sound(pending'[t][i].vault)
      /\ \A i \in 1..Len(pending'[t]) :
            \/ pending'[t][i].kind = "autosave"
            \/ pending'[t][i].kind = "journal" /\ pending'[t][i].vault = v
  BY <1>1, <1>8, QueueSound
<1>10. Held(t)'
  BY <1>1, <1>2, <1>9 DEF Held, Sound
<1>11. Attempting(t)'
  <2>1. \A i \in 1..Len(pending'[t]) :
           /\ pending'[t][i].kind = "journal" => Intended(pending'[t][i].vault, tx)
           /\ pending'[t][i].kind # "receipt"
    BY <1>7, <1>9 DEF Attempts
  <2>2. ~recoveryRequired[t] /\ \A x \in sent[t] : x \in finalizedIn(journal(vault[t]))
    BY <1>1, <1>2 DEF Attempting
  <2>3. QED
    BY <1>1, <2>1, <2>2 DEF Attempting, Intended
<1>12. Rows'
  BY <1>1, RowsStay
<1>13. QED
  BY <1>1, <1>10, <1>11, <1>12, SubmissionOfTab DEF SubmissionInv

\* A receipt is made when the transaction is final.
LEMMA ReceiptMade ==
  ASSUME JournalInv, SubmissionInv, NEW t \in Tabs, recordReceipt(t)
  PROVE  SubmissionInv'
<1>1. /\ finalized' = finalized /\ kept' = kept /\ copies' = copies
      /\ sent' = sent /\ recoveryRequired' = recoveryRequired /\ orphan' = orphan
      /\ step[t] = "sent" /\ attempt[t] \in finalized
      /\ \A u \in Tabs \ {t} : /\ step'[u] = step[u] /\ attempt'[u] = attempt[u] /\ vault'[u] = vault[u]
                               /\ pending'[u] = pending[u] /\ timer'[u] = timer[u]
  BY DEF recordReceipt, enqueue, rest, chain, JournalInv, Domains
<1>2. Held(t) /\ Attempting(t)
  BY DEF SubmissionInv
<1>3. PICK u, v, tx : u = vault[t] /\ tx = attempt[t] /\ v = receipted(vault[t], attempt[t])
  OBVIOUS
<1>4. Sound(u) /\ Intended(u, tx) /\ tx \in finalized /\ v = receipted(u, tx)
  BY <1>1, <1>2, <1>3 DEF Held, Attempting
<1>5. Sound(v) /\ tx \in finalizedIn(journal(v)) /\ finalizedIn(journal(u)) \subseteq finalizedIn(journal(v))
  <2>1. PICK a, b : a = journal(u) /\ b = journal(v)
    OBVIOUS
  <2>2. Adds(a, b)
    BY <1>4, <2>1, ReceiptAdds
  <2>3. finalizedIn(a) \subseteq finalizedIn(b)
    BY <2>2, ReceiptsKept
  <2>4. QED
    BY <1>4, <2>1, <2>3, ReceiptSound
<1>6. ~recoveryRequired[t] /\ \A x \in sent[t] : x \in finalizedIn(journal(u)) \/ x = tx
  BY <1>1, <1>2, <1>3 DEF Attempting
<1>7. Rows'
  BY <1>1, RowsStay
<1>8. CASE writer[t] # Nothing
  <2>1. /\ vault' = vault /\ attempt' = attempt /\ timer'[t] = Nothing /\ step'[t] = "finalizing"
        /\ enqueue(t, v, "receipt")
    BY <1>3, <1>8 DEF recordReceipt, JournalInv, Domains
  <2>2. /\ \A i \in 1..Len(pending'[t]) : Sound(pending'[t][i].vault)
        /\ \A i \in 1..Len(pending'[t]) :
              \/ pending'[t][i].kind = "autosave"
              \/ pending'[t][i].kind = "receipt" /\ pending'[t][i].vault = v
    BY <1>1, <1>5, <2>1, QueueSound
  <2>3. Held(t)'
    BY <1>1, <1>2, <2>1, <2>2 DEF Held, Sound
  <2>4. Attempting(t)'
    BY <1>1, <1>3, <1>4, <1>5, <1>6, <2>1, <2>2 DEF Attempting, Intended
  <2>5. QED
    BY <1>1, <1>7, <2>3, <2>4, SubmissionOfTab DEF SubmissionInv
<1>9. CASE writer[t] = Nothing
  <2>1. vault'[t] = v /\ pending' = pending /\ timer' = timer /\ step'[t] = "idle"
    BY <1>3, <1>9 DEF recordReceipt, JournalInv, Domains
  <2>2. \A i \in 1..Len(pending[t]) : pending[t][i].kind = "autosave"
    BY <1>1, OnlyDrafts
  <2>3. Held(t)'
    BY <1>1, <1>2, <1>5, <2>1 DEF Held, Sound
  <2>4. Attempting(t)'
    BY <1>1, <1>5, <1>6, <2>1, <2>2 DEF Attempting
  <2>5. QED
    BY <1>1, <1>7, <2>3, <2>4, SubmissionOfTab DEF SubmissionInv
<1>10. QED
  BY <1>8, <1>9

\* A transaction becomes final; or nothing happens.
LEMMA FinalitySound ==
  ASSUME SubmissionInv, finalized \subseteq finalized', kept' = kept, copies' = copies, step' = step,
         attempt' = attempt, vault' = vault, pending' = pending, orphan' = orphan, timer' = timer,
         sent' = sent, recoveryRequired' = recoveryRequired
  PROVE  SubmissionInv'
<1>1. Rows'
  BY RowsStay
<1>2. \A t \in Tabs : Held(t)' /\ Attempting(t)'
  BY HeldStays
<1>3. KeptReceipts'
  BY DEF SubmissionInv, KeptReceipts
<1>4. QED
  BY <1>1, <1>2, <1>3 DEF SubmissionInv

\* Each step.
LEMMA SubmissionStep ==
  ASSUME JournalInv, SubmissionInv, [Next]_vars
  PROVE  SubmissionInv'
<1>1. CASE UNCHANGED vars
  BY <1>1, FinalitySound DEF vars
<1>2. ASSUME NEW tx \in TxIds, finalize(tx)
      PROVE  SubmissionInv'
  BY <1>2, FinalitySound DEF finalize, session
<1>3. ASSUME NEW t \in Tabs,
             \/ settle(t) \/ submission(t) \/ stopAutosave(t) \/ download(t) \/ edit(t)
             \/ orphanEnds(t) \/ close(t) \/ deleteCopy(t) \/ begin(t)
             \/ \E c \in CopyIds : open(t, c) \/ enableAutosave(t, c) \/ reviewCopy(t, c)
      PROVE  SubmissionInv'
  <2>1. CASE settle(t)
    BY <2>1, TimerSound, WriteSound, SaveSound, FailureSound DEF settle
  <2>2. CASE submission(t)
    BY <2>2, PhaseSound, ExpirySound, DiscardSound, RecordSound, ReceiptMade DEF submission
  <2>3. CASE stopAutosave(t) \/ download(t) \/ edit(t) \/ orphanEnds(t)
    BY <2>3, AsideSteps, DownloadSound, EditedSound
  <2>4. CASE close(t) \/ deleteCopy(t) \/ begin(t)
    BY <2>4, DiscardSound, DeleteSound, PhaseSound
  <2>5. CASE \E c \in CopyIds : open(t, c) \/ enableAutosave(t, c) \/ reviewCopy(t, c)
    BY <2>5, OpenSound, EnableSound, AsideSteps
  <2>6. QED
    BY <1>3, <2>1, <2>2, <2>3, <2>4, <2>5
<1>4. QED
  BY <1>1, <1>2, <1>3 DEF Next

\* In the beginning nothing was sent, and what the rows hold receipts for is final.
LEMMA SubmissionInit == Init => SubmissionInv
<1>1. SUFFICES ASSUME Init PROVE SubmissionInv
  OBVIOUS
<1>2. Rows
  <2>1. SUFFICES ASSUME NEW c \in CopyIds, exists(c) PROVE Sound(copies[c].vault)
    BY DEF Rows
  <2>2. PICK first \in FirstCopies : copies = first
    BY <1>1 DEF Init
  <2>3. first[c].revision # 0
    BY <2>1, <2>2 DEF exists
  <2>4. validateRoleVault(first[c].vault) /\ first[c].vault.reports \subseteq Reports
    BY <2>3, JournalConstants DEF Unused, Deleted
  <2>5. finalizedIn(journal(copies[c].vault)) \subseteq finalized
    BY <1>1, <2>1 DEF Init
  <2>6. QED
    BY <2>2, <2>4, <2>5 DEF Sound
<1>3. ASSUME NEW t \in Tabs PROVE Held(t) /\ Attempting(t)
  <2>1. /\ step[t] = "closed" /\ vault[t] = Nothing /\ pending[t] = <<>> /\ timer[t] = Nothing
        /\ orphan[t] = Nothing /\ sent[t] = {} /\ recoveryRequired[t] = FALSE
    BY <1>1 DEF Init
  <2>2. 1..Len(pending[t]) = {}
    BY <2>1, NoQueue
  <2>3. QED
    BY <2>1, <2>2 DEF Held, Attempting
<1>4. QED
  BY <1>1, <1>2, <1>3 DEF SubmissionInv, KeptReceipts, Init

\* Every vault that is open, queued, stored or left behind can be saved and has
\* only receipts of final transactions, and what a session broadcast has its
\* receipt unless it is the attempt under way or the session is over.
THEOREM SubmissionInvariance == Spec => []SubmissionInv
<1>1. JournalInv /\ SubmissionInv /\ [Next]_vars => SubmissionInv'
  BY SubmissionStep
<1>2. QED
  BY SubmissionInit, JournalInvariance, <1>1, PTL DEF Spec

\* What is stored, downloaded or deleted has a receipt only for a transaction
\* that is final.
THEOREM ReceiptSafety == Spec => []ReceiptsAreFinal
<1>1. SubmissionInv => ReceiptsAreFinal
  BY DEF SubmissionInv, Rows, KeptReceipts, Sound, ReceiptsAreFinal, Recoverable
<1>2. QED
  BY <1>1, SubmissionInvariance, PTL

\* A session prepares a transaction only when all it broadcast before has its
\* receipt in the open vault.
THEOREM AttemptSafety == Spec => []NoAttemptWhileUnknown
<1>1. SubmissionInv => NoAttemptWhileUnknown
  BY DEF SubmissionInv, Attempting, NoAttemptWhileUnknown, working
<1>2. QED
  BY <1>1, SubmissionInvariance, PTL

\* A session whose preparation or outcome timed out is idle or at its end, and
\* only a journal confirmed before that lets the wallet be called.
THEOREM LateCheckpointSafety == Spec => LateCheckpointSendsNothing
<1>1. ASSUME JournalInv, SubmissionInv, Next, NEW t \in Tabs, recoveryRequired[t]
      PROVE  sent'[t] \subseteq sent[t]
  <2>1. step[t] \in {"idle", "expired"} /\ DOMAIN sent = Tabs
    BY <1>1 DEF SubmissionInv, Attempting
  <2>2. ASSUME NEW u \in Tabs, submit(u)
        PROVE  sent'[t] \subseteq sent[t]
    BY <2>1, <2>2 DEF submit
  <2>3. ASSUME NEW u \in Tabs, close(u)
        PROVE  sent'[t] \subseteq sent[t]
    BY <2>1, <2>3 DEF close
  <2>4. CASE UNCHANGED sent
    BY <2>4
  <2>5. ASSUME NEW u \in Tabs, settle(u) \/ (submission(u) /\ ~submit(u))
        PROVE  UNCHANGED sent
    BY <2>5 DEF settle, timerFires, startWrite, saveSucceeds, saveFails, submission, prepareFails,
                preparationExpires, remount, outcomeUnknown, recordReceipt, recordSubmission, chain
  <2>6. ASSUME NEW u \in Tabs,
               \/ stopAutosave(u) \/ download(u) \/ edit(u) \/ orphanEnds(u) \/ deleteCopy(u) \/ begin(u)
               \/ \E c \in CopyIds : open(u, c) \/ enableAutosave(u, c) \/ reviewCopy(u, c)
        PROVE  UNCHANGED sent
    BY <2>6 DEF stopAutosave, download, edit, orphanEnds, deleteCopy, begin, open, enableAutosave,
                reviewCopy, chain
  <2>7. ASSUME NEW tx \in TxIds, finalize(tx)
        PROVE  UNCHANGED sent
    BY <2>7 DEF finalize
  <2>8. QED
    BY <1>1, <2>2, <2>3, <2>4, <2>5, <2>6, <2>7 DEF Next
<1>2. JournalInv /\ SubmissionInv /\ [Next]_vars
        => [\A t \in Tabs : recoveryRequired[t] => sent'[t] \subseteq sent[t]]_vars
  BY <1>1
<1>3. QED
  BY <1>2, JournalInvariance, SubmissionInvariance, PTL DEF Spec, LateCheckpointSendsNothing

\* Edits, submissions and receipts leave vaults of every version such that they
\* can be saved and restored.
THEOREM VaultSafety == Spec => []VaultsCanBeSaved
<1>1. ASSUME JournalInv, SubmissionInv, NEW t \in Tabs
      PROVE  /\ vault[t] # Nothing => validateRoleVault(vault[t])
             /\ \A i \in DOMAIN pending[t] : validateRoleVault(pending[t][i].vault)
  <2>1. Held(t) /\ Attempting(t)
    BY <1>1 DEF SubmissionInv
  <2>2. DOMAIN pending[t] = 1..Len(pending[t])
    <3>1. PICK q : q = pending[t]
      OBVIOUS
    <3>2. \E S : q \in Seq(S)
      BY <1>1, <3>1 DEF JournalInv, TabInv, Queued
    <3>3. QED
      BY <3>1, <3>2, LenProperties
  <2>3. QED
    BY <2>1, <2>2 DEF Held, Attempting, Sound
<1>2. JournalInv /\ SubmissionInv => VaultsCanBeSaved
  BY <1>1 DEF VaultsCanBeSaved
<1>3. QED
  BY <1>2, JournalInvariance, SubmissionInvariance, PTL
=============================================================================

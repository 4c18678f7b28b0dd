--------------------------- MODULE ReportLifecycle ---------------------------
(***************************************************************************)
(* What the VulnSeal program promises the two parties of a report, with    *)
(* every commitment, witness and counter left out: a report is opened      *)
(* once, a patch can be verified only while it is the anchored one, and an *)
(* award names a verified patch of an accepted report, once per report.    *)
(* VulnSealContract implements this specification.                         *)
(***************************************************************************)
CONSTANTS Reports,  \* identities a report can be submitted under
          Patches   \* patches a vendor can anchor

VARIABLES stage,    \* where each report stands
          anchored, \* the patch a report's current stage is about, or NoPatch
          awards    \* <<report, patch>> pairs an award was authorized for

vars == <<stage, anchored, awards>>

NoPatch == <<"no patch">>

Stages == {"absent", "open", "accepted", "patched", "verified", "awarded", "refused", "closed"}

Init ==
    /\ stage = [r \in Reports |-> "absent"]
    /\ anchored = [r \in Reports |-> NoPatch]
    /\ awards = {}

\* A step of report r from a stage in `from` that touches neither patch nor award.
Move(r, from, to) ==
    /\ stage[r] = from
    /\ stage' = [stage EXCEPT ![r] = to]
    /\ UNCHANGED <<anchored, awards>>

Anchor(r, p) ==
    /\ stage[r] = "accepted"
    /\ stage' = [stage EXCEPT ![r] = "patched"]
    /\ anchored' = [anchored EXCEPT ![r] = p]
    /\ UNCHANGED awards

\* A failed retest sends the report back for another patch.
Fail(r) ==
    /\ stage[r] = "patched"
    /\ stage' = [stage EXCEPT ![r] = "accepted"]
    /\ anchored' = [anchored EXCEPT ![r] = NoPatch]
    /\ UNCHANGED awards

Award(r) ==
    /\ stage[r] = "verified"
    /\ stage' = [stage EXCEPT ![r] = "awarded"]
    /\ awards' = awards \cup {<<r, anchored[r]>>}
    /\ UNCHANGED anchored

Next ==
    \E r \in Reports :
        \/ Move(r, "absent", "open")
        \/ Move(r, "open", "accepted")
        \/ Move(r, "open", "refused")
        \/ \E p \in Patches : Anchor(r, p)
        \/ Fail(r)
        \/ Move(r, "patched", "verified")
        \/ Award(r)
        \/ Move(r, "awarded", "closed")
        \/ Move(r, "refused", "closed")

Spec == Init /\ [][Next]_vars

-----------------------------------------------------------------------------
\* Stages, patches and awards of the promised lifecycle.
TypeOK ==
    /\ stage \in [Reports -> Stages]
    /\ anchored \in [Reports -> Patches \cup {NoPatch}]
    /\ awards \subseteq Reports \X Patches

\* A patch is recorded exactly from its anchoring to the end of the report.
AnchoredByStage ==
    \A r \in Reports :
        /\ stage[r] \in {"patched", "verified", "awarded"} => anchored[r] \in Patches
        /\ stage[r] \in {"absent", "open", "accepted", "refused"} => anchored[r] = NoPatch

\* An award names the patch that was verified, and only a report that reached
\* the award stage has one.
AwardsAreEarned ==
    \A a \in awards :
        /\ stage[a[1]] \in {"awarded", "closed"}
        /\ a[2] = anchored[a[1]]
=============================================================================

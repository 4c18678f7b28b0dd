------------------------- MODULE MCVulnSealContract --------------------------
(* Two reports, a researcher and the vendor, two patches: small enough for   *)
(* TLC, large enough for two reports to interleave and both be paid, and for *)
(* a failed retest to be followed by a replacement patch, a passing retest   *)
(* and a payout.  Reports and patches are interchangeable.                   *)
EXTENDS VulnSealContract, TLC

Interchangeable == Permutations(ReportDigests) \cup Permutations(PatchDigests)
=============================================================================

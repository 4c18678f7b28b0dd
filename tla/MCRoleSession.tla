---------------------------- MODULE MCRoleSession -----------------------------
(* Two researchers whose sessions share a private-state provider, and a       *)
(* vendor, with one report each for the researchers and two stores.           *)
EXTENDS RoleSession, TLC

CONSTANTS vendor, alice, bob, p1, p2, secretV, secretA, secretB, program, digestA, digestB,
    salt, cipherA, cipherB, cipherX

sessions == {vendor, alice, bob}
MCIdentity ==
    vendor :> [role |-> "vendor", programId |-> program, actorSecret |-> secretV]
    @@ alice :> [role |-> "researcher", programId |-> program, actorSecret |-> secretA]
    @@ bob :> [role |-> "researcher", programId |-> program, actorSecret |-> secretB]
MCProviderOf == vendor :> p2 @@ alice :> p1 @@ bob :> p1

disclosure(digest, cipher) ==
    [id |-> Contract!deriveReportCommitment(program, digest, salt), programId |-> program,
     report |-> <<program, digest, salt>>, cipher |-> cipher]
MCPrepared == vendor :> {} @@ alice :> {disclosure(digestA, cipherA)} @@ bob :> {disclosure(digestB, cipherB)}

\* Alice's report as it is on the ledger or sealed again, the same for another
\* recipient, and a package that names her report but contains bob's.
MCPackages ==
    {encryptDisclosure(disclosure(digestA, cipherA), vendor),
     encryptDisclosure(disclosure(digestA, cipherX), vendor),
     encryptDisclosure(disclosure(digestA, cipherA), bob),
     encryptDisclosure([disclosure(digestA, cipherA) EXCEPT !.report = <<program, digestB, salt>>], vendor)}

MCSymmetry == Permutations(Stores)
=============================================================================

-------------------------- MODULE MCRoleSessionLate ---------------------------
(* A vendor and a researcher whose workspace is open twice, each tab with a    *)
(* provider of its own, with one report and two patches: the call that one tab *)
(* gave up on can be overtaken by the calls of the other.                      *)
EXTENDS RoleSession, TLC

CONSTANTS vendor, alice, aliceAgain, p1, p2, p3, secretV, secretA, program, digestA, salt, cipherA

MCIdentity ==
    vendor :> [role |-> "vendor", programId |-> program, actorSecret |-> secretV]
    @@ alice :> [role |-> "researcher", programId |-> program, actorSecret |-> secretA]
    @@ aliceAgain :> [role |-> "researcher", programId |-> program, actorSecret |-> secretA]
MCProviderOf == vendor :> p2 @@ alice :> p1 @@ aliceAgain :> p3

disclosureA ==
    [id |-> Contract!deriveReportCommitment(program, digestA, salt), programId |-> program,
     report |-> <<program, digestA, salt>>, cipher |-> cipherA]
MCPrepared == vendor :> {} @@ alice :> {disclosureA} @@ aliceAgain :> {disclosureA}
MCPackages == {encryptDisclosure(disclosureA, vendor)}
=============================================================================

----------------------- MODULE MCCipherstoreMaintenance ----------------------
(* A server with two connections, the two tools and two ciphertexts, both of *)
(* them named by the retirement policy file and both fitting the quota.      *)
EXTENDS CipherstoreMaintenance, TLC

CONSTANTS small, large

BlobSize == small :> 1 @@ large :> 2
ServerPolicies == {{}}
=============================================================================

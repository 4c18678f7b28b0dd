---------------------------- MODULE MCCipherstore ---------------------------
(* Two server processes, one after the other or contending, three connections *)
(* (so that the limit of two uploads is reached) and two ciphertexts that do  *)
(* not both fit the quota.  A server may start with a retirement policy that   *)
(* names one of them.                                                         *)
EXTENDS Cipherstore, TLC

CONSTANTS small, large

BlobSize == small :> 1 @@ large :> 2
RetiresNothingOrSmall == {{}, {small}}
Interchangeable == Permutations(Processes) \cup Permutations(Requests)
=============================================================================

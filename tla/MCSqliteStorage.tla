--------------------------- MODULE MCSqliteStorage ---------------------------
(* Two adapters on one directory, two ciphertexts of which the second fits     *)
(* only alone. One request may be pending beside close; the first adapter may  *)
(* make two requests, the second one.                                          *)
EXTENDS SqliteStorage, TLC

CONSTANTS first, second

MCAdapters == {first, second}
MCSize == [d \in Digests |-> IF d = "small" THEN 1 ELSE 2]
MCMaxId == first :> 2 @@ second :> 1
=============================================================================

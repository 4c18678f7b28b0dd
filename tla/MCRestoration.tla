---------------------------- MODULE MCRestoration ----------------------------
(* Two blobs in the backup and one that only an upload can bring.            *)
EXTENDS Restoration
=============================================================================

---------------------------- MODULE ImmutableStore ---------------------------
(***************************************************************************)
(* What a cipherstore promises whoever uploads to it, whichever backend     *)
(* holds the bytes: a ciphertext is stored under its digest at most once,   *)
(* only while it fits the quota, it is acknowledged only once stored, and   *)
(* nothing a server does takes it away again.                               *)
(***************************************************************************)
EXTENDS Naturals, FiniteSets, FiniteSetsExt

CONSTANTS Digests, Size, MaxBytes, MaxBlobs

VARIABLES
    stored,         \* digests whose ciphertext is on disk
    acked           \* digests some client was told are stored

storeVars == <<stored, acked>>

StoreInit == stored = {} /\ acked = {}

Bytes(S) == MapThenSumSet(LAMBDA d : Size[d], S)
Fits(S, d) == Bytes(S) + Size[d] =< MaxBytes /\ Cardinality(S) < MaxBlobs

Store(d) ==
    /\ d \notin stored
    /\ Fits(stored, d)
    /\ stored' = stored \cup {d}
    /\ UNCHANGED acked

Acknowledge(d) ==
    /\ d \in stored
    /\ acked' = acked \cup {d}
    /\ UNCHANGED stored

StoreNext == \E d \in Digests : Store(d) \/ Acknowledge(d)

StoreSpec == StoreInit /\ [][StoreNext]_storeVars
=============================================================================

---------------------------- MODULE MCWorkspaceKeys ----------------------------
(* Four keys: provisioning and three rotations.  Three KEKs: two rotations   *)
(* without coming back to the first one, or with.                            *)
EXTENDS WorkspaceKeys, TLC

CONSTANTS dek1, dek2, dek3, dek4, kek1, kek2, kek3

\* Neither keys nor KEKs are told apart by anything but their use.
Interchangeable == Permutations(Keys) \cup Permutations(Keks)
=============================================================================

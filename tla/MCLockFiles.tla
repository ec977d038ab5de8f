---------------------------- MODULE MCLockFiles ----------------------------
(* Bounds and symmetry for checking LockFiles. *)
EXTENDS LockFiles, TLC

CONSTANTS a, b, c, n1, n2, n3

\* Owner secrets are interchangeable, and so are processes with the same roles.
NonceSymmetry == Permutations(Nonce)
AllSymmetry == NonceSymmetry \cup Permutations(Proc)

\* The recycled tokens never run out: no step is lost to the bound on Nonce.
EnoughTokens == \A p \in alive : \E n \in Nonce : Fresh(<<p, n>>)
=============================================================================

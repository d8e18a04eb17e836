------------------------------ MODULE MCCache ------------------------------
(* An instance of Cache for TLC.  The times to live are no expiry and one    *)
(* second, which is two ticks; integers have three bits.                     *)
EXTENDS Cache, TLC

CONSTANTS k1, k2, k3, never, missing, text

Symmetry == Permutations(Keys)

=============================================================================

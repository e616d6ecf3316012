-------------------------- MODULE MCStateOwnership --------------------------
(***************************************************************************)
(* TLC instances of StateOwnership.                                        *)
(***************************************************************************)
EXTENDS StateOwnership, TLC

CONSTANTS d1, d2

MCDrivers == Permutations({d1, d2})

=============================================================================

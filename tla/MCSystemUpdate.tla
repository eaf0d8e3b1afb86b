--------------------------- MODULE MCSystemUpdate ---------------------------
(* Small instances of SystemUpdate for TLC. *)
EXTENDS SystemUpdate

CONSTANTS r1, r2

=============================================================================

------------------------------ MODULE MCUpgrade ------------------------------
(* Small instances of Upgrade: slots of three blocks.                        *)
EXTENDS Upgrade

CONSTANTS c1

OneClient == {c1}
NoClient == {}

=============================================================================

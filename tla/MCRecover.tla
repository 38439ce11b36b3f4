------------------------------- MODULE MCRecover -------------------------------
(* Recover on a device of a few blocks, imaged whole or cut short. *)
EXTENDS Recover

MCLengths == {NumBlocks + NumData + 1, NumBlocks - 2}
=============================================================================

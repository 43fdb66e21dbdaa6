------------------------------ MODULE BlockTime ------------------------------
(* The time of the block a call is in.                                      *)
CONSTANT MaxTime       \* bound: the last timestamp

VARIABLE now           \* block.timestamp
=============================================================================

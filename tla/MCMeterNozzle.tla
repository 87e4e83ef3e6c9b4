--------------------------- MODULE MCMeterNozzle ---------------------------
(* Small instances of MeterNozzle for TLC.                                 *)
EXTENDS MeterNozzle, TLC

CONSTANTS d1, d2

TwoDevices == {d1, d2}
NoFailures == {}
LossesOnly == {"db", "hangup"}
NoMisreads == {}
\* A totalizer misread as empty, and a photo whose sale row is unreadable.
SomeMisreads == {[liters |-> 0, sale |-> Ceiling], [liters |-> MaxLiters, sale |-> Null]}

DeviceSymmetry == Permutations(TwoDevices)
=============================================================================

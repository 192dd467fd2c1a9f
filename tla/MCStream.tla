------------------------------- MODULE MCStream -------------------------------
(* StreamMandate on small instances; the .cfg files give the numbers.        *)
EXTENDS StreamProofs

MCCaps == {None, 3}
=============================================================================

------------------------------ MODULE MCBilling ------------------------------
(* Instances of MandateBilling small enough for TLC. *)
EXTENDS MandateBilling

CONSTANTS basic, pro

Flat(amount, frequency, maxPulls, trial) ==
  [type |-> "Flat", amount |-> amount, frequency |-> frequency,
   maxPulls |-> maxPulls, trial |-> trial]
Usage(cap, frequency) ==
  [type |-> "Usage", amount |-> cap, frequency |-> frequency,
   maxPulls |-> Unlimited, trial |-> 0]
Terms(b, p) == [x \in {basic, pro} |-> IF x = basic THEN b ELSE p]

FlatTerms  == Terms(Flat(1, 2, 2, 0), Flat(2, 1, 2, 1))
UsageTerms == Terms(Usage(1, 2), Usage(2, 1))
MixedTerms == Terms(Flat(1, 2, 2, 0), Usage(2, 2))
\* Cadences that differ, and so do due dates.
ApartTerms == Terms(Flat(1, 1, 2, 0), Usage(2, 2))
LiveTerms  == [x \in {basic} |-> Usage(2, 1)]
ThriceTerms == [x \in {basic} |-> Flat(1, 1, 3, 0)]

NoRevision   == {}
DearerBasic  == {[type |-> "Flat", amount |-> 3, frequency |-> 2, maxPulls |-> 2]}
HigherCap    == {[type |-> "Usage", amount |-> 3, frequency |-> 3, maxPulls |-> 1]}
==============================================================================

------------------------------- MODULE MCAgent -------------------------------
(* AgentMandate on small instances; the .cfg files give the numbers.         *)
EXTENDS AgentMandate

CONSTANTS api, host

ManyLists   == {[s \in {api} |-> 1], [s \in {api, host} |-> 2]}
==============================================================================

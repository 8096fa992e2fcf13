-------------------------- MODULE MCTelemetryAlarms --------------------------
(* Readings at and between the default thresholds. *)
EXTENDS TelemetryAlarms, TLC

\* Two conditions at once, none, and a reading that is refused.
MCReadings == {[soc |-> 10, temperature |-> 60], [soc |-> 50, temperature |-> 49],
               [soc |-> 101, temperature |-> 20]}

\* Hot, with a state of charge in order.
MCHotReadings == {[soc |-> 94, temperature |-> 50], [soc |-> 50, temperature |-> 20]}

Symmetric == Permutations(Users) \cup Permutations(Requests)
=============================================================================

---------------------------- MODULE MCOracleMinting ----------------------------
(***************************************************************************)
(* Instances of OracleMinting for TLC.                                     *)
(***************************************************************************)
EXTENDS OracleMinting

CONSTANTS a, o   \* beneficiary (and bridge), oracle contract (and treasury)

Rates(seconds, perKg, feeBps) ==
  [ minPh |-> 600, maxPh |-> 700, maxTurbidity |-> 50, minOxygen |-> 50,
    perKgN |-> perKg, perKgP |-> perKg, seconds |-> seconds, feeBps |-> feeBps,
    treasury |-> o ]
\* Two that update_config accepts, a fee above the whole and a window too short.
Rated == {Rates(3600, 1, 5000), Rates(86400, 2, 10000),
          Rates(3600, 1, 10001), Rates(30, 1, 5000)}

Sample(ph, oxygen, flow, nitrogen) ==
  [ ph |-> ph, turbidity |-> 50, oxygen |-> oxygen, flow |-> flow,
    temperature |-> 300, nitrogen |-> nitrogen, phosphorus |-> 2 ]
Samples == << Sample(650, 60, 30, 0), Sample(650, 49, 30, 20), Sample(599, 50, 10, 0),
              Sample(650, 50, 10, -1) >>

OwnBaselines == {[beneficiary |-> a, nitrogen |-> 30, phosphorus |-> 0, temperature |-> 0]}
================================================================================

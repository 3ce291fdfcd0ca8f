----------------------------- MODULE CreditFormula -----------------------------
(***************************************************************************)
(* contracts/verification_oracle: what a window's readings are worth.  The *)
(* readings are reduced to one median per parameter, and the medians to    *)
(* credits: for the nutrients removed and for the volume treated, less a   *)
(* penalty for the water's quality.                                        *)
(*                                                                         *)
(* A reading, and the medians of several, are records with one field per   *)
(* parameter.  Units are the contract's.  A product beyond MaxI128 panics. *)
(***************************************************************************)
EXTENDS Integers, FiniteSets, Sequences, FiniteSetsExt

CONSTANT MaxI128  \* i128::MAX

ASSUME FormulaAssumption == MaxI128 \in Nat

Parameter == {"ph", "turbidity", "oxygen", "flow", "temperature", "nitrogen", "phosphorus"}

\* validate_sensor_reading.
ValidReading(r) ==
  /\ r.ph >= 0 /\ r.ph <= 1400
  /\ r.flow >= 0
  /\ r.nitrogen >= 0
  /\ r.phosphorus >= 0
  /\ r.oxygen >= 0
  /\ r.turbidity >= 0 /\ r.turbidity <= 10000
  /\ r.temperature >= 0 /\ r.temperature <= 500

\* The k-th smallest of a sequence of numbers, counting from 1.
Ranked(values, k) ==
  LET at(i) == values[i]
  IN  CHOOSE v \in {at(i) : i \in DOMAIN values} :
        /\ Cardinality({i \in DOMAIN values : values[i] < v}) < k
        /\ Cardinality({i \in DOMAIN values : values[i] <= v}) >= k

\* Rust's division by two, which rounds towards zero.
Half(x) == IF x >= 0 THEN x \div 2 ELSE -((-x) \div 2)

\* Mutant: the mean of the smallest and the largest.
Midrange(values) == Half(Ranked(values, 1) + Ranked(values, Len(values)))

\* median_i64.
Median(values) ==
  LET n == Len(values)
  IN  IF n % 2 = 1 THEN Ranked(values, (n + 1) \div 2)
                   ELSE Half(Ranked(values, n \div 2) + Ranked(values, n \div 2 + 1))

Medians(readings) ==
  [p \in Parameter |-> Median([i \in DOMAIN readings |-> readings[i][p]])]

--------------------------------------------------------------------------------
\* resolve_baselines: a baseline of zero stands for the default.
DefaultBaselines == [nitrogen |-> 10, phosphorus |-> 2, temperature |-> 300]
ResolvedBaselines(project) ==
  [p \in DOMAIN DefaultBaselines |->
     IF project[p] = 0 THEN DefaultBaselines[p] ELSE project[p]]

\* Kilograms removed of one nutrient.
Removed(baseline, concentration, flow, seconds) ==
  IF concentration < baseline THEN ((baseline - concentration) * flow * seconds) \div 1000000
                              ELSE 0

\* Mutant: oxygen is penalized when there is much of it.
PenaltyOnMuchOxygen(c, m, maxTemperature) ==
  LET points(condition, n) == IF condition THEN n ELSE 0
  IN  points(m.ph < c.minPh \/ m.ph > c.maxPh, 2000)
      + points(m.turbidity > c.maxTurbidity, 2000)
      + points(m.oxygen > c.minOxygen, 2000)
      + points(m.temperature > maxTemperature, 1000)

\* The quality penalty in basis points; the code's ceiling of 8000 is never met.
Penalty(c, m, maxTemperature) ==
  LET points(condition, n) == IF condition THEN n ELSE 0
  IN  points(m.ph < c.minPh \/ m.ph > c.maxPh, 2000)
      + points(m.turbidity > c.maxTurbidity, 2000)
      + points(m.oxygen < c.minOxygen, 2000)
      + points(m.temperature > maxTemperature, 1000)

Volumetric(flow) == IF flow > 0 THEN (flow * 100) \div 1000 ELSE 0

Gross(c, nRemoved, pRemoved, volumetric) ==
  nRemoved * c.perKgN + pRemoved * c.perKgP + volumetric

\* compute_finalization, of configuration c, medians m and resolved baselines b.
Finalization(c, m, b) ==
  LET nRemoved == Removed(b.nitrogen, m.nitrogen, m.flow, c.seconds)
      pRemoved == Removed(b.phosphorus, m.phosphorus, m.flow, c.seconds)
      penalty == Penalty(c, m, b.temperature)
      gross == Gross(c, nRemoved, pRemoved, Volumetric(m.flow))
      net == (gross * (10000 - penalty)) \div 10000
  IN  [ nRemoved |-> nRemoved, pRemoved |-> pRemoved, penalty |-> penalty,
        volumetric |-> Volumetric(m.flow), total |-> IF net < 0 THEN 0 ELSE net ]

\* None of the products overflows (their sums are of the same size).
FinalizationFits(c, m, b) ==
  LET fits(x) == x <= MaxI128 /\ -x <= MaxI128
      of(baseline, p) == baseline <= m[p] \/ fits((baseline - m[p]) * m.flow * c.seconds)
      f == Finalization(c, m, b)
      gross == Gross(c, f.nRemoved, f.pRemoved, f.volumetric)
  IN  /\ of(b.nitrogen, "nitrogen")
      /\ of(b.phosphorus, "phosphorus")
      /\ fits(m.flow * 100)
      /\ fits(f.nRemoved * c.perKgN)
      /\ fits(f.pRemoved * c.perKgP)
      /\ fits(gross)
      /\ fits(gross * (10000 - f.penalty))
================================================================================

------------------------------ MODULE OracleMinting ------------------------------
(***************************************************************************)
(* A credit token whose minter is the verification oracle: finalizing a    *)
(* window of one project computes the credits its readings earned, mints   *)
(* them, clamped to the token's cap, to the project's beneficiary and the  *)
(* protocol treasury, and records the result.  The token's panics roll the *)
(* finalization back, which is no step.                                    *)
(*                                                                         *)
(* Which readings a window holds is OracleWindow's matter: here they are   *)
(* any that validate_sensor_reading lets in.                               *)
(***************************************************************************)
EXTENDS CreditToken, CreditFormula

CONSTANTS
  Verifier,        \* the oracle contract's address
  Sensed,          \* the readings oracles send, in a sequence
  MaxReadings,     \* most readings of a window
  Formulas,        \* configurations, the first and those passed to update_config
  ProjectConfigs,  \* what is passed to set_project_config
  NoProject,       \* no ProjectConfig is stored
  MaxResults       \* most results (a bound of the model)

\* What of update_config's checks concerns the formula; see OracleStaking for
\* the rest.
Accepted(c) ==
  /\ 60 <= c.seconds /\ c.seconds <= 86400
  /\ c.feeBps <= 10000

ASSUME MintingAssumption ==
  /\ Verifier \in Address \ Bridges
  /\ \A k \in DOMAIN Sensed : Sensed[k] \in [Parameter -> Int]
  /\ MaxReadings \in Nat
  /\ \A c \in Formulas :
       /\ \A f \in {"minPh", "maxPh", "maxTurbidity", "minOxygen", "perKgN", "perKgP"} :
            c[f] \in Int
       /\ c.seconds \in Nat
       /\ c.feeBps \in Nat
       /\ c.treasury \in Address
  /\ \E c \in Formulas : Accepted(c)
  /\ \A q \in ProjectConfigs :
       /\ q.beneficiary \in Address
       /\ \A p \in DOMAIN DefaultBaselines : q[p] \in Int
  /\ MaxResults \in Nat

VARIABLES
  formula,   \* DataKey::Config, as far as the formula and the fee go
  project,   \* DataKey::ProjectConfig
  verdicts   \* ResultAt(0), ResultAt(1), ..., each with what it was computed from

mintingVars == <<vars, formula, project, verdicts>>

\* The room under the cap is what total_supply leaves of it: the bridged
\* credits, which mint_to counts too, are not looked at.
Mintable(credits) ==
  LET room == maxSupply - totalSupply
  IN  IF credits <= 0 THEN 0
      ELSE IF maxSupply = 0 THEN credits
      ELSE IF room <= 0 THEN 0
      ELSE IF room < credits THEN room ELSE credits

\* Mutant: the fee is rounded up.
FeeRoundedUp(amount) == (amount * formula.feeBps + 9999) \div 10000

Fee(amount) == (amount * formula.feeBps) \div 10000

\* mint_to for the beneficiary and mint_to for the treasury, in one transaction.
MintSplit(net, fee) ==
  LET shares == << [to |-> project.beneficiary, amount |-> net],
                   [to |-> formula.treasury, amount |-> fee] >>
  IN  /\ ~paused
      /\ MayMint(Verifier)
      /\ UnderCap(totalSupply + bridgedToEvm + net + fee)
      /\ \A a \in Address : Credited(balance, shares)[a] <= MaxAmount
      /\ totalSupply + net + fee <= MaxAmount
      /\ everMinted + net + fee <= MaxAmount
      /\ balance' = Credited(balance, shares)
      /\ totalSupply' = totalSupply + net + fee
      /\ everMinted' = everMinted + net + fee
      /\ UNCHANGED <<roles, maxSupply, paused, allowance, expiration, totalRetired,
                     totalBurned, bridgedToEvm, certs, ledger>>

\* Mutant: the credits earned are recorded as minted.
VerdictOnEarned(readings, result, net, fee) ==
  [ readings |-> readings, formula |-> formula, project |-> project, result |-> result,
    minted |-> result.total - fee, fee |-> fee ]

Verdict(readings, result, net, fee) ==
  [ readings |-> readings, formula |-> formula, project |-> project, result |-> result,
    minted |-> net, fee |-> fee ]

\* A project without a configuration has the default baselines and no token.
Baselines ==
  IF project = NoProject THEN DefaultBaselines ELSE ResolvedBaselines(project)

Finalize(readings) ==
  LET medians == Medians(readings)
      result == Finalization(formula, medians, Baselines)
      amount == IF project = NoProject THEN 0 ELSE Mintable(result.total)
      fee == Fee(amount)
  IN  /\ Len(verdicts) < MaxResults
      /\ \A i \in DOMAIN readings : ValidReading(readings[i])
      /\ FinalizationFits(formula, medians, Baselines)
      /\ amount * formula.feeBps <= MaxI128
      /\ verdicts' = Append(verdicts, Verdict(readings, result, amount - fee, fee))
      /\ UNCHANGED <<formula, project>>
      /\ \/ /\ amount = 0
            /\ UNCHANGED vars
         \/ /\ amount > 0
            /\ MintSplit(amount - fee, fee)

UpdateFormula(c) ==
  /\ Accepted(c)
  /\ formula' = c
  /\ UNCHANGED <<vars, project, verdicts>>

\* No baseline is checked, and a new configuration may come at any time.
SetProjectConfig(config) ==
  /\ project' = config
  /\ UNCHANGED <<vars, formula, verdicts>>

MintingInit ==
  /\ Init
  /\ formula \in {c \in Formulas : Accepted(c)}
  /\ project = NoProject
  /\ verdicts = <<>>

\* No median depends on the order of the readings: one order is enough.
Windows ==
  {[i \in DOMAIN f |-> Sensed[f[i]]] :
     f \in {g \in UNION {[1 .. n -> DOMAIN Sensed] : n \in 1 .. MaxReadings} :
              \A i, j \in DOMAIN g : i < j => g[i] <= g[j]}}

MintingNext ==
  \/ \E readings \in Windows : Finalize(readings)
  \/ \E c \in Formulas : UpdateFormula(c)
  \/ \E q \in ProjectConfigs : SetProjectConfig(q)
  \/ Next /\ UNCHANGED <<formula, project, verdicts>>

MintingSpec == MintingInit /\ [][MintingNext]_mintingVars

--------------------------------------------------------------------------------
\* credits_minted and protocol_fee_minted are credits "actually minted" (Issue
\* #36): over all results they never claim more than the token ever issued,
\* however often the cap is moved and whatever the fee rounds to.
ResultsClaimOnlyMinted ==
  Total([i \in DOMAIN verdicts |-> verdicts[i].minted + verdicts[i].fee]) <= everMinted

\* No result claims a negative amount, or more than its readings earned, and the
\* treasury never gets more than its share of what was minted.
SharesStayWithinEarnings ==
  \A i \in DOMAIN verdicts :
    LET v == verdicts[i]
    IN  /\ 0 <= v.fee /\ 0 <= v.minted
        /\ v.minted + v.fee <= v.result.total
        /\ v.fee * 10000 <= (v.minted + v.fee) * v.formula.feeBps

\* The medians a result rests on lie within the range of any majority of its
\* readings: fewer than half of the readings of a window, however wrong, move no
\* parameter beyond what one of the others measured.  Readings are not oracles; one
\* oracle may have two of them (OneReadingPerOracle in OracleWindow is refuted).
MajorityBoundsMedians ==
  \A i \in DOMAIN verdicts :
    LET readings == verdicts[i].readings
        medians == Medians(readings)
    IN  \A most \in SUBSET DOMAIN readings :
          2 * Cardinality(most) > Len(readings) =>
            \A p \in Parameter :
              /\ \E k \in most : readings[k][p] <= medians[p]
              /\ \E k \in most : readings[k][p] >= medians[p]

Clean(c, m) == c.minPh <= m.ph /\ m.ph <= c.maxPh

\* No less water, no more nutrients in it and no worse a quality.
AsGood(c, m, n) ==
  /\ m.flow >= n.flow
  /\ m.nitrogen <= n.nitrogen
  /\ m.phosphorus <= n.phosphorus
  /\ m.turbidity <= n.turbidity
  /\ m.oxygen >= n.oxygen
  /\ m.temperature <= n.temperature
  /\ Clean(c, n) => Clean(c, m)

\* Cleaner water never earns less: of two results by the same configuration and
\* baselines, the one whose readings are as good in every respect earns at least
\* as much, through every division and floor on the way.
CleanerWaterEarnsNoLess ==
  \A i, j \in DOMAIN verdicts :
    LET v == verdicts[i]
        w == verdicts[j]
    IN  /\ v.formula = w.formula
        /\ v.project = w.project
        /\ v.formula.perKgN >= 0 /\ v.formula.perKgP >= 0
        /\ AsGood(v.formula, Medians(v.readings), Medians(w.readings))
        => v.result.total >= w.result.total

\* mint_credits_respecting_cap: "By clamping to `max_supply - total_supply` up
\* front, the mint call can never breach the cap".  It does once credits are on
\* the EVM chain, and the finalization is rolled back.
ClampNeverBreachesCap ==
  \A readings \in Windows :
    LET credits == Finalization(formula, Medians(readings), Baselines).total
    IN  Mintable(credits) > 0 => UnderCap(totalSupply + bridgedToEvm + Mintable(credits))
================================================================================

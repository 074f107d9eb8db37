------------------------------ MODULE FeeMarket ------------------------------
(***************************************************************************)
(* x/feemarket: the base fee of the next block from the gas of this one.   *)
(*                                                                         *)
(* A decimal number is the integer number of its smallest parts, of which  *)
(* Precision make one: 10^18 in the code.  Parameters of the module are a  *)
(* record [noBaseFee, enableHeight, baseFee, minGasPrice].                 *)
(***************************************************************************)
EXTENDS Integers

CONSTANTS
  Precision,
  ElasticityMultiplier,
  BaseFeeChangeDenominator,
  MinGasMultiplier            \* a decimal number, at most one

ASSUME FeeMarketAssumption ==
  /\ {Precision, ElasticityMultiplier, BaseFeeChangeDenominator} \subseteq Nat \ {0}
  /\ MinGasMultiplier \in 0 .. Precision

Params == [noBaseFee : BOOLEAN, enableHeight : Nat, baseFee : Nat, minGasPrice : Nat]

AtLeast(n, bound) == IF n < bound THEN bound ELSE n

AtMost(n, bound) == IF n > bound THEN bound ELSE n

TruncateInt(d) == d \div Precision

Ceil(d) == (d + Precision - 1) \div Precision

IsBaseFeeEnabled(params, height) == ~params.noBaseFee /\ height >= params.enableHeight

\* Blocks have a limit of gas; MaxGas = -1, no limit, is left out.
GasTarget(maxGas) == maxGas \div ElasticityMultiplier

Delta(gasUsed, gasTarget, baseFee) ==
  LET distance == IF gasUsed > gasTarget THEN gasUsed - gasTarget ELSE gasTarget - gasUsed
  IN  ((distance * baseFee) \div gasTarget) \div BaseFeeChangeDenominator

\* Mutant: the change is rounded down to nothing.
CalcGasBaseFee_Sticky(gasUsed, gasTarget, baseFee, minGasPrice) ==
  IF gasUsed = gasTarget \/ gasTarget = 0 THEN baseFee
  ELSE IF gasUsed > gasTarget
       THEN baseFee + Delta(gasUsed, gasTarget, baseFee)
       ELSE AtLeast(baseFee - Delta(gasUsed, gasTarget, baseFee), minGasPrice)

\* One whole unit is the least that the base fee rises by.
CalcGasBaseFee(gasUsed, gasTarget, baseFee, minGasPrice) ==
  IF gasUsed = gasTarget THEN baseFee
  ELSE IF gasTarget = 0 THEN 0
  ELSE IF gasUsed > gasTarget
       THEN baseFee + AtLeast(Delta(gasUsed, gasTarget, baseFee), Precision)
       ELSE AtLeast(baseFee - Delta(gasUsed, gasTarget, baseFee), minGasPrice)

\* What BeginBlock sets the base fee to.
CalculateBaseFee(params, height, blockGasWanted, maxGas) ==
  IF ~IsBaseFeeEnabled(params, height) \/ height = params.enableHeight
  THEN params.baseFee
  ELSE CalcGasBaseFee(blockGasWanted, GasTarget(maxGas), params.baseFee, params.minGasPrice)

\* What EndBlock keeps of the gas that was wanted and used.
UpdatedGasWanted(gasWanted, gasUsed) ==
  AtLeast(TruncateInt(gasWanted * MinGasMultiplier), gasUsed)

\* The base fee of the EVM is a whole number, and none when the fee market is off.  The
\* ante handler reads it off the parameters, the state transition asks the keeper.
GetBaseFee(params) == IF params.noBaseFee THEN 0 ELSE TruncateInt(params.baseFee)

\* Mutant: the keeper does not look whether the fee market is on.
KeeperBaseFee_On(params) == TruncateInt(params.baseFee)

KeeperBaseFee(params) == IF params.noBaseFee THEN 0 ELSE TruncateInt(params.baseFee)

===============================================================================

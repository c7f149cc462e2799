---------------------------- MODULE CoinSelection ----------------------------
(***************************************************************************)
(* The arithmetic of a payment (psbt/build.ts): sizes, fees, which coins   *)
(* are spent and what is left for change.  Amounts are in sats; a fee rate *)
(* is a fraction rate.sats / rate.per of sats per vbyte.                   *)
(***************************************************************************)
EXTENDS Integers

Dust == 546

ScriptTypes == {"native-segwit", "nested-segwit", "taproot"}

InputVbytes(script) == CASE script = "native-segwit" -> 68
                         [] script = "nested-segwit" -> 91
                         [] OTHER -> 58

\* OVERHEAD_VBYTES and SEGWIT_MARKER_VBYTES, and 43 for an output
Vbytes(script, inputs, outputs) == 10 + 2 + inputs * InputVbytes(script) + outputs * 43

\* Math.ceil(vbytes * feeRate)
Fee(rate, vbytes) == (rate.sats * vbytes + rate.per - 1) \div rate.per

\* A plan: what goes to the miners and what comes back.
Plan(total, fee, change) == [total |-> total, fee |-> fee, change |-> change]
NoPlan == Plan(0, 0, 0)

\* Mutant: the change is paid out whatever it is worth.
SplitWithDust(total, amount, fee) == Plan(total, fee, total - amount - fee)

\* Change below the dust threshold is left to the fee.
Split(total, amount, fee) ==
  IF total - amount - fee >= Dust THEN Plan(total, fee, total - amount - fee)
                                  ELSE Plan(total, total - amount, 0)

\* selectConfirmedUtxos, for the first coins of the list: enough for the amount
\* and a transaction of two outputs, however many recipients there are.
AutomaticFee(script, inputs, rate) == Fee(rate, Vbytes(script, inputs, 2))

\* Mutant: what there is is taken to be enough.
AutomaticPlanUnchecked(script, inputs, total, amount, rate) ==
  Split(total, amount, AutomaticFee(script, inputs, rate))

AutomaticPlan(script, inputs, total, amount, rate) ==
  LET fee == AutomaticFee(script, inputs, rate)
  IN  IF total >= amount + fee THEN Split(total, amount, fee) ELSE NoPlan

\* buildSelectedUtxoPlan: with change, or else without when that is enough.
SelectedPlan(script, inputs, total, amount, rate, recipients) ==
  LET withChange == Fee(rate, Vbytes(script, inputs, recipients + 1))
      noChange   == Fee(rate, Vbytes(script, inputs, recipients))
  IN  IF total >= amount + withChange THEN Split(total, amount, withChange)
      ELSE IF total >= amount + noChange THEN Plan(total, total - amount, 0)
      ELSE NoPlan
=============================================================================

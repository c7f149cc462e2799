------------------------------- MODULE Spending -------------------------------
(***************************************************************************)
(* One payment from the form to the verdict on the signed PSBT: coins      *)
(* looked up (mempool/utxos.ts), selected and paid out (createWalletPsbt   *)
(* in psbt/build.ts, analyzePsbt and buildUnsignedPsbt in                  *)
(* packages/bitcoin), signed elsewhere, and verified (psbt/verify.ts).     *)
(* Lookups may fail for some addresses, and coins be spent between the     *)
(* list on the page and the draft, or confirm.                             *)
(***************************************************************************)
EXTENDS CoinSelection, Sequences, FiniteSets, FiniteSetsExt

CONSTANTS
  CoinValue,   \* the coins the wallet may hold, and their values
  Payments,    \* bound: sequences of recipients [to, amount]
  OwnAddress,  \* an address of the wallet, in Payments
  Rates,       \* bound: fee rates asked for
  Scripts      \* script types of the wallet

ASSUME SpendingAssumption ==
  /\ IsFiniteSet(DOMAIN CoinValue) /\ \A c \in DOMAIN CoinValue : CoinValue[c] \in Nat \ {0}
  /\ \A payment \in Payments : payment \in Seq([to: STRING, amount: Nat])
  /\ OwnAddress \in STRING
  /\ \A rate \in Rates : rate.sats \in Nat /\ rate.per \in Nat \ {0}

VARIABLES
  coins,  \* mempool: the coins of the wallet, by state
  spend   \* the payment: its request, its plan, its PSBT and the verdict

spendVars == <<coins, spend>>

Coins   == DOMAIN CoinValue
Refused == [at |-> "refused"]
NoPsbt  == [spends |-> {}, pays |-> <<>>, signed |-> FALSE]

SumOf(set) == MapThenSumSet(LAMBDA c : CoinValue[c], set)

AmountOf(payment) == LET f[n \in 0..Len(payment)] == IF n = 0 THEN 0 ELSE f[n - 1] + payment[n].amount
                     IN  f[Len(payment)]

SpendTypeOK ==
  /\ coins \in [Coins -> {"confirmed", "unconfirmed", "spent"}]
  /\ spend.at \in {"idle", "asked", "planned", "built", "signed", "verified", "refused"}
  /\ spend.at \notin {"idle", "refused"} =>
       /\ spend.payment \in Payments /\ spend.rate \in Rates /\ spend.script \in Scripts
       /\ (spend.inputs \cup spend.picked \cup spend.psbt.spends) \subseteq Coins
       /\ {spend.plan.total, spend.plan.fee, spend.plan.change} \subseteq Nat

SpendInit ==
  /\ coins \in [Coins -> {"confirmed", "unconfirmed", "spent"}]
  /\ spend = [at |-> "idle"]

-----------------------------------------------------------------------------
(* The request *)

\* The body of the request (validatePsbtRecipients, validateSelectedUtxos)
RecipientsValid(payment) == Len(payment) \in 1..10 /\ \A i \in DOMAIN payment : payment[i].amount >= 1

PickedValid(picked) == Cardinality(picked) <= 100

BodyValid(payment, rate, picked) ==
  /\ rate.sats > 0 /\ rate.sats <= 1000 * rate.per
  /\ RecipientsValid(payment)
  /\ PickedValid(picked)

\* normalizeRecipients: no output is dust.
NoDust(payment) == \A i \in DOMAIN payment : payment[i].amount >= Dust

\* POST psbt with recipients, fee rate and coins picked from the list on the
\* page, which may be old: picked ones may be spent by now.
AskPsbt ==
  /\ spend.at = "idle"
  /\ \E payment \in Payments, rate \in Rates, script \in Scripts, picked \in SUBSET Coins :
       spend' = IF BodyValid(payment, rate, picked) /\ NoDust(payment) /\ script \in ScriptTypes
                THEN [at |-> "asked", payment |-> payment, rate |-> rate, script |-> script,
                      picked |-> picked, inputs |-> {}, plan |-> NoPlan,
                      psbt |-> NoPsbt, verdict |-> "none"]
                ELSE Refused
  /\ UNCHANGED coins

-----------------------------------------------------------------------------
(* Coins *)

\* lookupWalletUtxos: coins of the addresses whose lookup succeeded, each
\* outpoint once; unconfirmed ones only when coins were picked.
Found(set) == {c \in set : \/ coins[c] = "confirmed"
                           \/ coins[c] = "unconfirmed" /\ spend.picked # {}}

\* The first coins of the list sorted by value, ties in any order.
Largest(set) == {top \in SUBSET set : top # {} /\ \A c \in top, d \in set \ top : CoinValue[c] >= CoinValue[d]}

PlanOfConfirmed(top) ==
  AutomaticPlan(spend.script, Cardinality(top), SumOf(top), AmountOf(spend.payment), spend.rate)

\* selectConfirmedUtxos stops at the first that is enough.
FirstEnough(set) ==
  {top \in Largest(set) :
     /\ PlanOfConfirmed(top) # NoPlan
     /\ \A less \in Largest(set) : Cardinality(less) < Cardinality(top) => PlanOfConfirmed(less) = NoPlan}

PlanOfPicked ==
  SelectedPlan(spend.script, Cardinality(spend.picked), SumOf(spend.picked),
               AmountOf(spend.payment), spend.rate, Len(spend.payment))

Planned(inputs, plan) ==
  spend' = IF plan = NoPlan THEN Refused ELSE [spend EXCEPT !.at = "planned", !.inputs = inputs, !.plan = plan]

\* Coins that nobody picked: the confirmed ones found, the largest first.
SelectCoins(found) ==
  LET confirmed == {c \in found : coins[c] = "confirmed"}
  IN  IF FirstEnough(confirmed) = {} THEN spend' = Refused
      ELSE \E inputs \in FirstEnough(confirmed) : Planned(inputs, PlanOfConfirmed(inputs))

\* resolveSelectedUtxos: one that is not found any more refuses the draft.
ResolvePicked(found) ==
  IF spend.picked \subseteq found THEN Planned(spend.picked, PlanOfPicked) ELSE spend' = Refused

\* The lookups may fail for some addresses (status partial, which the builder ignores).
FindCoins ==
  /\ spend.at = "asked"
  /\ \E reached \in SUBSET Coins :
       IF spend.picked = {} THEN SelectCoins(Found(reached)) ELSE ResolvePicked(Found(reached))
  /\ UNCHANGED coins

\* Coins confirm, and are spent from another device, until they are looked up.
CoinMoves ==
  /\ spend.at \in {"idle", "asked"}
  /\ \E c \in Coins : \/ coins[c] = "unconfirmed" /\ coins' = [coins EXCEPT ![c] = "confirmed"]
                      \/ coins[c] # "spent" /\ coins' = [coins EXCEPT ![c] = "spent"]
  /\ UNCHANGED spend

-----------------------------------------------------------------------------
(* The PSBT *)

HasChange == spend.plan.change > 0

\* Mutant: the change output has an address and no amount is left for it.
OutputsForgettingChange == [i \in DOMAIN spend.payment |-> spend.payment[i]]

\* The recipients, then the change, to an address of the wallet.
Outputs == IF HasChange THEN Append(spend.payment, [to |-> OwnAddress, amount |-> spend.plan.change])
                        ELSE spend.payment

\* buildUnsignedPsbt
Unsigned == [spends |-> spend.inputs, pays |-> Outputs, signed |-> FALSE]

\* findNextChangeAddress only when there is change; it may fail or find none.
Build ==
  /\ spend.at = "planned"
  /\ \/ spend' = [spend EXCEPT !.at = "built", !.psbt = Unsigned]
     \/ HasChange /\ spend' = Refused
  /\ UNCHANGED coins

\* A signer signs it and changes nothing else; or what is loaded for
\* verification is the unsigned draft.
Sign ==
  /\ spend.at = "built"
  /\ \E yes \in BOOLEAN : spend' = [spend EXCEPT !.at = "signed", !.psbt.signed = yes]
  /\ UNCHANGED coins

-----------------------------------------------------------------------------
(* The verdict.  Coins are of addresses that are derived here too, so that    *)
(* every input belongs to the wallet.                                         *)

\* isPsbtSigned: a signature on every input
Signed == spend.psbt.spends # {} /\ spend.psbt.signed

\* analyzePsbt: what is paid, and a fee that is not told.
Paid      == spend.psbt.pays
OutputFee == SumOf(spend.psbt.spends) - AmountOf(Paid)

Owned(output) == output.to = OwnAddress
External == {i \in DOMAIN Paid : ~Owned(Paid[i])}

\* outputs.find: the first output to that address.
FirstTo(address) == {i \in DOMAIN Paid : Paid[i].to = address /\ \A j \in 1..(i - 1) : Paid[j].to # address}

\* What the user fills in of what the builder said (buildExpectedPsbtChecks).
Expectations == SUBSET {"recipient", "amount", "change", "fee"}

\* Recipient k and its amount, the change address or "none"
RecipientMissing(k) == FirstTo(spend.payment[k].to) = {}
AmountDiffers(k) == \E i \in FirstTo(spend.payment[k].to) : Paid[i].amount # spend.payment[k].amount
ChangeMissing    == HasChange /\ FirstTo(OwnAddress) = {}
ChangeUnexpected == ~HasChange /\ \E i \in DOMAIN Paid : Owned(Paid[i])

\* The size of the signed transaction: outputs take 31 to 43 vbytes.
SignedVbytes == {Vbytes(spend.script, Cardinality(spend.psbt.spends), Len(Paid)) - 12 * n : n \in {0, Len(Paid)}}

\* More than 100 sats per vbyte, rounded to two digits
HighFee(vbytes) == OutputFee > 100000 \/ 200 * OutputFee >= 20001 * vbytes

\* verifySignedPsbt: errors make it invalid, warnings leave it to the user.
Errors(k, expected) ==
  \/ ~Signed \/ OutputFee < 0
  \/ "recipient" \in expected /\ (RecipientMissing(k) \/ ("amount" \in expected /\ AmountDiffers(k)))
  \/ "change" \in expected /\ ChangeMissing

Warnings(expected, vbytes) ==
  \/ HighFee(vbytes)
  \/ Cardinality(External) > 1
  \/ "change" \in expected /\ ChangeUnexpected
  \/ "fee" \in expected /\ OutputFee # spend.plan.fee

Verdict(k, expected, vbytes) ==
  IF Errors(k, expected) THEN "invalid" ELSE IF Warnings(expected, vbytes) THEN "warning" ELSE "valid"

VerifySigned ==
  /\ spend.at = "signed"
  /\ \E k \in DOMAIN spend.payment, expected \in Expectations, vbytes \in SignedVbytes :
       spend' = [spend EXCEPT !.at = "verified", !.verdict = Verdict(k, expected, vbytes)]
  /\ UNCHANGED coins

SpendNext == AskPsbt \/ FindCoins \/ CoinMoves \/ Build \/ Sign \/ VerifySigned

SpendSpec == SpendInit /\ [][SpendNext]_spendVars

-----------------------------------------------------------------------------

\* What is spent goes to the recipients, the change and the fee; no change is
\* dust, no input is an unconfirmed coin that nobody picked, and at most dust
\* is given away on top of the fee.  The fee is what the rate asks of the
\* transaction built, but for coins selected for several recipients, whose
\* size is taken for that of two outputs (createWalletPsbt).
BuiltPsbtPays ==
  spend.at \in {"planned", "built"} =>
    LET inputs == Cardinality(spend.inputs)
        fee == Fee(spend.rate, Vbytes(spend.script, inputs, Len(Outputs)))
    IN  /\ SumOf(spend.inputs) = AmountOf(Outputs) + spend.plan.fee
        /\ spend.plan.change # 0 => spend.plan.change >= Dust
        /\ spend.picked = {} => \A c \in spend.inputs : coins[c] = "confirmed"
        /\ spend.plan.fee >= fee \/ (spend.picked = {} /\ Len(spend.payment) > 1)
        /\ spend.plan.fee < Fee(spend.rate, Vbytes(spend.script, inputs, Len(spend.payment) + 1)) + Dust

\* A PSBT of the builder, signed as it is and verified against what the builder
\* said, is never invalid unless it pays one address twice; it is valid for
\* one recipient when the fee is not high, and never valid for several
\* outside the wallet, so that none of those can be broadcast (verifySignedPsbt).
PaysOnce == \A i, j \in DOMAIN spend.payment : i # j => spend.payment[i].to # spend.payment[j].to
OwnPsbtVerifies ==
  spend.at = "verified" /\ spend.psbt.signed =>
    /\ spend.verdict = "invalid" => ~PaysOnce
    /\ spend.verdict = "valid" => Cardinality(External) <= 1
    /\ Len(spend.payment) = 1 /\ External = {1} /\ spend.plan.fee <= 1000 => spend.verdict = "valid"
=============================================================================

---------------------------- MODULE WalletServices ----------------------------
(* The services around the vault that share no state with each other: one of  *)
(* them runs, chosen at the start, and the others stay as they are.  So their *)
(* state spaces add up, and do not multiply.                                  *)
EXTENDS AddressUsage, TransactionHistory, PriceQuote, FeeEstimates, Spending, SendPanel, ImportForm, WalletLabels

VARIABLE part  \* which of them runs

Parts == {"usage", "history", "price", "fees", "spending", "panel", "import", "labels"}

servicesVars == <<part, usageVars, historyVars, priceVars, feeVars, spendVars, sendVars, importVars, labelVars>>

ServicesInit ==
  /\ part \in Parts
  /\ UsageInit /\ HistoryInit /\ PriceInit /\ FeesInit /\ SpendInit /\ SendInit /\ ImportInit /\ LabelsInit
  \* what the others start with is of no interest
  /\ part # "usage" => usedAt[0] = Long
  /\ part # "spending" => \A c \in DOMAIN coins : coins[c] = "spent"
  /\ part # "import" => book.wallets = {}

ServicesNext ==
  \/ part = "usage" /\ UsageNext
     /\ UNCHANGED <<part, historyVars, priceVars, feeVars, spendVars, sendVars, importVars, labelVars>>
  \/ part = "history" /\ HistoryNext
     /\ UNCHANGED <<part, usageVars, priceVars, feeVars, spendVars, sendVars, importVars, labelVars>>
  \/ part = "price" /\ PriceNext
     /\ UNCHANGED <<part, usageVars, historyVars, feeVars, spendVars, sendVars, importVars, labelVars>>
  \/ part = "fees" /\ FeesNext
     /\ UNCHANGED <<part, usageVars, historyVars, priceVars, spendVars, sendVars, importVars, labelVars>>
  \/ part = "spending" /\ SpendNext
     /\ UNCHANGED <<part, usageVars, historyVars, priceVars, feeVars, sendVars, importVars, labelVars>>
  \/ part = "panel" /\ SendNext
     /\ UNCHANGED <<part, usageVars, historyVars, priceVars, feeVars, spendVars, importVars, labelVars>>
  \/ part = "import" /\ ImportNext
     /\ UNCHANGED <<part, usageVars, historyVars, priceVars, feeVars, spendVars, sendVars, labelVars>>
  \/ part = "labels" /\ LabelsNext
     /\ UNCHANGED <<part, usageVars, historyVars, priceVars, feeVars, spendVars, sendVars, importVars>>

ServicesSpec == ServicesInit /\ [][ServicesNext]_servicesVars

\* The service that runs keeps the types of its state.
ServicesTypeOK ==
  CASE part = "usage" -> UsageTypeOK   [] part = "history"  -> HistoryTypeOK
    [] part = "price" -> PriceTypeOK   [] part = "fees"     -> FeesTypeOK
    [] part = "panel" -> SendTypeOK    [] part = "spending" -> SpendTypeOK
    [] part = "import" -> ImportTypeOK [] part = "labels"   -> LabelsTypeOK
=============================================================================

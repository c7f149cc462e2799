-------------------------- MODULE TransactionHistory --------------------------
(***************************************************************************)
(* The transactions of a wallet (mempool/transactions.ts, called by        *)
(* getWalletTransactions in vault/store.ts): the tip, then for every       *)
(* address the first page, from a cache when it is young, and the pages    *)
(* after it, each asked for by the last confirmed transaction seen so far. *)
(* Transactions arrive and blocks are mined between any two pages.  A      *)
(* block holds one transaction, so that its place in the chain is its      *)
(* height, and the block before the first is the genesis block.            *)
(***************************************************************************)
EXTENDS Integers, FiniteSets, SequencesExt, ArrayFilter

CONSTANTS
  Txs,       \* the transactions there may be
  Touches,   \* the wallet addresses that each pays or spends from
  PageSize,  \* confirmed transactions on a page of mempool, 25
  MaxPages,  \* pages per address asked for, clamped to 3 in the code
  TxLimit    \* transactions the list may have

ASSUME HistoryAssumption == {PageSize, MaxPages, TxLimit} \subseteq Nat \ {0}

VARIABLES
  chain,       \* mempool: confirmed transactions, oldest first
  pool,        \* mempool: unconfirmed ones
  firstPages,  \* txCache: the first page of an address, or that there is none
  history      \* the request: the tip it read, what each address has given, its result

historyVars == <<chain, pool, firstPages, history>>

Addresses == UNION {Touches[t] : t \in Txs}
NoTip == -1
NoPage == [confirmed |-> <<>>, unconfirmed |-> {"none"}]
NoResult == [list |-> {}, status |-> "none", confirmations |-> <<>>]

\* What one address has given: the pages read, transactions of which status,
\* and whether there is more to ask for.
Unread == [pages |-> 0, confirmed |-> <<>>, unconfirmed |-> {}, says |-> "reading"]
Idle0  == [at |-> "idle", tip |-> NoTip, of |-> [a \in Addresses |-> Unread], result |-> NoResult]

HistoryTypeOK ==
  /\ IsInjective(chain) /\ ToSet(chain) \subseteq Txs
  /\ pool \subseteq Txs \ ToSet(chain)
  /\ \A a \in Addresses : ToSet(firstPages[a].confirmed) \subseteq Txs
  /\ history.at \in {"idle", "tip", "reading", "done"}
  /\ history.tip \in {NoTip} \cup 1..Len(chain)
  /\ \A a \in Addresses :
       /\ history.of[a].pages \in 0..MaxPages
       /\ history.of[a].says \in {"reading", "all", "cut", "failed"}

HistoryInit ==
  /\ chain = <<>>
  /\ pool = {}
  /\ firstPages = [a \in Addresses |-> NoPage]
  /\ history = Idle0

-----------------------------------------------------------------------------
(* Mempool *)

\* A transaction is seen, or mined.
Enter(t) ==
  /\ t \notin pool \cup ToSet(chain)
  /\ pool' = pool \cup {t}
  /\ UNCHANGED <<chain, firstPages, history>>

Mine(t) ==
  /\ t \in pool
  /\ pool' = pool \ {t}
  /\ chain' = Append(chain, t)
  /\ UNCHANGED <<firstPages, history>>

Height(t) == CHOOSE i \in DOMAIN chain : chain[i] = t

\* The confirmed transactions of an address, newest first.
Confirmed(a) ==
  LET f[n \in 0..Len(chain)] == IF n = 0 THEN <<>>
                                ELSE IF a \in Touches[chain[n]] THEN <<chain[n]>> \o f[n - 1] ELSE f[n - 1]
  IN  f[Len(chain)]
FirstOf(seq) == SubSeq(seq, 1, IF Len(seq) < PageSize THEN Len(seq) ELSE PageSize)

FirstPage(a) == [confirmed |-> FirstOf(Confirmed(a)), unconfirmed |-> {t \in pool : a \in Touches[t]}]

\* GET address/:a/txs/chain/:t, the confirmed ones older than t
PageAfter(a, t) == FirstOf(Kept(Confirmed(a), {u \in ToSet(Confirmed(a)) : Height(u) < Height(t)}))

-----------------------------------------------------------------------------
(* The request *)

StartHistory ==
  /\ history.at \in {"idle", "done"}
  /\ history' = [Idle0 EXCEPT !.at = "tip"]
  /\ UNCHANGED <<chain, pool, firstPages>>

\* checkMempoolHealth: a tip that is no positive integer, or no answer, is no tip.
ReadTip ==
  /\ history.at = "tip"
  /\ \E tip \in {NoTip} \cup ({Len(chain)} \ {0}) : history' = [history EXCEPT !.at = "reading", !.tip = tip]
  /\ UNCHANGED <<chain, pool, firstPages>>

\* fetchAddressTxsAllPages after a page: what is new on it, and whether to go on.
Turned(of, page, unconfirmed) ==
  LET new == Kept(page, ToSet(page) \ ToSet(of.confirmed))
  IN  [pages |-> of.pages + 1,
       confirmed |-> of.confirmed \o new,
       unconfirmed |-> of.unconfirmed \cup unconfirmed,
       says |-> IF \/ Len(new) + Cardinality(unconfirmed) = 0
                   \/ of.pages + 1 = MaxPages
                   \/ of.confirmed \o new = <<>>
                THEN "all" ELSE "reading"]

Reading(a) == history.at = "reading" /\ history.of[a].says = "reading"

\* fetchAddressTxsFirstPage: the cached page, or a new one that is cached.
ReadFirstPage(a) ==
  /\ Reading(a)
  /\ history.of[a].pages = 0
  /\ \E page \in {FirstPage(a)} \cup ({firstPages[a]} \ {NoPage}) :
       /\ page # firstPages[a] => firstPages[a] = NoPage
       /\ firstPages' = [firstPages EXCEPT ![a] = page]
       /\ history' = [history EXCEPT !.of[a] = Turned(@, page.confirmed, page.unconfirmed)]
  /\ UNCHANGED <<chain, pool>>

\* Mutant: page two begins after the last transaction of the first page of now.
AfterNewest(a) == Last(FirstOf(Confirmed(a)))

\* findLastConfirmedTxid
AfterLast(a) == Last(history.of[a].confirmed)

ReadNextPage(a) ==
  /\ Reading(a)
  /\ history.of[a].pages > 0
  /\ history' = [history EXCEPT !.of[a] = Turned(@, PageAfter(a, AfterLast(a)), {})]
  /\ UNCHANGED <<chain, pool, firstPages>>

\* A lookup fails: the address failed, or its list is cut (paginationFailed).
\* What is no array is an empty page, and the list ends as if it were all.
PageFails(a) ==
  /\ Reading(a)
  /\ \E says \in {IF history.of[a].pages = 0 THEN "failed" ELSE "cut", "all"} :
       history' = [history EXCEPT !.of[a].says = says]
  /\ UNCHANGED <<chain, pool, firstPages>>

\* Twenty seconds after it was read a page is read again.
PageExpires(a) ==
  /\ firstPages[a] # NoPage
  /\ firstPages' = [firstPages EXCEPT ![a] = NoPage]
  /\ UNCHANGED <<chain, pool, history>>

\* Mutant: no look at whether the tip is older than the block.
ConfirmationsOfAny(tip, height) == IF tip = NoTip THEN 0 ELSE tip - height + 1

\* calculateConfirmations; 0 stands for null.
Confirmations(tip, height) == IF tip = NoTip \/ tip < height THEN 0 ELSE tip - height + 1

Status ==
  LET says(word) == {a \in Addresses : history.of[a].says = word}
  IN  IF says("failed") \cup says("cut") = {} THEN "online"
      ELSE IF says("failed") = Addresses THEN "offline" ELSE "partial"

\* lookupWalletTransactions: the transactions of all addresses, each once and
\* as its first address has it, unconfirmed ones first, then the newest, and
\* no more than the limit.
Newest(confirmed, n) == {t \in confirmed : Cardinality({u \in confirmed : Height(u) > Height(t)}) < n}

Finish ==
  /\ history.at = "reading"
  /\ \A a \in Addresses : history.of[a].says # "reading"
  /\ LET ok == {a \in Addresses : history.of[a].says # "failed"}
         seenConfirmed == UNION {ToSet(history.of[a].confirmed) : a \in ok}
         seenPending == UNION {history.of[a].unconfirmed : a \in ok}
     IN  \* one that an address has confirmed and another has not is either
         \E pending \in SUBSET seenPending :
           LET confirmed == seenConfirmed \ pending
               list == IF Cardinality(pending) >= TxLimit THEN {}
                       ELSE Newest(confirmed, TxLimit - Cardinality(pending))
           IN  /\ seenPending \ seenConfirmed \subseteq pending
               /\ history' = [history EXCEPT !.at = "done",
                    !.result = [list |-> list, status |-> Status,
                                confirmations |-> [t \in list |-> Confirmations(history.tip, Height(t))]]]
  /\ UNCHANGED <<chain, pool, firstPages>>

HistoryNext ==
  \/ \E t \in Txs : Enter(t) \/ Mine(t)
  \/ StartHistory \/ ReadTip \/ Finish
  \/ \E a \in Addresses : ReadFirstPage(a) \/ ReadNextPage(a) \/ PageFails(a) \/ PageExpires(a)

HistorySpec == HistoryInit /\ [][HistoryNext]_historyVars

-----------------------------------------------------------------------------

\* The pages of an address make one list without a gap, whatever was mined
\* between them and however old the first page is (fetchAddressTxsAllPages);
\* and no transaction is told more confirmations than it has
\* (calculateConfirmations).
HistoryHasNoGap ==
  /\ \A a \in Addresses : LET list == history.of[a].confirmed IN
       \E i \in 0..(Len(Confirmed(a)) - Len(list)) : list = SubSeq(Confirmed(a), i + 1, i + Len(list))
  /\ \A t \in history.result.list :
       history.result.confirmations[t] \in 0..(Len(chain) - Height(t) + 1)
=============================================================================

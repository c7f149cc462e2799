# Atlas in TLA+

Atlas is a self-hosted, watch-only Bitcoin wallet: a Fastify API
(`apps/api`), a Next.js page (`apps/web`) and a small Bitcoin library
(`packages/bitcoin`). This directory holds TLA+ models of it, TLC
configurations that check them on small instances, and proofs checked by TLAPS.

The models follow the code in `src/`, not its documentation. Where the code
and a document disagree, a run shows it, and `PROJECT.json` lists the finding.

## How to run

    tlc -workers 2 -config MCVaultStore.cfg MCVaultStore
    tlapm ReplaceFileProofs.tla

## The system

| Component | State it keeps | Operations | Talks to |
|---|---|---|---|
| Vault store (`vault/store.ts`, `vault/crypto.ts`) | `unlockedVault` (key and plaintext) and `lastActivityMs` in memory; `wallets.enc` and `wallets.enc.tmp` on disk | init, unlock, lock, add / update / delete wallet, notes, address and transaction labels | the file system, scrypt, the mempool lookups |
| File replacement (`writeVaultEnvelope`, `writeAuthRecord`) | a file and its `.tmp` | mkdir, open and truncate, write, rename | the file system |
| Account (`auth/routes.ts`, `auth/store.ts`, `auth/totp.ts`) | `auth.json` on disk | setup, repeated setup, TOTP verification, login, logout | argon2, sessions, the vault store (logout locks it) |
| Sessions (`auth/sessions.ts`, `auth/guard.ts`) | a Map of tokens | create, look up, delete, prune | every route |
| Attempt limiters (`auth/attempts.ts`, `vault/unlock-attempts.ts`) | a Map from key to count and lock | assert allowed, record failure, clear | login and unlock routes |
| Auto-lock timer (`vault/store.ts`) | none of its own | every 60 s, lock an inactive vault | the vault store |
| Labels and notes (`vault/labels.ts`) | lists in the wallet's record | write, delete, read back on unlock | the vault store |
| PSBT building (`psbt/build.ts`) | none | selection of UTXOs, fee, change | UTXO and usage lookups |
| PSBT verification and broadcast (`psbt/verify.ts`, `broadcast/`) | none | verify, broadcast, diagnose | Bitcoin Core RPC |
| Address lookups (`mempool/usage.ts`, `utxos.ts`, `transactions.ts`, `request.ts`) | a cache of address usage, 45 s, and one of first pages of transactions, 20 s | lookups with retry and bounded concurrency, gap discovery, balance, transactions page by page | the mempool backend |
| Fee estimates and price (`mempool/fees.ts`, `market/btc-krw.ts`) | the price cache and its one lookup in flight | first usable of several sources | mempool backend, Upbit |
| Import and QR (`vault/import-parser.ts`, `bbqr.ts`; `qr-classifier.ts` has no caller) | none | parse | addWallet |
| Web scanners (`apps/web/src/app/bbqr.ts`, `psbt-multipart.ts`) | frames collected so far | add a frame, assemble | the page |
| Web page (`phase-one-auth.tsx`) | React state: the form of a payment and its draft, the signed PSBT and its broadcast, the import form and its preview, the tabs | forms and fetches | every route |
| Runtime guards (`index.ts`, `security/`, `settings/`) | none | start-up checks, origin guard, headers | every route |

The API is one Node process with one event loop. A handler runs without
interruption between two awaits, and any other request, timer or answer may run
at an await. That is where the hard behaviour is:

- two saves, or a save and an init, in the file replacement at once;
- an unlock, login or setup that acts, after scrypt or argon2, on what it read
  before it;
- a logout, a lock or the timer while an unlock is on its way;
- a kill of the process at any step, and what the next start finds;
- writes that fail after memory has been changed;
- limiters that are asked before a slow check and told after it;
- answers of the mempool backend, Core and the price source that are late, lost
  or older than one already stored;
- scans of many addresses that overlap each other and the chain's growth;
- forms that stay open while a draft, a preview, a saved wallet or a code of them
  is under way.

What makes each part correct: `wallets.enc` and `auth.json` are always whole
and survive a kill; the open vault and the stored one agree; one password for
the life of a vault; an enrolled account stays; a session belongs to it; a
closed vault stays closed until it is opened again, and an open one is closed
when nobody uses it; guessing is limited. No address is offered that was
known to be used, no coin or fee is lost between selection and verdict, and what
the page shows is of what its form holds. The file `PROJECT.json` lists the hazards one
by one, at their lines, with the properties that cover them. Three have none: frames of two
PSBTs that fit together, a draft that arrives beside a changed form, and a picked
coin that is no longer listed. The code lets these happen, and what is checked is that the next
step refuses the first (`OnlyValidReachesCore`) and that the other two are the only
such cases besides one (`DraftIsOfTheForm`).

## Modules

| Module | Models | Used by |
|---|---|---|
| `ReplaceFile` | one file replaced through one `.tmp` by any number of writers | `VaultStore`, `AuthSetup` (INSTANCE) |
| `VaultDurable` | abstract: what the vault promises a client that waits for its answers | `VaultStore` (refinement) |
| `VaultStore` | `vault/store.ts` and `vault/crypto.ts` | |
| `AuthSetup` | `auth/routes.ts`, `auth/store.ts`, `auth/totp.ts` over `auth.json` | |
| `AttemptLimiter` | both attempt limiters, one key | `VaultAccess` (INSTANCE, twice) |
| `VaultAccess` | sessions, login, logout, unlock and init routes, auto-lock | |
| `MultipartPsbt` | the pNofM collector of `psbt-multipart.ts` | `SignedPsbtPanel` (EXTENDS) |
| `SignedPsbtPanel` | VerifyPsbtPanel of the page, the broadcast route and the RPC to Core | |
| `AddressUsage` | address usage, its cache, and the scans that read it (`mempool/usage.ts`, `request.ts`) | |
| `TransactionHistory` | the transactions of a wallet, page by page (`mempool/transactions.ts`) | |
| `PriceQuote` | the KRW price (`market/btc-krw.ts`) | |
| `FeeEstimates` | the fee sources (`mempool/fees.ts`) and the page's fee buttons | |
| `CoinSelection` | the arithmetic of `psbt/build.ts`, no variables | `Spending`, `SendPanel` (EXTENDS) |
| `Spending` | a payment: request, coins, draft, signature, verdict (`psbt/build.ts`, `psbt/verify.ts`, `packages/bitcoin`) | |
| `SendPanel` | CreatePsbtBuilderPanel of the page | |
| `BbqrCollector` | the BBqr collector of both `bbqr.ts`, no variables | `ImportForm` (EXTENDS) |
| `ImportParser` | the two parsers of an import, no variables | `ImportForm` (EXTENDS) |
| `ImportForm` | WalletCreateForm of the page, its preview, the wallets saved | |
| `LabelBook` | abstract: what the labels of a wallet promise | `WalletLabels` (refinement) |
| `WalletLabels` | label and note requests (`vault/routes.ts`, `vault/labels.ts`) | |
| `ArrayFilter` | `filter` of an array, no variables | `TransactionHistory`, `ImportForm`, `WalletLabels` (EXTENDS) |
| `WalletServices` | the services from `AddressUsage` to `WalletLabels` side by side, one of them running | `MCWalletServices`, `WalletProofs` (EXTENDS) |
| `ReplaceFileProofs`, `AttemptLimiterProofs` | theorems of `ReplaceFile` and `AttemptLimiter` | the next three (INSTANCE) |
| `VaultStoreProofs`, `AuthSetupProofs`, `VaultAccessProofs` | theorems of `VaultStore`, `AuthSetup`, `VaultAccess` | |
| `SignedPsbtPanelProofs` | theorems of `MultipartPsbt` and `SignedPsbtPanel` | |
| `LookupProofs` | theorems of `PriceQuote`, `FeeEstimates`, `AddressUsage`, `TransactionHistory` | `WalletProofs` (EXTENDS) |
| `WalletProofs` | theorems of `SendPanel`, `CoinSelection` and `Spending`, `ImportParser` and `ImportForm`, `BbqrCollector`, `WalletLabels`, `WalletServices` | |
| `MC*` | instances for TLC | |

**ReplaceFile.** `main` and `temp` are the inodes the two paths name; `writer`
is, for each call, the step it has reached, its text and its descriptor. A
rename moves the inode and not the text, so a writer that still has it open
writes on into the file itself: that is how overlapping saves damage it. A text
is whole when nothing is missing and nothing follows it (`Intact`), which is
what `JSON.parse` accepts. `overlapped` is a history variable: two writers have
had `.tmp` open between their open and their rename.

**VaultStore.** `vault` is `unlockedVault`. A request is `init` or `unlock`
(between the existence check or the read, and the end) or `save`. A mutation
changes the plaintext, encrypts it and starts the write in one step, because
the code awaits nothing in between; `writeVaultEnvelope` is ReplaceFile with
the request as writer. A wallet is in one of a few forms; `Normal` is
`normalizeWalletRecord`, applied on unlock. Keys are named by their passwords:
the salt goes with the envelope. `lastSave` is a history variable with the fate
of the newest save, `twoInits` another.

**AuthSetup.** The same for `auth.json`. A user stands for a name with its
password. The TOTP code is right when the client has been shown the QR of the
record the handler read (`shown`). Each handler is split at argon2.

**AttemptLimiter.** `count` and `lockLeft` are the record; `checking` are the
requests between the question and the outcome; `burst` and `wasLocked` are
history.

**VaultAccess.** Time is counted in periods of the timer. `life` are the
sessions, `idle` is the time since `lastActivityMs`, `due` says that the timer's
callback is to run. `late` and `leaked` are history: which unlocks were under way
at the last logout. What the vault holds is left to VaultStore.

**MultipartPsbt, SignedPsbtPanel.** A PSBT is named, its fragments are named
by the PSBT they were cut from, and a text is the sequence of its fragments, so
that a mixture of two PSBTs is a text that is not valid. `text` is the box,
`shown` the verification on the page with the text it is of, `verifying` the
texts whose verification is under way (two of the same text are one).
`requests` are the broadcasts: at the server, at Core, or answered; a broadcast
is no longer `heard` when the dialog is closed or the connection lost, and goes
on all the same. Core may take a transaction whose answer does not come
through. `verifyPsbt` is the set `ValidPsbts`; an expected value that differs,
a locked vault and a missing session are `ServerRefuses` and `VerifyFailed`.
`crossed` and `unseen` are history. UR parts are handled like frames and are not
modelled again: their decoder is a library.

**AddressUsage.** One branch of a wallet, and any number of scans over it: the
next receive address (`next`), the balance (`prefix`, then `balance` of the
addresses checked) and the change address (`change`). A discovery has one lookup
at a time, the others as many as there are workers. A lookup may be answered
with what mempool read at any moment since the attempt began; each scan runs on
without interruption until it waits (`Idle`), as a handler does. `usedAt` is when
an address came into use; a scan remembers which were in use long before it
began (`long`, history), longer than the cache keeps an answer and an answer may
take.

**TransactionHistory.** `chain` and `pool` are mempool's; a block holds one
transaction, which makes heights and places the same. `firstPages` is `txCache`,
which expires at any moment. The addresses of a wallet are read in any order,
which includes four at a time.

**PriceQuote, FeeEstimates.** A price is known by when it was read, so that its
age can be told. Fees are in thousandths of a sat, the precision the code rounds
to; the two paths of mempool's info are one.

**CoinSelection, Spending.** Sizes, fees and dust with the numbers of the code; a fee
rate is a fraction, and `Math.ceil` the division that rounds up. Coins confirm
and are spent elsewhere until the draft is made, and lookups fail for any of
their addresses. The verdict is on the PSBT that was built, signed or not, with
any choice of the expected values filled in.

**SendPanel.** The form holds rows as they parse; `drafting` is the request and
its result, `pictures` the code shown and those being drawn. The two animated
codes are one. `late` is history: what changed after the form of the draft was
sent, or that one single code was drawn while another was.

**ImportParser, ImportForm.** A text is a record: the kind its first pattern gives
it and what the pattern captures; of a JSON text, for each field, the keys it holds by
name and the paths written for it. Page and API parse each for themselves, and JSON
as two readers of it (`Web`, `Server`): the API looks at more fields, at `zpub`
before `ypub`, at `desc` last, and passes over a path of blanks and trims one, where the page
does not. `ReadAlike` are the texts for which that makes no difference. `asked` are the previews under way, each with
whether the effect that asked is over (`cancelled`). `book` is the vault with,
for each wallet, what was previewed when it was saved; an older Atlas's wallet is
there to begin with. An account (key, script type, coin, path) stands for its
addresses.

**WalletLabels.** The three kinds of labels of one wallet as the lists the code
keeps. A text is what is told of it: empty, too long, secret. `Book` maps each
thing to the first entry of it in the lists, and the last request to the
answer of `LabelBook`.

**WalletServices** puts eight of these side by side, which share no state: one
runs, chosen at the start, and the others stay. Their state spaces add up.
`MCWalletServices` gives each a small instance.

Definitions introduced by a comment that begins with "Mutant" are changed
versions of the action below them; no specification uses them. They record that
each checked property fails when the code is changed that way.

## Runs

| Run | Instance | Result |
|---|---|---|
| `replace_file` | 3 writers, 2 texts of different length, 4 inodes | passes, about 100 000 states |
| `vault_store` | 2 requests, 2 passwords, 1 wallet in 3 forms, 3 inodes | passes, about 480 000 states |
| `vault_alone` | 1 request, 2 wallets | passes, about 10 000 states; refinement of VaultDurable |
| `auth_setup` | 2 requests, 2 users, 3 secrets, 3 inodes | passes, about 12 000 states |
| `attempt_limiter` | 3 requests, limit 3, lock of 2 ticks | passes, 214 states |
| `vault_access` | 2 requests, 1 session, limit 2, auto-lock after 1 tick | passes, about 310 000 states, with liveness |
| `logout_locks` | as `vault_access` | violation: an unlock in flight opens the vault after a logout |
| `auto_lock` | as `vault_access` | violation: the timer locks a vault just opened |
| `signed_psbt` | 3 PSBTs of 2, 2 and 1 frames, 1 of them valid, 2 verifications, 1 broadcast | passes, about 410 000 states, with liveness |
| `broadcast_sends` | as `signed_psbt`, 2 of them valid | violation: what is sent is not what was verified and confirmed |
| `wallet_services` | eight services, one at a time; see below | passes, about 580 000 states; refinement of LabelBook |

Bounds. Three writers are enough for each pair of the steps open, write and
rename to interleave with a third call; two texts of different length are
enough for a short one to land on a long one. There must be one inode more than
writers: the file's own, and one for each writer that may hold one. Two
requests on the vault are enough for every hazard listed, which are races of
two; three wallet forms give one that is upgraded and two that can be told
apart. In the limiter, three requests against a limit of three let the last
failures come during the lock. Ages in VaultAccess are capped one above the
limit, where the code makes no difference any more. In the panel two PSBTs of
two frames give conflicts and mixtures, one of another size gives mismatches,
and two verifications let one answer overtake another; one broadcast at a time meets every edit, verification
and closing of the dialog, and two at Core at once are left out.

Bounds of `wallet_services`:

- usage: three addresses, one of the first two used long ago, one more comes into
  use, a gap of two, two workers, one fault, and three ticks of time against a
  cache and a time-out of one each; a discovery or a balance beside a change scan, so that
  they share answers;
- history: three transactions, one of them of two addresses, one transaction to a page,
  two pages, a list of two: pages overlap, are cut, and are older than the tip;
- price: two callers, a cache of three ticks, a time-out of two, seven ticks;
- fees: presets that rise and fall, with gaps; up to three projected blocks that are
  empty, nearly full and full;
- spending: two coins of 1 400 and one of 60 000 sats, in any state; recipients
  from none to two, dust, to the wallet itself, twice to one address; rates of 0, 1, 1.5
  and 101; all four script types;
- payment form: two rows, one coin, three changes, two drafts;
- import form: each kind of text, keys of three script types and both networks, JSON texts
  that the two parsers read differently (a field of two keys, a descriptor beside
  another field, a path of blanks before a padded one), five frames of two sets, one of them in conflict and one that is none; two changes of the form;
- labels: two addresses and one invalid one, one transaction id in two spellings.

Two changes of the import form are enough for a preview to be overtaken, and
three of the payment form for a row, a rate and a coin; two drafts let the
second overtake the codes of the first. The spending numbers are chosen so that
change is none, dust and more, and that one, two and three coins are needed.

Symmetry is used only in runs without liveness properties.

Deadlock is checked in every run but `wallet_services`, where scans end, time
ends, and the changes of a form are bounded.

Fairness. `AttemptLimiter` and `VaultAccess` assume that time passes
(`WF(Tick)`), and `VaultAccess` that the event loop serves a timer that is due
(`WF(TimerFires)`): `setInterval` with no condition, and no handler that blocks
the loop for good. `SignedPsbtPanel` assumes that the server goes on with a
broadcast (`WF(ServerVerifies)`: no lock is waited for), that the timer of
`callCoreRpc` fires (`WF(TimesOut)`, set before every request), and that an
answer reaches the page or the browser reports a lost connection
(`WF(BroadcastAnswered)`). Nothing is assumed of users, of the disk, of Core or
of verifications.

Liveness is checked for `LockEnds` (every lock ends, although failures in
flight start it again) and `UnusedVaultLocks` (a vault nobody uses gets locked,
whatever sessions and unlocks do), and `BroadcastEnds` (the button does not stay
on "Broadcasting...").

## What the runs showed

- **Overlapping saves.** Saves are not queued and share one temporary path.
  Without overlap every property of the file holds and is proved
  (`IntactUnlessOverlapped`). With overlap `wallets.enc` may be left as no text that
  was saved, and a kill then makes the loss permanent. No document promises
  otherwise, so this is the stated exception of the properties and no finding.
- **Memory and disk.** `OpenVaultIsStored` lists all the ways the open vault
  and the stored one can part: the newest save failed, an older envelope was
  renamed over it, an unlock or init in flight replaced the plaintext, or
  writers overlapped.
- **Logout.** Unlocks and inits in flight are not told of a logout.
- **Auto-lock.** Opening the vault does not count as activity.
- **Guessing.** The limit of five is a limit for one request at a time; with n
  at once it is 4 + n, between two locks. After a lock the count stays, so each
  further wrong password locks again.
- **Broadcast.** The box stays open while a verification is in flight, and a
  late answer is shown beside another text; confirming on it sends the other
  text. If no text changes while a request is in flight, what is sent is what
  was verified. In any case the route verifies again: only valid texts reach
  Core.
- **Usage.** Overlapping lookups may store an older answer over a newer one; the
  answer stored is never older than cache and time-out together. A discovery that
  says it is complete ended on a gap of addresses none of which had been in use that
  long, whatever lookups failed on the way. If none failed it missed no address before
  that gap; with a failed one it says so.
- **Transactions.** Pages asked for by the last transaction seen leave no gap
  whatever is mined between them. A tip older than a block gives no confirmations.
- **Price.** The age of a price counts from the request, so cache and time-out do not
  add up.
- **Payments.** Money is conserved and no change is dust. Coins selected for several
  recipients are sized for two outputs, so such a payment may pay less than the rate
  asked for. A payment to several outside addresses always verifies with a
  warning, and one that pays an address twice may verify as invalid against its own
  recipients.
- **Payment form.** A draft that arrives late is shown beside a changed form;
  clearing the selection, or a list of coins that lacks some, leaves the draft of
  the old selection; a single code drawn late replaces that of a newer draft. Apart from these
  three, which `DraftIsOfTheForm` names, the draft and its codes are of the form.
- **Import.** No late preview is shown: the address and path shown are always those that
  saving the form would store, and the wallet derives them, also after an unlock.
  Of some JSON texts the page and the API read another key or path, so the form
  names one account while another is previewed and saved. The preview tells the
  truth then; `PreviewIsOfTheForm` holds of the form only for texts that are `ReadAlike`.
- **Timed out.** "Unavailable" and "rejected" do not mean that Core has not
  taken the transaction; "accepted" does mean that it has.

## Proofs

TLAPS checks, for every value of the constants:

| Theorem | Statement |
|---|---|
| `FileTypeCorrect` | `FileSpec => []FileTypeOK` |
| `FileIntact` | `FileSpec => []IntactUnlessOverlapped` |
| `FileRenameFinds` | `FileSpec => []RenameNeverMissing` |
| `FileNeverUnlinked` | `FileSpec => NeverUnlinked` |
| `FileReplacedAtomically` | `FileSpec => ReplacedAtomically` |
| `LimiterTypeCorrect` | `LimiterSpec => []LimiterTypeOK` |
| `LimiterBounds` | `LimiterSpec => []BurstBounded` |
| `LimiterRelocks` | `LimiterSpec => []NoFreshAllowance` |
| `CollectorType` | `MultipartSpec => []MultipartTypeOK` |
| `CollectorKeepsFrames` | `MultipartSpec => CapturedStays` |
| `PanelCollects` | `Spec => MultipartSpec` (of SignedPsbtPanel) |
| `PanelKeepsFrames` | `Spec => CapturedStays` |
| `CoreTakesOnlyValid` | `Spec => []OnlyValidReachesCore` |
| `PanelTypeCorrect`, `PanelSendsVerified`, `PanelOutcomeIsTrue` | `Spec => []` `TypeOK`, `SendsWhatWasVerifiedUnlessCrossed`, `OutcomeIsTrue` (of SignedPsbtPanel) |
| `StoreTypeCorrect`, `StoreOpenVaultIsStored` | `Spec => []` `TypeOK`, `OpenVaultIsStored` (of VaultStore) |
| `WalletsEncIntact` | `Spec => []File!IntactUnlessOverlapped` (of VaultStore) |
| `StorePasswordStable` | `Spec => PasswordStable` |
| `AloneWalletsEncPersists` | `Alone` implies `Spec => []WalletsEncPersists` |
| `StoreImplementsDurable` | `Alone` implies `Spec => ImplementsDurable` |
| `AuthTypeCorrect`, `AuthShownIsStored`, `AuthSessionsEnrolled` | `Spec => []` `TypeOK`, `ShownIsStored`, `SessionsEnrolled` (of AuthSetup) |
| `AuthEnrolledStays` | `Spec => EnrolledStays` |
| `AccessTypeCorrect`, `AccessNeverIdleBeyondLimit` | `Spec => []` `TypeOK`, `NeverIdleBeyondLimit` (of VaultAccess) |
| `AccessBursts` | `Spec => []Logins!BurstBounded /\ []Unlocks!BurstBounded` |
| `PriceTypeCorrect`, `PriceToldIsRecent` | `PriceSpec => []` `PriceTypeOK`, `PriceIsRecent` |
| `FeesTypeCorrect`, `FeesAlwaysFall` | `FeesSpec => []` `FeesTypeOK`, `FeesFall` |
| `HistoryTypeCorrect`, `HistoryNoGap` | `HistorySpec => []` `HistoryTypeOK`, `HistoryHasNoGap` |
| `UsageTypeCorrect`, `UsageCacheIsRecent`, `UsageScansAreSound` | `UsageSpec => []` `UsageTypeOK`, `CacheIsRecent`, `ScansAreSound` |
| `SendTypeCorrect`, `PanelDraftIsOfTheForm` | `SendSpec => []` `SendTypeOK`, `DraftIsOfTheForm` |
| `SpendTypeCorrect`, `SpendBuiltPays`, `SpendOwnVerifies` | `SpendSpec => []` `SpendTypeOK`, `BuiltPsbtPays`, `OwnPsbtVerifies` |
| `ImportTypeCorrect`, `ImportPreviewIsOfTheForm`, `ImportIsAsPreviewed` | `ImportSpec => []` `ImportTypeOK`, `PreviewIsOfTheForm`, `WalletIsAsPreviewed` |
| `ImportFramesStay` | `ImportSpec => FramesStay` |
| `LabelsTypeCorrect`, `LabelsImplementBook` | `LabelsSpec => []LabelsTypeOK`, `LabelsSpec => LabelsAreABook` |
| `ServicesAreApart` | `ServicesSpec` implies `UsageSpec`, `HistorySpec`, ... `LabelsSpec` |
| `ServicesTypeCorrect` | `ServicesSpec => []ServicesTypeOK` |

The file. `IntactUnlessOverlapped` is not inductive: the file is whole after a
rename only because what `.tmp` names is whole, which is so only because nobody
else wrote there. `FileInv` adds that: as long as no overlap has happened, at
most one writer is between open and rename; it holds the inode `.tmp` names,
which is empty before the write and its own text after it (`Exclusive`,
`Holds`); the two paths never name one inode (`Apart`). The assumption is that
texts have positive length. No bound on writers, texts or inodes is used.

The limiter. While the key is unlocked the burst is the count, below the limit;
once it is locked no check begins, so each failure uses up one request in
flight and burst plus requests in flight does not grow (`Locked`). The
assumptions are a finite set of requests, a positive limit and a positive lock.

The vault store. Its actions are written with those of ReplaceFile on `wallets.enc`
or leave the file alone (`StepOfFile`, which says nothing about the code), so that
`FileInv` holds of the store too and is not proved again. `StoreInv` adds what a request holds while it
writes. `PasswordStable` needs `KeyInv`: unless two inits were both past the
existence check, everything on disk, in memory and on its way is under one
password, and before there is a file nobody but one init is about. It cannot be
weaker: a save or an unlock that still carries another password would put it in
place later. `OpenVaultIsStored` needs `SyncInv`: a pending newest save carries
the open vault (`Pending`), a stored one has left a file that is up to date
(`InPlace`), and open records have the forms of this version (`CurrentForms`),
without which an upgrade on the next unlock would change them.

The last two theorems of the store are of one client that waits for its answers:
`Alone` says that there is one request. That is a hypothesis of the theorems and no
assumption of the module; overlapping saves break the first. `AloneInv` says that nothing overlaps and that what the request
has read or put in place is what the file holds. The refinement of VaultDurable is then
proved action by action: the rename and a crash after it are the steps that
matter, all before them stutter.

The account. `SetupInv` says that unless two setups were past the existence check
together or two writers overlapped, all that there is of an account, on disk, in
requests, shown and signed in, is of one user and one secret (`OneAccount`), that
before the file nobody but one setup is about, and that what a login or a session
goes by is enabled on disk (`AfterFile`). The three properties follow.

Access. `VaultAccess` uses the limiter twice; its steps are steps of each, so
`LimiterInv` is reused and gives the bound of both. `NeverIdleBeyondLimit` is
inductive with `TypeOK`.

The panel. Its steps empty the collector, capture a frame or leave it alone, so
it implements the collector by itself (`PanelCollects`) and inherits what is
proved of that. `OnlyValidReachesCore` needs what is on its way: a request that
is at Core has a valid text (`WayToCore`). The other two need `PanelInv`: unless
crossed, all that is on the page or on its way to it is of the text in the box, and an
answer "accepted" is of a text in the mempool from the moment it is on its way.
The assumptions are that every PSBT is cut into at least one frame and that a
missing frame is no PSBT.

Price, fees, usage. `PriceInv` bounds, for the cache and for the lookup in flight,
when the price was read and since when its age counts. `FeesInv` says that the
estimates are none, or of a source and in order; the medians of projected blocks
are put in order by `Falling`, whatever they are. `UsageInv` says what an answer on
its way, an entry of the cache and each kind of scan have seen: an attempt says
what was so when it began or later, an entry what was so no longer ago than it is old
and its attempt took, and a discovery has seen every address below its cursor.

The transactions. `HistoryHasNoGap` speaks of what the request holds; `HistoryInv` adds
that each first page in the cache is a part of the address's list without a gap
(`PartOf`), and that this list is ordered by height, newest first (`Ordered`). A block
goes on its front (`ConfirmedGrows`), so a part stays one, only further back
(`PartStays`). What is older than the last of a part is then what comes behind it
(`KeptTail`), so the page after it begins where the part ends, and nothing on it was there
before (`TurnedIs`). A page reads as many as `PageSize`, at least one; the list read so
far is not empty while more is asked for, which is why there is a last one. The tip is no
higher than the chain, so no confirmation is told that is not there.

The payment form. `SendInv` extends `DraftIsOfTheForm` to what is on its way: a
draft being made is of the form as it was asked, every code being drawn is of the draft
or cancelled, unless late.

Payments. The sums over recipients and coins are recursive functions and folds.
That a sum is a number, or that adding a recipient adds its amount, is proved by
the least number for which it fails (`LeastNatural`), so no induction theorem is
needed. `Funded` is the invariant of a plan: inputs are outputs and fee, the fee
is that of the size and at most dust above it, change is none or no dust. It is
proved of a selection by hand and by size, and kept through building and signing; the
verdict is then a matter of which outputs are the wallet's own.

Import. `ParsersAgree` says that on every text of the model that is `ReadAlike` the API's
parser makes, of what the page sends, the account the page shows; it goes through
the fields in their order, of which the page's are the first of the API's
(`SameCandidate`). `ImportInv` says that a preview shown is of what the form would send
now, that one being answered is too unless its effect is over, that what is being saved
is what was previewed, and that every wallet saved is settled: reading it again on unlock changes nothing
(`SettledStays`). Wallets of older versions are brought in by the first unlock
(`OlderSettle`), under `OlderWalletsAssumption`: an older wallet was shown by the names of
its time and derives the same by the names of today. Proving this showed that the
cases of `Detected` in ImportParser overlapped for a text without a key; they
are now told apart in the order of the code.

Labels. No two entries of a list are of one thing and every entry is valid
(`LabelsInv`), so taking one out and appending another writes on one page
(`PageWritten`), and reading the lists back drops nothing. What a filter keeps of a
list is proved by the least length, as the sums are. Addresses, transactions and the
wallet are different things (`LabelsAssumption` gives them records of different
fields).

The services side by side. No service touches the state of another, so each one's
specification follows from the composed one (`ServicesAreApart`), and what is proved of
each holds of what the run `wallet_services` checks. `ImportTypeCorrect` needs
`TextsAssumption`: a text names a script type or none.

Only model-checked: liveness under fairness (`LockEnds`, `UnusedVaultLocks`,
`BroadcastEnds`), which the prover cannot express. Every other property of a passing run is a
theorem. The models hold no `RECURSIVE` operator; what a recursive function gives for a
list (`Kept`, `Confirmed`, the sums) is proved by the least length for which it fails.

## Not modelled

- The text of requests, answers, labels and notes. A pattern of an import is what it captures.
- Derivation of addresses and the encoding of PSBTs, frames and codes.
- Query strings of the requests that only read, the tabs of the page that load and
  show wallet data, its settings and sign-in forms, the RPC's diagnosis.
- `qr-classifier.ts` of the API, which only its tests call.
- Cryptography: a wrong key is refused, a right one opens, no more.
- `readFile` is one step. Without overlap the inode a reader has open never
  changes, so nothing is lost; with overlap the model shows fewer torn reads
  than there are.
- fsync and power loss: the code does not call fsync; a crash here is the end
  of the process, and the file system keeps what was written.
- The rate-limit plugin, CORS, headers and start-up checks.

## Plan

1. Done: the vault on disk and in memory, the account, who may open the vault.
2. Done: the signed PSBT from the scanner to Core (`SignedPsbtPanel`).
3. Done: spending (`CoinSelection`, `Spending`, `SendPanel`).
4. Done: lookups (`AddressUsage`, `TransactionHistory`, `PriceQuote`, `FeeEstimates`).
5. Done: importing (`BbqrCollector`, `ImportParser`, `ImportForm`) and labels
   (`WalletLabels`, `LabelBook`).
6. Done: proofs of all safety properties of the passing runs.
7. Left for later: the tabs that load wallet data across a change of wallet and a
   logout, whose late answers are not told apart by the page.

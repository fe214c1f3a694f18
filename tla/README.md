# Mintlayer Nexus in TLA+

Specifications of Mintlayer Nexus (this repository): the web GUI in `src/app`, with
its pages and the routes behind them; the `feature-enabler` sidecar, which applies
requests with docker compose; the `bdk-wallet` Bitcoin sidecar; and the installer.
Paths below are relative to the repository; those that begin with `lib/`, `api/` or
`components/` are under `src/app/src/` (`api/` under its `pages/`).

The modules are written from the code. `PROJECT.json` maps each definition to the
lines it models, and lists the components, the runs, the mutated forms that show what
each property catches, the findings, the hazards and the theorems.

## 1. Inventory of the system

| Component | State it keeps | Operations | Talks to |
|---|---|---|---|
| Step-up (TOTP): `lib/step-up.ts`, `lib/auth.ts` | in memory: burnt codes, failures per key; pref `auth.totp_secret` | verify and burn a code, throttle, reset 2FA | login, every sensitive handler, Telegram bot |
| Sessions: `middleware.ts`, `login.astro`, `lib/auth.ts`, `lib/password-change.ts`, `api/logout.ts`, `api/passkey/*` | prefs `auth.session_version`, `auth.password_hash`; the token is stateless | log in, verify, roll forward, log out, change password, rehash | every request |
| Limiters: `lib/auth.ts`, `lib/password-change.ts` | in memory: a counter per address | test, record | login, password change, wallet unlock |
| First run: `login.astro`, `setup.astro` | prefs: pending secret, hash, token, time; uploaded file | stage, confirm, start over; create, import, upload the wallet | prefs, wallet daemon, Bitcoin sidecar |
| Passkeys: `lib/passkey.ts`, `api/passkey/*` | prefs: credentials; in memory: challenges | options, enrol, sign in, remove | prefs, step-up |
| Feature queue: `lib/feature-requests.ts`, `api/features/*`, `api/update-check.ts` | files `<service>.req`, `.req.lock`, `.result` | pending?, queue, read the result | enabler, by files only |
| Enabler: `feature-enabler/enabler.sh` | the same files, `.env` of the install, containers | claim, apply (upgrade, rollback, enable, disable), answer, expire, recover | docker |
| Update check: `lib/update-check.ts`, `lib/update-prefs.ts` | cache of the release feed; prefs | check, auto-install | GitHub, feature queue |
| Plugins: `lib/plugins.ts`, `api/plugins/*` | directories, registry file, prefs, generations, module cache | install, uninstall, toggle, serve a page | disk, Node's loader |
| Telegram bot: `lib/telegram-*.ts` | settings; in the loop: offset, last state | poll, commands, alerts | Telegram, wallet RPC, step-up |
| Wallet RPC: `lib/wallet-rpc.ts`, `api/send.ts`, `api/stake-trade.ts`, `api/token-manage.ts`, ... | none of its own | batches of wallet calls under one code | wallet daemon |
| Wallet file: `lib/wallet-recovery.ts`, `management/wallet.astro` | the wallet's file, and the one being scanned | open, close, import a seed phrase | wallet daemon |
| Toasts: `lib/txWatcher.ts`, `lib/toastStore.ts`, `api/block-stream.ts` | browser: watchers, one event stream, toasts | watch, settle, time out, ask again | wallet daemon's events, indexer |
| Trading, NFT and token pages: `components/OrderBook.tsx`, `NFTMarketplace.tsx`, `TokenSearch.tsx`, `IssuedTokensPanel.tsx`, ... | browser: lists and forms; one pref; localStorage | load, select, submit, remember | routes above, indexer |
| Bridge: `components/BridgePanel.tsx`, `lib/bridge-sdk/*`, `lib/evm.ts` | browser: the form, one tracked request | connect, fill in, submit, poll, resume | bridge backend, wallet extension |
| Bitcoin pages: `components/BitcoinWallet.tsx`, `api/bitcoin/*` | browser: the form, the words once | create, restore, link, back up, send | Bitcoin sidecar, wallet daemon |
| Bitcoin sidecar: `bdk-wallet/src/main.rs` | seed file, database, wallet under a lock, syncing flag | create, boot, sync with guard and retry, send | bitcoind |
| Installer: `deploy/linux.sh`, `init.sh`, `tools/uninstall.sh` | `.env` and backups, prefs database, stack, firewall | install, rerun, uninstall | docker, operator |

How they interact: handlers of one Node process interleave at `await`s and share the
prefs database and module-level maps; the web side and the enabler share a directory
of files, without a lock; the enabler restarts the web container it serves; a page
and its routes exchange requests whose answers may be late, out of order or lost; the
wallet daemons carry a call out even when nobody waits for it any more; any container
may stop between two writes. SQLite calls and the parts of a handler between two
awaits are atomic, which fixes the grain of the models.

What makes each part correct, and what is hard about it, is listed as hazards in
`PROJECT.json`, each at its line; the properties answer to that list.

## 2. What is modelled

### The four detailed parts with specifications of their own

**`StepUp` - one-time codes.** `verifyAndBurnTotpCode` is synchronous, so one call is one
step. Its four answers are four actions (`AnswerLocked`, `AnswerUsed`, `AnswerInvalid`,
`AnswerOk`), each including the two prunes at the top of the call. `usedCodes` and
`totpFailures` are the two maps of the file; a burnt code is the pair of code and period.
Time is counted in ticks, `PeriodTicks` to a 30 s period. `CodeOf` stands for HOTP and is
a constant operator. `Reset2fa` replaces the secret and clears nothing, as the endpoint
does; `Restart` empties both maps. A login reads the secret before it awaits the form, so
a call may verify against any secret since the process started (`Held`). `accepted`,
`failures`, `guesses` and `passes` are observers that only properties read: what was
accepted, a key's checked guesses since its last success (which deletes its entry), all of
its checked guesses of the last window, and its successes there.

**`Sessions`, `SessionAuthority` - web sessions.** A request is a record in `req[h]`;
`at` is the await it stands at, the other fields are what it read before. `LoginStart`
reads version and hash together; `LoginDone`/`LoginRehash` use them later. `PageStart`
is the middleware up to `next()`, `PageRollsForward` its tail with the second look at
the version; `ResolvePasswordChange` and `ApplyPasswordChange` are the two halves of a
change. Tokens carry two history fields, the version their owner authenticated under
(`born`) and how (`via`). `CrashMidChange` stops the process between the two writes of
`applyPasswordChange`. `SessionAuthority` is the promise without versions and clocks:
sessions are granted, live, are retired, and never live again; `Sessions!Authority` is
the refinement mapping (live: the tokens that verify now).

**`FeatureQueue`, `RequestLedger` - the file queue.** A file holds the number of its
request, 0 is no file. Every file operation of either side is a step: on the web side two
`stat`s (`StatReq`, `StatLock`), a result read and a `link`; in the sidecar the expanded
glob (`Scan`), the rename to `.lock` (`Claim`), the result, the removal of the lock
(before the result where the payload cannot be read, `DropUnread`), and
`recover_stale_locks` with its test and its rename apart. All four manual handlers have
the same shape and are one kind; auto-install and status polls are the other two.
`RequestLedger` is the promise: an accepted request waits, runs alone, and ends finished
or superseded.

**`EnablerUpgrade` - upgrade and rollback.** `apply_upgrade` and `apply_rollback`, one
action per `.env` write, pull and compose command. `pin`, `anchor`, `core`,
`coreAnchor` and `managed` are keys of `.env`; `running` is what the containers run;
`local` the images on the host. `Retry` is the effect of `recover_stale_locks` here:
the same request from its beginning. The host operator may repin an image or the core
between requests.

### The other parts

| Module | Code | State and steps |
|---|---|---|
| `EnablerStacks` | `enabler.sh` (`apply_request`), `api/features/enable.ts`, `disable.ts` | Flags, settings, `COMPOSE_PROFILES` and database password of `.env` as one record written key by key; the job under way is a request and a position in its list of commands (`Steps`); a stack is the settings its containers were created with; each command may fail; a half-applied request may expire. |
| `FirstRun` | `login.astro`, first-run branch | The four pending rows and the two final ones; staging a password awaits its hash, so a post is begun and finished in two steps; a crash tears the writes of either step. |
| `Passkeys` | `lib/passkey.ts`, `api/passkey/*` | Challenges with purpose and expiry, the cookie that binds one to a browser, the list that a request read before its await. |
| `Throttles` | `lib/auth.ts`, `lib/password-change.ts`, `login.astro`, `management/wallet.astro` | One address's entry; a request holds the time its test passed until its guess is judged. |
| `UpdateCheck` | `lib/update-check.ts`, `lib/update-prefs.ts`, `api/update-check.ts`, `api/features/upgrade.ts`, `rollback.ts` | A GET filters the feed (`Kept`), caps what is left (`Applicable`) and goes through the last result, the two stats and the link; the user upgrades, rolls back and changes preferences; the feed gains and loses releases; the sidecar deploys or fails. |
| `Plugins` | `lib/plugins.ts`, `api/plugins/*`, `plugins/[plugin]` | Disk, registry, pref, generation, `_cache` and Node's module cache; the writes an install has left; page requests that await an import. |
| `TelegramBot` | `lib/telegram-bot.ts`, `telegram-commands.ts`, `api/settings/telegram.ts` | Two bots' queues with their offsets, the loop and the settings it has read, handlers past their first await; burnt codes, and the end of the burn of a code that was brought before its period. |
| `TelegramAlerts` | `lib/telegram-notifications.ts` | A tick takes five values, each from its start or its end, against the state of the tick before. |
| `Installer` | `deploy/linux.sh`, `init.sh`, `tools/uninstall.sh` | A run goes through its stages; operator, failing command or machine may stop it between any two; each run makes new credentials, numbered by it. The copy of `.env` may fail and the script go on. |
| `BtcSidecar` | `bdk-wallet/src/main.rs` | Seed file, database, `AppState`; creates, split at their blocking tasks; the background sync, its prune guard, probe and sleeping retries; stops, seed files that cannot be written or not even opened, lost clients. |
| `BtcSend` | `main.rs` (`send`), `lib/bitcoin-wallet.ts`, `api/bitcoin/send.ts`, `BitcoinWallet.tsx` | Up to three attempts at one payment, each with its 60 s patience, against the scan that holds the same lock; the user retries by the rule the page gives. |
| `BtcSetup` | `BitcoinWallet.tsx`, `SeedBackupStep.tsx`, `api/bitcoin/wallet.ts`, `link-seed.ts` | The page's steps, its overview fetches (own and other), a link that unlocks the Mintlayer keys and locks them again; a create in two steps, between which another is refused. |
| `TxToast` | `lib/txWatcher.ts`, `lib/toastStore.ts`, `api/block-stream.ts`, `api/tx-status.ts` | Chain, event stream, watchers, escalation timers, status answers under way. |
| `WalletFile` | `lib/wallet-recovery.ts`, `management/wallet.astro`, `api/wallet-open.ts` | Files are numbered, the wallet's path and the `.recover` path name one each, the daemon has one open. |
| `WalletSubmit` | the panels' submissions, `api/send.ts`, `stake-trade.ts`, `token-manage.ts`, `bridge/ml-intent-tx.ts`, `transaction-abandon.ts`, `lib/wallet-rpc.ts` | A code, the end of its burn, the batch it authorises, and calls the daemon still holds after their caller gave up. |
| `OpForms` | the same panels and routes, `lib/decimal.ts`, `lib/validation.ts` | What a form checks, what its route checks, where the code is burnt, and what the daemon can decode: places, and numbers up to `Largest`. |
| `OrderBookPage` | `components/OrderBook.tsx` | Selected and typed pair, numbered loads that answer in any order, what the order form has copied from a row, an order being sent. |
| `Favourites` | `components/TokenSearch.tsx`, `OrderBook.tsx`, `api/prefs.ts` | The stored list, the page's ref and drawn list, the mount read, writes that arrive in any order and answers that are lost, an import, the trading page's merge. |
| `Bridge` | `components/BridgePanel.tsx`, `lib/bridge-sdk/progress.ts`, `bridge-history.ts` | Submissions in both directions, the one record in localStorage and what the page tracks of it, other tabs, a storage and a wallet that fail, polls under way, the history, the backend. |
| `BridgeForm` | `components/BridgePanel.tsx`, `lib/evm.ts` | The form, what lands in it after awaits (account, balances, addresses, suggestions), and what a submission captured; caps that `parseUnits` refuses (`Fine`), and pairs of amounts that are one double (`Alike`). |
| `IssuedTokens` | `components/IssuedTokensPanel.tsx`, `api/scan-issued-tokens.ts`, `token-authority.ts`, `lib/indexer.ts` | Rows, live data, failed marks, and up to four fetches, each with what it read when it began. |
| `NftMarket` | `components/NFTMarketplace.tsx`, `OwnedNFTsPanel.tsx` | Two lists, overlapping loads of orders and of token data, trades and their optimistic marks. |
| `IssueForms` | `components/IssueNFTModal.tsx`, `IssueTokenModal.tsx`, `api/ipfs-upload.ts` | The files of a form with digest, address and what is on its way; a submission with its own uploads and the form it was made of. |
| `WalletSetup` | `pages/setup.astro`, `lib/bitcoin-wallet.ts`, `lib/wallet-rpc.ts` | Two posts that create, import or upload, the daemon's slot, the uploaded file, the sidecar's phrase; words shown, words lost on the way. |

### How the parts compose

`FeatureQueue` abstracts a request's work to "ends well or not"; `EnablerUpgrade` and
`EnablerStacks` are that work, and their `Crash`/`Retry` are the queue's crash and
recovery. `UpdateCheck` keeps the queue's reads and the link, whose interleavings with the
sidecar `FeatureQueue` has in full. `StepUp` is the gate that `FeatureQueue`'s `Refused`
and `Sessions`' `LoginRefused` leave open as a choice, and that `WalletSubmit` and
`TelegramBot` use as a set of burnt codes, with the code that is brought early and
outlives its burn. `BtcSidecar` has a create of the sidecar in full; `BtcSetup` takes it
in two steps, `WalletSetup` in one. `BtcSend` has its send. `OpForms` says what reaches
`WalletSubmit`, and `TxToast` follows what it has submitted. `BridgeForm` says what a
submission takes, `Bridge` what becomes of it.

### The three modules of parts side by side

`Host`, `Web` and `MCLife` put many parts beside each other and check them in one run
each. The variable `area` says which part a behaviour is about and never changes; the
slots `s1`, `s2`, ... are that part's variables, and slots that it does not use hold
`None`. Every part is an `INSTANCE` with constants of its own, so that a property of
such a module reads `area = "file" => Pages!File!CanonWhole /\ ...`: it speaks of the
part's own module and holds trivially in behaviours of other parts. The parts do not
influence one another there; the state space is the sum of theirs.

`Host` and `Web` leave every constant open and hold theorems; `MCHost` and `MCWeb` give
the constants their small values. `Host` reaches its parts through the modules that prove
about them (`EnablerUpgradeProofs` twice, `ServerProofs` once), `Web` its fourteen through
`PageProofs`. In `ServerProofs` and `PageProofs` a part's variables go by the names they
have in its module, and parts with a name in common share the variable; that is harmless,
since each theorem is about one part. The four largest parts of `Web` (`TxToast`,
`Bridge`, `BridgeForm`, `NftMarket`) take their steps in instances of their own, which TLC
evaluates faster than an instance within an instance; the lemmas `ToastSame`, `CardSame`,
`DepositSame` and `MarketSame` prove the two to be the same step.

`MCLife` holds what is promised in the end, with its fairness: the Bitcoin sidecar, the
Telegram bot and the panel of issued tokens once more, for liveness only. Their safety is
checked and proved in `Host` and `Web`.

## 3. What the runs show

| Run | Question | Outcome |
|---|---|---|
| `StepUpCodes` | can one code be accepted twice; who is locked out, how many guesses | `BurnGap`: never within two periods by one process; `SingleUseUnlessEarly`: only a code presented before its own period; `LockoutEarned`: by failures since the last success; `GuessBudget`: 2 * limit - 1 in any window, and limit - 1 more for each success in it |
| `SessionsCurrent` | revocation against requests in flight | `NoResurrection`, `PasswordSessionsCurrent`, `ChangeRevokes` |
| `SessionsFaults` | the same with a rehash and a torn change | implements `SessionAuthority` |
| `SessionsRehash` | does an upgraded hash keep the password | `PasswordSticks` **violated** |
| `QueueCrash` | is every request answered, does a poll tell the truth | implements `RequestLedger`; `EveryRequestEnds`; `PollTruth` while the sidecar has not died |
| `QueueRecovery` | two crashes, two web requests | `ClaimsSound`; `LostOnlyByHandBack` |
| `UpgradeRetry` | is a retry after a crash convergent | `OkMeansRunning` **violated** |
| `Life` | what must come in the end | `SyncEnds`: the syncing flag of the Bitcoin sidecar never sticks; `CommandsHeard`: a message to the bot the settings name is handled; `IssuedIsShown`: an indexed token gets its row and its data |
| `Web` | fourteen pages with their routes | `SendSound`, `ToastSound`, `SubmitSound`, `FileSound`, `CodeNotWasted`, `TradesWhatItShows`, `NoLostUpdate`, `BridgeSound`, `FormSound`, `RowsKept`, `SetupSound`, `MarketSound` |
| `Host` | what runs the program on its host | `PinsRunnable`, `UpgradeSound`, `StacksSound`, `AutoInstallSound`, `OneOwner`, `PasskeysSound`, `GuessesBounded`, `PluginsSound`, `AlertsSound`, `InstallSound`, `WalletSound`, `EffectOnce` |
| `BtcBounce` | does only an expired session send the Bitcoin page to `/login` | `OnlyAuthBounces` **violated** |
| `BookPrefill` | is a price taken from a row gone once the pair changes | `PrefillDoesNotSurvive` **violated** |

A run marked violated checks one sentence of a comment in the code; the finding in
`PROJECT.json` quotes it and says what the counterexample does. The passing runs
beside it say how much of the sentence holds.

### What the passing runs rule out on purpose

Each restriction below is there because the property fails without it; changing the
named constant, or dropping the named observer from the property, shows the behaviour.
All of them are behaviours of the code.

* Sessions: `MaxTorn = 0` in `SessionsCurrent`. A stop between the two writes of a
  password change leaves the old sessions valid under the new password, against
  `ChangeRevokes`. `LegacyHash = FALSE`: see `SessionsRehash`.
* Step-up: a code presented in the period before its own outlives its burn
  (`SingleUseUnlessEarly` states the exception). `SubmitSound` and `EffectOnce` have the
  same one: kept after a lost answer, such a code pays for a second request a minute
  later, and in a redelivered update it changes staking twice. Of the two requests, or the
  two updates, just one is early; a third is not possible.
* Queue: `PollTruth` speaks of histories without a crash, since recovery renames
  `.req.lock` back to `.req`, and a poll that tests the one before and the other after
  sees neither. `QueueCrash` has one web request at a time: with two, the hand-back of a
  stale lock replaces a request linked after its test (`LostOnlyByHandBack` names it). A
  request whose payload cannot be read loses its lock before it gets its result
  (`enabler.sh:443`): the sidecar may die between the two, and a poll there sees neither.
  The properties of the queue name these requests (`unread`).
* Upgrade: `UpgradeSound` is about the instance `Answers`. `ComposeFails = FALSE`
  there, since the exit status of the first compose command is masked by the second,
  against `OkMeansRunning`; `MaxCrashes = 0`, since a stop between the core pin and its
  managed mirror makes the next upgrade take the core for the user's, against
  `CoreRecognised`, and a retry after a crash is `UpgradeRetry`'s subject; a retried
  rollback fails at the anchors it has consumed already; `HostTags = {}`, since an image
  repinned by hand leaves an anchor of an older upgrade in place, against
  `RollbackRestores`. `Pins` has all of these, for `PinsRunnable`.
* Stacks: a half-applied request that expired before its retry (`torn`) leaves flags
  and profiles apart.
* First run: a crash between the writes of a staging that replaces another's (`torn`)
  leaves a mixture to be confirmed. Passkeys: a sign-in writes back the list it read
  before its await, over a removal (`raced`).
* Updates: a request claimed between auto-install's last look at the lock and its link
  (`overtook`). Plugins: two crashes between writes (`torn < 2`); and the helpers that
  a plugin's entry imports keep their first version until the process ends, as the
  generation is in the entry's URL only: `EntryCurrent` speaks of the entry.
* Alerts: `ListsFail = FALSE`. A list that fails counts as empty, and the next tick
  announces all of it again.
* Installer: `Exported = TRUE` in `Host`, the shell may have `PROJECT_DIR_HOST` set or
  not: without it `init.sh` stops at its line 892 (section 5). `SshReachable` is about
  ufw: with firewalld the drop zone is set before ssh is allowed. `lost` names the
  credentials whose copy failed: the test of the copy does not stop the script, which then
  overwrites the only file that has them.
* Bitcoin sidecar: `bereft`, a create that could not open the seed file has removed one
  that another create had saved meanwhile: its wallet is in use and not on the disk.
* Bitcoin payments: attempts whose acknowledgement a fault destroyed (`excused`), and
  `Patient = TRUE`: before paying again the user awaits a sync that began after the doubt.
  Set-up: after a creation whose answer was lost, a second Link is refused with 409 and
  shown as linked; `ToldTrue` asks only that a wallet is there, and excepts a page in
  `doubted`: the 409 was said of a create that had saved its seed and not yet opened its
  wallet, or the file was removed as `bereft` says.
* Imports of a seed phrase: `OneAtATime = TRUE`; two at once share the `.recover` path.
* Favourites: `NoLostUpdate` speaks while `luck` is good, since the list was last opened
  afresh. Each of these loses an update: a toggle before the mount read, or a read that
  fails (the next toggle then writes an all but empty list); writes that arrive out of
  order; one that fails before a later one, or whose answer is lost; an import among
  toggles; a page left while it writes.
* Order book: `Hasty = FALSE`; a refresh called from the closure of the pair left behind,
  or a load that outlives a deselection, puts the wrong book in place. What the form keeps
  over a change of the pair is the run `BookPrefill`; `TradesWhatItShows` is about market
  orders, which take their amounts from the present book.
* Operation forms: `Unchecked` names the forms that do not know a token's decimals,
  `Overlong` the numbers of up to 38 digits that `lib/validation.ts:20` lets pass; the
  route then burns a code on a request that the daemon refuses.
* Issued tokens: a row that a merge has put in the list, not yet drawn, goes with the
  removal of another (`RowsKept` excepts that window of one render).
* Bridge, `CardIsLive`: the card of a page whose record another tab has replaced or
  dismissed (`InStep`); and a form that waits for a request whose record the storage
  refused (`unsaved`): the next progress event untracks it, nothing is polled, and the
  button stays disabled until a reload. `DepositAccounted`: `left`, deposits made while
  the page was reloaded, or sent by a wallet that then answered with an error (the outer
  `catch` records nothing), or whose row the storage refused.
* Bridge form: a deposit is within its cap or is the same double as the cap
  (`BridgePanel.tsx:648` compares with `parseFloat`); a fill follows no cap that
  `parseUnits` refuses (`Fine`: one with more decimals than its asset).

### Bounds

Deadlock is not checked in any run: clocks, requests, faults and clicks are bounded,
so each behaviour comes to an end by its bounds. Every bound is a constant named
`Max...` (or `Typed`, `Receivers`, `Answers` in `BridgeForm`).

* `StepUp`: `PeriodTicks = 2` lets calls fall inside a period and on its border; 4 ticks
  reach the trailing period of a code accepted early, and the end of its burn; one reset
  and one restart; four wrong codes against a limit of two in a window of three ticks let
  two windows meet; two keys, so that one can be locked and the other not.
* `Sessions`: two requests in flight are enough for one that read and one that
  changes; two versions after the first, so that a revocation can meet another; a
  maximal age of 0 or 1 in one tick lets tokens expire and not.
* `FeatureQueue`: two services; three requests give one applied, one queued and one
  that replaces. `QueueCrash` has one web request of any kind and one crash,
  `QueueRecovery` two web requests (the double click) and two crashes (a recovery that
  is itself cut short).
* `EnablerUpgrade`: a daemon web-gui depends on, web-gui, and an optional service are
  the three cases of the compose commands and of the order of keys; two release tags
  and up to four requests give chains upgrade-upgrade-rollback-rollback; two core
  versions a bump after a bump.
* `EnablerStacks`: two networks and two passwords let settings and passwords differ;
  three requests are enable, disable and enable again, with a crash at any write.
* `FirstRun`, `Passkeys`: two visitors, two browsers; three stagings or challenges let
  one replace another that was replaced; a lifetime of one tick lets each expire.
* `Throttles`: two overlapping requests against a limit of two; three ticks with a
  window of two let a span lie across two windows.
* `UpdateCheck`: a final release, a candidate of the next and the next; a window of one
  release; two overlapping checks; two acts of the user.
* `Plugins`: three installs and two crashes; two page requests, one of which may hold
  an import across an uninstall and an install.
* `TelegramBot`: two bots, two updates, three changes of the settings (away and back), one
  failed poll, one restart; two of the three messages bring one code, from two chats.
  `Life` has two messages. `TelegramAlerts`: two outages of up to four failing ticks
  against a threshold of three.
* `Installer`: two runs of either script, so that the second finds what the first left
  wherever it stopped.
* `BtcSidecar`: two generating requests and a restore, so that two of a kind overlap;
  two faults; three ticks against a prune window of one let a horizon fall out of it.
* `BtcSend`: two tabs, two coins (so that a second payment need not collide), three
  attempts, two faults. `BtcSetup`: a page and another caller, two submissions, a fault.
* `WalletSubmit`: two rows that share a code field, batches of two. `WalletFile`: two
  imports, two crashes. `OpForms`: amounts of zero, on and past the decimals of the coin
  (11) and of tokens (0, 2, 18); a longest number (300) between which and the largest that
  the daemon holds (200) there are some that a form lets pass. `TxToast`: two
  transactions, one stream broken.
* `OrderBookPage`: two pairs, four loads. `Favourites`: a cap of two with three tokens,
  one not fungible; four acts of the user, no more than two of them
  while its luck is bad, so that a fresh opening can end that. `Bridge`: two attempts, of this tab or another, a history
  of one row, so that it fills. `BridgeForm`: two accounts with different balances, an
  asset with a cap that parses and one with a cap that does not, and an amount that is one
  double with a cap. `IssuedTokens`: two tokens for `RowsKept`, one for liveness.
  `NftMarket`: an offer of one's own and another's. `IssueForms`: two files, two picks, an
  edit, two submissions, so that each field can be of another file. `WalletSetup`: two
  posts, three attempts, three faults, enough to use up the attempts.

The bounds of the side-by-side runs were chosen with TLC's action coverage: within
them every action of every part fires. `SYMMETRY` is over values that no property
names apart and no operator orders, and in runs whose properties look one step ahead
at most.

### Fairness

* `QueueCrash`: weak fairness of the sidecar's step as a whole. Its loop sleeps and
  scans without waiting on anyone, compose commands end, and docker restarts it
  (`restart: unless-stopped`). None is asked of the web side, of users or of the
  clock; crashes are bounded, since a sidecar that always crashes serves nobody.
* `Life`, Bitcoin: weak fairness of the sync task, of sleeping retries and of the end of
  a rescan: tasks the runtime has started run on, every node call has a timeout, a
  timer fires. Nobody has to ask for anything, and the node may stay away.
* `Life`, Telegram: weak fairness of the loop, which never ends
  (`lib/telegram-bot.ts:49`); failing polls are bounded by `MaxFails`.
* `Life`, issued tokens: weak fairness of each fetch (it is answered or fails), strong
  fairness of the resync timer: it fires every two minutes but does nothing while the fetch
  it would start is under way, so that it is enabled again and again, not always.

## 4. What is proved

The proofs are in eight modules, for every value of the constants; the bounds are
parameters there and restrict nothing, except where a theorem states so.

| Module | Proves about |
|---|---|
| `StepUpProofs`, `SessionsProofs`, `FeatureQueueProofs`, `EnablerUpgradeProofs` | the module of that name |
| `ServerProofs` | `FirstRun`, `Passkeys`, `Throttles`, `EnablerStacks`, `UpdateCheck`, `Plugins`, `TelegramAlerts`, `Installer`, `BtcSidecar`, `TelegramBot` |
| `PageProofs` | `BtcSend`, `TxToast`, `WalletSubmit`, `WalletFile`, `OpForms`, `OrderBookPage`, `Favourites`, `IssuedTokens`, `Bridge`, `BridgeForm`, `BtcSetup`, `WalletSetup`, `NftMarket`, `IssueForms` |
| `Host`, `Web` | that the property of each of these parts, as the run checks it, follows from the theorem about its module |

Each component that is proved about ends with its inductive invariant, under the
heading "The inductive invariant behind it": a conjunction of named parts, the last of
which is the property. TLC has checked each on the bounds of its run. The proof is one
lemma per action, a lemma that puts them together, and a theorem.

### Detailed parts

* `StepUpProofs!TypeCorrect`, `FailuresCapped`: the cap needs that the prune and the
  check precede the count in one synchronous call (`CountCap`).
* `StepUpProofs!LockoutsEarned` (`LockoutEarned`), `GuessesBudgeted` (`GuessBudget`): the
  observer `failures` keeps a key's checked guesses of the last window since its last
  success as a set of numbered times. `GuessInv` says how the entry of the map counts that
  set: at most `MaxFailures - 1` from before the entry was made, and those since it was
  made, which are as many as its count while it is live. A live full entry is then a full
  set, and the two parts together are fewer than twice the limit. The key of an entry that
  was pruned has less than the limit left (`Spent`). A success deletes the entry
  (`lib/step-up.ts:105`), and a full one admits no success: so the guesses before it add
  at most `MaxFailures - 1` to the budget for each success still in the window.
* `StepUpProofs!AcceptancesApart` (`BurnGap`): not inductive by itself.
  `SingleUseInv` adds that history lies in the past, that an accepted code was one of
  three, and `BurntInv`: until two periods after an acceptance its three keys are in
  the map with their expiry. `PeriodReached` is the arithmetic that ties the expiry in
  milliseconds to a period number. Collisions of codes are allowed.
* `StepUpProofs!SingleUseOfCodes` (`SingleUseUnlessEarly`): with the assumption
  `CodesDistinct`, a stated hypothesis (six-digit codes do collide, rarely).
* `SessionsProofs!TypeCorrect`, `RevocationHolds` (`NoResurrection`): by `VersionInv`,
  no request and no token is ahead of the version, and each carries the version it was
  born under.
* `SessionsProofs!LivePasswordsCurrent`, `ChangesRevoke`: under `NoFaults` (no legacy
  hash, no torn change). `SessionsRehash` shows the first hypothesis to be necessary;
  the second is, because a stop between the two writes leaves old sessions alive.
* `SessionsProofs!ImplementsSessionAuthority`: each step grants, hands out a dead
  session, retires or stutters; here without `NoFaults`.
* `FeatureQueueProofs!ClaimsHold` (`ClaimsSound`): that claims are exclusive does not
  carry itself through a step. `IInv` adds `FilesApart` (each file holds a request of
  its own, one that was accepted), `LocksPlaced` (where a lock lies at each stage of
  the sidecar, and that what its pass has left to do is there, since nobody else
  removes a file), `RunsCounted` (a request still in a file ran at most once per
  crash so far) and `Archived` (what ended was accepted, what gave way lies nowhere).
* `FeatureQueueProofs!LossesOnlyAtHandBack` (`LostOnlyByHandBack`): every step from
  `IInv`. `LocksPlaced` is what makes an expired or finished request answered before
  its file goes.
* `FeatureQueueProofs!ImplementsRequestLedger` (`ImplementsLedger`): under
  `OneAtATime`, one web request in flight and at most one crash. `HandBackFree` is the
  argument: a handler about to link where a stranded lock lies must have looked before
  the crash, and then it saw the claim. With two of either, the ledger is not kept.
* `FeatureQueueProofs!PollsTellTruth` (`PollTruth`): `PollInv` adds that the latest
  request of a service is the one in its file, else the one being applied, else the
  one answered (`InOrder`), that a file is removed only when its answer is on disk
  (`AnswerOnDisk`), and that a poll which saw no request file finds what it had to see
  in the lock or in the result (`NothingMissed`): the order of the two stats is the
  direction in which a claim moves.
* `EnablerUpgradeProofs!PinsAlwaysRunnable` (`PinsRunnable`), with crashes, failures and
  host edits anywhere: `PullsFirst` says which images an upgrade under way has pulled,
  key by key, and that it starts to write only when all are there.
* `EnablerUpgradeProofs!UserCoreStays` (`UserCoreRespected`): by `CoreApart`, the mirror,
  the anchor and a version about to be written are never the user's, so the core is the
  user's exactly when `byUser` says so.
* `EnablerUpgradeProofs!CoreStaysManaged` (`CoreRecognised`), without a crash: `MirrorInv`
  lets the mirror lag the pin between their two writes only.
* `EnablerUpgradeProofs!OkIsRunning` (`OkMeansRunning`), without a crash and with compose
  commands that succeed: containers run the pins whenever none is on the move, and past
  the last pin all are at the tag. `UpgradeRetry` shows what a crash does.
* `EnablerUpgradeProofs!RollbackIsExact` (`RollbackRestores`), without a crash and an edit
  of the image pins on the host: pins move together, and anchors are all there, from the
  last upgrade that moved a pin, or none is (`AnchorsInv`).

### Parts of the host (`ServerProofs`, stated of the run by `Host`)

* `OneOwnerHolds` (`FirstRun`): the number of a staging identifies it; a cookie, a
  secret shown and a confirmation under way each name the staging of the visitor they
  were given to, and the pending rows name one staging unless a crash tore them.
* `PasskeysSoundHolds` (`Passkeys`): a burnt code is counted once on its way, as a
  challenge, as a response under verification or as an enrolment, so that their numbers
  add up to no more than the codes.
* `GuessesBoundedHolds` (`Throttles`): the count of an entry and the requests that may
  still count for it never exceed the limit and the requests that overlap; the guesses
  of an entry lie between its beginning and its end, where the next one may begin.
* `StacksSoundHolds` (`EnablerStacks`): of each key a request writes, either the write is
  still ahead of the job (`Ahead`) or the key says what the request asked (`JobWrites`);
  the order of the commands then gives what holds at the end. Retries begin again from
  the first command and find keys that say the same.
* `AutoInstallSoundHolds` (`UpdateCheck`): what a check carries through its awaits was
  newer than what ran when it read it, and the steps that could make it stale are the
  ones its later looks at the queue and the lock would see (`overtook` names the other).
  That the window hides no final release is an argument on the indices that the filter
  keeps, with the library's facts on cardinality.
* `PluginsSoundHolds` (`Plugins`): what an install has left to write determines what disk,
  registry and pref say meanwhile; a page that awaits an import holds a generation, and
  a module linked under a generation is of that generation's install.
* `AlertsSoundHolds` (`TelegramAlerts`): the tallies of what was told follow the state that
  the next tick compares with, and what a tick has read lies between what the wallet
  was at its start and what it is.
* `InstallSoundHolds` (`Installer`): a run that has reached a stage has done what comes
  before it, in `.env` (`EnvOK`), the database (`SeedOK`), the containers (`StackOK`) and
  the firewall (`FireOK`); `Given` is why nobody is locked out: whoever runs the script
  has its credentials before the database asks for them. `SilentSeedsFirst` is the order
  that breaks it. Those of an earlier run are in `.env`, in a backup, or `lost`.
* `WalletSoundHolds` (`BtcSidecar`): from the moment `save_seed` creates the seed file
  until its wallet is stored or the file is taken back, one request works on it
  (`SeedOwned`), since `create_new` lets no second one save; only a wallet is synced
  (`WalletSyncs`), so none is opened under a sync and the horizon that the prune guard
  judged stays the origin of the scan. All of it up to the removal by a create that made
  no file (`bereft`). `CreateSavesAndCleans`, the loser that removes the winner's file, is
  what breaks it.
* `EffectOnceHolds` (`TelegramBot`): since the last restart, an update has changed staking
  only if its code is burnt, and at most one handler was started for it (`NotYet`,
  `RunningOnce`), but for an `early` one whose code is `late`, its burn over: that one may
  run once more. The first update of a batch to bring a code is the only one accepted.
* `PinsRunnableHolds`, `UpgradeSoundHolds` (`EnablerUpgrade`): as above.

### Pages (`PageProofs`, stated of the run by `Web`)

* `SendSoundHolds` (`BtcSend`): which attempts may still be accepted, by where each
  stands, and what the user has been told of it.
* `ToastSoundHolds` (`TxToast`): every event, answer and timer on its way agrees with the
  chain at the moment it was made, and the chain does not go back.
* `SubmitSoundHolds` (`WalletSubmit`): a burnt code belongs to the one request that burnt
  it, or, once it is `late`, to an `early` one and at most one other (`OwnCodes`); each
  call the daemon holds to a request and to an action of its batch.
* `FileSoundHolds` (`WalletFile`): by the step of the import, which file the two paths and
  the daemon have. Under `OneAtATime`.
* `CodeNotWastedHolds` (`OpForms`): what a form and its route let through has at most the
  decimals of its token, with numbers below 1000 before scaling (`Digits`), which is where
  the model keeps them; and no more units than the daemon holds where a form compares them
  with what it shows, which is not the case of the forms `Unbounded`.
* `TradesWhatItShowsHolds` (`OrderBookPage`): the latest load is the one whose number is
  `loadSeq`, and only that one writes. Under `~Hasty`.
* `NoLostUpdateHolds` (`Favourites`): while `luck` lasts, each write under way starts from
  the list that the one before it leaves, the first from what is stored, and the last ends
  in what the user left (`WritesLinked`); the page's lists, an import and a merge agree
  with it (`PagesCurrent`).
* `RowsKeptHolds` (`IssuedTokens`): a scan only adds rows, whatever it read, and a removal
  takes with it only what has not been drawn.
* `BridgeSoundHolds` (`Bridge`): one submission runs at a time and is the newest
  (`submittingRef`), so the history is ordered by attempt and within its limit. A request
  that was posted or a deposit that was made is therefore running, in the history, older
  than all of a full history, or in `left` (`Visible`). `PageAlone`: a page that tracks
  nothing shows nothing and has no poll under way for the record there is.
* `FormSoundHolds` (`BridgeForm`, `IssueForms`): a submission under way is what was
  confirmed, whatever the form has become; a read that the page still listens to is of its
  account, and balances of another account are about to be replaced. A fraction of a
  balance is at most the balance, by division of natural numbers. What is sent was
  compared with its cap as doubles are: it is less, or `Alike`. In the forms of tokens and
  NFTs hash and URI are of the file that is shown, unless they were typed.
* `SetupSoundHolds` (`BtcSetup`, `WalletSetup`): an answer that claims a wallet has one,
  and a page's own read waits for its submission; while a create opens its wallet nobody
  else counts on it, but who is `doubted` (`OpeningAlone`); a wallet of generated words
  belongs to the create that made it, which still works, has shown them or lost its
  answer.
* `MarketSoundHolds` (`NftMarket`): a load that has read holds every offer that stood
  when it read and still stands, so the order in which loads land does not matter; a
  tab without a list is loading or says why.

### Assumptions, and what is left to TLC

Assumptions on constants are the named `ASSUME`s of `StepUp`, `Sessions` and
`FeatureQueue`, and one operator per other module (`UpgradeConstants`,
`FirstRunConstants`, `StacksConstants`, ...), a hypothesis of the theorems about it, which
`Host` and `Web` assume of their instances. TLC evaluates all of them. Most say that
`None` is not a value, or that a bound is a number; the ones that exclude behaviour are
those of the section "What the passing runs rule out on purpose" (`BtcSend`'s `Patient`,
`OneAtATime`, `~Hasty`, `~ListsFail`). `Plugins`, `TxToast`, `IssuedTokens`, `BtcSetup`
and `IssueForms` need none.

Left to TLC: liveness under fairness (`EveryRequestEnds` and the run `Life`), which is
out of the provers' reach. Every invariant and every safety property of the passing runs
is stated by a theorem. Facts that need induction over data and recursive operators are
outside the provers' reach; the modules proved about use neither.

## 5. What is abstracted and what is left out

* Passwords, codes, tokens and image references are values, not strings; hashing, HMAC
  and TOTP arithmetic are assumed to do what they are for.
* In `process_file`, malformed and oversized files are requests that end badly
  (`WriteResult`), unreadable ones have the order of steps of their own (`DropUnread`,
  `AnswerUnread`); non-regular files, which the web side never writes, are not modelled.
  One `.env` write of the enabler is one step.
* A missing image pin and `:latest` are one value.
* WebAuthn verification, the bridge backend and its contracts, the wallet daemon,
  bitcoind, the Bitcoin library, Telegram, GitHub and docker are external: each does
  what the code relies on, with the failures that the code handles.
* Messages, layouts, filters and sorting are left out.

Behaviours of the code that no module has, beside those excluded above:

* A restart inside a code's window empties the burn map, and the code is good again.
  (`StepUp` has it; the modules that use a set of burnt codes do not.)
* `init.sh:892` reads `PROJECT_DIR_HOST`, which nothing sets, under `set -u`: a confirmed,
  undisturbed run stops there, after it has written `.env` and before it seeds the
  database or starts anything, against `init.sh:225` ("This script writes your .env and
  starts the Docker stack"). `Installer` has such runs; no property speaks of them.
* `deploy/linux.sh:1288-1292` and `init.sh:793-796` print that the old file was saved
  although `cp` failed: a list of commands joined by `&&` does not stop under `set -e`.
  `Installer` has the failure, not the words.
* "Only clean up when we were the creator" (`bdk-wallet/src/main.rs:617-625`): the error
  of an open that made no file is no different there from that of a torn write.
* "an e2m failure AFTER the deposit broadcast also leaves a provisional history entry"
  (`BridgePanel.tsx:868-871`): not if the wallet itself answers with an error after it has
  sent the deposit, as ethers does when the chain changes. `Bridge` has both.
* Two tabs that submit to the bridge at the same time: another tab acts only while this
  one has no submission under way.
* Two password changes verified against the same hash: the last writer wins.
* The event stream is authorised once and stays open after its session was revoked.
* `.env` is rewritten in place by the enabler (truncate, then copy): a stop in the
  middle leaves it torn.
* A rerun of the installer makes a new `POSTGRES_PASSWORD` while the volume of the
  database keeps the old one.
* Two tabs overwrite each other's rows of issued tokens in localStorage.
* The bridge form does not follow a change of the extension's account; the deposit is
  signed by the present one.
* The label of an NFT's icon takes the name of a new file while that file is still on its
  way, or after its upload failed, and the address of the old one is minted
  (`IssueNFTModal.tsx:114`, `:376`). A token's metadata, too, can be submitted while its
  new file is on its way; the field then shows the old address.
* `/setup` says "the button was clicked twice and the wallet WAS created" of every
  "already open", also to an upload that has just replaced the uploaded file under the
  open wallet; and two unconfirmed uploads at once both pass the test for an earlier file.
* `link-seed.ts:104` locks the keys whenever it ends, also those that stakes: the comment at
  `management/wallet.astro:122` says what that does to signing.

Not modelled, because a model would restate the code: the IPFS gateway, the HTTP
hardening (pure functions of a request), the MCP server (a table of permissions in
front of RPC calls), the rest of the user interface (rendering), decoders, the WASM
wrappers (generated), vendored code and examples. Partly modelled components say in
`PROJECT.json` what is missing.

## 6. Plan

1. Abstract specifications: a loaded plugin is the one installed and consented to; a
   wallet is created once and served by its seed; a submission happens once or not.
2. The two tabs of the issued tokens, the event stream as a session, and `.env` written
   in place.

## 7. Checking it

    tlc -config QueueCrash.cfg MCFeatureQueue
    tlapm FeatureQueueProofs.tla

Each `.cfg` names in `PROJECT.json` the module it belongs to. Operators named after a
slip (`ClaimByCopy`, `WithFailureSliding`, ...) are mutated forms of the definition
that follows them: with one of them in its place the property listed with it fails.

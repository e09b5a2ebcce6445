# Verification of miti99bot

TLA+ modules of the parts of miti99bot whose correctness depends on the order
of steps: on other handlers, crons and containers running in between, on calls
that fail or whose reply is lost, on restarts; and of the pure algorithms whose
edges are easy to get wrong (marks of a word, emoji clusters, keys of rules).
Modules are model-checked with TLC, most of them several to a run; the ones
whose invariants can be argued for any size have theorems that TLAPS checks for
every value of the constants.

    tlc -config MCServices.cfg MCServices     # a run
    tlapm GamesProofs.tla                     # the proofs of a module

`PROJECT.json` lists the components, the runs, the source lines of every
definition, the hazards and which property answers which, the theorems, and for
every property a mutant: a plausible bug in a definition that TLC must catch
with that property. Operators called `Mut...` are those bugs; no specification
uses them.

## 1. The system

One Go process (`src/cmd/server`) polls Telegram, dispatches updates to chat
modules, runs cron jobs and keeps its state in MongoDB. A Node service
(`src/renderer`) draws pictures for it. An in-memory store replaces MongoDB in
tests and local runs.

| component | state | operations | used by |
|---|---|---|---|
| DocStore `internal/storage` | one collection per module; a document has a payload and a version | Get, Put, PutVersioned, Delete, List, Scan | every module with state |
| keylock `internal/keylock` | one mutex per user or subject | acquire, release | stock, gold, coin, wordle, loldle |
| subscription `internal/modules/util/subscription` | a slot with the subscriber list, a document with the last pushed day, a mutex | Add, Remove, RemoveAllForChat, ClaimDay, Broadcast, Prune | lol, weather |
| lol, weather | the two above; caches of outside services | subscribe, unsubscribe, daily push, queries | users, cron |
| stock | a portfolio per user, with positions, dividend history and one pending dividend action per event | topup, buy, sell, dividends, /stock_portfolio, button; schema migration at startup | users, main |
| gold, coin | a versioned portfolio per user | topup, buy, sell by optimistic update | users |
| stats | a usage row per command and user, carrying the username | Increment (hook of the dispatcher), /stats queries; retirement of a command at startup | dispatcher, users, main |
| wordle, loldle | a round and a score per subject; loldle also a guess budget | guess, new, giveup, setmax | users |
| alias | one space of names, each with a saved message | alias, insert, unalias, an unregistered `/name`, inline queries | users, dispatcher |
| blacklist | keys made of chat, thread, list and escaped text | add and delete for both lists, check a text, list | users |
| sticker | the one shared pack at Telegram, the bot's cached username | addsticker, which creates a missing pack; removal of old records at startup | users, main |
| monkeyd | one export slot, page cache on disk, request times | export of a novel, its tags | users |
| random | none | wheel and gacha with a placeholder and the renderer, random picks | users |
| amlich, misc, util | none | stateless replies | users |
| dispatcher, registry `internal/modules` | commands, crons, hooks | install, authorise, dispatch, start hooks | telegram client |
| cron `internal/cron` | running jobs | schedule, run with a time limit, stop and wait | main |
| metrics, systemstate, server, telegram, log, deploynotify | counters, marker documents | flush, health, notice | main |
| renderer | a semaphore, one Chrome, a bundle | the routes of wheel and gacha | random |

How they interact: the Telegram client runs **one** update worker with
synchronous handlers (`telegram/client.go:21-41`), so chat commands of one process
do not overlap. What does overlap: cron jobs with commands; the detached hook
goroutine of each command (`dispatcher.go:84`) with everything; two containers
during a redeploy; anything with the store, which other writers change between
a read and a write. Handlers overlap only by the code's own precaution, the locks of keylock, were they ever made asynchronous;
modules that have several of them at once say what then still holds. All state is shared through the
store, a few mutexes, and Telegram itself (messages with buttons outlive the state they
were made from). At startup main runs the storage tasks of stock, stats and sticker before it
polls, while the container of the build before may still be writing; on a signal it stops the
parts in order, within fifteen seconds.

What makes the components correct, and what is hard about it:

- **DocStore**: a write overwrites only what its caller knows (PutVersioned) or
  exactly once (Put), with races, deletes, failed calls and lost replies.
- **Daily push**: one fan-out a day and one message per subscriber, with double
  fires, retry slots, redeploys and crashes; no subscription lost to a command
  or a pruning that runs at the same time.
- **Stock dividends**: an event is paid at most once and to the position it was
  suggested for, although data is fetched without the lock, messages outlive
  positions, saves may fail after they were applied, and Record dates are corrected.
- **Usage counters**: /stats finds a user under the current name, and only that user.
- **Wordle, loldle**: each round is counted once, the score is that of the
  results, a finished round stays finished, a round keeps its budget; rounds of older builds included.
- **gold, coin**: the books are the trades users were told of, none lost to
  another container and none applied twice; no overdraft through the dust tolerance.
- **Dispatcher, alias**: an update reaches one receiver and only who may see it; a
  denied request leaves no trace; a name sends what was last saved under it.
- **blacklist**: a rule stays in its thread and list, whatever its text contains;
  an exception rescues only the occurrence it contains.
- **Sticker packs**: an unanswered call is not taken for a missing pack, and a
  failed conversion leaves time to say so.
- **Export**: the slot always comes back, requests keep their distance over
  retries and workers, a book has every chapter.
- **Renderer**: no more renders than slots, every slot comes back, every command is
  answered, though one Chrome is shared and may hang or go.
- **Lifecycle**: a shutdown loses no count, keeps storage under its jobs, and ends.
- **Startup**: an interrupted migration resumes, loses no write of the process
  that runs beside it, and its marker is true.

## 2. The modules

A store write is one step in the modules above DocStore: that is what DocStore
(as `VersionedDoc`) promises, as long as a Put is not beaten five times in a row (the modules treat that as one
more failed save) and nothing is deleted between a versioned read and its write. Handlers and
jobs are sequences of such steps with everything else in between. Users, the clock, faults and
outside services are nondeterministic; history variables (named in each module) record what
the properties speak of and steer nothing.

| module | models | goes on top of |
|---|---|---|
| VersionedDoc, DocStore | a stored document and its writers, abstract and as coded | |
| DailyPush | subscriptions, claim of a day, fan-out, pruning (lol, weather) | |
| StockDividend | a stock portfolio, the dividend suggestion and its button | |
| TradePortfolio | gold and coin | |
| UsageStats | the hook that counts commands and refreshes names, /stats | |
| WordleRound, LoldleRound, WordScore | rounds and scores of the games, marks of a word | |
| Dispatcher, Aliases | building the registry, routing, visibility; the alias module behind it | Aliases EXTENDS Dispatcher |
| Texts | what is left of a text, and replacing in it | |
| BlacklistRules | rules as keys, and verdicts | Texts |
| StickerEmoji, StickerPack | splitting of emoji; /addsticker | Texts; StickerPack EXTENDS StickerEmoji |
| PacedClient, NovelExport | the paced HTTP client; the export with its cache | NovelExport EXTENDS PacedClient |
| StartupStore | the storage tasks of a start and their markers | |
| Lifecycle | one run of the process with its counters | |
| Renderer | the wheel and gacha commands and the service | |
| MCScores, MCCommands, MCServices | parts that share nothing, side by side in one run | the above |
| DocStoreProofs, DailyPushProofs, StockDividendProofs, UsageStatsProofs | theorems of one module each | that module |
| GamesProofs | theorems of WordleRound, LoldleRound, WordScore | MCScores |
| CommandsProofs | theorems of TradePortfolio, Dispatcher, Aliases, BlacklistRules, StickerEmoji, StickerPack | MCCommands |
| ServicesProofs | theorems of PacedClient, NovelExport, Renderer | NovelExport, Renderer |
| ServerProofs | theorems of Lifecycle, StartupStore | both |

In a module `MC...` with several parts the variable `part` is chosen in the initial state and
says which component moves; the others rest in one of their initial states. This is not a
composition: it spends one run on several independent explorations, and their distinct states
add up.

**VersionedDoc, DocStore.** `VersionedDoc` is the promise: a document, each client's knowledge of whether
what it read is still current, and writes that either overwrite in one step or swap a
document known to be current. `DocStore` is the code: a versioned
replacement (`Matches`, `Replacement` are the filter and the update of
`ReplaceOne`), Put as the loop read, replace, retry on conflict, at most
`mongoPutAttempts` times (`StartPut`, `PutRead`, `Replace`, `PutConflict`), and
the in-memory backend, whose Put is one step. `backend` is chosen in the initial state: the two
providers are the same interface, and one run covers both.
`ReplaceUnacknowledged` is a write that was applied and reported as an error; `CallFails`
one that was not applied. Delete takes the version with the document, so for the clients in
`deleted`, and only for them, an old version may match a document they have not read. The
promise says so too.

**DailyPush.** The subscriber slot, the claim document and one cron run per process and slot:
`Fire` (list), `Fetch...`, `ClaimRead`, `ClaimSwap`, `Deliver`, `SendRefused`,
`SendFails`, `FinishSending` (takes the subscriber mutex), `PruneLoad`, `PruneSave`,
`PruneDone`. A removal of a pruning is asked to remove one item of the run's
condemned pairs (`pruning`: a chat with its topics, or a pair); what its write leaves out besides is a loss, and `member`,
the sum of what was asked for, tells the two apart. `StartCommand` .. `CommandFails` are subscribe and unsubscribe. lol is
Slots = 1, MayBeQuiet = FALSE; the flood alert Slots = 2, MayBeQuiet = TRUE. A pair
is `<<chat, topic>>`; `blocked` is what Telegram answers, `Condemned` what a
terminal error takes away.

**StockDividend.** One user, one ticker, one event. `Command` covers top-up, buy, sell and the
manual dividends (load under the lock, then `SaveCommand`). /stock_portfolio is
`BeginPortfolio`, `CleanupRead`/`CleanupDelete`, `Fetch` (no lock), `Sync`/`SyncSave`
(reload, prune and merge under the lock), `Notify`, `Suggest`, `Send`, `Bind`, `Retire`. A
press is `Press`, `Consume`, `Credit`, `Reject`; `pressed` keeps whose button it was, since `Consume` reads the action again
under the lock and goes on with what it finds. `Tick` is midnight, `Correct` a
changed Record date. Money and shares are small integers; the checks of the
supported range are kept with small limits.

**TradePortfolio.** One user's portfolio of gold or of coin (`kind`), read with its version and
written with PutVersioned, from handlers in one process (one mutex) or in two (a redeploy).
`Price` is asked without the lock; `Conflict` loads again, so many times; `SaveUnacknowledged`
is the write whose reply is lost. `Covers` and `Normal` are the tolerance: amounts are integers
finer than `Eps`, which is the dust. `booked` is the exact sum of the trades written.

**UsageStats.** Rows by (command, user); a hook counts, renames the user's rows and takes the
name from other users' rows. `Rename` and `Evict` visit one row each, since an
UpdateMany changes document after document; in memory it is all `DocIncrement`. The queries of
/stats are the operators the properties are stated with. `disturbed` records whether hooks have
overlapped or a hook has failed: the properties say what holds under which of the two.

**WordleRound, LoldleRound, WordScore.** The saved round, the saved score and the steps of each
handler between its store calls. Wordle saves the round and then records the result; loldle records the
result and then clears the round: the two orders have opposite weaknesses, which the
properties spell out (`CountedAtMostOnce` against `NoResultLost`). `Abandon` stands for
a call that failed, a lost reply (the effect of the step before it is there) and a
stop of the program, which all end the handler where it is and release its lock; `failed` records it.
`Upgrade` gives loldle other champions. A saved loldle round may be of a build that did not freeze budgets (`Legacy`): it has
guesses, perhaps as many as the default budget allows, in which case the next `/loldle` puts a new round over it
(`LoadLoldle`); `lSpent` remembers those. Two handlers stand for the lock's promise; what overlaps in the bot is nothing, and the
properties speak of failures and of the order of commands. Wins and streaks of loldle are computed as
in wordle and left to `WordleRound`. `WordScore` is the two-pass marking of a
guess, against the rules of the game.

**Dispatcher, Aliases.** `Builds` is Build with its conflicts, `Receivers` the handlers that match
an update: among commands, whichever a Go map gave first, so `Take` chooses. `Admit` and `Deny`
are the visibility check before metric, hook and handler. The handlers of alias replace `Return`
for its commands; `Redeploy` changes the modules while the saved names stay. `traces` is what an
update left behind for others to see.

**BlacklistRules.** A text is a sequence of characters; normalisation, escaping and the key are
what the code does to them (`Rules` and `RuleKey` are their values for the texts that are typed,
tabulated once), and the list is read back by prefix. Two chats and threads are
chosen so that their ids run together without separators, and texts contain the separators and
the escape character. `believed` is what the bot said it stored.

**StickerEmoji, StickerPack.** Runes by class; `SplitClusters` is the scanner, `Cluster` what it takes at a rune. /addsticker spends its
time budget (`left`) over the username, the media leg and Telegram's calls, each of which may be
applied with a lost answer; the owner may delete the pack, a restart may change the configuration.

**PacedClient, NovelExport.** Slots of requests are reserved under a mutex (`Reserve`: one step) and
waited for; `gap` and `left` are times relative to now, so the state space is finite. NovelExport
is the single slot of the runner, the crawl (landing page, dropdown of the first chapter, one
goroutine per chapter of which `Workers` run), /monkeyd_tags beside it, and cache files that are
truncated, then written: a stop in between leaves a part.

**StartupStore.** `task` says whose InitStore runs. stock and stats (in memory) visit documents
one by one with PutVersioned and retry on conflict, stats on Mongo and sticker sweep; the marker is
written last. A second process, of this build or of the one before, reads and writes the same
documents: it reads what validates, and stores it with an unversioned Put (`SavePortfolio`). The starting process
fails, loses replies and is started again. A portfolio of the old form that does not validate ends the start (`ReadDoc`).

**Lifecycle.** main's stages (`Boot`, `Shutdown`), the poller with its one worker, a detached hook,
jobs, and the counters of `metrics`: an increment looks the name up, creates it after a second
look, or adds; a flush drains one name after the other under the lock.

**Renderer.** A command with its placeholder on the bot's side; on the renderer's side the
semaphore, the temporary directory, Chrome (launching, up, hung, gone), the capture, the encoder,
the closing of the tab and the two time limits. `cut` marks a render whose calls Chrome will not answer.

## 3. The runs

A run takes from seconds to under three minutes with two workers.

| run | question | bounds |
|---|---|---|
| docstore | Does a write's result say what it did, does either backend implement `VersionedDoc`? | 2 clients, 2 values, no write from version 3 on, 3 attempts, deletes |
| push_overlap | Is there one fan-out a day? | 2 processes, 2 days of 2 slots, crashes and lost replies |
| push_commands | Do commands and prunings lose nothing and prune only the unreachable, does every run end? | 1 process, 3 pairs, of which two topics of a chat, crashes, time-outs, failed sends |
| push_alerted (violated) | Was someone alerted on a claimed day? | 1 process, failed sends |
| dividend_serial | Credited at most once, and to the right position? | 1 worker, all faults, 5 days, 2 messages |
| dividend_workers | No lost update, does every call return and give the lock back, with two workers? | 2 workers, 3 days, no faults |
| scores | Does /stats tell the truth, does a refresh that failed heal, is each round of wordle and loldle kept and counted as its order of writes allows, are marks right? | below |
| wordle_lost (violated) | Was a lost round recorded? | 1 handler, failures |
| commands | Do the books of gold and coin balance without overdraft, do trades return; does each update reach one receiver who may see it; does a name send what was last saved; are the rules of a thread kept and verdicts right; does /addsticker say what happened, and accept only emoji? | below |
| services | Are requests spaced, books complete, does the export slot come back; does a shutdown lose no count, keep storage under jobs and end; do interrupted starts keep history, write true markers and resume? | below |
| renderer | Are renders bounded, do slots return and results get shown? | 2 commands, 1 slot (as in the code) |
| renderer_stuck (violated) | Does every render end? | the same |

Bounds of the runs with several parts:

- *scores* (1,077,000 distinct states): 2 hooks, users, commands and names, 3 commands; wordle 2 handlers, 2 words,
  2 guesses, 3 rounds, 5 results; loldle 2 handlers, 3 champions, budgets 1 and 2, 2 rounds, the first perhaps of an older build with up to 1 guess (exhausted under the default
  budget), 3 results; all pairs of
  4-letter words over 3 letters.
- *commands* (380,000): 2 handlers in 1 or 2 processes, dust 2, amounts 1 and 2 (below and at the dust), 2
  attempts, 3 trades; 9 deploys of 6 modules, 24 updates of the owner, an admin, anyone and nobody, 1
  hook at a time, inline answers of up to 5 results, as many as there are names; 4 places, 5 typed rules, at most 2 rules stored, 1 write in doubt; texts of up to 4 runes
  for the emoji, 1 rune with a command that is sent; time budgets of 4 and 6 seconds, 2 of them reserved; a
  pack of at most 2.
- *services* (454,000): a novel of 2 chapters, 2 workers, slots 1 tick apart, a first back-off of 1 tick, 1 retry;
  3 increments of 2 counters by 2 writers; 2 documents (a portfolio may be invalid), 2 conflicts, 1 fault, 2 writes of the other process to a document.

Why the bounds are enough to see the interesting cases: two clients, hooks, handlers or
processes are what a race takes; two slots and two days are a retry and a new day; three
distinct stretches of days (discovery 1, retention 3, last day 5) let an event be paid,
forgotten and be asked for again; two messages are an action and the one that supersedes it;
three commands of two users are a change of a name and its passing to another user, overlapped
by a third hook; two rounds are enough for one to be abandoned, finished and started over; three
letters in four places have every pattern of repeated letters a mark depends on. Three trades
at and below the dust drive a balance to its tolerance and once more; two chapters are an oldest and a
newest page, and with the landing page three callers of the client; two documents are one done and one to do when a start
stops; four runes are a flag with a joiner and a picture, or two flags of which one lacks its half.
The size of the state space is what keeps the bounds there.

Names of bounds: MaxVersion (store), LastDay, MaxLives, MaxMessages (dividends), LastDay (push),
MaxCommands (stats), MaxRounds, MaxResults (games), MaxTrades (gold, coin), MaxHooks (dispatcher), MaxRules, MaxDoubts (blacklist), MaxText, MaxSent (sticker), MaxFaults, MaxWrites (startup), MaxCounts (lifecycle).
Every other number is a constant of the code, made small.

Deadlock is checked except in `scores` and `wordle_lost` (a handler that would start a round beyond
MaxRounds stops there with its lock; marking a word ends), `commands` (the trades are bounded, a registry that
Build refuses runs nothing) and `services` (the process exits).

`scores` uses the symmetry of hooks, users, commands and names; it checks invariants and one
action property, which treat them alike.

Each module has a type invariant. Where it is not among a run's properties it is part of a theorem,
or was checked on the same instance and left out of the cfg.

**Fairness.** The program goes on with what it has started: weak fairness of the
steps of a call or of a run, since goroutines are scheduled, and every outside call has a time limit.

| property | assumes |
|---|---|
| `RunsEnd`, `CallsReturn` | weak fairness of each run's and call's steps; strong fairness of taking a `sync.Mutex`, which Go hands to a goroutine that has waited for a millisecond |
| `TradesReturn` | weak fairness of a handler's steps, the lock's included: with bounded trades nobody can starve it |
| `SlotComesBack` | weak fairness of the export job; its time-out and the end of the process may come or not |
| `ShutdownEnds` | weak fairness of main, of a job's end (its time-out) and of a flush; strong fairness of the flusher noticing the cancelled context, since Go's select may prefer a due tick, but not for ever. Nothing of handlers, hooks and the poller: the shutdown has to end without them |
| `InterruptedStartsResume` | weak fairness of the starting process, which the container starts again; a bounded number of faults; and, as part of the property, that every portfolio of the old form validates at first, since one that does not fails every start |
| `SlotsReturn`, `ResultShown`, `EveryRenderEnds` | weak fairness of the bot's and the renderer's steps of each command: timers run, ffmpeg and Remotion end, a Chrome that is up answers. Not that a launch of Chrome succeeds or that Chrome stays up |

Users, the clock, faults, and the choice between success and failure are
never obliged to happen. The other properties are safety properties and need no fairness.

## 4. What is proved

For every value of the constants, under the named assumptions of the modules, none of which says
more than that a bound is a number, a set finite, an id a number without a colon, a role or a kind one of
those the code knows, or what the code's constants satisfy:

| module | theorem | for |
|---|---|---|
| DocStoreProofs | `TypeCorrect`, `WriteOutcomeCorrect` | any number of clients, any bound of attempts |
| | `SwapOnlyIfUnchangedCorrect`, `ImplementsVersionedDoc` | any number of clients, either backend, with deletes |
| DailyPushProofs | `TypeCorrect`, `OnePushPerDayCorrect`, `AtMostOneMessageCorrect` | any processes, pairs, slots and faults |
| | `SubscriptionsKeptCorrect`, `OnlyUnreachablePrunedCorrect` | one process (`Procs = {self}`), since its mutex is private |
| StockDividendProofs | `TypeCorrect`, `NoLostUpdateCorrect`, `CreditJustifiedCorrect` | any number of workers, any faults |
| | `CreditedOnceCorrect` | one worker (`Workers = {self}`), any faults |
| UsageStatsProofs | `TypeCorrect`, `NameResolvesToOneCorrect`, `RefreshHealsCorrect`, `StatsAreTrueCorrect` | any number of hooks, users and commands; the properties themselves say: as long as no hook has failed, or none overlapped, or neither |
| GamesProofs | `WordleScoreCorrect` | any number of handlers, words, rounds and failures |
| | `LoldleScoreCorrect`, `SavedRoundOpen` | any number of handlers, champions, builds, budgets and failures |
| | `RoundsKept` | the same; an action property |
| | `MarksCorrect` | words of any length over any letters |
| CommandsProofs | `TradeTypeCorrect`, `BooksBalanceCorrect`, `NoOverdraftCorrect` | any number of handlers in any number of processes, any tolerance and amounts |
| | `UpdatesHaveOneReceiverCorrect`, `SilentDenialCorrect` | any catalog of modules, updates, owner and admins; the second is an action property |
| | `AliasIsLastSavedCorrect` | any names, messages and failed writes, over redeploys |
| | `ThreadRulesAreKeptCorrect`, `ThreadVerdictIsRightCorrect` | any chats, threads, rules and texts to judge |
| | `StickerAnswerIsTrueCorrect` | any time budget, size of the pack and faults |
| | `StickerEmojiAreValidCorrect` | texts of any length |
| ServicesProofs | `RequestsSpacedCorrect`, `CrawlRequestsSpaced` | any number of callers, retries and delays; over exports and restarts |
| | `BookIsCompleteCorrect` | any novel, any number of workers, torn and old pages |
| | `RendersBoundedCorrect` | any number of commands and slots, restarts of the renderer |
| ServerProofs | `StartupTypeCorrect`, `HistoryKeptCorrect`, `MarkerIsTrueCorrect` | any finite set of documents, any number of faults and writes |
| | `NoCountLostCorrect`, `JobsHaveStorageCorrect` | any number of increments |

Each is an inductive invariant stronger than the property, an initial step, a step per action, and
an implication. How they go:

- DocStore: `VersionIdentifiesRead` says that a version someone holds is never ahead of the
  stored one and equal to it only if the read is still current, for every client since whose
  read there was no delete. Without it a swap could match a document of the same version that
  is not the one read; after a delete that does happen. `RunningHasNoEffect` is what makes a call's result say
  how often it was applied: a call that is still running has had no effect. The refinement
  maps each effective write to an overwrite or a swap, everything else to a stutter or a read.
- DailyPush: `ClaimIsCurrent` (who is about to claim with the stored version has read
  an earlier day) gives one winner a day; `SenderIsWinner` (the one run that is
  sending is the winner, and whom it has still to send to has got nothing) gives one
  message; `MutexHeld` gives the subscription theorem: what the holder of the mutex will
  store is the current list with its own change: for a pruning, the list without the item it was asked to remove. `CondemnedWereRefused` is the pruning's: whom a run
  condemned, chat or topic, was refused by Telegram, and what it takes from the list it holds is
  condemned; a chat that is closed is closed in all its topics.
- StockDividend: `LockHeld` is mutual exclusion over the places between taking the lock and
  returning; from it follows that what a save overwrites is what was loaded. `MessagesKnown` ties
  a stored action to a sent message and its lifecycle, `CreditReady` says a payout about to
  be saved has passed its checks. `PressKept` says that with one worker nothing but the call itself touches the action of a
  press, so that what it reads again is the pressed button's. `CreditSettled` says why an event that
  was paid never returns as unpaid: it is remembered as processed, or so old
  that it is no longer asked for. This needs the assumption that the provider states no
  Record date so early that an event expires while it is still within the discovery window.
- UsageStats: `SharedNameIsEvicted` says that whenever the rows of two users bear the same name,
  a running hook has still to remove it from one of them; at rest there is no such hook.
  `NoFailureEvicts` ties the strengthening to hooks that have not failed. Where hooks do not overlap there
  is one at a time (`OneHook`, `LatestIsOneUsers`, `HookHasLatest`), and `UserHasRow`, `RowsAreNamed` and `NobodyElseIsNamed` say
  that every row has its user's latest name, and nobody else's has it, but for what the running hook has
  still to visit. Counts are not summed in the proof: `InvocationsCounted` relates one row, the hooks that have still to
  count for it, and its invocations.
- Wordle: the lock (`WordleLocked`) makes what a handler carries the saved game with its own change
  (`WordleCarried`); `ScoreIsOfResults` is the score as that of the results in their order. Rounds are
  numbered, and two invariants with different conditions say which are counted: as long as no /wordle_new has failed,
  each at most once and the saved one not before it has ended (`NotCounted`); as long as no command has, every one that
  was replaced, and the saved one when it has ended and no handler is recording it (`AllCounted`).
- Loldle: the same lock; rounds are numbered, and what is stored is uncounted unless the handler that is to clear
  it has counted it (`CountedUntilClear`). `SavedRoundOpen` is inductive with the types: a
  handler saves a round only with guesses left, and a change of the budget does not reach a round that is open. The round an
  older build left exhausted is the initial state's, and no step makes another: `lSpent` never grows.
- Marks: in the first pass the pool holds the displaced letters seen so far (`Pooling`); in the second, a letter's pool and
  its marks spent add up to its displaced places, and a place is marked wrong only when the pool of
  its letter is empty, from which on no later place of that letter is partial (`Spending`). The passes end with
  the counts the rules of the game ask for. Sets of places and their cardinalities carry the argument.
- TradePortfolio: `ReadIsCurrent` is the optimistic update: a handler whose version is the stored one
  has read what is stored, so that what it writes is the old sum and its trade. `StoredNormal` makes a
  second normalisation of the money harmless, and `Balanced` bounds the drift by a
  dust less one unit for each written trade; its step is the lemma `OneMoreWithin`, where the product
  of two unknowns grows by one factor. The mutex plays no part: two containers do not share it.
- Dispatcher: `Builds` leaves a datum to at most one owner, because two prefixes of one text are prefixes of each
  other, and a registry with such a pair is refused; `Dispatched` says that what runs is permitted, and
  permitted is trusted.
- Aliases: `SavedAsTold` (a name's record is what its user was told, unless a write of it is in doubt), `SavedFolded`
  (a record stands under the folded form of its name, so that two spellings are one record), `AsksOnce`
  (while an update is handled, no name has been answered yet).
- BlacklistRules: `KeysAreBelieved` says that a key is stored just when its rule was said to be, unless a write is in
  doubt. It is inductive because keys of different rules differ. That rests on two facts about texts: no id has a colon, so
  the third colon of a key ends its prefix and a key has one scope (`OneScope`); and what
  was escaped reads back (`TextReadsBack`: `Decode(Encode(s)) = s` for every text `s`). The latter is an induction on the
  length of the text: a last character adds to the escaped text what it is escaped to, and to what is found in it nothing
  before that. The verdict follows: where occurrences of texts are (`OccurrencesAre`) and what covers them
  (`CoveredIs`) are the positions that `Forbidden` speaks of, and an empty exception covers nothing.
- StickerEmoji: what the scanner's recursive functions return is derived from their bodies, from the end of the text
  to its beginning (`AbsorbedRight`, `SplitRight`). A cluster holds no half of a flag after its first rune unless it is a flag, and
  a joiner between two pictures neither begins nor ends one (`ClusterEndRight`), so trimming never drops it. The clusters
  then spell a rising choice of the positions of the text that leaves none of the needed ones out (`SpellsAll`);
  what such a choice spells keeps the order, and counting positions gives the joiners (`SpeltKeeps`).
- StickerPack: until it replies, a command has put nothing into the pack and said nothing (`PutNothing`), and one that
  creates the pack knows there was none of the owner's (`CreatesMissing`); time spent never exceeds what is left
  (`SpendsTime`), so that the reserve is there when it is needed.
- PacedClient: `SlotsApart` says that whoever waits is a delay away from the last slot that came due, from
  everyone else who waits and from the next slot to be given out. Back-offs are powers of two, whose type the
  provers cannot establish without induction, so the proof uses the weaker `ClientShape`: only
  a caller that waits for a slot needs a number. A crawl's steps are the client's steps or leave it alone; a restart makes a new one.
- NovelExport: a chapter is fetched only where the cache has none of it, and what was fetched is kept in memory, so that a part
  in a book was in the cache before and still is (`PartsAreCached`); the landing page that a
  crawl started from is kept (`LandingIsKept`), and the list it works through has every chapter that the landing page and the
  page of the first chapter know, but for a torn first page, and a torn landing page with an older page of the first chapter
  (`ListIsReconciled`).
- Renderer: the semaphore's number is that of the renders that run (`RenderInv`), and a command that has not yet asked
  has no render; a restart sets both to none.
- StartupStore: `HeldIsCurrent` is what the task's versioned write needs, as above; the other process's Put needs none, because it
  is the only one that adds writes, so that what it has read has all of them (the task keeps them). `Swept` says
  that a document of the old form is still to be visited or was written since the listing, and that nobody who works
  on a task of stock or sticker has found its marker set; `Underway` gives the loop its shape. A crash keeps all three,
  because it forgets what the start knew and starts over.
- Lifecycle: `Balanced` (what was counted is what was logged, is in the counters, or is held by a flush) with
  `Emptied` and `Started` for its steps; `Ordered` is the order of the shutdown (the poller has stopped, or main
  gave up on it, before the last flush; jobs have stopped before storage closes), and `LastFlushed` says of each
  name the last flush has drained that what handlers counted is logged or about to be.

The invariants were checked by TLC before they were proved.

Induction over data is written out with sets, because the provers cannot instantiate an operator that is a
theorem's parameter: the texts or numbers for which a statement fails form a set, a well-founded order gives it
a least member (`NatSetInduction`, `DownwardInduction`), and a smaller one contradicts that. A recursive function is a
`CHOOSE`, so that one with its equations exists is proved first (`FlatExists`, `EndsExist`, `SplitsExist`). Functions of texts are stated with positions
(`At`, `Place`) rather than recursively.

Only model-checked:

- liveness, which with fairness is beyond the prover: `RunsEnd`, `CallsReturn`, `TradesReturn`, `SlotComesBack`, `ShutdownEnds`,
  `InterruptedStartsResume`, `SlotsReturn`, `ResultShown`;
- subscriptions of several processes and two workers of the bot: the theorems have the hypothesis of one, which is what is deployed.

## 5. Where the code and its words differ

Three runs are expected to fail; each checks one sentence of the repository.

1. `push_alerted`: "The day is claimed only when an alert goes out" (`weather/flood_push.go:30-32`). It is
   claimed before the fan-out; a crash or failed sends leave it claimed.
2. `wordle_lost`: a lost round "already recorded its loss" (`wordle/handlers.go:197-198`). Not when
   the second call failed.
3. `renderer_stuck`: "a slow render ends in the renderer's 504 rather than the bot abandoning a render"
   (`random/renderer_client.go:28-30`). A render whose Chrome has gone or hangs waits in
   `Target.closeTarget` (`render-gacha.js:369`) without a limit; no 504 is sent, and the one slot is gone until
   the renderer restarts.

Remarks that no run is spent on:

- "Repeated portfolio requests can create multiple valid buttons for the same event" (`README.md:118-120`): a
  newer suggestion supersedes the earlier one (`stock/dividend_notifications.go:347`).
- "A writer swaps only if the version it read is unchanged" (`doc_store.go:32-33`) needs that nobody deleted the
  document in between; the collections written with PutVersioned are never deleted from while they are in use.
- "Put overwrites unconditionally" (`doc_store.go:39`) ends in an error after five lost races.
- "A rename carries the whole history" (`usage_store.go:109-111`) does not hold while an older hook
  is still running: it brings the older name back until the user's next command.
- "rather than yielding a book with a hole in it" (`crawler/crawl.go:96-97`): a cached page that was torn by a
  stop is taken for the page, and a torn landing page together with an old page of the first chapter can shorten the list.
- A loldle round of an older build that has no guess left under the default budget is replaced by the next /loldle without a
  result (`loldle/handlers.go:84-94`, "defensive"): nobody loses or wins it. /loldle_giveup still counts it.
- A trade whose reply is lost is applied and reported as failed; the next listing of the portfolio shows the truth.
- gold's money or metal can end at exactly minus one dust, since a balance of that size is not rounded away; selling dust from an
  empty balance yields its revenue. coin's Validate refuses what is negative.
- A message with two commands is matched by any of them but reported to hooks and metrics under the first.
- /addsticker accepts a lone keycap, or a regional indicator with one, as emoji; converting a picture takes no
  context and cannot be cut short by the budget.
- Startup: a portfolio of the old form that does not pass validation fails every start until it is repaired; the count in
  stock's marker is of the start that completed it; stats sweeps at every boot, so rows an old build revives are
  retired by the next.
- The renderer memoises the promise of its bundle even when it is rejected (`remotion-bundle.js:14`); it is harmless
  because the bundle is made before the service listens.

A limit worth knowing that is no finding: with *two* update workers and a Record date early
enough for the event to expire between a fetch and its merge (RecordDays {1, 3}, LastDay 4),
`CreditedOnce` fails: the history is pruned and the stale answer brings the event back
(`dividend_notifications.go:132`, `153-162`). The bot has one worker, and one replica
(`docs/deploy-coolify-selfhosted.md:168-171`), so this does not arise today.

## 6. What is not modelled

`PROJECT.json` lists the reason for each component. In short:

- Calls to outside services and the parsing of what they return (prices, dividend events, company data, the esports schedule, forecasts,
  tides, HTML pages), with their fallbacks and caches: their answer is an input, their failure a branch.
- Formatting and wording; drawing, image, video and PDF conversion; the tables of the lunar calendar. They keep no
  state, and the repository has golden tests for the calendar.
- DocStore's List and Scan as operations of their own (where a module uses them, the module has them), key
  validation and field checks; the connection to Mongo and the creation of indexes.
- The listing of a blacklist under its byte budget, `whitelist_rnd`, and which of several matching entries a
  verdict names; the listing of aliases and the debug command, which only read.
- loldle's comparison of attributes and its fuzzy lookup of names: data, without steps in between.
- The tab of a render that was abandoned before Chrome told its id: it leaks, and a tab has no state a
  property is about.
- The webhook secret, the health route, logging and the notice after a deployment.
- Numbers are small. The 64-bit overflow tests of stock's totals keep their place as checks of a small limit; floating-point rounding beyond
  the dust tolerance is not represented, nor is the share of a cost basis that a coin sale removes.
- Real time: a time-out is a step that may come at any moment, except where the spacing (PacedClient) or the rest of a
  budget (StickerPack) is what a property is about.

## 7. What is left

- Type correctness of the parts whose types are so far a conjunct of their invariants only (Wordle, Loldle, marks, aliases,
  stickers, lifecycle, renderer) as theorems of their own.
- An abstract specification of the export (a slot, and a complete book or an error) that NovelExport implements.
- The arithmetic of stock's entitlements at its 64-bit boundaries, as operators against a reference.

# QuickBites: a TLA+ verification project

QuickBites is a support platform for a food-delivery company: a FastAPI server
(`app/`) with a PostgreSQL database, a React frontend (`frontend/`), and calls
to language models, OCR and a simulator that scores conversations. This
directory holds a TLA+ model of the parts of the server where several requests,
threads or commits meet, and of the pure algorithms whose outcome is hard to
foresee (the refund rules, the contract stages with their translation, the chip
acknowledgements); the TLC configurations that check it on small instances; and
proofs for every instance.

Contents: [1 inventory](#1-inventory) · [2 modules and the code](#2-modules-and-the-code)
· [3 runs](#3-runs) · [4 what the code does not do](#4-what-the-code-does-not-do)
· [5 fairness](#5-fairness) · [6 proofs](#6-proofs) · [7 abstractions](#7-abstractions)
· [8 not modelled](#8-not-modelled)

## 1 Inventory

### How the parts meet

Three facts of the code shape every module.

* **Handlers run in threads.** FastAPI runs every `def` handler, and every
  background task, in a thread pool. Whatever two requests share (a row, a
  module-level cache, the connection pool) they share concurrently.
* **`db_session_dep` commits after the handler** (`auth/dependencies.py:32-42`):
  a handler that does not commit itself holds one transaction from its first
  query until after its return value was built, and any exception rolls it back.
  The pipeline and the contract processor commit on the way instead, after each
  write.
* **The ORM writes columns, not rows.** Sessions are made with
  `expire_on_commit=False` (`db.py:13`), so an object keeps the values its
  session loaded, however old, and an UPDATE names only the columns whose value
  differs from that copy.

Calls between the parts: `sessions/routes.py` calls the pipeline
(`l1_cardinal/pipeline.py`), which calls Phases 1 to 5 and Stages 0 to 3
(`l2_agents/`), which read the policies (`policies/`) and the model provider.
`contracts/routes.py` schedules `contracts/processor.py`, which calls storage,
OCR, Stages 1 to 3 and the translator; the translator uses the idiom library.
All routes go through `auth/dependencies.py` and the grants of
`modules/service.py`. The frontend polls.

### Components

| Component | State | Operations | What is hard | What makes it correct |
|---|---|---|---|---|
| Contract lifecycle (`contracts/service.py`, `routes.py`, `processor.py`) | the row of `uploaded_contracts` (status, error, text, stages), its file | upload, delete, POST process, a background run of ten commits | several runs of one row; deletes between two commits; a crash or a failed commit in the middle; early returns | the status follows its machine; `ready` is coherent; no orphaned file; every run ends in `ready` or `failed` |
| Contract storage (`contracts/storage.py`) | files by key | save, load, delete | a second store without a common transaction | a committed row has its file |
| Idiom library (`translate/idioms.py`, `idioms/admin_routes.py`) | the cached automaton, its lock, the idiom tables | look-up, load, reset, admin writes | double-checked locking; reset before commit; lock and pool held crosswise | nothing uncommitted is used; staleness is bounded; nobody waits for ever |
| Accounts and super-admins (`auth/routes.py`, `modules/service.py`, `modules/admin_routes.py`) | the two flags of each user | signup with bootstrap promotion, update of the flags | guard and write are not serialised; stale copies | a super-admin remains; no flag is lost |
| Chat sessions (`sessions/`, `l1_cardinal/`, `select_issue`) | session row, turns, reply cache | message, chip tap, delete | history read before three model calls and used after; replays; deletion under way; a stage failing after the question was stored | replies answer questions; numbers have no gap; a deleted session does not return; no claim twice |
| Stage 2 validator (`l2_agents/stage2_validator.py`) | none | one pure pipeline of rules on a proposal | rules that undo one another's effect; caps and credits in integers | never a claim the history has; the matrix sets the amounts; large refunds and flagged customers reach a human; injections leave a trace |
| Refund policies (`policies/`) | none | matrix, caps, abuse score | boundaries | caps hold for every order |
| Stages 0, 1 and 3, Phases 1 and 4 | none | classify, prompt and parse, answer | model output | outside a model's reach except for their outcome |
| Contract translation (`contracts/translate.py`) | none | pack rows into chunks, encode, decode, retry row by row | markers lost or doubled, rows reordered, thresholds, a call of several failing | nobody reads under one clause what was said of another; English has a cause |
| Contract stages and OCR (`contracts/stage*.py`, `ocr.py`) | none | clean, salvage, backfill | answers with rows missing, repeated or made up | every clause has its card; silence is never green |
| Module grants (`modules/`) | `modules`, `user_module_access` | default grants at signup, grant, revoke | read, compare, write; level and grantor are two columns | a level falls only over an old copy; the grantor gave the level; a revoked row stays away |
| Conversation studio content (`conversation_studio/admin_routes.py`) | business units (a tree by `parent_id`), issue types, bindings, templates | CRUD, replace bindings | delete after a count; cascades over any graph of parents; overlapping PUTs | every key resolves; no counted issue type goes; a PUT replaces |
| Conversation studio chips (`service.py`, `render.py`, `routes.py`) | the session's two pointers | resolve bindings, render, `select_issue` | fetchers depend on what earlier ones found; a database error aborts the rest | an acknowledgement says only what was found; pointers agree |
| Runners (`runners/`, `simulator_client.py`) | scored sessions, the quota | start, turns, replies, close | an answer lost after it took effect; an exception at every place | scores are recorded; nothing is drawn after a loss; runs end |
| Model providers (`l2_agents/llm_provider.py`) | none | call with retries | retries and giving up | bounded attempts, a fallback each time |
| Contract pages (`useContracts.ts`, `ContractDetailPage.tsx`) | a query cache with a polling interval | show cards and badges; poll while in progress | the refetch sees the status from before the run | each clause its card and badge |
| Other pages, passwords and tokens, running migrations and start-up | — | — | rendering, libraries, run once | not modelled |

`PROJECT.json` lists each with its status and sources, and under `hazards` the
lines where this code can go wrong in a way a unit test would hardly reach.

## 2 Modules and the code

| Module | Models |
|---|---|
| `ContractStatus` | abstract: the status machine the module doc of `processor.py` and `models.py:693-696` draw, as a client sees it |
| `ContractLifecycle` | one contract row, its file, and the upload, deletes and runs that write them |
| `IdiomCache` | the idiom cache with lock, admin transactions and connection pool |
| `Accounts` | signup and `update_user` on the two flags |
| `ChatSession` | one chat session with its messages, taps, deletion, reply cache and restart |
| `RefundPolicy` | the refund matrix, the auto-approve caps and the abuse score, as functions of an order and a customer |
| `TurnValidator` | the rules of `stage2_validator.validate` and the shaping of actions by Stage 3, as operators on one turn |
| `RefundChat` | a conversation of turns one after the other: what the session knows and said, and the validated replies |
| `ModuleGrants` | the table of grants with the signups, grants and revocations that write it |
| `StudioContent` | the tables behind the chips with the admin routes and taps that write and read them |
| `ChipSeed` | migration 004's bindings and templates, as data |
| `ChipTap` | one tap: fetchers in their order, template, rendering; extends `ChipSeed` |
| `TranslateChunk` | packing, encoding, damage and decoding of one text for the translator, as operators |
| `ContractText` | a contract's text from OCR through Stages 1 to 3 and the translation to the cards; extends `TranslateChunk` |
| `ScoredRuns` | evaluation runs with the simulator, the turns' model calls and the provider's retries |
| `MC…` | symmetry sets for TLC; for `RefundChat` the customers, orders, messages and proposals, for `StudioContent` the seeded units |
| `…Proofs` | theorems and their lemmas (section 6); `AdminTableProofs` and `PipelineProofs` each hold those of two modules |

Every module models code at the granularity at which others can see it: **one
action per commit, lock operation or read of shared state**. A slow call
(storage, OCR, a model) is the nondeterministic outcome of the action it
precedes. Operators named as the mutated form of another are what the next
definition would be if the code had a plausible bug; no specification uses them.
`IdiomCache`, `ScoredRuns` and `ChipTap` call their specifications `CacheSpec`,
`RunsSpec` and `TapSpec`, as a module of proofs extends each together with another.

**ContractLifecycle.** `row` is the committed row, `file` whether the storage has
the key, `mem[r]` the row as run `r`'s session sees it. A column that a run
computes holds the name of that run, which is all the properties need: two runs'
texts differ, and one run's stages refer to each other's clause ids.
`CommitStep` is `_commit` with the ORM's rule (`Flushed`, `Column`): an UPDATE of
a vanished row raises (`Raises`), one of a row whose DELETE is flushed waits
(`RowLocked`). `Raises` is also a run cut off by a call that never returns. The steps of a run are those of `process_contract`: `Begin`, `Reset`, `StartOcr`,
`ReadFile`/`FileFails`, `OcrDone`/`OcrFails`, `StartProcessing`,
`Stage1`/`Stage1Fails`, `Stage2`, `Stage3`, `Finish`. `Crash` ends all that is
under way. The constant `Overlap` says whether a second run may be scheduled
while one is unfinished (the route allows it; the UI's buttons do not ask for it).
`FollowsStatusMachine` is the refinement: `ContractStatus` with `status <-
StatusSeen`.

**IdiomCache.** `db` is the set of committed admin writes, a library the set its
query saw, so "stale" and "uncommitted" are set differences. `ResetCache` needs
the lock, `Query` a connection (`ConnectionFree`) while it holds the lock.
`Return` is the second, unlocked read of the global. `window` is a history
variable.

**Accounts.** `work[r]` is the transaction of thread `r` with the copy it loaded;
`Writes` and `Applied` are the ORM's rule once more, on two flags. `Authorise`
loads the acting user; `LoadTarget` reuses that copy when he edits himself
(the session's identity map). `configured` is `settings.super_admin_email`: it is chosen
in `Init` and never changes. `overlapped` is a history variable.

**ChatSession.** `turns` is the table in the order of its ids, with the history a
turn was computed from (`seen`). A reply is its set of actions; a refund or
complaint is the key the validator compares. `Replies(prior)` is Stage 2 and
Stage 3: the rules that depend on the history (`Deduped`, `Pivots`, `Downgrades`,
`Collapsed`, `SafetyNet`) in the order the code applies them, starting from any
proposal. `Evaluate` also stores the reply in the cache, as `remember()` does before the turn
is written. `RowGone` and `QueryFails` are the two ways a handler's own fallback
fails.

**RefundPolicy, TurnValidator, RefundChat.** One layer extends the other.
`RefundPolicy` counts in rupees and percent and compares rates as fractions.
`int(round(x))` is `Rounded`: where the float `x` ends in exactly one half, the
constant `RoundsUp` says which way the code goes, and the theorems hold for
either. `TurnValidator` has one operator per rule, named for what it does, from
`Capped` to `SafetyNet`; `Routed`, `Resolved` and `Settled` apply them in the
order of the code and `Validated` is the whole of `validate`. A list of actions
is a set of records with a slot, since no rule reads the order of the list: two
equal entries of Stage 1 stay two. An amount is any integer, as `ProposedAction`
declares it (`schemas.py:164`) and Stage 1's parser leaves it
(`stage1_evaluator.py:246`). `RefundChat` calls it: `Ask` stores a message,
`Answer` is the rest of `run_turn` with the known ids (`OrderAfter`,
`CustomerAfter`), `FallBack` the exception handler after any of the two writes of
these ids, `Tap` is `select_issue`. `drafted` is a history variable, the proposal behind
the reply; `said` is what `prior_bot_actions`, `already_escalated` and
`already_flag_abused` read. `ChatSession` looks at the same validator from the
other side: there replies overlap, and only the rules about the history matter.

**ModuleGrants.** `work[r]` is the transaction of thread `r`. A grant reads its
row twice, in `_load_user` (`GrantLoad`) and in `grant_access` (`GrantLookup`);
the identity map may answer the second read with the first copy, so both answers
are possible. `GrantCommit` writes the columns that differ from the copy, so two
grants at once can leave one's level beside the other's `granted_by`. `GrantFails`
is the primary key or the vanished row, `RevokeCommit` of a vanished row only a
warning. `given`, `stale` and `missed` are history: what was asked for since the
last revocation, and which requests had read before another one's commit.

**StudioContent.** A route that reads, decides and writes in one flush is one
action; those whose read matters later are two or three (`DeleteUnitCount` and
`DeleteUnitCommit`; `PutLoad`, `PutWipe`, `PutCommit`; `TapLoad`, `TapCommit`).
`Cascade` is what the foreign keys of the schema do at a delete, and `Below` the
subtree they reach, on any graph of parents: `update_business_unit` accepts a
parent inside the unit's own subtree. `Locked` are the bindings of a flushed,
uncommitted wipe. Ids are UUIDs and never return (`spent`).

**ChipSeed, ChipTap.** A text is the set of its placeholders. `HasId` is the guard
of each fetcher: the order's own id comes with the request or the session, the
customer's and the restaurant's with any order that was found, the rider's only with
an order that has a rider (`Finds`; `schemas.py:123`). `Skip`, `Resolve`, `NotThere` and `Crash` are the four exits of
the loop in `resolve_data_points`, and `Spoken` is `render`, which drops a sentence
with a placeholder that misses. The bindings (`bound`) are in their seeded order or
in any other, which the admin route can give them.

**TranslateChunk, ContractText.** A text is a sequence of tokens: row markers,
separators, and the words of a field with the row they are from, so a property can
say whose words a card shows. `Packed` is the loop of `_pack_chunks`, the full chunks
and the open one after each row. `Pack`, `Answer` (encoding plus damage) and `Decode`
are `_pack_chunks`, `_encode_chunk` with the translator, and `_decode_chunk`;
lengths are thirds of the limit of a call. `ContractText` takes the steps of
`process_contract` once more, this time by what the models answer: `Clean`,
`Noted` and `Filled` are the parsers of Stages 1, 2 and 3 with their backfills;
`ChunkAnswered`, `ChunkDenied`, `RowTranslated` and `RowDenied` are the branches of
`translate_stage_3`, the last two a whole row with its up to three calls. A translation
may come back without the words of a field, as `_mayura` accepts an empty text
(`emptied` remembers which); `Shown`, `Card` and `RiskOf` are what `ContractDetailPage.tsx`
looks up by clause id. `ContractLifecycle` has the commits between these steps and
their competitors.

**ScoredRuns.** `RunStep(r)` is the thread of one run; `Raise` tells `run_prod_all`,
which an exception ends, from `run_all_rehearsal`, which logs it and goes on. Each
call of the simulator has three outcomes: an answer, a refusal, and an answer lost
after it took effect (`StartLost`, `ReplyFails`). A turn is Phase 1's refusal, a
replay, or three models in turn, each of which may be busy `MaxAttempts` times
before the provider gives up. `Hangs` is a call of a model or of the database that
never returns.

## 3 Runs

Run one with `tlc -workers 2 -config X.cfg M`. Times are for two workers.

| Run | Checks | Instance | States |
|---|---|---|---|
| `contract_overlap` | `DeletedForGood`, `FileMissingOnlyAfterDelete`, `TextBehindStatus`, `RunsSettleTheRow` | two overlapping runs, two deletes, one crash | 300 000, 40 s |
| `contract_serial` | `ReadyIsOneRunsWork`, `FailedSaysWhy`, `FollowsStatusMachine`, `RetrySettlesTheRow` | two runs in turn, one delete, one crash | 14 000, 3 s |
| `contract_text` | `EveryClauseIsExplained`, `SilenceIsAmber`, `WordsStayInTheirRow`, `EnglishHasACause` | two pages, up to two clauses and two rows in each answer, up to four rows of three kinds in a rendition, two damaged markers or one field left out in an answer, two damaged rows or fields left out in a rendition | 651 000, 110 s |
| `idiom_cache` | `OneLoader`, `OnlyCommittedIdioms`, `StaleOnlyFromWindow`, `RequestsEnd`, deadlock | two writers, two scanners, a pool of two | 8 000, 5 s |
| `accounts_concurrent` | `SuperAdminRemains`, `OnlyAskedChanges` | two users, two threads, both settings of the email | 262 000, 6 s |
| `module_grants` | `FallsOnlyOverOldCopies`, `GrantorGaveTheLevel`, `RevokedStaysRevoked`, deadlock | one user, one module, two admins, two threads, three levels | 75 000, 5 s |
| `studio_content` | `ReferencesResolve`, `CascadeTakesNoCountedIssue`, `OnlyOverlapsMerge`, `PointersAgree` | two seeded units and a third, three seeded issue types and a fourth, one data point, one template, one session, two threads, five requests | 2 070 000, 75 s |
| `chip_tap` | `OrderFirstSuffices`, `AckIsSpokenFromContext` | the eleven seeded issue types, every order of their bindings (up to three), both ids present or not, the order with a rider or without | 7 600, 2 s |
| `chat_safe` | `DeletedStaysHidden`, `NoGaps`, `RepliesAnswerQuestions`, `HistoryIsRespected` | two messages of one text, one tap, one delete, one claim, one restart | 1 550 000, 30 s |
| `refund_chat` | `PolicyRoutesCarryNoRefund`, `MatrixOwnsAmounts`, `LargeRefundsReachAHuman`, `InjectionIsTraced`, `ClaimsAfterAFlagAreReviewed`, `NoClaimTwice` | three turns, three customers, two orders, 19 messages, ten proposals | 1 356 000, 110 s |
| `scored_runs` | `ScoresAreRecorded`, `NothingDrawnAfterALoss`, `RunsEnd` | one run of three sessions, a quota of two, three turns, four attempts | 250 000, 15 s |
| `chat_race` | `ClaimsOnce`, violated: section 4 | two messages of one text, one tap, one claim | |

What they show, in a sentence each: a contract's row and file stay consistent
under any interleaving of runs, deletes and a crash (`contract_overlap`), and runs
that do not overlap follow the documented machine (`contract_serial`); whatever the
models and the translator leave out, each clause keeps a card of its own and no
silence counts as harmless (`contract_text`); the idiom cache serves nothing
uncommitted and its lock and pool do not block each other for ever
(`idiom_cache`); flags and grants change only as somebody asked, but for writes
from old copies that the properties name (`accounts_concurrent`, `module_grants`);
the studio's content has no dangling key through any cascade (`studio_content`),
and its chips say nothing they did not find (`chip_tap`); a chat's transcript is
in order under concurrent messages, taps, deletion and restart (`chat_safe`); the
validator's rules together keep what each of them is there for (`refund_chat`);
and an evaluation run loses no score it was told and ends if its calls return
(`scored_runs`).

The type invariant of each state machine (`TypeOK`; `CacheTypeOK`, `RunsTypeOK` and
`TapTypeOK` where the specification has a name of its own) is proved (section 6)
rather than checked by a run.

**Why the bounds are enough.** Every hazard above is a race of two actors, or of
one actor with a crash. Two runs give each order of two sets of commits on one
row, with the first run dead, finished or alive; a second delete is needed for a
delete that finds the row gone. A pool of two is the smallest that both admin
requests can exhaust while a loader waits for it with the lock in its hands, and
the smallest with which one of the two still leaves a connection. Two users are needed
for the guard of the last super-admin (who remains and who goes), two threads for its
race. In `chat_safe` both chats send
the same text, which makes every replay happen, and the cache expires at any
moment, which makes every recomputation happen; two different texts add nothing
but chats that do not share a cache entry. One claim is enough because no rule
compares two different claims.

In `refund_chat` three turns give every case the rules tell apart (first turn,
second, later), a flag and a hand-off each before the turn they matter in, and an
order named late. The three customers are gold and clean, gold and not clean, and
a likely abuser; the two orders lie below the smallest credit (50) and above the
soft cap (1500). The messages have every intent that a rule names with the order, some
without it or with one that does not exist, and each detector once. The proposals
are nothing, a refund that is too small, too large, orderless or for the wrong
order, two at once, an orderless negative one beside one on the order, a complaint, a
close, an escalation, and a refund with one. The float products of
these totals have no tie, so `RoundsUp` is empty.

One row of grants is enough, since a request touches no other; two admins tell a
level from its grantor, and two threads make every old copy. In `studio_content`
three units close every cycle that matters (a unit under itself, under its child,
under its grandchild), two issue types share a unit and a third has its own, and
five requests allow a move, a tap and a count before a delete. A wider tree or more
requests only repeat these. In `contract_text` four rows are two clauses,
answered by Stage 3 with a stray or a repetition each; two damaged markers are the
least that ruin both rows of a chunk. Stage 3 answers with rows that are full, that
have no explanation and no action (`mute`), or that are too long for a call; the
placeholders of the code add rows without an action and rows with nothing but an
explanation (`Written`, `Kinds`). `MaxHurt` keeps the history small: two damaged rows
or two fields left out meet in one chunk, in two, or in a chunk and a row that goes
field by field. Three rows in a
chunk is where `n // 2` first accepts fewer than half of them. In
`scored_runs` the quota is smaller than the sessions of a run, so a prod run meets
its end in both ways; several runs meet only in the quota, and `StartRefused` may
come at any time for that reason.

**Deadlock.** `idiom_cache` and `module_grants` check it. The other runs say
`CHECK_DEADLOCK FALSE` because the modelled world is finite or really stops: each
contract or chat request is sent at most once, a tap, a text and a run come to
their end, the studio's requests are bounded, and an accounts platform can reach a
state in which nobody may do anything.

**Symmetry** is used only where no liveness property is checked.

Each property of a passing run has a mutant in `PROJECT.json`: a definition of
the model changed the way a plausible bug would change the code, under which TLC
finds the property violated.

## 4 What the code does not do

`chat_race` looks for the promise of `stage2_validator.py:523-524` not to "re-file
an identical complaint or re-issue a refund" that was emitted "earlier in this
session", and finds it broken: of two messages answered at once each read a history
without the other. The finding in `PROJECT.json` quotes the lines.

Seen while modelling, of the same kind, and without a run of their own:

Contracts:

* `processor.py:51-54` says that an exception swallowed by the wrapper degrades
  the contract to `failed`. The wrapper only logs: the row keeps the status of its
  last commit until somebody posts again.
* `processor.py:68-70` says a re-run "rewrites stages from scratch";
  `_merge_stages` keeps the old stages until each is replaced.
* With two overlapping runs the row leaves the status machine of
  `models.py:693-696`, for instance from `ready` to `ocr_pending` and back to
  `processing` by the other run. `FollowsStatusMachine` is stated for serial runs.
* `translate.py:371-373` promises a fallback per row. A row that an accepted
  answer lacks stays English; only a chunk that fails as a whole is tried row by row.
* `translate.py:381-383` wants fewer than half of the rows to fail a chunk; the test
  is `n // 2`, so of three rows one is enough. (`EnglishHasACause` says two thirds.)
* `translate.py:376-378` takes the first three parts of a body. The rest, a
  literal separator included, is joined to the action. Where a row's marker is
  lost, the next row's text is read as the action of the row before it:
  `WordsStayInTheirRow` excludes just that.
* `translate.py:90-93` promises a `TranslationError` for an empty response, and with it
  the English text. `_mayura` (489-494) takes any string, "" too; 302-320 and 400-420
  then record the empty explanation as translated, and the worker sees a blank card.
  (`EveryClauseIsExplained` excepts just the fields for which nothing came back.)
* Two clauses of Stage 1 may have one id (a missing id is named after its place,
  which another row may have as its id); they share one card and one translation.
* A row of Stage 3 with an empty explanation makes a card without one; only rows
  that are missing altogether are filled in.
* An answer of Stage 1 that cannot be parsed is a contract without clauses, and
  ends in `ready`.
* `useContracts.ts:59`: the refetch after a POST may see the terminal status from
  before the run, and polling stops. Nothing in the row tells the two apart.

Idioms and accounts:

* `translate/idioms.py:240` calls `reset_cache` safe to call concurrently. A reset
  between the check and the second read of the global (230-234) hands the scanner
  `None`.
* `idioms/admin_routes.py:15-16` says that the automaton "reloads on the next
  translation" after an admin write. The cache is dropped before the commit; a
  load in between keeps the old rows until the next write. `StaleOnlyFromWindow`
  says that this window is the only source of staleness.
* The guard of `modules/admin_routes.py:135-155` against an "unmanageable"
  platform counts deactivated super-admins: deactivate the other, demote yourself.
* Two demotions side by side each count the other's target as a remaining
  super-admin (`modules/admin_routes.py:135`): `SuperAdminRemains` excludes them by
  `overlapped`.
* Two first signups side by side are both promoted (`modules/service.py:102-103`
  speaks of the first user).

Refunds:

* `policy_and_faq.md:62` and `stage2_validator.py:6` never refund more than the
  order's total. Each refund is capped alone (127-132) and repriced alone (481-492): two
  of one reply, or a promo credit of at least 50 on a smaller order, exceed it. A
  gold and clean customer whose order of 2000 was wrong and for whom Stage 1 proposes two
  refunds is paid 2000 twice. (`MatrixOwnsAmounts` says that each is the matrix's
  amount and that they are no more than Stage 1 proposed.)
* `stage2_validator.py:11` sends refunds above 1500 to a human unless the customer is
  gold and clean. The rule is skipped while an order id is awaited (632-636), where no
  order capped the refund either. And the sum it looks at (607-616) counts negative
  amounts, which nothing rejects (`schemas.py:164`, `stage1_evaluator.py:246`): beside a
  refund of 2000 on the order, one of -600 without an order id makes 1400, and is
  stripped for the missing id afterwards (683-687), so 2000 is paid and no human sees
  it. (`LargeRefundsReachAHuman` is stated for the rest.)
* `stage2_validator.py:653-656` wants no second announcement of a hand-off
  without a new resolution. A refund or complaint that lacks a field counts as one
  there and is dropped afterwards (682-689, or in Stage 3), so the escalation
  next to it is all that remains.
* `docs/TESTING_GUIDE.md:156-160` has an abuser get one token of at most 300. Two
  proposed refunds of 300 both pass (`stage2_validator.py:302-305`), and after a hand-off
  the rule does not apply at all.
* The abuser pivot says "Strip any money or escalation" (575); low confidence
  adds the escalation again (632-645). So it does for a first request for a human
  (205-210).
* A refund without an order id whose amount and method happen to be the matrix's
  is not given the order id (488-492) and is stripped for the lack of it (686).
* The first order id a customer mentions stays the session's, even if no such order
  exists (`pipeline.py:265-276`): the right one, mentioned later, is never looked up.

Chats and runs:

* `pipeline.py:8-10` wants no single flaky turn to fail a session. After a database
  error the handler's own fallback turn cannot be written in the aborted
  transaction, and the question stays without a reply.
* A replay of a cached reply repeats its refund actions (`pipeline.py:193-206`):
  `HistoryIsRespected` is about computed replies only.
* The turn number in the answer of `POST …/chat` is read back as the last one of
  the session (`sessions/routes.py:182-184`) and may be another request's.
* A message under way when its session is deleted inserts the row again, without
  an owner (`phase3_handler.py:77-94`, which contradicts the comment at
  `models.py:182-183`). `DeletedStaysHidden` says that it stays hidden.
* The models of Stages 0, 1 and 3 are called through a `genai.Client` without a timeout
  (`llm_provider.py:84-92`), and `create_engine` (`db.py:12`) sets none for a connection
  or a statement: a turn, a contract run or an evaluation run waits for ever for a call
  that never returns. (The liveness properties except such a run.)
* A prod run whose reply fails leaves its session open at the simulator, reports it
  without a score and draws the next one (`session_runner.py:96-98`).
* A scored session of which Phase 1 refuses every message has no row, so its score
  is recorded nowhere.
* An exception of a prod run that is no `SimulatorError` loses the results of all
  its sessions.

Studio:

* `004_conversation_studio.py:309-311` says that seeded rows carry
  `is_system=true`. Of the seeded tables only the data points' has such a column; the
  routes that delete units, issue types and templates delete seeded rows like others.
* The comment at `conversation_studio/admin_routes.py:171-173` wants no silent
  cascade to issue types. Those of the units below the deleted one are not counted
  and go. (`CascadeTakesNoCountedIssue` says that only those and later ones do.)
* `update_business_unit` has no test for a cycle of parents, and a delete on a cycle
  takes all of it.
* Any IntegrityError of `create_business_unit`, an unknown parent's too, is reported
  as a code that already exists; `update_business_unit` does not handle it.
* Two PUTs of bindings at once merge their sets; two taps at once can leave one's
  issue type beside the other's unit; moving an issue type leaves the old unit in
  the sessions that point to it.
* Seeded templates of `never_arrived`, `rider_late`, `rider_rude`,
  `rider_demanded_tip` and `promo_failed` speak of `{{restaurant.name}}`, whose data point
  none of these issue types is bound to: those sentences are never spoken.
* `pick_and_render_ack` "guarantees a non-empty return"; a template of white space,
  which the admin route's `min_length=1` admits, renders as the empty string.
* A fetcher that fails in the database aborts the transaction, so the fetchers
  after it fail too and the tap ends in a 500, although the loop means to go on.

## 5 Fairness

* `ContractLifecycle`: weak fairness of each run's steps (a thread of a live
  process goes on; Python's threads are preemptive) and of each delete that has
  begun. Nobody is obliged to upload, delete or POST. A crash is never fair,
  and a run it killed is an admitted exception of both liveness properties. So is a run
  cut off by `Raises`, which stands for a call that never returns as well: the code
  bounds no call of a model or of the database. A delete's own calls, of local storage
  and the database, are assumed to return.
* `IdiomCache`: weak fairness of requests and calls under way, and strong
  fairness of the two actions that take the lock: other threads may take it any
  number of times in between, and CPython's `threading.Lock` wakes a waiter
  whenever it is released. `PoolTimesOut` is SQLAlchemy's pool timeout; the mutant without it
  makes `RequestsEnd` fail, so it is this timeout alone that breaks the cycle of
  lock and pool. That a query ends once it has a connection is an assumption: no
  statement timeout is set.
* `ScoredRuns`: weak fairness of each run's steps, as a run is one thread. The
  simulator's client has a timeout (`simulator_client.py:31`); a call of a model or of
  the database has none, so it may be the last step of a run (`Hangs`), and `RunsEnd`
  excepts such a run. What ends the others is the cap on sessions, the simulator's limit
  of turns and the provider's limit of attempts; the mutant of `RunsEnd` takes the last
  one away.
* The other modules state safety only.

## 6 Proofs

Every invariant and every action property that a passing run checks is also a
theorem, for every value of the constants, and so is the refinement; what is left to
TLC alone is liveness. The assumptions are the named ones of the modules: the model
values differ (`NullNotRun`, `NoRowNotRow`, `NoneNotUser`, `FreeNotScanner`,
`EmptyNotLibrary`, `NoneIsNothing`, `NoneNotAdmin`, `NoneIsNoId`, `NoneApart`,
`ClaimsApart`, `ChatsNotTaps`, `NoScoreIsNoNumber`), a seed refers to itself
(`SeedsAreIds`, `SeedsHaveUnits`, `DefaultsAreModules`, `OrderHasId`), the inputs have
their types and a list from Stage 1 is finite (`InputsTyped`), a rendition has room for
the rows Stage 3 can write (`RowsHaveRoom`: its answer and a placeholder for each
clause), and numbers are numbers.

| Module | About | Argument |
|---|---|---|
| `ContractLifecycleProofs` | `ContractLifecycle`, `ContractStatus` | what each step has left in row, file and copies; refinement |
| `ContractTextProofs` | `ContractText` | which rows are settled, and what is recorded of them |
| `TranslateChunkProofs` | `TranslateChunk` | where the parts of an answer lie |
| `AdminTableProofs` | `ModuleGrants`, `IdiomCache` | how old each copy can be |
| `AccountsProofs` | `Accounts` | what a request past its guard leaves behind |
| `StudioProofs` | `StudioContent`, `ChipTap` | closure of cascades; what the context holds |
| `ChatSessionProofs` | `ChatSession` | turns grow at the end only |
| `PipelineProofs` | `RefundChat` with its operators, `ScoredRuns` | what a rule establishes and the later ones keep; one run's progress |

**`ContractLifecycleProofs`** (any number of runs and deletes, overlapping or
not): `TypeCorrect`; `DeleteIsComplete` (once a delete is done, neither row nor file is ever
there again) and `UploadNeverDangles` from `FileInv`,
which ties row and file to the progress of the upload and of the deletes;
`NoSilentRevert`, by the fact that no commit of a run carries `uploaded` as a
changed column; and `StatusHasItsText` from `TextInv`. The last is not obvious:
with two runs, the run that sets `ready` need not be the one that wrote the text,
and a run's copy may have a text the row lacks. `TextInv` says that a text or a first stage a run
has seen is still in the row, because no commit of any run clears either, and
that a run past a step has seen that step's output.

Its second part is under `ASSUME ~Overlap`: `SerialInv` says that at most one
run is unfinished, that its copy is the row, and that the row shows exactly the
progress of that run (`StepShows`). From it follow `ReadyIsCoherent`,
`FailureIsExplained` and the refinement `ImplementsStatusMachine`, whose step
lemma maps each commit to a step of `ContractStatus` or a stutter.

**`TranslateChunkProofs`** (any rows, any copies of any markers, any words left out,
either order). An
answer is a concatenation of parts, and the library says nothing of where a part
begins: `FlatteningExists` and `FlattenPlaces` give each part its place. From there,
`PartIs` says which tokens a row's part holds, `BodyIs` and `SplitIs` what a decoder
reads from one marker to the next, `OwnWords` that this is the row's own words while
no ROW marker is lost, `UnharmedIs` that it is exactly the fields whose words came
back when none of its markers is hurt, and `DecodeIs` and `DecodedRows` what `Decode` makes of it.
`PackIs`, by `QueueBegins` and `QueueGrows`, says that `Pack` goes through all rows
once and in their order.

**`ContractTextProofs`** (any number of pages, clauses, rows and damaged markers).
`CardsInv` is the conjunction of `TypeOK` with `PhaseInv` (a stage that has not begun
has left nothing), `QueueInv` (the chunks to do are the rows from `NextRow` on, and
the rows to go one by one are the rest of the first), `DoneInv` (exactly the rows
before `NextRow` have a translation), `RowsInv` (what is recorded of an id is explained
if its rows are and no explanation was left out, has no action if they have none, and is English only if one of them
was hurt), `WordsInv` (recorded of a row are its own words, and of an undamaged one all but
those left out), `CountInv` (of the rows so
far at most two thirds are English for no failed call) and `Covered` (Stage 3 left no
clause out). None of the properties is inductive by itself: `EveryClauseIsExplained`
speaks of the end, and which rows an answer may still overwrite is known only from
the queue; the two thirds are of all rows, while the code tests each chunk, so the
bound has to be carried from chunk to chunk (`SettledCount`). `AnsweredRow` and
`AnsweredCount` apply the lemmas on an answer to one chunk; then there is one lemma
per action. The theorems are `ContractTextTyped`, `GreenWasSaid`,
`CardsAreExplained`, `WordsStay` and `EnglishIsCaused`.

**`AdminTableProofs`, idiom cache** (any writers and scanners, any size of the pool):
`CacheTypeCorrect`; `LoadersExclude` is inductive as it
stands; `NothingUncommitted` needs also that what a loading thread has read is
committed; `StalenessIsBounded` needs that every request past its reset and before
its commit is in `window` while a library is cached or being built — a request
cannot get past its reset during a load, since the loader holds the lock.

**`AccountsProofs`**: `AccountsTyped`; `NoLostFlags`; `GuardSuffices` from
`RemainInv`: while demotions come one after another, whoever is past the guard
with a demotion leaves a super-admin behind, and whoever signs up without the
flag found one; `ConfiguredIsTheOrigin` from `OriginInv`: no update is under way
before the configured user signed up, and no other signup carries the flag. Both rest
on `SignupInv`: signups under way are of different users.

**`PipelineProofs`, conversations** (any order, customer, message and proposal, conversations
of any length): the work is in lemmas about one turn, of three kinds. *Typing*:
each rule maps a set of actions to a set of actions (`RoutedTyped`,
`ResolvedTyped`, `SettledTyped`), with `RefundWithinTotal` for the matrix.
*Persistence*: from some rule on, no later one creates a claim (`TailClaims`), removes
the last flag (`FlagStays`) or puts a refund back (`NoRefundReturns`).
*Establishment*: the rule that makes the property true at its place. From these
follow the lemmas on a whole turn (`PolicyTurn`, `NeverArrivedTurn`,
`InjectedTurn`, `MatrixTurn`, `ClaimsAreNew`, `PivotTurn`). The theorems
`PolicyRoutesHold`, `InjectionsAreTraced`, `MatrixAlwaysOwns`, `LargeRefundsAreSeen`,
`FlaggedChatsAreReviewed` and `ClaimsAreMadeOnce` then need only that `Answer` is the
one action that makes a reply, from the arguments `TurnOf` gives (`OnlyAnswers`,
`TurnAfter`), and `TypeCorrect`. `MatrixAlwaysOwns` also counts:
no rule after the matrix adds a refund, so there are no more than Stage 1 proposed.
`LargeRefundsAreSeen` compares two sums: the rule
looks at the total before the last rules, the property at the total of the reply. That the
fold over a finite set of refunds without a negative amount is a natural number
(`TotalNat`) which shrinks with the set
(`TotalShrinks`) has to be proved from the fold's definition, and that every rule
returns a finite list (`RoutedFinite`, `ResolvedFinite`) as well.

**`PipelineProofs`, scored runs** (any number of runs, sessions, turns and attempts,
any quota). `RunInv` is about one run: it is within its limits, nothing has happened
to the sessions ahead of it (`AheadIsFresh`), the score in its hand is what the simulator
gave unless the answer was lost (`ScoreInHand`), a prod run has reported all sessions
behind it (`BehindIsReported`), and each reported session is recorded. Without
`AheadIsFresh` a session could begin with an old score, without `ScoreInHand` a close
could write a wrong one. A step of a run changes no other run's invariant
(`OthersKept`). `RunsTypeCorrect` is where the quota's bound is; `ReportsAreTrue` and
`ALossIsTheLast` follow from `RunInv`.

**`AdminTableProofs`, grants** (any users, modules, admins and threads): `GInv` says what a
transaction's fields hold at each step (`FieldsOK`), that who signs up is not yet a
user and has no rows (`UsersApart`), that no two signups are of one user
(`SignersDiffer`), and that a copy without `missed` is the committed row
(`CopiesFresh`). `GrantsTyped` is part of it; `GrantorIsRight` is inductive relative to
it, as a grantor and a level that are not written are those of a fresh copy; the
action properties `LevelsFallOverOldCopies` and `RevokedRowsStay` need it in the
state before each commit.

**`StudioProofs`, content** (any ids, seed, sessions, threads and number of requests):
`StudioInvariant` is `SInv`, the conjunction of `TypeOK`, `ReferencesResolve`,
`IdsSpent` (an id in use is never handed out again), `WorkFits` (a delete's unit holds
only what was placed there after its count, a PUT has read all bindings but those bound
since, a tap's copy is the session's pointers unless it missed a write) and
`PointersAgree`. The hard case is `DeleteUnitCommit`: that `Below` is closed under
children, so no unit that stays has a parent that goes, over any graph of parents.
`StudioTyped`, `KeysResolve`, `PutsReplace` and `TapsAgree` are its parts;
`CountedIssuesStay` is an action property from `WorkFits`.

**`StudioProofs`, taps** (every order of the bindings, every answer of the fetchers,
any templates left active). `FetchInv`: an order was found by its own fetcher, and
whoever was skipped, for want of an id that this order has, stands before it; with no data point bound twice
(`OrdersInjective`) it gives `OrderFirst`. `ContextInv`: the context holds only what
resolved data points fill in. `AckIsTrue` adds what `render`'s loop computes: after
any number of the template's sentences, those kept have all their placeholders in
the context.

**`ChatSessionProofs`** (any number of messages, taps, claims and restarts). While the
row is owned, turns have only been appended since `Init`, since nothing makes a row
owned again (`OwnedCases`, `Grown`). Four invariants relate each request's step to the
turns: `Wrote` (nothing before its question, then that question and nothing else),
`NumbersFollow` (the number it took follows one that is there), `HistoryRead` (what it
read is a prefix of the turns) and `NothingRepeated` (its reply is new to that prefix).
The last rests on `RepliesAreNew`: after `Deduped` no later rule of the validator
brings a claim of the history back, for any proposal. From these follow
`TranscriptHasNoGaps`, `RepliesAnswer` and `RepliesRespectHistory`; `ChatTyped` needs only
that a request that was sent has a message (`Sent`), and `DeletionIsFinal` is inductive.

**Induction over data.** The library's induction theorems cannot be instantiated
here, but a least counterexample can: a non-empty set of natural numbers has a least
member (`LeastNumber`, from the well-foundedness of `<`), and what holds of a number
whenever it holds of the smaller ones holds of all. In this way are proved that a
recursively defined function exists and what it computes: the sums over sets
(`TotalExists`, over the size of the set), the flattened answer, the packed chunks
and the rendered sentences.

**Proved without a run:** `NoSilentRevert`, `ConfiguredIsTheOrigin`,
`RefundWithinTotal` and the type invariants.

**Model-checked only:** the liveness properties `RunsSettleTheRow`,
`RetrySettlesTheRow`, `RequestsEnd` and `RunsEnd` (fairness and ENABLED are beyond
the prover), freedom from deadlock in `idiom_cache` and `module_grants`, and the
violation of `ClaimsOnce`.

## 7 Abstractions

* Values are model values: a text, a clause list, a reply's wording, a name.
* One row, one session: the code never relates two contracts or two sessions,
  except by the ids of the deduplicator, whose keys contain the session's id.
* Database: READ COMMITTED, row locks of flushed writes, and failures at any
  commit. A failed statement aborts the transaction.
* A Stage 2 failure inside a contract run is recorded in its output and looks
  like success to the lifecycle.
* Mode and title text of a session are left out; its pointers to the studio are in
  `StudioContent`, known ids in `RefundChat` only.
* `RefundChat` has one request at a time and no replays: these are `ChatSession`'s.
  An escalation's order id and reason are dropped, and a customer id that a tap names is that of a customer. A customer's
  record does not change during a conversation.
* `ContractText` takes the up to three POSTs of one `_mayura` call as one outcome, and
  a text's length without its markers. What the translator makes of a field's words is
  that field's words or nothing; notes of Stage 2 for ids that no clause has are dropped, since nothing looks
  them up; clauses with one id count as one, since every reader looks them up by it.
* `ScoredRuns` has one run in its instance: runs meet only in the quota, and a
  refusal may come at any time. A score is the number of replies it was given after.
* `ModuleGrants` and `StudioContent` take a flush that nothing else of the request
  follows and its commit as one step, as the flush's row locks allow.

## 8 Not modelled

* The pages' polling: a row cannot tell the POST's run from the one before it, so
  the page has nothing to decide by, and there is no property of the present code to
  state beyond the race that section 4 describes.
* The substitution of idioms inside a text, prompts, code fences, regular expressions
  and JSON repair: text processing whose result the models of the stages take as any
  answer of the right shape.
* `chat_stream` of the providers, which nothing calls, and the choice of a provider.
* Renaming a session, its mode, login and profile reads: one assignment each.
* Running the migrations and the imported texts of 005 and 007; of 003 and 004 the keys
  and seeds that matter to a module are in it.
* Other pages and hooks (rendering), passwords and tokens (library calls).

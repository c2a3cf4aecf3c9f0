# Models of AVcleaner

AVcleaner (`avcleaner/`, a local FastAPI service with a page and a desktop
window) cleans download folders: it scans a folder, makes a plan of renames and
quarantines, lets the user review it, executes the confirmed items, keeps a
history and can undo it. What it promises is about the user's files ("Existing
files are never overwritten", `README.md:81`; "Quarantine is reversible through
execution history", `README.md:82`; "不预览就不执行，不确认就不改文件",
`README.md:62`), and what makes the promises hard to keep is that the file
system, the SQLite database, the registry of running executions and the page
are four stores that no transaction spans, that requests run on threads of
their own, that other programs use the same folder, and that the process may
end anywhere.

This directory holds TLA+ models of the parts that keep those promises, TLC
runs over small instances, and TLAPS proofs. `PROJECT.json` lists components,
runs, mutants, the lines each definition translates, the findings, the hazards
and the theorems.

## 1. Inventory

| Component | State | Operations | Talks to |
|---|---|---|---|
| Verified move (`quarantine.py` 115-190) | source, target and temp file; local flags `temp_created`, `finalized` | `move_file_verified`, `_copy_then_delete_verified` | called by the executor (quarantine) and the rollback (restore) |
| Quarantine and manifests (`quarantine.py`, `repository.py`) | `quarantine_manifests`: status, who owns which temp | `quarantine_item`, save, update, delete of a manifest | executor, rollback, restart |
| Executor (`executor.py`) | one call's position in the plan; `runs`, `run_items` | `execute_plan_by_id`, `_apply_rename` (two steps if only the case changes), `_apply_quarantine` | plan store, manifests, registry |
| Rollback (`executor.py`, `recovery.py`) | a preview taken once; rollback run and its items | `rollback_run`, `build_rollback_preview` | run rows, manifests, file system |
| Run history and restart (`repository.py`) | rows of runs, items, manifests | `mark_interrupted_runs` at startup | everything above |
| Execution progress (`execution_progress.py`, `app.py`) | registry of at most 200 entries under a lock; pool of one thread | `start/update/finish_progress`, `execute/start`, `execute`, `runs/{id}/progress` | executor writes it, the page polls it |
| Plan operations (`planner.py`, `validators.py`, `repository.py`) | `plans`, `plan_items`, `plan_hash` | create, validate, edit, select, summarise, check before a run | page, scripts, LLM review |
| AI suggestions (`llm_review.py`) | suggestions and their status; `llm_suggestion_cache` | generate in chunks, accept, reject, mark stale, apply to the preview, fall back | plan store, LLM client |
| Plan page (`static/app.js`) | `state.plan`, busy flags, confirmation | edit, select, validate, refresh, confirm, poll | all endpoints |
| LLM client (`llm.py`, `llm_test_status.py`) | one stored test status | request, parse, split of rejected chunks | LLM review |
| Rules and names (`rules.py`, `constants.py`, `rule_corpus.py`) | none | clean a name, classify a file | planner |
| Scanner, sidecars (`scanner.py`, `sidecars.py`, `fingerprint.py`, `paths.py`) | none | walk a folder, tell a subtitle's language from its name | planner |
| Settings and secrets (`settings_store.py`, `secrets.py`) | one row; a key in the keyring; the page's form and copy | read (with the removal of an old key), save, import, test of the connection | planner, LLM client, page |
| Recent folders, local state (`repository.py`) | small tables | last writer wins | page |
| Database (`database.py`) | tables, columns, the row of the schema version | connect, migrate | repository |
| Startup and window (`runtime.py`, `desktop.py`, `run.py`, `app.py`) | port, the launcher, the server process | choose a port, start a server, wait for it, show a window, stop it | migration, restart repair |
| HTTP layer (`app.py`, `errors.py`) | token | handlers on request threads | all |
| Data types, exports, packaging | none | - | - |

### What is hard, and what makes each part correct

- *Verified move.* Between two system calls the user may write or remove the
  source, another program may take the target's name, a call may raise, the
  process may die. Correct: the user's latest content is always whole at one of
  the two places; a call that raises left the source alone; nothing foreign is
  replaced; seen from outside, the file moves in one step.
- *Executor, rollback, restart.* The file moves before its row says so, a
  manifest exists before the file moves, a restore is believed from a preview
  taken earlier; a crash may fall between any two of these, rollbacks may
  overlap each other and the run. Correct: what the history says is true of the
  files, what is in quarantine can be named by a rollback, nothing stays pending
  or running for ever.
- *Execution progress.* The registry is bounded and prunes while runs are
  queued; row and registry are updated one after the other; a run may raise on
  a thread nobody waits for. Correct: a running run is known, its client hears
  of the end after the history does, and every client hears of it.
- *Plans.* Every operation reads the whole plan and saves the whole plan in
  another transaction, and the page shows parts of different answers under one
  hash. Correct: only what the hash stands for is run, nothing blocked is
  selected, no two files get one name, typed names stay.
- *Suggestions.* A provider answers for a chunk of items at once, late, in part,
  unreadably or not at all, and calls that wait for it overlap. Correct: every
  item of a call is recorded once, one item's bad reply is not held against the
  others, what was judged is not asked for again, and the requests are bounded.
- *Rules and folder.* A dozen regular expressions take a name apart one after
  the other, and a name they have cleaned meets them again at the next analysis;
  files change between the scan, the validation and the run. Correct: no word is
  dropped from the name of a file that is selected by default, only junk is
  moved away, and an analysis of what a run has left proposes nothing.
- *Startup.* The port is probed before it is used, the schema is read before it
  is changed, the repair assumes that nobody is at work; two programs may do all
  of this at once and each may be ended anywhere. Correct: a server that answers
  has the whole schema and has repaired, starts do not defeat each other, and a
  closed window leaves no server.
- *Settings.* A save is two writes to two stores, the page has the settings a
  third and a fourth time, a test takes long enough for all of them to change.
  Correct: a test that passed speaks of what is in use, "synced" is true, keys
  stay out of the database.

## 2. Modules

| Module | Models | About |
|---|---|---|
| `AtomicMove` | the promise of `move_file_verified` | abstract specification: the file is at one place, moved in one step or refused |
| `VerifiedMove` | `quarantine.py` 115-190 | one action per system call that another program may come between |
| `VerifiedMoveProofs` | | TLAPS: invariants and the refinement |
| `RunLedger` (`MCRunLedger`) | `executor.py`, `quarantine_item`, `recovery.py`, rows and restart in `repository.py` | one run, its rollbacks, crashes, the repair |
| `RunLedgerProofs` | | TLAPS: no file lost, rows that find every quarantined file, honest rollbacks, a history that is true at rest |
| `ExecutionProgress` | `execution_progress.py`, the execute and progress endpoints, polling | the registry between pool and clients |
| `ExecutionProgressProofs` | | TLAPS: who is in the registry, what clients are told, the bar |
| `PlanReview` (`MCPlanReview`) | `planner.py`, `validators.py`, plan rows, `validate_execute_request`, `llm_review.py` in part, the page's plan | the plan from preview to run |
| `PlanReviewProofs` | | TLAPS: selection, confirmation, what a run does, what survives a save |
| `SuggestionBatches` (`MCSuggestionBatches`) | `llm_review.py` 88-452, `llm.py` 111-412 | a call for suggestions from the cache look-up to its answer |
| `SuggestionBatchesProofs` | | TLAPS: rows, culprits, cache, the number of requests |
| `LlmSettings` (`MCLlmSettings`) | `settings_store.py`, `secrets.py`, `llm_test_status.py`, the settings page of `app.js` | saves, tests and reads of the settings over two stores and a form |
| `LlmSettingsProofs` | | TLAPS: the stored test status, keys and the database, what the page says of its settings |
| `FileNames` | `rules.py` 38-505, `sidecars.py` | the rules as operators on words: what name a file name becomes, and whether that needs a review |
| `FolderPlan` (`MCFolderPlan`) | `scanner.py`, `is_junk_file`, `plan_item_from_scan`, `validate_plan_items` | a folder analysed, run as proposed and analysed again |
| `FolderPlanProofs` | | TLAPS: what the rules suggest, what a name still says, only junk leaves the library, the second analysis |
| `Startup` (`MCStartup`) | `desktop.py`, `run.py`, `runtime.py` 87-111, `init_db`, the startup of `app.py` | several programs coming up and going down over one database |
| `StartupProofs` | | TLAPS: the schema, the repair, no server left behind |

The modules meet at named seams: `MoverRename`, `MoverOpen` ... `MoverDrop` of
RunLedger are the states of VerifiedMove that another worker or a restart can
see; `CreateRun`, `EndRun` of ExecutionProgress and `RunItem` of PlanReview
stand for the steps RunLedger takes between them. `Kind`, `Orig` and `Rule` of
PlanReview are what FolderPlan and FileNames say of a file. `Repair` of Startup
is the `Restart` and the recoveries of RunLedger in one step, and the second
program of Startup is RunLedger's second instance.

### VerifiedMove

Variables `source`, `target`, `temp` are the three directory entries; `pc`,
`read`, `stat`, `tempCreated`, `finalized` are the locals of
`_copy_then_delete_verified` (`source_digest`, `source_stat`, `temp_created`,
`finalized`). `Rename` is `source.rename(target)`; `RenameExdev` the branch to
the copy; `StatSource` ... `UnlinkSource` the copy; `Raise` any exception of the
`try` block; `CleanTemp` and `UndoTarget` its `except` clause. A digest is the
sequence of bytes it was fed, which takes it to be free of collisions. Bytes
are written by a nondeterministic disk: what reaches the temp may differ from
what was read, and the check that reads it back has to notice. `latest` is a
history variable. `UserWrite` may keep size and mtime. `RenameReplaces` chooses
between Windows (a rename onto an existing name fails) and POSIX.

`LateWrites = FALSE` leaves out one write: the one between the last hash of the
source and its unlink (`quarantine.py:167-168`). No code can close this window
without a lock on the file; the constant names it, and with TRUE `NoLoss` fails.

### RunLedger

A worker is the executor or one rollback request; `job[p].pc` is the next commit
or the next change of a file. `fs[i][p]` says what the five names of item `i`
hold: its origin, its target (renamed or in quarantine), the temporary name of a
case-only rename, and the temp of the copy out and back. `run`, `row`,
`manifest`, `rb` are the four kinds of row; a statement up to its commit is one
step. `WriteFails` lets a commit raise and continues in the handler the code has
for it. `Crash` drops all workers; `Restart` is the selection of
`mark_interrupted_runs`, and `RecoverRun`, `RecoverRollback` its repair, which
decides from what exists. `held` in the repair is a temp that some other program
keeps open, so that its removal fails.

`SecondInstance` starts the program a second time while the first is at work
(`MaxJoins`): its repair looks at the files and rows of a run (`Look`) and writes
what it concluded (`Write`) as one transaction, between which the first instance
goes on with what it was at, except that it cannot write (`lock`). What the
history says is judged when no second instance has been there (`AtRest`), the
safety of the files always. `MaxMishaps` bounds crashes, changes by others and
second instances together; a second instance counts twice.

The file system is Windows': names that differ in case only are one (`Exists`),
a rename refuses an existing name, `os.unlink` refuses an open file.

Abstractions: the choice of a free name in `.quarantine` (both names it tries
taken stands for "occupied"); another program edits a file only while the file
has one place (what it does during a copy is VerifiedMove's matter), and takes
only the origin of a case-only item; a worker whose handler itself raised is
dead and the history is not judged before the next restart.

### ExecutionProgress

`registry` is `_PROGRESS`; `Put` is one locked update with its prune; `Update`
recreates a pruned entry from its defaults as `update_progress` does. `call` is
`execute_plan_by_id` seen from the registry and the row; `queue` the pool;
`client` what the page has been told by `api_run_progress`; `clock` the whole
seconds by which entries are ordered. The message, the phase and the byte counts
of the file in progress are left out: nothing tests them.

### PlanReview

The stored plan is a list of items with a hash, and the hash is the list itself
(`canonical_plan_items` is hashed; the time and the trace, which the canonical
form leaves out or nobody compares, are left out here). A request is a thread
with a `pc`: it checks a hash, reads the plan, works on its `copy`, saves all of
it. Validation (`Validated`) is part of every save it precedes in the code.
`page` is `state.plan` with the busy flags; `Shown` is what the page keeps of
each answer. `asked` is a history variable, and so is `unseen`: the items to which
a script has given a suggested name (`SaveAccepted`; nothing in the page calls
`acceptLlmSuggestion`) and which no answer has brought to the page since.

Abstractions: one folder; `source_missing` and `source_changed` are one issue;
reserved names, long paths and warnings are out; one suggestion per item, and
whether its name parses is a choice; page inputs that a busy flag disables only
sometimes are taken to be enabled; the page does not edit quarantine and keep
rows; a refresh is taken to show a plan that may be executed again; scripts call
`execute` with all ids; an analysis does not overlap edits, because its plan id
is not known before its answer.

### SuggestionBatches

A call is a coroutine, so a step of the model runs from one await to the next.
`queue` holds the chunks that the recursion of
`_generate_uncached_suggestions_for_chunk` has still to settle, as sets: the
order within a chunk is that of the request, and the chunk asked for is the one
with the first item (`IsNext`). `rows` and `outcome` are the rows of
`llm_suggestions`, `cache` the keys of `llm_suggestion_cache`. `Parsed` is the
parser: the first check that fails gives the code. A code of
`RecoverableCodes` leads to `Bisect` or, for a single item, to `GiveUp`; a
path-like name and a timeout to `GiveUp` for the whole chunk; an error of any
other kind ends the call even if it allows partial failures.

`garbles` is the environment: the items that can make a reply unreadable when
they are part of the request (the case of `tests/test_ai_preview_fallback.py`).
It is any set, so the provider that garbles everything is among them.

Abstractions: of an invalid row what tells where it comes from. Two kinds have a
recoverable code for their warning: `unreadable`, from a reply that could not be
read, and `left_out`, for an item of which a readable reply says nothing
(`llm_review.py:403-409`); the others say `invalid`. Whether a name passes validation is a choice, the cached one
included, because the plan around it may have changed; `use_cache` is true, as in
every call of the page and of the analysis; a request names an item once; an
OpenAI-compatible provider without a base URL raises the same ValueError as a
body that is not JSON; the settings stay as they were read when the call began.

### LlmSettings

`row` is the row `app_settings`, `vault` the keyring, `status` the row
`llm_test_status`, whose fingerprint is the pair it is taken of. A request is a
slot of `req`: the page's one busy handler, the first-run helper beside it, and
another window. `what` is what it asks for; `at` is its next access to a store,
or the answer that waits for the page. `page` is `state.settings`, the form,
`settingsDirty` and `llmTestStatus`. `Serve` is the service, `Receive` what
follows an `await` in the page, `Use` the user. `Restart` ends everything at any
moment and opens the page again. `worked` and `strayed` are history variables:
the pairs a provider has answered, and what a session did that the two
properties of a page at rest cannot survive (edits while the page is busy,
overlapping saves, a failed choice of a folder or a reload that fails after an
import; section 6 describes them); loading the page anew clears `strayed`.

Abstractions: the rules' part of the form goes the way of the folder; a row that
is not there is the default settings; the page is used once it has loaded;
settings without a model are those without a provider; a window loads before it
is used otherwise.

### FileNames and FolderPlan

A name in FileNames is a sequence of words with the separator before each. A
plain word is a run of digits, letters, digits and letters, any of them empty
(`WellFormed` says how they are filled), because the expressions of
`CODE_PATTERNS` and of the tail look at these: a code may be a word or two, its
separator may be missing ("FC2PPV1234567", "428SUKE095"), it may end inside a
word (what is behind is the tail, `BehindDigits`, `BehindOpening`), and
SUFFIX_VARIANT may end its label inside a run of digits (`CutAt`). "FC2PPV" as
one word, advertisements, other sites, brackets, noise tokens and dates are words
of their own kind. Each operator is one expression or one step of
`suggest_name_with_trace`: `CleanText` removes what is removed, `Candidates` are
the codes the patterns find, `Best` the one that is taken, `ParseTail` the
variant and the part behind it, `Render` the name, `Choose` and `SuggestFrom`
the warnings that ask for a review. All is a pure function, so it has no run of
its own: FolderPlan uses it for every name of its instance. Its results were
compared with those of `suggest_name_with_trace` on 120,000 random texts of such
words, glued, cut and mixed ones among them, and there was no difference.

FolderPlan: `files` says where each file is, what it is called and how large it
is; `todo` and `seen` are the walk of `scan_files`, one directory at a time;
`plan` the items with their validation; `left` the selected ones the run has
still to carry out. `Touch` is somebody else: a download that fills an empty
file, a file that is moved, renamed or removed, between any two of these steps.

What a text of FileNames cannot say: words of more than these four runs (such as
letters behind which digits, letters and digits again follow), letters and digits
other than A to Z and 0 to 9, two separators in a row, words glued to a bracket or
to a site, codes inside of brackets, and hyphens or dots that lead from a site to
a known advertisement or a bracket (`SitesStandClear` leaves these out of the
instance). Neither the run nor the theorems speak of such names.

Abstractions: the default `RuleConfig`; a name without outer separators, in
NFKC and upper case, and a word for what is padded (`tidy` stands for all that,
for the rules put it right whatever else they do); the extension "srt" for the
four of subtitles; the folder that is analysed does not
lie in an advertising directory; and the run of an item is its effect, for how
it is carried out is RunLedger's and VerifiedMove's matter.

### Startup

`program[p]` is the launcher (`main` of `desktop.py`), or `run.py`, which becomes
the server; `server[p]` is the server process, `at[p]` its place in `init_db`,
`columns` and `absent` the schema it finds, `running` the runs the history calls
running. `ChoosePort` is one turn of `choose_available_port`: the probe keeps
nothing. uvicorn runs the startup of the application before it listens, so the
order of a server is `CreateTables`, `ReadColumns` and `AddColumn` for each
column, `RecordVersion`, `Repair`, `Bind`. `Answered` is the launcher's wait,
which any server on the port satisfies; `GiveUp` its deadline, which a dead
server does not shorten; `StopServer` and `End` are `_stop_server_process`.
`missed` is a history variable: the runs that were abandoned when a server was
started.

Abstractions: the probe's own hold of a port; a program that waits for the
database lock (a statement that fails for it is `ServerDies`); the 20 attempts
are `LastPort`; a program is started once, and its next start is another one.

## 3. Runs

| Run | Instance | What it shows |
|---|---|---|
| `move` | two chunks, files of up to two, two writes | The move in one volume and across two, with writes, removals, new files, I/O errors and a crash anywhere: `NoLoss`, `FailureKeepsSource`, `NothingLeftBehind`, `ForeignFilesKept`, and the refinement of AtomicMove |
| `ledger_crash` | a quarantine, a rename, a case-only rename; one rollback; two crashes, or a crash and a change by another program, or a second instance | `NoFileLost` and `StrangersKept` with all of these; what the history says at rest is true (`HistoryIsTrue`) and every moved file is within reach of it (`FilesReachable`); runs and rollbacks end (`WorkEnds`) |
| `ledger_concurrent` | two quarantines; two rollbacks, also during the run, of all items or of one; a crash or a failing write | `RollbacksAreTrue`, `QuarantineTraceable` |
| `progress` | three runs, registry of one entry, one item each, two seconds, one failing write | `PruningIsFair`, `AnswersAreTrue`, `NeverBack`, `PollingEnds` |
| `plan_concurrent` | a video and its subtitle, two requests that overlap, one change by others | `SelectedIsExecutable`, `SelectedByUser`, `RunIsSound` |
| `plan_serial` | an unsure video, a video and a large download, four requests, the page sends one at a time | `TypeOK`, `RunIsPreviewed`, `UserWorkStays` |
| `suggestions` | two calls over three items with two keys, all of them or two; `max_batch_size` 0, 2, 3; two modes; every set `garbles` | `EachItemOnce`, `OnlyCulprits`, `CacheIsJudged`, `RequestsBounded` |
| `settings` | one provider, two keys, two folders; three acts of the user or of another window; two faults or restarts | `PageIsTrue`, `NoPlaintext` |
| `names` | one file with a name of up to three of fifteen words (of three: a space or a dot between the first two, a space before the third), or with one of 21 rarer words alone, before or behind another one, or behind a code; or two files; four directories; two analyses, one change by somebody else | `NothingIsLostByDefault`, `OnlyJunkLeaves`, `AnalysisSettles` |
| `startup` | two launchers and a `run.py`, two free ports of three, two columns, any old, new or half migrated database, one crash, failing statement or slow start | `DatabaseIsReady`, `StartsSucceed` |
| `ledger_overwrite`, `plan_lostedit` | minimal | the findings of section 6 |

### Why the bounds are enough

- *move*: the mover never compares more than "the prefix read" with "the rest",
  so two chunks have all the cases a longer file has (nothing, half, all read;
  a write that changes what was read, what was not, or the length); a second
  write can put the first one's size and mtime back.
- *ledger*: items do not share files, so what a step of one item can do to
  another goes through `run` and the rollback's summary, for which two or three
  items, one of each kind, suffice. Two crashes cover a crash in the repair of a
  crash; a second instance is a crash that the first one survives.
- *progress*: with a limit of one, two runs make it overflow and the third one
  is queued, working or pruned meanwhile; the limit of 200 only moves this.
  Two values of the clock give a tie and an order.
- *plan*: conflicts are between two items; a lost update takes two requests, and
  so does a run whose plan another request saves; what more requests at once can
  do is left to the theorems. Of four requests in turn, a suggestion, its
  acceptance and an edit can come before the run they are about. A page that
  shows one of two changed rows needs two rows it can edit, so the serial instance
  has two of these and one that is quarantined. `a1`, `b1`,
  `x` are enough for a rule name, an AI name and a typed name to collide.
- *suggestions*: three items in one chunk are cut unevenly (one and two, then one
  and one), in chunks of two they make a full and a short one, and a size of 0
  is taken for 1. The strict and the Ollama mode parse alike. The calls differ in
  nothing but their names, so they are symmetric.
- *settings*: an old row may hold settings and a key from the start, so three
  acts are a test, an edit and a save, or two saves that overlap; two faults are
  a failing access and a restart, or a status that cannot be read twice. The run
  takes the keyring; with the environment variables it passes as well.
- *names*: every rule looks at a word, the one before or the one behind it; three
  words are a code, what stands before it or a part of it, and a tail. The
  fifteen words have the usual shapes; the rarer ones (`Glued`, `Rare`) are glued
  marks and numbers of FC2, mixed labels with their number, numbers that an
  expression cuts or reads in part, noise that would be a label, and brackets; with
  them every expression of `CODE_PATTERNS` is read with its separator and
  without, and ends at a word's end and inside one. `Runs` are the runs of these
  words and what cutting them leaves. Two files can
  want one place, or one can hold the place the other wants; a conflict of three
  is one of two of them. For longer names and more files there are the theorems.
- *startup*: two programs race for a port or a column, and the third comes when
  both are through, failed or killed; with two columns one program can be ahead
  of the other at one and behind at the next.

Deadlock is checked in `names` only: every other instance stops once its budget
of requests, crashes and faults is used up and the workers are done.

### Fairness

Only `ledger_crash`, `progress` and `startup` assume any. Threads of the pool and
of requests run on (weak fairness of the executor's, a rollback's and a call's
steps; each is a continuously enabled loop on a thread of its own); the page
polls every 700 ms until it is told (`app.js:3028-3036`); and a user who closed
the application opens it again, after which the repair runs to its end before
the first request. No user action, no error, no crash and no action of another
program is assumed to happen. `PollingEnds` needs no fairness of `Tick`. In
`startup` each launcher and each server process goes on with its own next step
(the deadline of `_wait_for_server` is one: the clock goes on).

## 4. Proofs

`VerifiedMoveProofs` proves, for every alphabet, length, number of writes and
both kinds of rename: `TypeCorrect`, `NothingLost` (`~LateWrites => NoLoss`
always), `FailureSafe`, `NothingStaysBehind` (`NothingLeftBehind`),
`StrangersKept` and `Implementation` (`~LateWrites => ImplementsAtomicMove`).
`NoLoss` is not inductive: that
`UnlinkSource` is harmless depends on what was checked many steps before.
`IInv` therefore adds `CopyState` (what the temp and `read` agree on at each
step), `TargetState` (once finalized, the target is ours and holds `read`) and
`SourceState` (the source, while there, is the latest version; at "unlink" it
equals `read`; when it is gone, the call is done or the user removed it).
`NothingStaysBehind` adds `LeftState`: a copy of the call's own lies at a name
only while `temp_created` or `finalized` says so. Each
action has a lemma; the refinement proof uses `IInv` and maps `Rename` and
`UnlinkSource` to `Move`, `UserWrite` and `UserRemove` to themselves, the three
ends to `Stop` and everything else to a stutter. Assumption: the constants'
types (`ConstantsAssumption`).

`RunLedgerProofs` proves, for every number of items, rollbacks, crashes, failing
writes and second instances: `TypeCorrect`, `QuarantineIsTraceable`
(`QuarantineTraceable`), `QuarantineLosesNothing` (the part of `NoFileLost` about
quarantined files) and, under conditions that the code leaves to its callers,
`NoFileIsLost`, `StrangersStay` and `RollbacksSayTheTruth`. The inductive invariant
has one part per promise. `Types` and `BeforeOK` say what must still be untouched at
each `pc`. `QuarantineKept` says which of the names of a quarantined item hold its
file at each step of the copy out, the copy back and their clean-up, whoever is at
work and whoever was killed; `Traced` that its manifest is there before the file is,
and stays. `RenamedKept` and `StageOK` say the same of renames and of the temporary name
of a case-only rename; `Alone`, `Logged`, `Home` and `Once` what a rollback may rely
on.

- `RestoresApart` (no two restores of one renamed item are under way or due) is
  the condition of `NoFileIsLost` and `StrangersStay`: `shutil.move` opens its
  destination for writing when the rename raises, and of two that do so at a time
  one truncates what the other has brought back. `RestoresStayApart` shows that it
  holds with one rollback at a time that names no item twice, and `FilesAreSafe`
  draws the conclusion: with one rollback at a time, or in a run of quarantines,
  no file is lost and no stranger's file is touched.
- `RollbacksSayTheTruth` and `RowsAreHonest` also take no second instance: its
  repair writes what it guessed into rows of a run that goes on.
- `StageIsReachable`, the part of `FilesReachable` about case-only renames, takes
  that no write fails: after a failed row write the handler (`executor.py:178`)
  forgets the temporary name.
- `HistoryTellsTheTruth` (`HistoryIsTrue`) and `FilesAreReachable` (all of
  `FilesReachable`) take that a run has ended before it is rolled back
  (`~EarlyRollback`): otherwise the rollback can end the run in the history, and
  what is pending when it crashes stays so (section 6). `FilesAreReachable` also
  takes that no write fails. `HistoryIsHonest` draws the conclusion for one rollback
  at a time and for runs of quarantines: the first holds through every crash,
  failing write and change by others, the second without failing writes. Of a
  history that a second instance has been at they say nothing (`AtRest`), but for
  the temporary names of case-only renames.

What the history says at rest depends on everything that may be on its way to it, so
`HInv` follows the rows from the first write on. `Phases` relates the states of the
run and of its rollbacks to where their workers are, or to what a restart has still
to repair. `ItemsEnd` and `UndosEnd` say that only the entry a worker is at is
pending, and that the restart that read such an entry has judged that one.
`MovesKept` says where the file of the item under way is, so that a success is
written only of a file that is at its target. `Listed` and `RunHome` say what
`rollback_available` and "rolled back" stand for, and `Reversed` that a file which
has left for quarantine has a row a rollback takes, or one the restart will find. A
second instance is let in with a repair of its own that writes what it guesses, so
the parts say nothing of a history it has been at (`joins = 0`), as the properties
do. Two facts came from attempts that failed: the temp of a finished copy is gone
(in `Reversible`), or the restart would take the move for unfinished; and a run has
items, or it would be a success listed with nothing to undo: `ConstantsAssumption`
therefore names the check at `executor.py:103` that refuses a run of nothing.

`ExecutionProgressProofs` proves, for every number of runs, items and entries,
any clock and any number of failing writes: `TypeCorrect`, `PruningStaysFair`
(`PruningIsFair`), `AnswersStayTrue` (`AnswersAreTrue`) and `BarOnlyGrows`
(`NeverBack`). Any update may prune entries of other runs, so the invariant asks
for an entry only of a run that is announced and not ended (`EntryOK`), and
`PutFacts` shows that a prune takes none of these. That a client was told the
truth needs to be known after its answer too: a run that has left `Going` never
returns to it, for which `QueueOK` says that a queued run is queued once.
`NeverBack` needs what the entry counted before each step: nothing while the run
waits, at most the items done while it works. That a prune removes enough is a
fact about ranks: entries that come one after the other by time and id have
different ranks, so at most `n - k` of `n` have a rank of `k` or more (`LowRanks`,
by the pigeonhole principle).

`PlanReviewProofs` proves, for every number of items, every name, every number
of requests at once: `TypeCorrect`, `SelectionSound` (`SelectedIsExecutable`),
`OnlyTheUserSelects` (`SelectedByUser`) and `RunsAreSound` (`RunIsSound`: a run
executes what its hash stands for, and no two of its files get one name).
Overlapping requests save what they read long ago, so an invariant of the stored
plan is of no use by itself: `IInv` says of every copy in flight (`Sound(req[s])`)
what the stored plan will need of it when it is saved, and of a running request
that its copy is the list its hash stands for and has passed validation; of the
analysis, that its list may lose selections but gains none that are not
executable. `UInv` says in the same way of every copy that it has subtitles and
large downloads selected only where the user asked for them, and of every request
on its way that it names nothing else.

With one request of the page at a time (`~Overlap`) it also proves `RunsArePreviewed`
(`RunIsPreviewed`) and `WorkIsKept` (`UserWorkStays`). `SInv` says that at most one
request in flight writes, that its copy is the stored plan still, and that the page
shows every item as it is stored, but for the one whose edit is not answered yet
and the ones a script has changed. The attempt to prove it without the last
exception showed that the property, as it was first stated, does not hold:
a script accepts a suggestion, the user edits another row, and the page takes the
new hash with the edited row only. `unseen` states the exception.

`SuggestionBatchesProofs` proves, for every number of calls and items, all keys,
requests, modes and sizes: `TypeCorrect`, `RowsCorrect` (`EachItemOnce`),
`CulpritsIsolated` (`OnlyCulprits`), `CacheCorrect` (`CacheIsJudged`),
`RequestsStayBounded` (`RequestsBounded`).
`EachItemOnce` needs to know of the chunks in the queue that they are disjoint
and hold items of the call only (`CallOK`): `ChunksPartition` and
`HalvesPartition` say that slicing keeps it so, `CutChunk` and `TakeChunk` that
the queue as a whole does. `CacheIsJudged` needs `ValidHasRow`: an item that is
asked for has no row yet, so nothing valid is written over. `CodesKnown` shows
that the parser has no verdict the handler does not know. A call that has been
cut again and again may still send at most `Owed`: twice its open items minus its
open chunks. A chunk of one item is worth one request, a cut pays for its own
request because both halves hold something, which is a fact about ranks again
(`HalvesNotEmpty`).

`LlmSettingsProofs` proves, for all settings, providers, keys and bounds and
either secret store: `TypeCorrect`, `StatusHonest` (`StatusIsOfTest`: a stored
"passed" was answered by a provider), `KeysStayOut` (`NoPlaintext`) and
`PageTellsTheTruth` (`PageIsTrue`). `KeysStayOut` needs `Scrubbed`: who has read
the settings to the end has seen the row without a key, and no later write of
another request brings one (`RowSteps`). What a page at rest says follows from
what was on its way before, so `PageIsTold` follows every request of the page step
by step while nothing has strayed: one request at a time, next to it at most the
dismissal of the helper (`Turn`, `Side`); what it sends and
what it has read so far is what the stores hold, but for the fields it is about to
write (`Carries`, `Imports`, `Named`); a page that is not dirty shows the row, or
what the request will bring it (`Synced`); and it shows "passed" only for the pair
that passed (`Passed`, `Settled`).

`StartupProofs` proves, for every number of programs, ports, columns and mishaps:
`TypeCorrect` and `DatabaseStaysReady` (`DatabaseIsReady`). The invariant has one
part per promise. `SchemaKnown`: a server that is past its migration, however
many others migrated beside it and were killed, has every column, because columns
are only ever added and each server has looked at every one of them itself.
`RunsKnown`: what a server has to repair are the runs of servers that have ended,
these do not come back, and so nothing it has repaired is called running again.
`LaunchersKnown`: a program that has not launched anything has no server, so that
no server comes up behind a program that has ended.

`FolderPlanProofs` proves, for every set of directories and of files in them, and for
every name in them that is a text of words in the sense of FileNames (`Texts`: any number
of words made of any `Runs`, not only those of the instance), in two parts. About the rules by themselves:

- `SuggestionsAreClean`: a name that is suggested with a code is suggested again for
  itself, with that code and without a review. `CandidateFacts` gives the form of
  what the patterns find (a code of one of four forms, a part, a variant),
  `CleanCandidate` that a text of that form has one candidate, the code it begins
  with: nothing starts in the part or the variant (`NothingStartsBehind`), and of
  each form of code one pattern only finds it (`OnlyLabelled`, `OnlyMixed`,
  `OnlyNumeric`, `OnlyFc2`). `PlainText` and `LanguageFound` add that nothing is
  removed from it and that its language is found.
- `SuggestionsKeepText`: a name that is suggested without a review says all that the
  old one said, each thing as often, with two exceptions: a code with a letter that a
  variant follows (`HasTwoVariants`), and one cut out of a longer number
  (`HasCutNumber`). `Count` is what the
  words of a text say; it adds up over a concatenation (`CountConcat`), each
  pattern keeps it when nothing is left before and behind the code (`Fc2Keeps` to
  `LetterBehindKeeps`), and what is removed was not readable (`CleanKeeps`: each word
  that stays is found again in what `FlattenSeq` puts together, `FlattenFacts`).

About the folder:

- `TypeCorrect` and `QuarantineIsJunk` (`OnlyJunkLeaves`), whatever the rules suggest:
  `Placed` says where each file can be, `Analysed` that the place a plan
  remembers is one the scan has listed, `Outside` that the scan enters no excluded
  directory, `JunkOnly` that what lies in quarantine was junk where it came from.
  `Root \notin Excluded` is assumed: the walk compares the names below its root with
  the excluded ones, never the root itself.
- `NothingIsLost` (`NothingIsLostByDefault`), for any number of rounds and whatever
  others change. `NothingIsLostByDefault` is not inductive: a loss could add up over
  two renames. `Named` says that a file has its first name or the one suggested
  for that, so by `SuggestionsAreClean` it is renamed once at most.
- `Settles` (`AnalysisSettles`). `CleanIsClean` follows from `Named`.
  `SecondPlanIsQuiet` needs to know why each file that is left would not be
  selected again, at every step of a scan and a run, as long as nobody else changes
  a file (`Settled`): `Scanned`, that what was listed and what is still to be
  listed are closed under subdirectories, so that a plan is made of all that can be
  reached (`Listing`); and `Running`, that an item which was deselected has another one
  in its way that the run does not move (`Stays`), that what is not carried out
  is where it was (`Remain`), that a new scan would find just these and the renamed files
  (`Accounted`), and that no item of the run takes the place of another one (`Free`).
  `WhyNotSelected` is the reason for `Stays`: conflicts are mutual, and a
  file in the place of a rename is itself deselected, or keeps its name, because
  the rules suggest for it what they suggest for the target (`SameSuggestion`).

`FoldersAssumption` says of the folders at the start that each file has a place, that no two
share one, and that names are texts of words. `RunsAssumption` says of the runs there are
that only the empty one has no characters, and that the two parts of a run of digits
which SUFFIX_VARIANT cuts are runs as well. What section 2 says a text cannot say is
outside the theorems; of a chain of hyphens or dots from a site to an advertisement
they say what the model does, not what the code does.

Model-checked only: liveness (`WorkEnds`, `PollingEnds`, `StartsSucceed`), which is out of
the prover's reach. That the operators of FileNames agree with `rules.py` was compared on
many texts (section 2), and nothing proves it.

## 5. Not modelled

- Recent folders and local state: single rows, the last writer wins, and no other
  component reads them. Exports, which only read. Packaging and scripts.
- The token and the host check; the rendering of the page, filters and drawers.
- The prompt sent to a provider, and a test of settings that are sent along with
  the request, which stores nothing.
- Of the scanner: hidden entries, links, directories and files that cannot be
  read, the scan without subdirectories, and extensions of the user's choice. Of
  the sidecars only the language suffix of a subtitle is modelled, not the group
  ids by which the page shows files together. Of the rules the default
  `RuleConfig` is.

## 6. Findings

Each has a run whose counterexample is the code's behaviour:

1. `ledger_overwrite`: the rollback of a renamed item uses `shutil.move`
   (`executor.py:354`), which copies onto an existing origin when the rename
   raises; a file that appears there after the preview is truncated, although
   `README.md:83` says rollback refuses to overwrite.
2. `plan_lostedit`: two overlapping edits of two rows; the later save undoes the
   earlier name and the page shows both under the later hash (`planner.py:422`,
   `app.js:1897`): the run does not do what the page shows (`README.md:53`).
   A suggestion that a script accepts comes to the same end when the user then edits
   another row: no run shows this, `RunIsPreviewed` excepts such items.

Met while modelling, not in a run:

- The fallback of the AI preview saves changed items under the old `plan_hash`
  (`llm_review.py:602`); the first execution of the untouched preview is refused.
- After a case-only rename on Windows the restore target "exists" (it is the
  renamed file), so the preview of its rollback is always blocked
  (`recovery.py:240`): such a rename cannot be undone.
- The fields of the settings stay enabled while they are saved: what is typed
  meanwhile stays in the form, which the answer calls synced ("设置已同步",
  `app.js:2382`, 2420), and a key typed meanwhile is erased (2422). What is typed
  during a test does not stop "passed" from being shown for the form (2329: the
  status is "testing" then). The first-run helper may save beside another save
  with the settings as they were, and undo it (`app.js:2369`).
- A save that fails leaves its values in `state.settings`. The next button that
  sends them saves them: after a failed choice of a folder, dismissing the
  helper stores the folder that the form does not show (`app.js:2654`, 2369).
- A save whose row cannot be written has already replaced the key
  (`settings_store.py:49`): the old settings are used with the new key.
- At the first start after an update that left a key in the row, two windows can
  lose a save: the read of one writes the row as it was (`settings_store.py:31`).
- With environment variables as the secret store the key is gone after a restart.
- If the commit of the quarantined row raises, the handler (`executor.py:178`)
  writes a failed row without `temp_path`: the file is in quarantine and no
  rollback accepts the item (`README.md:82`). `FilesReachable` is therefore
  checked without failing writes; with `MaxFaults = 1` it fails.
- One suggested name that looks like a path costs its whole chunk the
  suggestions (`llm.py:276`): its code is not among the recoverable ones.
- An error that is neither a timeout nor a bad reply ends the call even with
  `allow_partial_failures` (`llm_review.py:396`): the analysis falls back for
  every item, although valid suggestions of earlier chunks are stored and cached.
- An item that a readable reply leaves out is recorded under the code of a bad
  schema, one of those a batch is asked again for, but is not asked for again
  (`llm_review.py:403-409`): `OnlyCulprits` excepts such rows.
- `rollback_run` with an item named twice in `item_ids` writes the second,
  blocked attempt's failure over the first one's success (`executor.py:369`).
- A rollback of a run that still executes may end the run in the history; a
  crash after that leaves a pending item no restart repairs (`executor.py:393`).
  `HistoryIsTrue` is checked with rollbacks after the run only.
- Two rollbacks of one renamed item may both be inside `shutil.move`'s copy, and
  the file may be lost: `ledger_concurrent` has quarantines only.
- A second program whose repair looks at a quarantine between the copy's last
  rename and the removal of the source writes "failed" over the row that the
  first one commits as "quarantined" meanwhile, and no rollback accepts the item
  (`README.md:82`); it may also roll back a run that goes on. The history is
  therefore judged without a second program (`runtime.py:107`).
- After a crash between a rollback run's end and the update of the run it rolled
  back, the list says that a rollback is available, and the preview has nothing
  to offer (`executor.py:387-388`). A run with nothing but an item stranded under
  its temporary name is not listed as one that can be rolled back.
- A file of a stranger under the name of the copy's temp makes the restart fail
  an item that is in quarantine (`repository.py:648`).
- A crash between a plain rename and its row leaves the file under its new name
  with a failed item (`executor.py:253`); the rename has no journal.
- If the origin is recreated before a restart, the quarantined file's item is
  failed without `temp_path` (`repository.py:838`).
- A temp created before the commit that owns it stays (`quarantine.py:136`) and
  blocks a later cross-volume restore of the item; an ownership flag outlives the
  temp it speaks of (`repository.py:648`).
- A synchronous `/execute` whose write raises leaves a "running" entry in the
  registry for ever; a validation failure in the pool has no row, so that after
  its entry is pruned the run is not found; `update_plan_state` raising after
  `finish_progress` makes the registry say failed of a run the history calls a
  success; without an entry the answer is always terminal (`app.py:757`).
- A restart loses the queued runs: they have no row yet.
- After a refusal that follows a fallback the page keeps the old hash until the
  plan is validated or refreshed.
- The answer to an edit does not bring the items whose duplicate it resolved.
- An accepted suggestion and an edit that overlap are one more lost update;
  `UserWorkStays` is checked with one page request at a time.
- Of a name such as "GHI-789A UC" the letter of the code replaces the variant that
  the tail states, and the file is selected without a review (`rules.py:243-272`):
  `NothingIsLostByDefault` excepts names with two variants.
- "ABC1234A" is read as the code ABC1-234 with the variant A (`rules.py:58`: the
  label may end with up to four digits, so the number is cut), with a confidence of
  0.9 and without a review, and so is renamed ABC1-234-A by default, although
  "ABC1234" becomes ABC-1234. `NothingIsLostByDefault` excepts numbers that are cut.
- Text that "-" or "." joins to a site's name is dropped with it and no review is
  asked for: the pattern of a site has no right boundary.
- Removing an advertisement may turn a date into a number: "ABC-2024-01-02
  hhd800.com" gets the code ABC-2024 (with a review). "movie 2" is read as the
  code MOVIE-2.
- `is_junk_file` looks at every parent of a path, those above the scanned folder
  included, the scanner only from the folder down: a library below a folder with
  an advertisement's name is quarantined as a whole. A custom quarantine folder
  is listed when a folder around it is scanned later.
- Two launchers that choose one port show one server: the second window loses it
  when the first is closed. A server that loses the port has repaired by then
  (`runtime.py:109`, `desktop.py:51`). A launcher waits its 30 seconds for a
  server that has died (`desktop.py:49`).
- An import of `webview` or a `create_window` that fails (`desktop.py:134-138`,
  outside the `try` of 157) leaves the server and its port.
- A run that is abandoned after the repair of a slow start and before its bind
  stays "running" until the next start.
- Two programs that start over one old database may both add a column; one of
  them fails with "duplicate column" (`database.py:34`).

## 7. Plan

Done in this order: VerifiedMove with its contract and proofs; RunLedger;
ExecutionProgress; PlanReview, SuggestionBatches and LlmSettings with proofs; the
comparison of the list's answer with the preview's (in `HistoryIsTrue`) and the
second instance in RunLedger; FileNames and FolderPlan; Startup with proofs; the
proofs of ExecutionProgress and RunLedger (with its history), and the rest of those
of PlanReview, SuggestionBatches and LlmSettings; the proofs of FileNames and
FolderPlan. Next:

1. What of `HistoryIsTrue` survives a rollback of a run that still executes.
2. Several suggestions of one item at a time, and the acceptance of many at once.
3. Recent folders and the local state of the page.

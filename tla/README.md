# A TLA+ model of Datatown

Datatown archives the two originals of the People Data Labs (PDL) company dataset in an
S3-compatible store, records their provenance in PostgreSQL, and imports the archived JSONL
file into the table `pdl.companies`. This directory holds TLA+ specifications of the parts that
change state, TLC configurations that check them on small instances, and proofs that TLAPS
checks for all instances. Paths below are relative to the repository; line numbers refer to the
modelled commit.

## 1. Inventory

| Component | State it keeps | Operations | What is hard |
|---|---|---|---|
| PDL import (`pdl/import_companies.py`) | advisory lock, relations and index names of schema `pdl`, rows of `meta.import_runs` | hash, resolve, lock, drop scratch, begin run, `jq` to `COPY`, index, swap; failure handler in a second session | lost replies, killed clients whose sessions still commit, read-only mode on a full disk, a file read three times |
| PDL archive (`pdl/archive.py`) | objects in the bucket | hash both files, preflight, per artifact validate / HEAD / put / validate / HEAD, manifest, record | interruption anywhere, re-runs, files changed during transfers, overlapping invocations |
| Metadata repository (`metadata/repository.py`) | `meta.dataset_snapshots`, `meta.dataset_files` | `preflight_snapshot`, `record_snapshot` | several statements at READ COMMITTED, unique keys not yet committed, lost replies |
| Migration runner (`metadata/migrations.py`) | `meta.schema_migrations`, the schema | `apply_migrations` | concurrent runners, changed files, rollback |
| SQL migrations (`migrations/*.sql`) | constraints, names of relations and indexes | – | unique keys, index names shared by successive tables |
| Transfer of an original (`pdl/archive.py` 32-106, `storage.py`) | parts of one multipart upload, the progress shown | send a part, retry, abort, complete | retries of two handlers with different bounds, counts that go back |
| Pipes of an import (`_copy_jsonl`, `_stop_process`) | a `jq` process and its two pipes | read a chunk, write it to the COPY, judge the exit, stop the process | who waits for whom when a pipe is full |
| Crunchbase inspection (`crunchbase/inspect.py`) | none (read-only transactions) | catalog, exact counts | tables that vanish between statements, locks |
| PDL file inspection (`pdl/inspect.py`) | none | stream comparison, offset probes, two dialects | boundaries of offsets and windows, early ends |
| Command line (`cli.py`), configuration (`config.py`) | the exit status | load, call, render | which failures become a status, and that every command ends |
| Clients and helpers (`db.py`, `storage.py`, `hashing.py`, `formatting.py`) | none | connect, probe, hash, format | – |

Interactions. `pdl archive` calls the repository before its uploads (read-only preflight) and
after them (record). `pdl import-companies` reads what the repository recorded and finds its
snapshot by the SHA-256 of a local file; it never reads the bucket. `pdl inspect` reads the two
files only, `crunchbase inspect` the schema `public` only. `migrate` creates what both
use. Invocations of different commands, and several of one, meet only in PostgreSQL and in the
bucket: there are no other messages or shared memory. Within one import, Python and `jq` are
connected by two pipes.

What makes each part correct:

- import: readers of `pdl.companies` see one complete table after another, never a part; the
  ledger `meta.import_runs` says which run installed it; a failure leaves neither a scratch table
  nor a running row behind; what a dead attempt leaves never stops a later one;
- archive: a row never precedes its object; objects are written once; a repeated command
  completes an interrupted one;
- repository: a snapshot is recorded whole or not at all, and success means that exactly what
  was asked for is recorded;
- migrations: each file is applied once, in order, and recorded with its effects; a changed one
  stops the runner, and runners that overlap do not;
- transfer: hours of transferred parts are given up only for a cause, and the progress shown never
  goes back;
- pipes: a row count is returned only when `jq` has judged the whole file, accepted its last record,
  and PostgreSQL has every row it wrote; the two sides never wait for each other, except over the
  diagnostics (two findings below limit this: refused records before the last are left out, and
  too many of them stop the import for ever);
- inspections: a report says what a reader of the whole input would say, waits for nobody in a
  circle, and is not lost to a lock or a slow count;
- command line: the exit status is 0 only when all of that was done, and there always is one,
  except where the diagnostics of `jq` stop an import.

`PROJECT.json` lists each hazard with its line and the properties that cover it.

## 2. Modules

| Module | What it is |
|---|---|
| `TableReplacement` | abstract: a current table, a ledger, and their joint replacement |
| `PdlImport` | the importer: clients, server sessions, faults, environment, properties |
| `PdlImportInv` | its inductive invariant `IInv` |
| `PdlImportProofs` | the proofs |
| `MCPdlImport` | instances for TLC (four `.cfg` files) |
| `JqPipeline` | Python, `jq`, two bounded pipes and the COPY; also a specification of its own |
| `UploadTransfer` | the multipart transfer of one original, its retries and its progress reporter |
| `CrunchbaseInspect` | catalog and exact counts beside a session that changes tables |
| `PdlInspect` | the comparison of the two originals and the probes, with reference definitions |
| `Cli` | one command of any kind, composed with the four modules above |
| `MCCli` | its instance for TLC |
| `WriteOnceArchive` | abstract: objects stored once, snapshots recorded after their objects |
| `PdlArchive` | the archiver and the metadata repository, with properties |
| `MCPdlArchive` | instances for TLC (five `.cfg` files) |
| `Migrations` | the migration runner, with properties |
| `MCMigrations` | its instance for TLC |
| `PdlArchiveInv`, `PdlArchiveProofs` | inductive invariants of the archiver, and the proofs |
| `MigrationsProofs` | the inductive invariant of the runners, and the proofs |
| `CliInv` | the inductive invariant of `Cli`: one part for each process, one for the command |
| `UploadProofs` | the proofs about `UploadTransfer` |
| `InspectionProofs` | those about `CrunchbaseInspect`, and the invariant of `PdlInspect` |
| `ReportProofs` | that the report of `PdlInspect` is what its reference definitions say |
| `CliProofs` | the proofs about `JqPipeline` and the whole command |

Definitions marked "Slip" are plausible mistakes in the operator that follows them; the entries
`mutants` of `PROJECT.json` name, for each property, a slip that breaks it. They are not used by
the specifications.

### PdlImport

A client sends one transaction at a time and waits. `pc[i]` is the transaction it waits for (or
how it ended), `backend[s]` what the server does for session `s`: an invocation has a `main`
session and, when it fails after its run was recorded, a `cleanup` session. The server commits
on its own time (`GrantLock`, `CommitScratchDrop`, `CommitBegin`, `CommitLoad`, `CommitIndex`,
`CommitSwap`, `CommitMark`) and never looks at the client, so a transaction of a client that was
killed or disconnected can still commit until the server notices (`EndSession`). All statements
of one transaction are one commit, because every writer holds the advisory lock and readers see
commits only.

| Code | Actions |
|---|---|
| `import_companies` 467-489, `_resolve_archived_json` | `Hash`, `Resolve` |
| `_verify_target_schema` | `VerifyTarget` |
| `_cleanup_scratch` | `CommitScratchDrop`, `ScratchDropped` |
| `_start_import_run` | `CommitBegin`, `RunStarted` |
| `_load_next_table`, `_copy_jsonl` | `StreamJsonl`, `CommitLoad`, `Loaded` |
| `_index_and_validate` | `CommitIndex`, `Validate` |
| `_swap_current_table` | `CommitSwap`, `Swapped` |
| `except BaseException` 500-508 | `GiveUp`, called by `MainRefused`, `MainBroken` and by failed checks |
| `_record_failed_import` | `CleanupLocked`, `CommitScratchDrop`, `CleanupDropped`, `CommitMark`, `CleanupMarked` |

`catalog` maps every relation and index name of schema `pdl` to the table it belongs to; DDL
operators (`AfterScratchDrop`, `AfterIndexing`, `AfterSwap`) follow the statements and their
preconditions (`CanIndexNames`, `CanSwapNames`) make a statement fail whose name is taken. A
content stands for its SHA-256 and for the one snapshot that recorded it. `Malformed`
contents have a record that the filter refuses; those in `Rejected` have one at their end, which
is the only place where the exit status of `jq` tells of it (`JqEnds`). `Installable` contents are
those the importer lets through: distinct ids and a last record that is accepted.

### PdlArchive

`pc[a]` is the phase of an invocation and `step[a]` the artifact it is at. `local` gives a file
its content and its `stat()` identity, which every change renews. `objects` maps keys
(date, file name) to the bytes stored and to the `sha256` metadata stored with them, two things
the code never compares with each other. `found`, `pending`, `snapshots` and `files` are the
repository: `pending` holds the rows a transaction has inserted, which other transactions do not
see but whose unique keys make them wait.

| Code | Actions |
|---|---|
| `build_archive_plan`, `_artifact` | `Stat`, `Hash` |
| `preflight_snapshot`, `_preflight_on_connection` | `Preflight` (two statements) |
| `_ensure_file_object`, `_ensure_manifest_object` | `ValidateBefore`, `Head`, `Upload`, `ValidateAfter`, `Verify` |
| `record_snapshot` | `Refind` (two statements), `InsertSnapshot`, `InsertFile`, `Commit` |
| PostgreSQL | waiting in `MayInsert`, `DeadlockDetected` |
| errors, end of the process | `Break`: what was sent last may have been done |

The third selection of `_preflight_on_connection` (files of the snapshot found) is one step with
the second: rows of a snapshot are committed with it and never change, so nothing can come
between them. `Begin` is the start of the command; with `Concurrent = FALSE` the operator waits
for one invocation to end before the next.

### Migrations

A runner takes the advisory lock (`TakeLock`), reads the rows (`ReadApplied`), and goes through
its bundle (`Skip`, `Apply`, `Refuse`) in one transaction, which ends in `Commit` or `RollBack`
and releases the lock. `bundle[r]` is what `discover_migrations` finds, which differs between
versions of the package. `executed` is the order in which files took effect; `rows` is what
`meta.schema_migrations` says.

### Cli and its parts

`Cli` is a command from its environment variables to its exit status. It instantiates the four
modules below; each declares its own variables, and a step of one leaves those of the others alone.
A command starts its part (`StartPart`), waits while the part takes steps, and turns what it finds
into a result (`Import`, `Archive`, `InspectCrunchbase`, `InspectFiles`). `Hangs` marks the one
state a command can stay in: `jq` and Python wait for each other. What has a module of its own that
does not fit into this composition (the rest of an import or an archive, `apply_migrations`) is one
call that returns or raises.

| Code | Actions |
|---|---|
| `from_env`, `_required_values`, `validate_endpoint`, `_load_config` | `Load` with `Configured` |
| `_load_config` catches `ConfigurationError` only | `EndpointEscapes`: a traceback, before any probe |
| `doctor` | `Probe` (twice, whatever the first answers), `Doctor` |
| `migrate` | `Migrate` |
| `crunchbase inspect`, `pdl inspect` | `Prepare`, `StartPart`, the part, `InspectCrunchbase` or `InspectFiles` |
| `pdl archive`, `pdl import-companies` | `Prepare`, `StartPart`, the part, `Archive` or `Import` |
| `raise typer.Exit(code=1)`, or the end of the command | `Exit` |

`JqPipeline`: `out` and `err` are what the two pipes hold; `reader` is the line of `_copy_jsonl`
Python is at. `JqRecord` blocks while the pipe it writes to is full. `ReadRow`, `ChunkRead` and
`WriteChunk` are the loop at 284-292, `EndCopy` the end of the COPY, `CheckExit` 296-303 (it waits
for the end of stderr, so for the end of the process). `Raise` is an error of PostgreSQL or an
interruption anywhere. The `finally` clause is `StopProcess`, then `Reaped` when the process has
ended or `WaitTimesOut`, and `ClosePipes`. `_stop_process` waits five seconds after SIGTERM and five
after SIGKILL. The exception of the second wait is not caught, and an interruption can hit the
clause itself; both skip what is left of it, so that no property says that the process and its
pipes are always gone when Python is.

`UploadTransfer`: a part is sent unit after unit, with a call of `_UploadProgress` (`Count`) for
each. `AttemptFails` asks both retry handlers: `_retry_ssl_upload_part`, registered for parts and
TLS errors, and the one of the SDK. A retry takes back the count of what was sent. A part that is
given up aborts the upload.

`CrunchbaseInspect`: a table is a number; `relations` says which table a name stands for now,
`listed` which it stood for in the relations query. Another session locks tables (`LockWanted`,
`LockGranted`) and commits changes to all it has locked. `ReadSizes` and `LockTable` wait for its
locks, `LockTable` also for those of the partitions, which one count locks together (`Counts`,
`Wants`); `TimedOut` is the statement timeout of a count. What fails a report: a table that is gone
when its size is computed or its count begins, a key or an index that is gone when its definition is
looked up (`ReadDetails`: the lookup does not use the snapshot of its statement, and `stale` says
that the other session has committed since it was taken), and any other error of the database
(`StatementRefused`), a deadlock over partitions among them. `RollBack` is the same seen from the
other session.

`PdlInspect`: `CompareFiles` is an iteration of the loop of `_compare_files`, `DefaultParserIssues`
of that of `_default_parser_issues`, `ProbeJsonOffsets` of that of `_probe_json_offsets`. The
reference definitions at its end (`ComparisonReference`, `ProbedLine`, `Defective`) are set
expressions over the whole files that share no loop with them.

## 3. Runs

| Run | Instance | Shows |
|---|---|---|
| `import_safety` | 2 invocations, 5 contents, 2 faults of any kind, 1 edit | all safety properties, `IInv`, refinement of `TableReplacement` |
| `import_progress` | 2 invocations, 3 contents, 2 faults, kills included | `EveryInvocationEnds`, `RetrySucceeds`, and `FailureIsRecorded`, also on a full disk |
| `import_dropped_record` | 1 invocation, no fault, no edit | finding: `RefusedRecordsFail` fails |
| `import_unrecorded` | 1 invocation, 1 fault | finding: `EndedAttemptIsRecorded` fails |
| `archive_serial` | 2 invocations in turn, any two of 5 requests, 1 interruption, 1 edit | what is recorded is archived; refinement of `WriteOnceArchive` |
| `archive_concurrent` | 2 overlapping invocations, any two of 8 requests, 1 interruption | rows whole, never before objects; deadlocks end; re-runs succeed |
| `archive_race` | 2 overlapping invocations, no fault | finding: `NeverReplaces` fails |
| `archive_bytes` | 2 invocations in turn, 2 edits | finding: `RecordedBytesAreHashed` fails |
| `archive_collision` | 2 invocations in turn | finding: `CollisionsRejectedFirst` fails |
| `migrations` | 3 runners, any of 6 bundles each, 1 failure | `LedgerIsExecuted`, `SucceededIsCurrent`, `RefusedForCause`, `ExecutedInOrder`, `EveryRunnerEnds` |
| `commands` | any of 6 commands, any configuration; files of 3 records, a stderr pipe of 2 diagnostics, transfers of 5 units, 3 tables, 85 JSONL and 207 CSV files | exit status and end of every command, the promises of its parts, and that calm inspections report |
| `pipeline_stderr` | files of 3 records, a stderr pipe that holds 2 diagnostics | finding: `RefusalFailsVisibly` fails |

Bounds. Two invocations are enough for every pairwise interaction: the lock admits one import
session at a time, so a third invocation meets what the second left; and the proofs hold for any
number. Two faults allow a failure inside the handling of a failure (a lost reply, then a kill in
the cleanup). The contents cover a good file, one with a refused record at its end, one with a
refused record before its last, one with repeated ids and one that was never archived but has the
size of a good one; `import_progress` has two good ones. The requests cover a repeat, another URL,
another time of the day, another day, the same name with other bytes, the same bytes under other
names, unrelated files on the same day, and the two files exchanged (which is what makes two
transactions wait for each other). One edit suffices to change a file at any point; `archive_bytes`
needs a second one to put it back. Three runners of `migrations` let one fail while two others wait;
the bundles are three versions of a growing package, two with a changed first file, and one with a
version twice. In `commands`, the stdout pipe is smaller than a chunk and a file, so that each side
waits for the other; the stderr pipe holds two diagnostics, so that a file of three refused records
stops an import and one of two does not. `CommandEnds` makes the exception that the finding of
`pipeline_stderr` demands, and no other. A transfer has up to three parts, the last one shorter,
four attempts per part and two of the SDK (10 and 5 in the code; what matters is that the one is
greater). Three tables, one of them a partition of another, and two commits of the other session
allow each table to be dropped or replaced before, between and after the statements, and a circle of
two locks with the partitioned table and with the plain one. The files of `PdlInspect` have up to
three lines of three lengths, so that the five offsets fall on the first byte of a file, the first
byte of a line, inside lines and into the last one; the window of two records is smaller than some
files and larger than others.

Fairness. `FairSpec` of `PdlImport` assumes that a client that can go on does, that the server
executes or refuses what it was sent and notices broken connections, and that the queue of the
advisory lock is served (a weak condition here, because invocations are finitely many). It also
assumes that `jq` ends, which `JqPipeline` examines. `PdlArchive` assumes that S3 calls and
statements are answered and that PostgreSQL's deadlock detection runs; `Migrations` that runners
run and the queue of their lock is served. `Cli` assumes that a command goes on, that `jq`, the SDK
and the database answer, and that the other session gets the locks it waits for and commits: the
catalog transaction of `crunchbase inspect` has no timeout, and would wait as long as that session
does. The attempts of a transfer end because they are bounded, not by fairness. Faults, edits, the
recovery of a full disk and migrations are never assumed to happen. Deadlock is checked
everywhere but in `pipeline_stderr`, where it is the finding; the actions `Quiescent` and `Exited`
mark the states in which nothing is left to do, and `Hangs` of `Cli` those of that finding, about
which `OnlyDiagnosticsStall` says what they are.

Findings.

- `import_dropped_record`: `jq` goes on after a record that its filter refuses, and its exit status
  is that of the last record. Python looks at nothing else: the diagnostics are shown only with a
  status that is not 0, and the row count is that of the rows that came. A file whose refused record
  is not its last is therefore installed without it, where `README.md:162-164` promises that "an
  added, removed, or incorrectly typed field fails the import visibly instead of being discarded".
  The tests refuse the only record of a file.
- `import_unrecorded`: `run_id` is assigned when `_start_import_run` returns, so a connection
  lost during its COMMIT leaves a running row that no handler marks (`docs/metadata.md:39-41`).
- `archive_race`: HEAD and put are not one operation; `README.md:139` says that an object at an
  occupied key is never replaced.
- `archive_bytes`: an upload whose file changed is reported, but its object stays, with the
  planned hash as metadata. A later invocation takes it for verified (`docs/metadata.md:59-61`).
- `archive_collision`: the preflight does not look at the manifest key, which has only a date
  (`metadata/repository.py:189`).
- `pipeline_stderr`: `jq` writes a diagnostic for each record it refuses, and Python reads them only
  after the end of stdout. A file with more refused records than the pipe holds diagnostics (all
  records have a new field, say) stops both for ever, with the advisory lock held, where
  `README.md:162-164` promises that the import fails visibly.

Two more disagreements have no run of their own. The hash that identifies a file is taken before
`jq` opens the file again by its path, so an edit between the two installs a content that no
snapshot records (`README.md:161`); `ProvenanceOfUntouchedFiles` is about files that are not edited
meanwhile. And `doctor` ends in a traceback before it has probed anything when `urlsplit` cannot
parse the endpoint (an unclosed bracket, say), where `README.md:74-75` says that it reports both
results even when one check fails; `ExitTellsOutcome` names that exception (`EndpointEscapes`).

What the models take from outside. The following is not in the repository and is modelled from the
way the code relies on it.

- `jq` goes on after a record whose filter raised an error, and its exit status with
  `--exit-status` is that of its last record; text that is not JSON ends it with another status.
- The SDK and s3transfer: less than `MULTIPART_PART_SIZE` is one request; the retry handler of the
  SDK and the registered one are both asked; the stream of a failed attempt is rewound with negative
  counts; a part that is given up aborts the upload, and one that is completed has all its parts. The
  retry quota of botocore's standard mode, which can end retries before their number does, is not in
  `Retried`.
- PostgreSQL: a lock request waits behind holders and behind earlier conflicting requests; a size
  function waits for a lock on the table and returns NULL when it is gone; a statement timeout also
  ends a wait for a lock; a SELECT from a partitioned table locks its partitions too; functions that
  print definitions see what is committed now, and return NULL for what is gone.

## 4. Proofs

Every safety property that a passing run checks is a theorem too, for all values of the constants;
so are the two refinements. Each inductive invariant was first checked by TLC on the instance of a
run. The assumptions are the named ASSUMEs of the modules, which TLC evaluates in the runs; the
theorems that need more say so in their statement.

| Module | Theorems about runs' properties | Further theorems |
|---|---|---|
| `PdlImportProofs` | `TypeCorrect`, `OneRunning`, `LedgerCorrect`, `TableComplete`, `NamesCanonical`, `FailureClean`, `Provenance`, `FinalRuns`, `Protected`, `Refinement` | `Invariance` |
| `PdlArchiveProofs` | `TypeCorrect`, `RecordedWhole`, `RowsHaveObjects`, `SuccessIsRecorded`; in turn: `RecordedStaysArchived`, `UploadsHoldTheHashed`, `CollisionsPrecedeUploads`, `Refinement` | `Inductive`, `KeysAreUnique`, `ArchiveGrows`; in turn: `SerialInductive`, `NothingIsReplaced` |
| `MigrationsProofs` | `TypeCorrect`, `LedgerIsExact`, `SuccessIsCurrent`, `RefusalHasCause`, `OrderKept` | `Inductive`, `TransactionsExclude`, `HistoryGrows` |
| `UploadProofs` | `GivenUpForCause`, `ProgressAscends` | `TransferInductive` |
| `InspectionProofs` | `NoDeadlock` | `CrunchbaseInductive` |
| `ReportProofs` | `ReportMatches` | |
| `CliProofs` | `TypeCorrect`, `StatusIsOutcome`, `StallsOverDiagnostics` | `Inductive` |

### PdlImport

For any finite set of invocations, any contents, any bounds and any kinds of faults. The
assumptions: constants have their types, and `None`, `Initial` and the invocations are different
things. The safety properties are not inductive by themselves: nothing in them excludes a dead
session that is about to commit a swap. `IInv` adds the following, in this order.

1. `LockDiscipline`: a session that the server is still working for holds the advisory lock,
   whether its client lives or not. Two sessions are therefore never busy together, and the
   cleanup of an invocation runs only when its first session has ended.
2. `PhasesAgree`: what each session can be doing in each phase of its client.
3. `StagedIsMine`: from 1 and 2, `companies_next` is the table of the session that indexes or
   swaps it, although the code finds it by name.
4. `CopiedWhole`: a staged or current table has every accepted row of a file whose last record was
   accepted. (Not that no record was refused: `import_dropped_record` shows the opposite.)
5. `RunsAgree`, `LedgerDescribesTable`, `SnapshotsAgree`: the row of the run against the table.

One lemma per action shows that it keeps these parts, and each property follows from `IInv`.
The refinement uses `IInv` in the swap: the row is running, and the content it publishes is
installable.

### PdlArchive

`ManifestsAssumption`: no original is itself the manifest of a snapshot. A manifest is the record of
what it lists, so different plans have different manifests, as SHA-256 tells contents apart
everywhere else in the model.

The proof has two layers. `IInv` holds for overlapping invocations, with any interruptions: what a
transaction has inserted (`pending`) is what its invocation plans, in the order of the code; the
rows of an open transaction clash with no others, because an insertion waits for the unique keys
of both; a row is inserted only after both objects and the manifest were seen; and `found`, read
in an earlier statement, is still a recorded snapshot. From it follow the properties of rows.

`SerialInv` needs `~Concurrent`, an operator who waits for one command before the next. It is
about the gap between HEAD and put: a key that was seen vacant *is* vacant, an object that was
verified has the bytes that were hashed, and its key, its hash and the recorded rows agree. The
run `archive_race` shows that all of this is false for overlapping commands, so the hypothesis is
not a convenience. The refinement maps `snapshots` and `objects` to those of `WriteOnceArchive`
through `Recorded`; a commit maps to its `Record`, an upload to a `Store`, the rest to stutters.

### Migrations

`BundlesSorted`: any two bundles have the versions they share in the same order, the files of one
version next to each other. `discover_migrations` sorts by file name (`metadata/migrations.py:45`),
and a name starts with its version. That packages grow at the end, the hypothesis of
`ExecutedInOrder`, does not suffice: two packages with the same two files in opposite orders have
nothing that is not at the end. The
invariant says that one runner at a time is past the lock; that what a transaction has read is
what is committed, because nobody else writes meanwhile; that the rows are the executed files; and
that what a runner has passed of its bundle is recorded as its bundle has it.

### Cli and its parts

- `PipelineInv`: a row that `jq` has written is in the pipe, in the chunk or with PostgreSQL
  (`RowsConserved`), the diagnostics in the other pipe are of records it has refused so far, and the
  exit status is zero only after the last record and if that was accepted. A verdict of acceptance
  therefore implies that the table has a row for each accepted record.
  `StallsOverDiagnostics` is the counterpart of the finding of `pipeline_stderr`: `jq` and Python
  wait for one another (`Stalled`) only when the stderr pipe is full and the file has more refused
  records than it holds diagnostics. The run shows that this happens; the theorem that nothing else
  stops both, whatever the sizes of the stdout pipe, the chunk and the file.
- `TransferInv`: `CountFits` says what `transferred` is in each stage, in units and whole parts;
  the last part is the rest. The threshold of the reporter follows the last percentage it has
  shown, although a retry takes the count back: this is what makes reports ascend.
- `CrunchbaseInv`: each count has a transaction of its own, so the inspector holds at most the lock
  it is counting under and its partitions'. Without partitions it waits while it holds none, which is
  what `NoDeadlock` needs.
- `PdlInv`, `ReportInv`: each loop has counted what the reference counts up to the position it has
  reached. `ReportProofs` needs induction over files: the library's induction takes an operator as
  a parameter, so it states induction for a *set* of numbers (`SetInduction`), which is enough. From
  it follow that the recursive function `LineStart` exists, that it ascends, that a seek followed
  by a dropped readline arrives at the line `ProbedLine` names, whatever the byte, and that the end
  of the file is read for the last one. It also needs that the early end of the second loop finds
  the least positions of the whole window.
- `CommandInv` ties the command to its part: only one part runs, that of the command, and only on a
  configuration that was accepted.

`MaxChanges` of `CrunchbaseInspect` is at least 1: for 0 the domain of the type invariant would be
too small, which the proof of `TypeCorrect` brought to light.

Only model-checked: liveness (`EveryInvocationEnds`, `RetrySucceeds`, `FailureIsRecorded`,
`EveryRunnerEnds`, `CommandEnds`, `CalmInspectionReports`), because fairness and ENABLED are not
supported by the prover. The properties of the runs that expect a violation are not theorems, of
course; `NothingIsReplaced` proves one of them (`NeverReplaces`) under the hypothesis that excludes
the race.

## 5. Not modelled

- The field checks of the `jq` filter: they are the set `Malformed`, or a record that is refused.
- Row contents of the table; `founded` and the other columns are never compared with anything but,
  in `PdlInspect`, the value of one field.
- Formatting, rendering, reporting, the redaction of secrets in messages, the bounded error message,
  version and Git revision of a run: text, whose rules are a line each and covered by unit tests.
- Samples, observed types and null counts of `pdl inspect`, and what `crunchbase inspect` reads in a
  table: data that is collected and printed.
- The delays between attempts. In `PdlArchive` an upload is one step that happens or does not;
  `UploadTransfer` has its inside.
- Torn reports: the five catalog statements have five snapshots, and an exact count may be that of
  a table that replaced the listed one. No document promises more, so no property does.
- A change of a file that keeps device, inode, size and modification time.
- Deletion or replacement of objects and rows by anything but these commands.
- Initialisation checks: the `meta` tables exist from the start; only `pdl.companies` is created
  by an action (`Migrate`).
- Argument parsing (`typer` ends with status 2 before a command begins), `Settings`, which no command
  uses, and constructors of clients.
- In `Cli` the import and the archive around the pipeline and the transfer are one call: composing
  them with `PdlImport` and `PdlArchive` would multiply state spaces that meet in one result.

## 6. Plan

In the order of importance; all but 6 are done.

1. `PdlImport` over `TableReplacement`, with proofs.
2. `PdlArchive` over `WriteOnceArchive`.
3. `Migrations`.
4. `PdlArchiveInv`, `PdlArchiveProofs`.
5. `MigrationsProofs`.
6. `Provenance`: archiver, repository and importer over one database, so that the rows the import
   resolves are those an archive recorded. Abstract promise: what is imported was archived.
7. `JqPipeline`, composed in `Cli`.
8. `UploadTransfer`, composed in `Cli`.
9. `CrunchbaseInspect`, composed in `Cli`.
10. `PdlInspect`, composed in `Cli`; `CliInv` and the proofs about all four.
11. `StallsOverDiagnostics`: who waits for whom between `jq` and Python.

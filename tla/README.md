# A TLA+ development of trace-to-eval

This directory models `trace-to-eval` (the Python package `trace_to_eval/`), checks the
models with TLC on small instances and proves the most important results with TLAPS.
Line numbers are those of the sources at the modelled commit.

## The system

`trace-to-eval` is a command-line program.  Nothing runs in the background and nothing is
locked: each command is one process that reads files other programs write, and writes files
other commands read.  Its state is on disk, and what makes it hard is that a command reads
the same files several times, by rules written twice, while their producers may go on writing.

| component | state | operations | what makes it correct |
|---|---|---|---|
| evidence chain (`run_evidence.py`, `validate_chain.py`, `cdcp_events.py`) | event ledgers `*.jsonl`, `run-records/<run>.json`, the packet at `--out` | `evidence from-cdcp-events`, `validate-chain` | an OK vouches for what the packet hashes; one run id; replay hashes agree; a verdict is a function of ledger and record |
| audit log (`audit.py`) | `ops/audit-log.jsonl` | append by both commands above, `audit summary` | what is at `--out` is what the log tells last; the summary counts each entry once and survives torn lines |
| strict re-hash (`cli.py:39-120`, `uri.py`) | a packet, the portfolio's files | `evidence validate --strict` | passes iff every hashed file still has the content hashed |
| event-case import (`cdcp_events.py:151-435`) | `cdcp_event_cases.yaml` | `from-cdcp-events` | one draft case per candidate event, ids unique and stable |
| eval runner (`runner.py`, `ingest.py`, `io.py`, `models.py`) | eval cases, traces, `run.json` | `ingest`, `run`, `show` | a report accounts for each case, on the trace the case names |
| reliability (`reliability.py`) | run reports | `reliability` | pass^k <= pass@1 <= pass@k; omissions are failures |
| false-success audit (`false_success.py`) | traces | `false-success` | each tool error has one class; flags follow the documented rules |
| dashboard (`dashboard.py`) | packets | `dashboard` | packet and gate counts per producer |
| run bundles (`run_bundle.py`, `cli.py:724-826`) | bundles | `bundle create / validate / compare` | equality of bundles means equality of what they wrap |
| document validation (`validation.py`), URIs (`uri.py`) | JSON schemas | used by all | not stateful |

Interaction: producers -> ledger and Run record -> packet -> strict validation, dashboard,
bundles; producers -> ledger -> draft eval cases -> reviewed cases -> run reports ->
reliability; each evidence command -> audit log -> summary.

Hard behaviour: producers that write while a command reads (a ledger is opened up to four
times by one command, a Run record twice); directories in which ledgers appear; commands that
are killed, or that end in an exception no caller expects, after they have written; two rules
for the same thing (run ids, discovery, failed parses) in generator and validator.
There is no retry, no timeout and no recovery code to model.

## Modules

### EvidenceChain

The two evidence commands, one action per file access or computation between two accesses.

* `ledger`, `records` are the files; producers change them by `AppendLine` and
  `WriteRecord`.  README.md:87-89 of the repository says that upstream repos write ledgers
  when their runs finish; `Concurrent = FALSE` is that world (writes between commands only),
  `Concurrent = TRUE` drops the assumption.
* `pc` and `cmd` are the running command, `verdict` how it ends: `"ok"`, a stage of
  `ChainValidationError`, or `"uncaught"` for an exception that leaves `cli.main`.
* `primary`, `files`, `todo` are the local variables `primary_ledger`, `files` and the loop
  over discovered files; `validated`, `parsed`, `inputs`, `logHash` are the four reads of the
  ledger, `record`, `checked` the two reads of the Run record.
* `out` and `audit` are the packet file and the audit log; `history` is a ghost for properties.
  `OpenOut` truncates the packet file before `WritePacket` fills it, so a kill may leave half a packet.

Actions follow the code top down: `Discover`, `List`, `Read`, `Check` are stages 1 and 2 of
`run_validate_chain`; `GenDiscover` .. `HashLog` are `build_run_evidence_from_cdcp_events`, which
both commands run; `OpenOut`, `WritePacket` and `ValidatePacket` are
`write_run_evidence_from_cdcp_events`; `CrossCheck` is stage 5; `Exit` is the end of
`cli.main`, with its audit entry; `Interrupt` kills the process anywhere.  The append of the entry has no
handler (audit.py:49-68): `Exit` may fail there, after OK was printed or the packet written, and leave no
entry or half of one.  A directory that cannot be listed, or a file that exists but may not be read, is not modelled.

Data are abstracted to what the commands tell apart: a line is a record of its run ids, type,
replay hashes, gate name and declared fields, with four flags (is UTF-8, parses, conforms to the event
schema, contributes conforming packet entries); one line that is not UTF-8 makes its whole file
undecodable (`Decodes`), and `Garbled` is such a Run record.  The two commands meet that differently: the
validator's own parse ends uncaught, the generator's is a ValueError that validate_chain.py:371 reports
as `packet-schema`; a hash is the content hashed, so hashes are
equal exactly when the contents are.  A run id stands for the file its Run record is in.
`is_file` and the read that follows it in `_load_run_record` are one step, as are
the two directory listings inside one `glob`.

### AtomicChain and ChainRefinement

`AtomicChain` says what the commands promise for one ledger file: a command looks at the ledger
and the Run records at one instant, and answers ok exactly if they are acceptable, where
`Acceptable` is written declaratively, without stages, packet or order.
`ChainRefinement` maps `EvidenceChain` to it (`KeepsPromise`): a command's whole execution
is one `Decide` step at its end.  The mapping is for quiet producers and single files;
runs `ChainOtherRecord` and `ChainBusy` show what is left of the promise without these.
Its safety part is also proved, for every instance (`ChainRefinementProofs`).

### EventImport

One import: `Discover`, one `Read` per file, then the loop over the events, `Ignore` or `Take`
for an event and `Rename` for each round of the inner while loop, `Named` for what follows the
loop, `Write`, `Validate`, `Exit`.

* `events` is the immutable queue of positions `<<file, line>>` read, `next` the index of the loop.
  The code has two loops, one that drops malformed lines and one that makes cases of the others;
  as the first decides nothing but what to drop, they are one loop here.
* `seen`, `trial` are `seen_ids` and the local `case_id` and counter.  An id is the sequence of
  the words joined by `_`; numbers are in unary, so that an event may ask for an id that spells
  a suffix.  `Numeral`, `LineId` and `CountedId` are the f-strings of cdcp_events.py:396-399.
* `out` is the draft file with, as a ghost, the lines it was made from.  Producers append during
  imports; `Interrupt` kills an import, and may leave the file torn while it is written.
* A check is its type and the values that `_normalize_check` and the schema look at
  (`Normalizes`, `SchemaAccepts`): the importer keeps by one rule what the schema judges by another.

### Reliability

`Start`, then `Validate` and `Parse` once per argument (the code opens a report twice,
validation.py:89-109 and reliability.py:24), `CheckAttempts`, and two outputs that are each
truncated when opened and filled by the next step (`OpenJson` .. `WriteMarkdown`).

* `file` are the report paths, which `Replace` changes at any time; `replaced` is a ghost, the
  paths replaced since the command started.  OUT is none of them.
* `loaded` is the list of attempts, functions from case id to suite and result; `Aggregate` is
  `aggregate_reliability`, each counter written as the cardinality of the set the code counts.
  A rate is compared by multiplication, so no fractions and no rounding occur.
* An output holds, as a ghost, the attempts it aggregates.

### EvalRunner

`LoadCases`; per case `FindTrace`, `OpenTrace` for a trace named by file or found under its own name, or
`ListTraces` and one `ScanTrace` per file, in any order, because `Path.glob` promises none;
`NotFound`; `WriteJson`, `WriteMarkdown`.  Each exception ends the run as `"error"` (cli.py:552
expects it) or `"uncaught"`.

* A trace is the sets of texts its parts contain, so a check is a statement about sets (`Holds`):
  the substring search and the case folding of the code are abstracted to membership.
* `Replace` changes a trace file between any two steps, `replaced` remembers it; a kill may
  leave the report being written truncated.
* Items of the cases list that are no objects, suites and the counters by suite are left out.

### FalseSuccess

`Resolve` once per argument (a file, or a directory as it is when it is reached), `Load` once per
file, then the two outputs as in `Reliability`, and the exit code.

* A trace is the kinds of rule by which it claims success, its effects, and the sequence of its
  calls; a call has a name, or goes by its own JSON if it has none (`NameOf`), and the set of
  marks by which it counts as an error.
* `Repairs`, `Class`, `Flagged` are the classification of false_success.py:121-206, `Report` counts
  each number of the summary as the cardinality of the set the code counts.
* `FlaggedIfLastCallFails` is a second, shorter definition of the same flag: repaired by *any*
  later call comes to *the last call of that name failed*.

### AuditLog

Commands that append to one log at the same time, and `audit summary`.

* `Begin` makes an entry and stamps it, `Write` appends it: between the two other commands may
  append theirs.  `Lose` cuts the one `write` short (`"bare"`: only the newline is missing; `"cut"`)
  or drops it; `Edit` is a person, or another tool, who adds any object, text that is none, or bytes
  that are no UTF-8.  `by` says, as a ghost, whose a text is.
* A log with such bytes has no summary at all, because `read_text` is outside the `try` (audit.py:88):
  `Decodable` guards `Summarize`.
* `Readable` says which texts are a line of their own once torn ones have run into their
  neighbours; `Before` is the comparison of timestamps as text, with its two spellings of UTC.
* `Summarized` has every number that the command prints; `summary` remembers, as a ghost, the log
  it was made of.

### PacketStore, StrictRehash, RunBundle, Dashboard and Portfolio

`PacketStore` has the producer's repository (ledger, Run record, artifacts) and the evidence command as
a writer of packet files, at the granularity of file accesses but without the reasons to refuse a
ledger, which are in `EvidenceChain`: here it matters which file a ref leads to and which content a
hash is of.  `Resolve` is `uri.resolve_ref` (the validator's rule), `ResolveForPacket` the
generator's; `Packet` gives a packet its refs, which for a record with a `repo://` sandbox image are
of one fixed form wherever the files were.  A Run record `covers` the ledger lines that were there
when the producer wrote it.

`StrictRehash` is `evidence validate --strict`: two reads of each packet, then the re-hash of
record, ledger and each artifact as steps of their own.  `then` is a ghost: the ledger when the record was
hashed.  `RunBundle` is `bundle create` and `bundle compare`; it hashes the raw bytes of the record,
where a packet has the hash of its canonical form.  `Dashboard` is `dashboard`, with directories
listed when they are reached.  It passes over what it cannot parse, but a file that is no UTF-8 or whose JSON
is no object ends it before it prints anything (`StopAtForeign`).

`Portfolio` composes the four by interleaving: they share only files.  Its properties relate what one
command wrote to what another reads.

### Proof modules

`EvidenceChainProofs`, `ChainRefinementProofs`, `EventImportProofs`, `ReliabilityProofs`,
`EvalRunnerProofs`, `FalseSuccessProofs`, `AuditLogProofs` and `PortfolioProofs`: see "What is proved".
Each EXTENDS the module it is about.

## Runs

| run | checks | expected | what it shows |
|---|---|---|---|
| `ChainFile` | `TypeOK`, `OkVouchesForPacket`, `KeepsPromise` | pass | One ledger file, every kind of line and Run record and both commands with every kind of --run-record: with quiet producers an OK vouches for what the packet hashes, and the commands implement AtomicChain. |
| `ChainBusy` | `SnapshotsOrdered`, `ReplayHashesAgree`, `RunIdentity`, `LogTellsOfPacket`, `BadPacketOnlyAfterFailure`, `HashedLedgerWasValidated` | pass | Two commands in a row on one ledger file, or one command on a directory of two, with producers that append lines, add files and rewrite Run records between any two file accesses: packet, run id and replay hashes stay consistent, the ledger an OK hashes is one that was validated, and OUT holds what the audit log tells of it, unless a command was cut off between the two. |
| `ChainOtherRecord` | `SameRecordReloaded` | violation | On a directory of two ledgers validate-chain cross-checks the packet of one run against the Run record of another. |
| `Import` | `TypeOK`, `EveryCandidateDrafted`, `IdsUnique`, `DraftsConform`, `DraftsKeepTheirIds`, `ImportsEnd` | pass | Two imports of two ledgers that producers append to meanwhile, or one of a ledger with every kind of event and check and with explicit ids chosen to clash with suffixed ones: no event is lost, drafted twice or out of order, a second import keeps the ids of the first, ids are unique and found in the end, and what is drafted is what the eval-case schema accepts. |
| `ImportUndecodable` | `MalformedLinesSkipped` | violation | A ledger line that is not UTF-8 ends the import with an uncaught exception, although malformed lines are to be skipped without aborting. |
| `Reliability` | `TypeOK`, `ScoresOrdered`, `UnstableCasesExplained`, `OmissionNeverImproves`, `OutcomesJustified`, `OutputsAgree` | pass | One to three attempts with every pattern of passed, failed and missing results of two cases and every reason to refuse a report, in two commands that may be killed and whose reports may be replaced: how the scores relate, what an OK counts, and when the two outputs agree. |
| `EvalRunner` | `TypeOK`, `VerdictsBacked`, `FailsForAReason`, `ReportOfLastWholeRun` | pass | Two runs over a directory of three trace files that hold traces, broken files or nothing, and change once at any time: what the verdicts, the exit code and the reports on disk tell. |
| `FalseSuccess` | `TypeOK`, `FlaggedIfLastCallFails`, `SummaryAddsUp`, `ExitVouches`, `OutputsAgree` | pass | Every sequence of up to three calls of two tools, nameless ones included, and two commands over two trace files that are replaced, removed and damaged meanwhile: a trace is flagged exactly if it claims success although the last call to a tool failed, no file is left out, summary and exit code agree, and both outputs do unless a kill came between their writes. |
| `AuditLog` | `TypeOK`, `LossBounded`, `SummaryAddsUp`, `WindowSpans`, `SummariesOnlyGrow` | pass | Two commands append to one log at the same time, writes are cut short, a person adds lines of their own (no fields, another tool's, a failure without a stage, a stage without a failure, junk, other bytes), and summaries are made all along: a torn write costs at most two entries, later summaries only count more, the breakdowns add up but for the lines of the person, and the time window is that of the entries counted. |
| `Portfolio` | `TypeOK`, `StrictOkMeansCoexisted`, `PortableFreshPasses`, `LedgerCoversRecord`, `PageComplete` | pass | Producers that append to the ledger, rewrite or remove the Run record and change artifacts while packets and bundles are made, checked again and added up, with kills: a re-hash that matches tells of one moment, packets and bundles hash a ledger that covers their record, fresh portable packets pass, and the page of an undisturbed dashboard is complete. |
| `FreshPacket` | `FreshPacketPasses` | violation | A packet checked right after it was made fails strict validation if the ledger is not in ops/event-ledger, the Run record not in ops/run-records, or an artifact is named by a path. |
| `DashboardGates` | `PassColumnCountsPassed` | violation | The page never counts a passed gate of a generated packet as passed. |

Violations found in these runs are disagreements between the code and what it
says of itself; they are listed under `findings` in `PROJECT.json`.

### Bounds, and why they are enough

Some runs ask several questions of one module, each of which needs some variables to vary
and others not.  Their MC module names these worlds in a state predicate `Scenario`, a disjunction,
and checks `ScenarioSpec`: the behaviours of the specification all of whose states satisfy it.
`Init` and `Next` are the specification's own; a scenario only keeps TLC from states that mix
two questions.  What follows names the worlds.

* Evidence chain.  `ChainFile`: `MaxLines = 2` lines in one ledger file, so every pair of kinds of
  lines meets (conflicting ids, a first and a second `pipeline.start` with different hashes, a valid line before an
  invalid or undecodable one, a passed gate and the event that declares it), and every check is a statement about
  single lines or pairs of lines.  The Run records of `FileRecords` are one per reason to refuse a
  record, and the good ones.  `ChainBusy` has two worlds: two commands in a row on one ledger file,
  because it is also about the packet and the audit entry an earlier command left; and one command
  on a directory of two files of one line each, one before and one after the primary file.
* Import.  Three worlds: two imports of two files of at most two lines (a line read before, and one
  after, an append to another file, and a second import of a grown directory); one import of four
  lines of one file, chosen so that the fourth event's id, its suffixed id and its first counted id
  are all taken by the first three, and the while loop goes round twice; one import of up to three
  lines with every kind of check an event may carry.
* Reliability.  Two cases, one to three attempts on two paths (one given twice), each passed, failed
  or missing, and every reason to refuse a report; one replacement, because a report is read
  twice and one replacement can fall between the reads; two commands, because an output can only
  disagree with one of an earlier command.
* Eval runner.  Three files, so that a scan can see a trace it does not want before the one it
  wants and after it; two runs and one replacement for the reasons above.
* False success.  One world has every sequence of up to three calls of two tools and of two nameless
  kinds, so that an error, a success of another tool and one of the same tool come in every order;
  the other two files, five contents, one replacement and two commands, so that one command may be killed
  between its outputs and the next fail.
* Audit log.  Two writers, up to four texts, a clock of three instants in two seconds.  Worlds: torn
  writes (up to three texts: a torn line between two others, and two torn ones in a row); entries that pass each
  other between stamp and append; entries of every kind, with hand-written ones: an object without fields,
  another tool's, a failure without a stage, a stage without a failure, text that is no object, and other bytes.
* Portfolio.  Two packet files, two bundles, a ledger of two lines and three writes of the producer:
  a write between any two reads of one command, and one more after them.  Worlds: one packet checked
  again (two where nothing is checked); bundles; a dashboard over two packets that two commands may
  be killed in.  In the first and the last a foreign file may lie in the directory.  The readers share no files with each other, so a world has one of them.

`CHECK_DEADLOCK FALSE` is set where the bounds on commands, runs and replacements leave a state
without successor: users may stop issuing commands and producers may stop writing.  `ChainFile` and
`ChainBusy` do not need it.

### Fairness

`FairSpec` of `EvidenceChain` and `EventImport` assumes weak fairness of `Step`, the steps of the
running command: a process that can run is eventually scheduled.  Producers, users and kills are
not fair.  It is needed for `KeepsPromise` (the abstract command also ends) and `ImportsEnd`; the other
runs use `Spec`.

## What is proved

`EvidenceChainProofs` proves for every set of lines, Run records, command lines and files,
any number of commands, any ledger length, and any interleaving of producers:

* `TypeCorrect`: `Spec => []TypeOK`.
* `SnapshotsAlwaysOrdered`: `Spec => []SnapshotsOrdered`.
* `RunIdentityHolds`: `Spec => []RunIdentity`.
* `ReplayHashesAlwaysAgree`: `Spec => []ReplayHashesAgree`.
* `HashedAlwaysValidated`: `Spec => []HashedLedgerWasValidated`.
* `OkAlwaysVouches`: `Spec => []OkVouchesForPacket`.
* `BadPacketsTellOfFailure`: `Spec => []BadPacketOnlyAfterFailure`.
* `LogAlwaysTells`: `Spec => []LogTellsOfPacket`.
* `SameRecordOnOneFile`: for a ledger file given by name, the cross-checks read the Run record the
  generator read, even if producers write in between.  `ChainOtherRecord` refutes the same of
  a directory, so the theorem says how far the comment at validate_chain.py:391 holds.
* `CommandsRunOutOfSteps`: every step of a command lowers `StepsLeft`, which is at most
  `12 + 3 * NFiles`, and no step of a producer raises it.

The assumptions are those of `ConstantsAssumption`: the fields of a command line and the run ids of
a line have their types, and the model values for "none", "absent", "broken" and "garbled" are no contents.

None of these invariants is inductive.  `IInv` adds to `TypeOK`
* `Control`: which command is where, that the files it has discovered exist (files are never
  deleted), and that a loop is only entered with a file to open;
* `Order`: each snapshot taken is a prefix of every later one and of the present ledger.  It is
  preserved by appends because prefixes are transitive, and by reads because the file just
  read is its own longest prefix.  Parsed lines are within the hashed bytes as a consequence;
* `Identity`: the validator has a run id before the generator runs, the generator has read the
  primary ledger before it loads a record, and the ids it read are the record's.  With `Order`
  the validator's ids are among the generator's, hence equal to the packet's.

`ReplayHashesAgree` is inductive relative to `IInv`: only `CrossCheck` ends a `validate-chain` with
ok, and it compares with `Packet`, which was computed from the record hashed.

`SameRecordOnOneFile` follows from `IInv` like `RunIdentity` does.  `StepsLeft` counts the labels
still ahead and the files the loop has still to open, of which `IInv` says that there are some.

The other four need more, and each part is an invariant on top of `IInv`:
* `Hashing`: which files the two loops have still to open, so that the primary file is validated
  before it is hashed and no other is hashed;
* `Quiet`: while nobody writes, what was read of ledger and record is what is there;
* `Established`: the checks that were passed hold of what was read, until the command ends.  With
  `Quiet` it makes an OK speak of the bytes hashed (`OkAlwaysVouches`): generator and validator
  find one run id by their two rules (`SameSlot`), hence one record;
* `Outcomes` and `Leaving`: how a command can end, and that a packet the schema refuses is on its
  way from `WritePacket` to a failed `ValidatePacket`, or has been left there by one;
* `Telling`: what `LogTellsOfPacket` says holds as long as no evidence command is at work.  OUT is
  only written by one, and what `validate-chain`, a failed append or half an entry adds to the log comes after
  the entry or is none of an evidence command (`StillTold`).

`ChainRefinementProofs` proves, under `Assumed` (quiet producers, single files),

* `CommandsAreAtomic`: `Spec => Promise!Init /\ [][Promise!Next]_(Promise!vars)`, the safety part of
  `KeepsPromise`: `EvidenceChain` implements `AtomicChain` under the mapping of `ChainRefinement`.

The argument has three parts.  First, the code's conditions are the declarative ones, as equivalences
of state predicates: `Accepted` and `NothingElseAccepted` (what the generator accepts is
`EvidenceAcceptable`), `StartDecided`, `SummaryDecided`, `FieldsDecided`, `ChainDecided` (what passes
the cross-checks is `ChainAcceptable`); that the first start event by `FirstStart` is the first one
in the sense of `StartAgrees` uses the well-foundedness of the naturals.  Second, `Deserved`: a
command about to end has the verdict that ledger and record deserve now.  It is an invariant
because every way to end is taken exactly when one of these conditions fails, or none does, and nobody
writes in between.  Third, `StepKeepsPromise`: `Exit` is `Decide`, `Interrupt` gives the command up,
`Start` issues it, `Produce` happens between commands, and every other step changes nothing that the
promise sees.

`EventImportProofs` proves for every number of ledger files, every set of lines and any number of
imports, with producers and kills at any step:

* `TypeCorrect`: `Spec => []TypeOK`.
* `DraftIdsUnique`: `Spec => []IdsUnique`.
* `NoCandidateLost`: `Spec => []EveryCandidateDrafted`.
* `DraftsAlwaysConform`: `Spec => []DraftsConform`.
* `DraftsAlwaysKeepTheirIds`: `Spec => DraftsKeepTheirIds`.
* `ImportsRunOutOfSteps`: every step of an import lowers the number `StepsLeft`, and no step of a
  producer raises it.
* `OnlyUndecodableAborts`: an import ends in an exception nobody catches only if it has read a
  line that is not UTF-8, so `ImportUndecodable` finds the only exception to R-TTE-006.

`IInv` adds to these what makes them inductive: `Snapshot` (what was read of a file is a
prefix of it), `Queue` (the events are exactly the lines read, in the order of files and lines),
`Ahead` (the files still to open come after those read, and nothing is named before all are),
`Naming` (the ids seen are those of the drafts, the drafts are distinct and are those of the
events before `next`), and `Conforming` (every draft so far has checks the schema accepts, which
`KeptChecksAccepted` shows for any event), and `Choosing` (every draft has the first of the ids its
event may get, in the order of `Try`, that no draft before it has).  An id is only kept after a test that it is not seen,
in `Take` or in `Rename`, so `Naming` is preserved whatever the suffixes spell; that the least
file is opened first uses the well-foundedness of the naturals.

`DraftsAlwaysKeepTheirIds` compares two files of drafts.  `Choosing` makes the id of a draft a function of its
event and of the drafts before it.  If some draft of both files had two ids, take the first such:
the events up to it are the same in both (`SamePlaces`, from the order of files and lines and the ledgers
that only grow), hence the candidates, hence the drafts before it; these have the same ids in both, so the
same ids are free, and so is the first of them (`SameIds`).  The "first such" is the well-foundedness of the naturals
again: it stands in for an induction over the lists, which no theorem of the library gives.

`ImportsRunOutOfSteps` rests on `FewRounds`.  `Trying`, a part of `Choosing`, has all ids the while loop has
tried among those seen; they differ in their lengths (`TriesDiffer`), and there are no more ids than
drafts and no more drafts than events taken, so the counter never passes `next`.

`ReliabilityProofs` proves for every finite set of case ids, any number of attempts with any
results, any number of commands, and replacements at any step:

* `TypeCorrect`, which includes that an output is always the aggregate of some attempts.
* `ScoresAlwaysOrdered`, `UnstableAlwaysExplained`, `OmissionTheorem`: properties of `Aggregate` for
  every sequence of attempts (`AggregateOrdered`, `AggregateExplained`, `OmitNoBetter`), by
  comparing the sets of cases and of slots that are counted: of finite sets, a subset has no
  larger cardinality, and one of the same cardinality is the set itself.  An omission leaves the
  set of cases as it is (`OmitCases`) and can only shrink each set of successes (`OmitScores`).
* `OutcomesAlwaysJustified`, `OutputsAlwaysAgree`: from `IInv`, which adds
  `Control` (how far the loop is, and that the JSON report is written before the other is opened),
  `Vouched` (a report that was not replaced is the one validated, also between its two reads) and
  `Agreement` (the outputs agree at every step at which none is open, or a killed command
  was the last to write them).

`EvalRunnerProofs` proves all four invariants of `EvalRunner`, for any eval files, trace files, number of
runs and replacements: `TypeCorrect`, `VerdictsAlwaysBacked`, `FailuresHaveReasons`,
`ReportsOfLastWholeRun`.  `IInv` adds

* `Control`: where the run is, and that `json` holds its results when Markdown is due;
* `Searching`: while no trace is replaced, the file about to be opened is one the case names, and the
  files a scan has passed over do not have the id it looks for.  So a search that ends without
  a trace, or at a broken file, has met a case that cannot be evaluated;
* `Backed`: each verdict so far is the one its case deserves on a trace it names;
* `Reporting`: the reports are those of the last run that wrote them, at every step but the one
  between the two reports.

`FalseSuccessProofs` proves all five invariants of `FalseSuccess`, for traces of any length, any
tools and files, and replacements at any step:

* `TypeCorrect`, which includes that an output is always the report on some traces;
* `LastCallsDecide`: a trace has a last call of every name that occurs in it (by well-foundedness);
  an error without a later success has its name's last call fail, and the last call of a name
  has no later one.  This is a fact about every trace, so it holds of every report;
* `SummaryAlwaysAddsUp`: the three classes partition the errors, and flagged traces lie between
  the sets counted beside them, again by cardinalities of finite sets;
* `OutputsAlwaysAgree`: `Agreement`, as for reliability;
* `ExitAlwaysVouches`: `IInv` adds `Control`, `Enqueued` (an argument that was resolved stood for a
  file, and its files are in the queue or were replaced) and `Read` (a file that was audited and not
  replaced since holds the trace audited).

`AuditLogProofs` proves for any number of writers, texts and summaries:

* `TypeCorrect`, which includes that a summary is that of a prefix of the present log;
* `LossAlwaysBounded`: in a log that decodes, an entry that is not readable is itself torn or follows a
  torn text, and each torn text is followed by at most one;
* `WindowAlwaysSpans`: a finite set of numbers has a least and a greatest member;
* `SummaryAlwaysAddsUp`: every tally counts the entries of each of finitely many kinds, and a sum over
  them is the number of entries.  The sum is a fold over a set, so this is shown for a smallest set
  of kinds for which it fails: taking one kind out of it gives a smaller one.  What a command wrote has a
  stage exactly if it failed, and a path (`Truthful`); lines written by hand need not, so the tallies of
  stages and paths may be off by as many as these are (`OffByAtMost`) and no more;
* `LaterSummariesCountMore`: what is readable in a prefix is readable in the whole, but for a last
  text without newline; so is what is counted for the same window.

`IInv` is these facts of the type, `Truthful`, and that a summary was made of a log that decodes.

`PortfolioProofs` proves the five invariants of `Portfolio` for any refs, records, artifacts and
layouts, with the producer and all commands at work at the same time: `TypeCorrect`,
`LedgerAlwaysCovers`, `StrictOkAlwaysCoexisted`, `PortableFreshAlwaysPass`, `PageAlwaysComplete`; and
`ColumnsAlwaysEmpty`, that no page has anything in its Pass or Fail column, which makes the
counterexample of `DashboardGates` the rule.  `IInv` has one part per component:

* `StoreOK`: a record covers lines of the ledger;
* `PacketsOK`: the hashed ledger of a packet is the beginning of the present one and covers its hashed
  record, and a packet as recent as the producer's last write has the hashes of what is there (`Good`);
* `GenOK`, `MakerOK`: the same of what a running command has read so far; `BundlesOK` of bundles;
* `StrictOK`: the packet in hand is `Good`, what did not match is no portable packet of the present, and
  `Then`: the ledger when the record was hashed had at least the hashed lines.  A ledger that still
  has the hash when it is opened later has only these, so it had them at that moment: this is why
  the "re-hash matches" of a command that takes no snapshot tells of one.

`PageAlwaysComplete` adds two parts.  `CountOK`: every packet has finitely many gate results, of known
statuses, and a date no later than the last line of the ledger, because the generator made it from lines of
the ledger.  `BoardOK`: while no evidence command runs, there is a one-to-one map `h` from the packets read to the
pairs of a path and a packet that are due on the page and not `Left` to read (`Touring`).  A path that is visited
moves no pair in or out of `Left` (the paths to come are still distinct, which `DedupedPaths` shows of
the list by numbering its first occurrences), a packet that is read moves one, and at the end nothing is left.
So the page, which counts packets read, counts packets due: bijections keep cardinalities of packets and of gate
results, and a bounded set of dates has a greatest.  `Still` is the premise of `PageComplete`; with it no
packet changes between two reads.

`MovesForward` carries the facts about the past over every step of the producer.

The assumptions are the `ConstantsAssumption` of each module and those of the five portfolio modules:
types of the constants, and that stages and paths of the audit log, case ids, trace files and the
artifacts a record may refer to, and the stages and paths that hand-written lines name, are finite sets, as what a program has read always is.  TLC evaluates
them in the runs.

Every invariant and every action property of the passing runs is proved.  Only model-checked:

* liveness (`ImportsEnd`, and the liveness part of `KeepsPromise`), which is out of the prover's
  reach; `CommandsRunOutOfSteps` and `ImportsRunOutOfSteps` leave only fairness to it, and that a
  running command always has an enabled step;
* that the invariants are strong enough to exclude what they should: each property's mutant.

## What the code says and does

Four disagreements between the code and what its documents or comments say are runs that TLC
refutes: `ChainOtherRecord`, `ImportUndecodable`, `FreshPacket` and `DashboardGates`; `findings` in
`PROJECT.json` quotes the lines.  These were met while modelling, and are no runs, because the
models follow the code and the text leaves room:

* The documents do not agree on what the audit log records: successes (audit.py:3, R-TTE-021), both successful
  and failed use of the evidence commands (README.md:223-224), or whatever `--no-audit`, "on success" by cli.py:302,
  does not suppress.  The code appends for a successful `evidence from-cdcp-events` (cli.py:478 returns
  before, if it fails), and for every validation without `--no-audit`, which silences failures too
  (cli.py:647).  `LogTellsOfPacket` is what they have in common; `Exit` has the rest.
* "Corrupted line: skip, do not break aggregation" (audit.py:95) holds for text that is no JSON; a line
  that is no UTF-8 breaks it (audit.py:88, the guard of `Summarize`).
* A packet file that is no UTF-8, or no JSON object, ends `dashboard` (dashboard.py:68-77, `StopAtForeign`), where
  what does not parse is passed over.
* `validate-chain` on an empty directory ends in a FileNotFoundError that names no stage
  (validate_chain.py:340); the action `Discover` has it as `"uncaught"`.
* The second read of a packet by strict validation has no handler (cli.py:536): a file that is replaced
  by a broken one between the reads ends the whole command; `Load` has it as `"uncaught"`.
* `--since` with the letter Z drops entries of its second (audit.py:100, 112-113); `Before` has it.
* A case that no report has any result of is in no denominator (reliability.py:33-34, 42, 102), so leaving
  it out everywhere raises the rates; `OmissionNeverImproves` therefore asks for another attempt.
* `dashboard` leaves out a path given twice, but counts a packet given as a file and by its directory
  twice (dashboard.py:58-91); `Expected` says so.
* `bundle create` hashes the bytes of a Run record and a packet its canonical form, so the two hashes
  differ for a record that is not formatted canonically; `bundle compare` looks at no hash at all.
* The bundle example of README.md:243-245 names `repo://` refs without a commit, which
  `bundle create` refuses (`refs` in `RunBundle`).

## Not modelled

What the components modelled in part leave out, and the components without a module:

* Evidence chain: evidence from-cdcp-events and validate-chain (`trace_to_eval/validate_chain.py`, `trace_to_eval/run_evidence.py`): Every stage, file access and early return of the two commands, with producers and kills in between, ledgers and Run records that are not UTF-8, and an audit log that cannot be written.  Errors of the operating system on other files (a file that goes away between listing and opening, a full disk under OUT) are left out.  The packet sections that are only copied (policy decisions, approvals, tools, diffs, traces, costs) are summarised by the flag conforms; refs and artifact hashes are in PacketStore.
* Event-case import: from-cdcp-events (`trace_to_eval/cdcp_events.py`, `trace_to_eval/cli.py`): Discovery, reading, case making, naming, writing and validating the draft file, with producers and kills in between.  Of a case only id, origin and checks are kept; suite, tags, input and trace file are copied by the code and left out.
* Eval runner: run (`trace_to_eval/runner.py`, `trace_to_eval/io.py`, `trace_to_eval/models.py`, `trace_to_eval/report.py`): Loading of the eval file, the search for each case's trace, the seven checks, every exception, the gate's exit code, both reports, kills, and traces replaced at any time.  Texts are abstracted to the set a trace contains, so case folding and the substring search are not modelled; suites and the counters by suite are left out; items of the cases list that are no objects, which the loader drops, are not represented.
* Run bundles: bundle create, validate, compare (`trace_to_eval/run_bundle.py`, `trace_to_eval/cli.py`): create with every file access and early return, and compare.  validate is a schema validation of one file without state; the sandbox manifest is treated like the trace and left out.
* Ingest and show (`trace_to_eval/ingest.py`, `trace_to_eval/show.py`): Builds one eval case from one trace, or prints a report: one read and one write, no state that another step of the same command depends on.
* Document validation (`trace_to_eval/validation.py`): JSON Schema validation by an external library; modelled where documents are validated, as a flag of the document (valid, conforms, kind).
* Command line (`trace_to_eval/cli.py`, `trace_to_eval/__main__.py`): Dispatch and printing; what main does around each modelled command (exceptions it expects, exit code, audit entry) is part of the command's module.
* Repository checks (`scripts/validate_decisions.py`, `scripts/voice_lint.py`, `scripts/check_schema_cache_freshness.py`): Stand-alone lint scripts for the repository's own documents; no part of the program.
* Streamlit page (`streamlit_app.py`): Renders committed reports; pure display.

## Plan

Done: the evidence chain, its abstract specification and the proof of the refinement; import, eval runner,
reliability, false-success audit, audit log, and the portfolio of packets, strict validation, bundles
and dashboard, each with its runs and proofs.

Left, in this order:

1. `RegressionPipeline`, which composes import, review, run and reliability over shared files: a failed
   run leaves an earlier report in place, and reliability counts it as an attempt.
2. `Portfolio` with `EvidenceChain` as its writer of packets, by a refinement of the generator of
   `PacketStore`, so that the two models of one command are related by a theorem.
3. `ingest`, and `bundle validate`.

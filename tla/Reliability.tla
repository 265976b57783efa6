----------------------------- MODULE Reliability -----------------------------
(***************************************************************************)
(* trace-to-eval reliability REPORT ... --out OUT: run reports of repeated *)
(* attempts are combined into pass@1, pass@k, pass^k and stability, and    *)
(* written twice, as JSON and as Markdown.                                 *)
(*                                                                         *)
(* A report is opened twice, once to be validated and once to be read,     *)
(* while `run` commands and people may replace it.  An attempt is what the *)
(* second read returned: the case results by case id.                      *)
(*                                                                         *)
(* Abstractions: a case result is its id, its suite and whether it passed; *)
(* OUT is not one of the reports; a rate n/d is compared by                *)
(* multiplication.                                                         *)
(***************************************************************************)
EXTENDS Naturals, Sequences, FiniteSets

CONSTANTS
  Ids,          \* case ids
  Suites,       \* suites
  Paths,        \* paths of run reports
  Contents,     \* contents a report path may have
  Arguments,    \* lists of report paths a user may give
  Missing,      \* OUT before anything is written to it
  Truncated,    \* OUT while it is being written
  MaxCommands,  \* bound: commands
  MaxWrites     \* bound: times a report is replaced

Result == [id : Ids, suite : Suites, passed : BOOLEAN]

(***************************************************************************)
(* A path holds nothing, something that is not JSON, JSON without case     *)
(* results, case results in a document that breaks the report schema, or a *)
(* run report.                                                             *)
(***************************************************************************)
Content ==
  [kind : {"absent", "torn", "other", "loose", "report"}, cases : Seq(Result)]

Attempt == UNION {[S -> [suite : Suites, passed : BOOLEAN]] : S \in SUBSET Ids}

ASSUME ConstantsAssumption ==
  /\ IsFiniteSet(Ids)
  /\ Contents \subseteq Content
  /\ Arguments \subseteq Seq(Paths) \ {<< >>}
  /\ MaxCommands \in Nat /\ MaxWrites \in Nat

VARIABLES
  file,      \* the report paths
  writes,    \* how often they were replaced
  replaced,  \* those replaced since the running command started
  pc,        \* next step of the running command
  args,      \* its arguments
  loaded,    \* the attempts it has read
  json,      \* OUT
  markdown,  \* OUT with the suffix .md
  history    \* how the commands ended

vars == <<file, writes, replaced, pc, args, loaded, json, markdown, history>>

-----------------------------------------------------------------------------
(***************************************************************************)
(* The aggregate of a sequence of attempts.                                *)
(***************************************************************************)
CaseIds(L) == UNION {DOMAIN L[i] : i \in DOMAIN L}

Observed(L, c) == {i \in DOMAIN L : c \in DOMAIN L[i]}

Passed(L, c) == {i \in Observed(L, c) : L[i][c].passed}

SuitesOf(L, c) == {L[i][c].suite : i \in Observed(L, c)}

\* Neither an absent result nor a failed one is a pass.
Statuses(L, c) ==
  {s \in BOOLEAN : \E i \in DOMAIN L : s <=> i \in Passed(L, c)}

PassAt1(L, c) == 1 \in Passed(L, c)

PassAtK(L, c) == Cardinality(Passed(L, c)) > 0

\* Mutant: missing attempts do not count.
PassAllKOfObserved(L, c) == Cardinality(Passed(L, c)) = Cardinality(Observed(L, c))

PassAllK(L, c) ==
  /\ Cardinality(Observed(L, c)) = Len(L)
  /\ Cardinality(Passed(L, c)) = Len(L)

\* Mutants: missing attempts do not count; always failing is not stable.
StableIfObserved(L, c) == Cardinality(Statuses(L, c)) = 1
StableIfPassing(L, c) == PassAllK(L, c)

Stable(L, c) ==
  /\ Cardinality(Observed(L, c)) = Len(L)
  /\ Cardinality(Statuses(L, c)) = 1

\* No case at all, or one that changed suites.
Refused(L) ==
  \/ CaseIds(L) = {}
  \/ \E c \in CaseIds(L) : Cardinality(SuitesOf(L, c)) > 1

PassAt1Cases(L) == {c \in CaseIds(L) : PassAt1(L, c)}
PassAtKCases(L) == {c \in CaseIds(L) : PassAtK(L, c)}
PassAllKCases(L) == {c \in CaseIds(L) : PassAllK(L, c)}
StableCases(L) == {c \in CaseIds(L) : Stable(L, c)}

\* The slots that hold a result.
Filled(L) == {s \in CaseIds(L) \X DOMAIN L : s[1] \in DOMAIN L[s[2]]}

Aggregate(L) ==
  [attempts |-> L,
   cases |-> Cardinality(CaseIds(L)),
   slots |-> Cardinality(CaseIds(L)) * Len(L),
   missing |-> Cardinality(CaseIds(L)) * Len(L) - Cardinality(Filled(L)),
   pass_at_1 |-> Cardinality(PassAt1Cases(L)),
   pass_at_k |-> Cardinality(PassAtKCases(L)),
   pass_all_k |-> Cardinality(PassAllKCases(L)),
   stable |-> Cardinality(StableCases(L))]

-----------------------------------------------------------------------------
(***************************************************************************)
(* The command.                                                            *)
(***************************************************************************)
Outcomes == {"ok", "error", "uncaught", "killed"}

Finish(outcome) == pc' = "idle" /\ history' = Append(history, outcome)

Start(paths) ==
  /\ pc = "idle" /\ Len(history) < MaxCommands
  /\ pc' = "validate" /\ args' = paths
  /\ loaded' = << >> /\ replaced' = {}
  /\ UNCHANGED <<file, writes, json, markdown, history>>

Opened == file[args[Len(loaded) + 1]]

\* The first read of a report.  Errors of validation and of the file
\* system are the two kinds the command expects.
Validate ==
  /\ pc = "validate"
  /\ IF Opened.kind = "report"
     THEN pc' = "parse" /\ UNCHANGED history
     ELSE Finish("error")
  /\ UNCHANGED <<file, writes, replaced, args, loaded, json, markdown>>

HasDuplicates(cases) ==
  \E i, j \in DOMAIN cases : i # j /\ cases[i].id = cases[j].id

ById(cases) ==
  [c \in {cases[i].id : i \in DOMAIN cases} |->
     LET i == CHOOSE i \in DOMAIN cases : cases[i].id = c
     IN  [suite |-> cases[i].suite, passed |-> cases[i].passed]]

\* Mutants: the last report becomes attempt one; one report too many.
AcceptFirst ==
  /\ Opened.kind \in {"loose", "report"} /\ ~HasDuplicates(Opened.cases)
  /\ loaded' = <<ById(Opened.cases)>> \o loaded
  /\ pc' = IF Len(loaded') < Len(args) THEN "validate" ELSE "aggregate"
  /\ UNCHANGED history
AcceptOneMore ==
  /\ Opened.kind \in {"loose", "report"} /\ ~HasDuplicates(Opened.cases)
  /\ loaded' = Append(loaded, ById(Opened.cases))
  /\ pc' = IF Len(loaded') <= Len(args) THEN "validate" ELSE "aggregate"
  /\ UNCHANGED history

\* The second read is not validated: a document that has replaced the
\* validated one is taken if its case results can be read, and ends the
\* command in a KeyError if it has none.
Accept ==
  /\ Opened.kind \in {"loose", "report"} /\ ~HasDuplicates(Opened.cases)
  /\ loaded' = Append(loaded, ById(Opened.cases))
  /\ pc' = IF Len(loaded') < Len(args) THEN "validate" ELSE "aggregate"
  /\ UNCHANGED history

Reject ==
  /\ \/ Opened.kind \in {"absent", "torn"}
     \/ Opened.kind \in {"loose", "report"} /\ HasDuplicates(Opened.cases)
  /\ Finish("error")
  /\ UNCHANGED loaded

Parse ==
  /\ pc = "parse"
  /\ \/ Accept
     \/ Reject
     \/ Opened.kind = "other" /\ Finish("uncaught") /\ UNCHANGED loaded
  /\ UNCHANGED <<file, writes, replaced, args, json, markdown>>

\* Mutant: opens the output before the attempts are known to be acceptable.
CheckAttemptsLate ==
  /\ pc = "aggregate"
  /\ IF Refused(loaded) THEN Finish("error") /\ json' = Truncated
                        ELSE pc' = "open json" /\ UNCHANGED <<history, json>>
  /\ UNCHANGED <<file, writes, replaced, args, loaded, markdown>>

CheckAttempts ==
  /\ pc = "aggregate"
  /\ IF Refused(loaded) THEN Finish("error")
                        ELSE pc' = "open json" /\ UNCHANGED history
  /\ UNCHANGED <<file, writes, replaced, args, loaded, json, markdown>>

\* A file is truncated when it is opened for writing.
OpenJson ==
  /\ pc = "open json" /\ pc' = "write json"
  /\ json' = Truncated
  /\ UNCHANGED <<file, writes, replaced, args, loaded, markdown, history>>

WriteJson ==
  /\ pc = "write json" /\ pc' = "open markdown"
  /\ json' = Aggregate(loaded)
  /\ UNCHANGED <<file, writes, replaced, args, loaded, markdown, history>>

OpenMarkdown ==
  /\ pc = "open markdown" /\ pc' = "write markdown"
  /\ markdown' = Truncated
  /\ UNCHANGED <<file, writes, replaced, args, loaded, json, history>>

WriteMarkdown ==
  /\ pc = "write markdown" /\ Finish("ok")
  /\ markdown' = Aggregate(loaded)
  /\ UNCHANGED <<file, writes, replaced, args, loaded, json>>

Interrupt ==
  /\ pc # "idle" /\ Finish("killed")
  /\ UNCHANGED <<file, writes, replaced, args, loaded, json, markdown>>

\* A `run` command or a person replaces a report, at any time.
Replace(p, content) ==
  /\ writes < MaxWrites /\ writes' = writes + 1
  /\ file' = [file EXCEPT ![p] = content]
  /\ replaced' = replaced \cup {p}
  /\ UNCHANGED <<pc, args, loaded, json, markdown, history>>

Init ==
  /\ file \in [Paths -> Contents] /\ writes = 0 /\ replaced = {}
  /\ pc = "idle" /\ args = << >> /\ loaded = << >>
  /\ json = Missing /\ markdown = Missing /\ history = << >>

Step ==
  \/ Validate \/ Parse \/ CheckAttempts
  \/ OpenJson \/ WriteJson \/ OpenMarkdown \/ WriteMarkdown

Next ==
  \/ \E paths \in Arguments : Start(paths)
  \/ Step
  \/ Interrupt
  \/ \E p \in Paths, content \in Contents : Replace(p, content)

Spec == Init /\ [][Next]_vars
-----------------------------------------------------------------------------
(***************************************************************************)
(* Properties.                                                             *)
(***************************************************************************)
Whole(output) == output \notin {Missing, Truncated}

\* What the variables hold; an output is always the aggregate of attempts.
TypeOK ==
  /\ file \in [Paths -> Contents] /\ writes \in 0..MaxWrites
  /\ replaced \subseteq Paths
  /\ pc \in {"idle", "validate", "parse", "aggregate", "open json",
             "write json", "open markdown", "write markdown"}
  /\ args \in Seq(Paths) /\ loaded \in Seq(Attempt)
  /\ pc \in {"validate", "parse"} => Len(loaded) < Len(args)
  /\ Whole(json) => /\ json.attempts \in Seq(Attempt)
                    /\ json = Aggregate(json.attempts)
  /\ Whole(markdown) => /\ markdown.attempts \in Seq(Attempt)
                        /\ markdown = Aggregate(markdown.attempts)
  /\ history \in Seq(Outcomes)

\* pass^k <= pass@1 <= pass@k in a report that was written, and only a stable
\* case passes every attempt: what the three scores mean (README.md:140-142)
\* whatever results are missing from whichever report.
ScoresOrdered ==
  Whole(json) =>
    /\ json.pass_all_k <= json.pass_at_1
    /\ json.pass_at_1 <= json.pass_at_k
    /\ json.pass_at_k <= json.cases
    /\ json.pass_all_k <= json.stable

\* If no result is missing, the cases that are not stable are those that
\* pass in some attempt and not in every one: the five counters of the
\* summary, which are computed apart, tell one story.
UnstableCasesExplained ==
  Whole(json) /\ json.missing = 0 =>
    json.cases + json.pass_all_k = json.stable + json.pass_at_k

\* Attempts L without the result of case c in attempt i.
Omit(L, i, c) ==
  [L EXCEPT ![i] = [x \in DOMAIN L[i] \ {c} |-> L[i][x]]]

\* No score of M is a better rate than that of L.
NoBetter(M, L) ==
  LET m == Aggregate(M)
      l == Aggregate(L)
  IN  /\ m.pass_at_1 * l.cases <= l.pass_at_1 * m.cases
      /\ m.pass_at_k * l.cases <= l.pass_at_k * m.cases
      /\ m.pass_all_k * l.cases <= l.pass_all_k * m.cases
      /\ m.stable * l.cases <= l.stable * m.cases

\* A result that a later or an earlier attempt lacks never improves a score
\* as long as the case occurs in another attempt: the slot stays and counts
\* as failed (reliability.py:57-68).
OmissionNeverImproves ==
  Whole(json) =>
    \A i \in DOMAIN json.attempts : \A c \in DOMAIN json.attempts[i] :
      LET M == Omit(json.attempts, i, c)
      IN  c \in CaseIds(M) => NoBetter(M, json.attempts)

Ended(outcome) == pc = "idle" /\ history # << >> /\ history[Len(history)] = outcome

\* After an OK both files hold the aggregate of one attempt per argument,
\* and each attempt whose file was not replaced meanwhile is the whole of a
\* conforming report without duplicate ids that this file holds.
OkOfValidReports ==
  Ended("ok") =>
    /\ json = Aggregate(loaded) /\ markdown = json /\ Len(loaded) = Len(args)
    /\ \A i \in DOMAIN args :
         args[i] \notin replaced =>
           /\ file[args[i]].kind = "report" /\ ~HasDuplicates(file[args[i]].cases)
           /\ loaded[i] = ById(file[args[i]].cases)

\* The exceptions cli.py:572 does not expect need a file that changes between
\* its validation and its second read.
UncaughtOnlyIfReplaced == Ended("uncaught") => replaced # {}

\* How a command ends vouches for the reports it was given, although it reads
\* each of them twice (reliability.py:24, 41).
OutcomesJustified == OkOfValidReports /\ UncaughtOnlyIfReplaced

\* The two outputs hold the same aggregate unless the last command that got to
\* write them was killed: commands that fail write neither.  "One payload, two
\* artifacts" (decisions/DEC-TTE-003-report-json-plus-markdown.md:23).
OutputsAgree ==
  pc = "idle" =>
    \/ json = markdown
    \/ \E i \in DOMAIN history :
         /\ history[i] = "killed"
         /\ \A j \in DOMAIN history : j > i => history[j] # "ok"
=============================================================================

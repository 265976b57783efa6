------------------------------ MODULE AuditLog ------------------------------
(***************************************************************************)
(* The audit log of the CLI (ops/audit-log.jsonl): commands append entries *)
(* to it, several at a time, and trace-to-eval audit summary aggregates    *)
(* it.  An entry gets its timestamp before the log is opened, and its one  *)
(* write may be cut short by a full disk or the end of the machine.        *)
(*                                                                         *)
(* Abstractions: the log is the sequence of the texts appended to it.  A   *)
(* text is "whole" with its newline, "bare" if only the newline is         *)
(* missing, and else "cut"; by says whether a command or a person wrote    *)
(* it.  Time is counted in instants, PerSecond of them to a second, and a  *)
(* person writes a timestamp the way the commands do, or none.             *)
(***************************************************************************)
EXTENDS Naturals, Sequences, FiniteSets, Functions

CONSTANTS
  Writers,     \* commands that run at the same time
  Paths,       \* ledger paths
  Stages,      \* stages of validate-chain
  PerSecond,   \* instants in a second
  Starts,      \* values of --since a user may give
  TopN,        \* value of --top
  None,        \* a field that is absent or null
  Junk,        \* a line that is no JSON object
  Garbled,     \* a line that is not UTF-8
  Others,      \* other commands and results a person may write
  Edits,       \* the lines a person may add
  MaxTime,     \* bound: instants
  MaxTexts     \* bound: texts in the log

Names == {"validate-chain", "evidence.from-cdcp-events"}

Entry ==
  [timestamp : Nat \cup {None}, command : Names \cup Others \cup {None},
   result : {"ok", "fail", None} \cup Others, stage : Stages \cup {None},
   path : Paths \cup {None}]

Text ==
  [entry : Entry \cup {Junk, Garbled}, form : {"whole", "bare", "cut"},
   by : {"command", "hand"}]

\* --since is absent, or a second, written in one of two ways: as a date or
\* with an offset of +00:00, or with the letter Z.
Since == [form : {"none", "offset", "zulu"}, at : Nat]

ASSUME ConstantsAssumption ==
  /\ PerSecond \in Nat \ {0}
  /\ Starts \subseteq Since
  /\ IsFiniteSet(Stages) /\ IsFiniteSet(Paths) /\ IsFiniteSet(Others)
  /\ TopN \in Nat /\ MaxTime \in Nat /\ MaxTexts \in Nat
  /\ None \notin Nat /\ None \notin Names \cup Stages \cup Paths \cup {"ok", "fail"}
  /\ Junk \notin Entry /\ Garbled \notin Entry
  /\ Edits \subseteq Entry \cup {Junk, Garbled}

VARIABLES
  clock,    \* the time
  log,      \* the texts in the log
  pending,  \* the entry each command is about to append
  summary   \* the summary printed last, with the log it was made of

vars == <<clock, log, pending, summary>>

-----------------------------------------------------------------------------
(***************************************************************************)
(* The log as the summary reads it.                                        *)
(***************************************************************************)
Torn(texts) == {i \in DOMAIN texts : texts[i].form # "whole"}

\* Mutant: a torn line ends the aggregation.
ReadableIfWhole(texts) ==
  {i \in DOMAIN texts : Torn(texts) = {} /\ texts[i].entry # Junk}

\* The log is read as a whole before any line of it is parsed.
Decodable(texts) == \A i \in DOMAIN texts : texts[i].entry # Garbled

\* The texts of such a log that are a line of their own and an object.
Readable(texts) ==
  {i \in DOMAIN texts :
     /\ i = 1 \/ texts[i - 1].form = "whole"
     /\ texts[i].form = "whole" \/ (texts[i].form = "bare" /\ i = Len(texts))
     /\ texts[i].entry # Junk}

Second(t) == t \div PerSecond

\* Timestamps end in +00:00 and are compared as text: the letter Z sorts
\* after the fraction and the offset of every instant of its second.
Before(t, since) ==
  \/ since.form = "offset" /\ t < since.at * PerSecond
  \/ since.form = "zulu" /\ Second(t) <= since.at

\* An entry without a timestamp is never filtered out.
Counted(texts, since) ==
  {i \in Readable(texts) :
     LET t == texts[i].entry.timestamp IN t = None \/ ~Before(t, since)}

\* Mutant: what is missing is left out.
OrNothing(value, default) == value

Or(value, default) == IF value = None THEN default ELSE value

\* How many entries have each of the values in a field.
Tally(field, values) ==
  [v \in values |-> Cardinality({i \in DOMAIN field : field[i] = v})]

Stamped(texts, N) == {i \in N : texts[i].entry.timestamp # None}

\* Mutant: the log is taken to be in the order of its timestamps.
FirstOfLog(texts, N) ==
  {texts[i].entry.timestamp : i \in {j \in N : \A k \in N : j <= k}}

\* The oldest and the newest timestamp, as a set of at most one.
Oldest(texts, N) ==
  {texts[i].entry.timestamp : i \in
     {j \in N : \A k \in N : texts[j].entry.timestamp <= texts[k].entry.timestamp}}
Newest(texts, N) ==
  {texts[i].entry.timestamp : i \in
     {j \in N : \A k \in N : texts[k].entry.timestamp <= texts[j].entry.timestamp}}

\* The paths that fewer than TopN others beat, by count and then by the
\* order in which they turned up.
Top(texts, N) ==
  LET of(p) == {i \in N : texts[i].entry.path = p}
      seen == {p \in Paths : of(p) # {}}
      beats(p, q) ==
        \/ Cardinality(of(p)) > Cardinality(of(q))
        \/ /\ Cardinality(of(p)) = Cardinality(of(q))
           /\ \E i \in of(p) : \A j \in of(q) : i < j
  IN  {q \in seen : Cardinality({p \in seen : beats(p, q)}) < TopN}

Summarized(texts, since) ==
  LET N == Counted(texts, since)
  IN  [log |-> texts, since |-> since, counted |-> N, total |-> Cardinality(N),
       by_command |-> Tally([i \in N |-> Or(texts[i].entry.command, "unknown")],
                                Names \cup Others \cup {"unknown"}),
       by_result |-> Tally([i \in N |-> Or(texts[i].entry.result, "unknown")],
                               {"ok", "fail", "unknown"} \cup Others),
       by_failing_stage |-> Tally([i \in N |-> texts[i].entry.stage], Stages),
       by_path |-> Tally([i \in N |-> texts[i].entry.path], Paths),
       top |-> Top(texts, N),
       first_seen |-> Oldest(texts, Stamped(texts, N)),
       last_seen |-> Newest(texts, Stamped(texts, N))]

-----------------------------------------------------------------------------
(***************************************************************************)
(* Writers and readers.                                                    *)
(***************************************************************************)
\* What the commands log: the stage that failed exactly if one did.
Outcomes ==
  {<<"evidence.from-cdcp-events", "ok", None>>, <<"validate-chain", "ok", None>>}
  \cup {<<"validate-chain", "fail", stage>> : stage \in Stages}

\* A command makes its entry.
Begin(w, outcome, path) ==
  /\ pending[w] = None
  /\ pending' = [pending EXCEPT ![w] =
       [timestamp |-> clock, command |-> outcome[1], result |-> outcome[2],
        stage |-> outcome[3], path |-> path]]
  /\ UNCHANGED <<clock, log, summary>>

\* Mutant: the log is opened for writing.
Rewrite(w) ==
  /\ pending[w] # None /\ Len(log) < MaxTexts
  /\ log' = <<[entry |-> pending[w], form |-> "whole", by |-> "command"]>>
  /\ pending' = [pending EXCEPT ![w] = None]
  /\ UNCHANGED <<clock, summary>>

\* The log is opened for appending and the entry written with its newline.
Write(w) ==
  /\ pending[w] # None /\ Len(log) < MaxTexts
  /\ log' = Append(log, [entry |-> pending[w], form |-> "whole", by |-> "command"])
  /\ pending' = [pending EXCEPT ![w] = None]
  /\ UNCHANGED <<clock, summary>>

\* The write fails or is cut short.
Lose(w) ==
  /\ pending[w] # None
  /\ pending' = [pending EXCEPT ![w] = None]
  /\ \/ UNCHANGED log
     \/ /\ Len(log) < MaxTexts
        /\ \E form \in {"bare", "cut"} :
             log' = Append(log, [entry |-> pending[w], form |-> form, by |-> "command"])
  /\ UNCHANGED <<clock, summary>>

\* A person adds a line of their own: any object, junk, or other bytes.
Edit(line) ==
  /\ Len(log) < MaxTexts
  /\ log' = Append(log, [entry |-> line, form |-> "whole", by |-> "hand"])
  /\ UNCHANGED <<clock, pending, summary>>

\* A log that is not UTF-8 ends the command before it prints anything.
Summarize(since) ==
  /\ Decodable(log)
  /\ summary' = Summarized(log, since)
  /\ UNCHANGED <<clock, log, pending>>

Tick ==
  /\ clock < MaxTime /\ clock' = clock + 1
  /\ UNCHANGED <<log, pending, summary>>

Init ==
  /\ clock = 0 /\ log = << >> /\ pending = [w \in Writers |-> None]
  /\ summary = Summarized(<< >>, [form |-> "none", at |-> 0])

Next ==
  \/ \E w \in Writers :
       \/ \E outcome \in Outcomes, path \in Paths : Begin(w, outcome, path)
       \/ Write(w)
       \/ Lose(w)
  \/ \E line \in Edits : Edit(line)
  \/ \E since \in Starts : Summarize(since)
  \/ Tick

Spec == Init /\ [][Next]_vars
-----------------------------------------------------------------------------
(***************************************************************************)
(* Properties.                                                             *)
(***************************************************************************)
\* What the variables hold; the summary is that of an earlier state of the
\* log, which only ever grows at its end.
TypeOK ==
  /\ clock \in 0..MaxTime
  /\ log \in Seq(Text)
  /\ pending \in [Writers -> Entry \cup {None}]
  /\ summary.since \in Since
  /\ \E n \in 0..Len(log) : summary = Summarized(SubSeq(log, 1, n), summary.since)

\* A torn write costs the summary its own entry and at most one other, the
\* one that was appended to its line (audit.py:66-67, 88-96); a line that is
\* no object costs nothing but itself, unless it keeps the log from being read.
LossBounded ==
  LET entries == {i \in DOMAIN log : log[i].entry # Junk}
  IN  Decodable(log) => Cardinality(entries \ Readable(log)) <= 2 * Cardinality(Torn(log))

\* Of two summaries of the same window the later one counts every entry the
\* earlier one counted, except for a last entry whose newline was lost.
SummariesOnlyGrow ==
  [][summary'.since = summary.since =>
       \A i \in summary.counted \ summary'.counted :
         i = Len(summary.log) /\ summary.log[i].form = "bare"]_vars

Total(tally) == FoldFunction(+, 0, tally)

\* The breakdowns by command and by result add up to the total, whatever
\* a person wrote.  A failure of a command names its stage and every entry of
\* a command its ledger, so the failing stages are off from the failures, and
\* the paths from the total, by the lines a person added at most, however
\* many entries were torn or lost (audit.py:124-135).
SummaryAddsUp ==
  LET byHand == Cardinality({i \in summary.counted : summary.log[i].by = "hand"})
      failed == summary.by_result["fail"]
      staged == Total(summary.by_failing_stage)
      located == Total(summary.by_path)
  IN  /\ Total(summary.by_command) = summary.total
      /\ Total(summary.by_result) = summary.total
      /\ staged <= failed + byHand /\ failed <= staged + byHand
      /\ located <= summary.total /\ summary.total <= located + byHand

\* The window of the summary spans all entries it counts, and its ends are
\* two of them, although commands append out of the order of their
\* timestamps (audit.py:52, 65, 139).
WindowSpans ==
  \A i \in summary.counted :
    LET t == summary.log[i].entry.timestamp
    IN  t # None =>
          /\ \E first \in summary.first_seen, last \in summary.last_seen :
               first <= t /\ t <= last
          /\ Cardinality(summary.first_seen) = 1 /\ Cardinality(summary.last_seen) = 1

=============================================================================

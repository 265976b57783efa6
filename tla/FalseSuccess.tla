---------------------------- MODULE FalseSuccess ----------------------------
(***************************************************************************)
(* trace-to-eval false-success PATH ... --out OUT: the tool errors of      *)
(* every trace are compared with the success the trace claims, and the     *)
(* comparison is written twice, as JSON and as Markdown.                   *)
(*                                                                         *)
(* The arguments are resolved to files first; then the files are opened    *)
(* one after the other, each once, while their producers may replace,      *)
(* remove or damage them.                                                  *)
(*                                                                         *)
(* Abstractions: a success claim is the set of the kinds of rule that      *)
(* fired, a list of effects is empty or not; OUT is not an audited file.   *)
(***************************************************************************)
EXTENDS Naturals, Sequences, FiniteSets

CONSTANTS
  Files,        \* trace files, numbered in the order of their names
  Tools,        \* names of tools
  Contents,     \* contents the file paths may have at first
  Replacements, \* contents that may replace them
  Arguments,    \* lists of files and directories a user may give
  WriteTools,   \* sets of names that count as write tools
  Missing,      \* OUT before anything is written to it
  Truncated,    \* OUT while it is being written
  MaxCommands,  \* bound: commands
  MaxWrites     \* bound: times a file is replaced

\* What may mark a call as an error.
Marks == {"status", "is_error", "error"}

Call == [tool : Tools, named : BOOLEAN, marks : SUBSET Marks]

Trace ==
  [claims : SUBSET {"terminal_state", "output_phrase"},
   effects : {"absent", "no list", "empty", "listed"},
   calls : Seq(Call)]

\* A path holds nothing, something that is no trace, or a trace.
Content == [kind : {"absent", "broken", "trace"}, trace : Trace]

\* An argument is a file, or a directory with the files that may be in it.
Argument == [dir : BOOLEAN, files : SUBSET Files \ {{}}]

ASSUME ConstantsAssumption ==
  /\ Files \subseteq Nat /\ IsFiniteSet(Files)
  /\ Contents \subseteq Content /\ Replacements \subseteq Content
  /\ Arguments \subseteq Seq(Argument) \ {<< >>}
  /\ \A paths \in Arguments : \A i \in DOMAIN paths :
       paths[i].dir \/ \E f \in Files : paths[i].files = {f}
  /\ MaxCommands \in Nat /\ MaxWrites \in Nat

VARIABLES
  file,      \* the trace files
  writes,    \* how often they were replaced
  replaced,  \* those replaced since the running command started
  pc,        \* next step of the running command
  args,      \* its arguments
  tools,     \* its write tools
  strict,    \* whether --fail-on-flag was given
  resolved,  \* how many arguments it has resolved
  queue,     \* the files they stand for
  audited,   \* the traces it has read
  json,      \* OUT
  markdown,  \* OUT with the suffix .md
  history    \* how the commands ended

command == <<args, tools, strict>>
vars == <<file, writes, replaced, pc, args, tools, strict, resolved, queue,
          audited, json, markdown, history>>

-----------------------------------------------------------------------------
(***************************************************************************)
(* The audit of one trace.                                                 *)
(***************************************************************************)
IsError(call) == call.marks # {}

\* A call that names no tool goes by its own JSON, marks included.
NameOf(call) == IF call.named THEN call.tool ELSE <<call.tool, call.marks>>

Errors(t) == {i \in DOMAIN t.calls : IsError(t.calls[i])}

\* Mutant: a call before the error repairs it as well.
RepairsEither(t, i) ==
  {j \in DOMAIN t.calls \ {i} : /\ NameOf(t.calls[j]) = NameOf(t.calls[i])
                                /\ ~IsError(t.calls[j])}

Repairs(t, i) ==
  {j \in DOMAIN t.calls : /\ j > i
                          /\ NameOf(t.calls[j]) = NameOf(t.calls[i])
                          /\ ~IsError(t.calls[j])}

Claimed(t) == t.claims # {}

Class(t, i) ==
  IF Repairs(t, i) # {} THEN "repaired"
  ELSE IF Claimed(t) THEN "proceeded_as_success"
  ELSE "ignored"

Writes(t, names) == {i \in DOMAIN t.calls : NameOf(t.calls[i]) \in names}

Proceeded(t) == \E i \in Errors(t) : Class(t, i) = "proceeded_as_success"

WithoutEffect(t, names) ==
  Claimed(t) /\ Writes(t, names) # {} /\ t.effects = "empty"

\* Mutant: any error of a trace that claims success flags it.
FlaggedOnError(t, names) ==
  (Claimed(t) /\ Errors(t) # {}) \/ WithoutEffect(t, names)

Flagged(t, names) == Proceeded(t) \/ WithoutEffect(t, names)

-----------------------------------------------------------------------------
(***************************************************************************)
(* The report on a list of traces.                                         *)
(***************************************************************************)
CallsOf(L) == UNION {{i} \X DOMAIN L[i].calls : i \in DOMAIN L}

ErrorsOf(L) == UNION {{i} \X Errors(L[i]) : i \in DOMAIN L}

ErrorsIn(L, class) == {e \in ErrorsOf(L) : Class(L[e[1]], e[2]) = class}

ProceededIn(L) == {i \in DOMAIN L : Proceeded(L[i])}
WithoutEffectIn(L, names) == {i \in DOMAIN L : WithoutEffect(L[i], names)}
FlaggedIn(L, names) == {i \in DOMAIN L : Flagged(L[i], names)}

Report(L, names) ==
  [traces |-> L, write_tools |-> names,
   tool_calls |-> Cardinality(CallsOf(L)),
   tool_errors |-> Cardinality(ErrorsOf(L)),
   repaired |-> Cardinality(ErrorsIn(L, "repaired")),
   ignored |-> Cardinality(ErrorsIn(L, "ignored")),
   proceeded_as_success |-> Cardinality(ErrorsIn(L, "proceeded_as_success")),
   success_without_effect |-> Cardinality(WithoutEffectIn(L, names)),
   flagged_traces |-> Cardinality(FlaggedIn(L, names)),
   proceeded |-> ProceededIn(L),
   flagged |-> FlaggedIn(L, names)]

-----------------------------------------------------------------------------
(***************************************************************************)
(* The command.                                                            *)
(***************************************************************************)
Outcomes == {"clean", "flagged", "error", "killed"}

Finish(outcome) == pc' = "idle" /\ history' = Append(history, outcome)

\* An explicit list of write tools has to name one.
Start(paths, names, fail) ==
  /\ pc = "idle" /\ Len(history) < MaxCommands
  /\ args' = paths /\ tools' = names /\ strict' = fail
  /\ IF names = {} THEN Finish("error") ELSE pc' = "resolve" /\ UNCHANGED history
  /\ resolved' = 0 /\ queue' = << >> /\ audited' = << >> /\ replaced' = {}
  /\ UNCHANGED <<file, writes, json, markdown>>

Present(files) == {f \in files : file[f].kind # "absent"}

\* The members of a set of files in the order of their names.
Sorted(files) ==
  {s \in [1..Cardinality(files) -> files] :
     \A i, j \in DOMAIN s : i < j => s[i] < s[j]}

\* The next argument: a file that is there, or a directory that is not empty.
Resolve ==
  /\ pc = "resolve"
  /\ LET present == Present(args[resolved + 1].files)
     IN  IF present = {}
         THEN Finish("error") /\ UNCHANGED <<resolved, queue>>
         ELSE /\ \E found \in Sorted(present) : queue' = queue \o found
              /\ resolved' = resolved + 1
              /\ pc' = IF resolved + 1 < Len(args) THEN "resolve" ELSE "load"
              /\ UNCHANGED history
  /\ UNCHANGED <<file, writes, replaced, command, audited, json, markdown>>

Opened == file[queue[Len(audited) + 1]]

\* Mutants: one trace too many; what is no trace is passed over; the JSON report is
\* kept up to date while traces are read.
LoadOneMore ==
  /\ pc = "load"
  /\ IF Opened.kind = "trace"
     THEN /\ audited' = Append(audited, Opened.trace)
          /\ pc' = IF Len(audited) < Len(queue) THEN "load" ELSE "open json"
          /\ UNCHANGED history
     ELSE Finish("error") /\ UNCHANGED audited
  /\ UNCHANGED <<file, writes, replaced, command, resolved, queue, json, markdown>>
LoadOrSkip ==
  /\ pc = "load"
  /\ IF Opened.kind = "trace"
     THEN /\ audited' = Append(audited, Opened.trace)
          /\ pc' = IF Len(audited') < Len(queue) THEN "load" ELSE "open json"
     ELSE pc' = "open json" /\ UNCHANGED audited
  /\ UNCHANGED <<file, writes, replaced, command, resolved, queue, json, markdown, history>>

LoadStreaming ==
  /\ pc = "load"
  /\ IF Opened.kind = "trace"
     THEN /\ audited' = Append(audited, Opened.trace)
          /\ json' = Report(audited', tools)
          /\ pc' = IF Len(audited') < Len(queue) THEN "load" ELSE "open json"
          /\ UNCHANGED history
     ELSE Finish("error") /\ UNCHANGED <<audited, json>>
  /\ UNCHANGED <<file, writes, replaced, command, resolved, queue, markdown>>

\* The next file is read, once; anything that is no trace ends the command
\* before an output is touched.
Load ==
  /\ pc = "load"
  /\ IF Opened.kind = "trace"
     THEN /\ audited' = Append(audited, Opened.trace)
          /\ pc' = IF Len(audited') < Len(queue) THEN "load" ELSE "open json"
          /\ UNCHANGED history
     ELSE Finish("error") /\ UNCHANGED audited
  /\ UNCHANGED <<file, writes, replaced, command, resolved, queue, json, markdown>>

\* A file is truncated when it is opened for writing.
OpenJson ==
  /\ pc = "open json" /\ pc' = "write json"
  /\ json' = Truncated
  /\ UNCHANGED <<file, writes, replaced, command, resolved, queue, audited, markdown, history>>

WriteJson ==
  /\ pc = "write json" /\ pc' = "open markdown"
  /\ json' = Report(audited, tools)
  /\ UNCHANGED <<file, writes, replaced, command, resolved, queue, audited, markdown, history>>

OpenMarkdown ==
  /\ pc = "open markdown" /\ pc' = "write markdown"
  /\ markdown' = Truncated
  /\ UNCHANGED <<file, writes, replaced, command, resolved, queue, audited, json, history>>

\* The last write, and the exit code.
WriteMarkdown ==
  /\ pc = "write markdown"
  /\ markdown' = Report(audited, tools)
  /\ Finish(IF strict /\ FlaggedIn(audited, tools) # {} THEN "flagged" ELSE "clean")
  /\ UNCHANGED <<file, writes, replaced, command, resolved, queue, audited, json>>

Interrupt ==
  /\ pc # "idle" /\ Finish("killed")
  /\ UNCHANGED <<file, writes, replaced, command, resolved, queue, audited, json, markdown>>

\* The producer of a trace replaces, removes or damages it, at any time.
Replace(f, content) ==
  /\ writes < MaxWrites /\ writes' = writes + 1
  /\ file' = [file EXCEPT ![f] = content]
  /\ replaced' = replaced \cup {f}
  /\ UNCHANGED <<pc, command, resolved, queue, audited, json, markdown, history>>

Init ==
  /\ file \in [Files -> Contents] /\ writes = 0 /\ replaced = {}
  /\ pc = "idle" /\ args = << >> /\ tools = {} /\ strict = FALSE
  /\ resolved = 0 /\ queue = << >> /\ audited = << >>
  /\ json = Missing /\ markdown = Missing /\ history = << >>

Step ==
  \/ Resolve \/ Load
  \/ OpenJson \/ WriteJson \/ OpenMarkdown \/ WriteMarkdown

Next ==
  \/ \E paths \in Arguments, names \in WriteTools, fail \in BOOLEAN :
       Start(paths, names, fail)
  \/ Step
  \/ Interrupt
  \/ \E f \in Files, content \in Replacements : Replace(f, content)

Spec == Init /\ [][Next]_vars
-----------------------------------------------------------------------------
(***************************************************************************)
(* Properties.                                                             *)
(***************************************************************************)
Whole(output) == output \notin {Missing, Truncated}

\* What the variables hold; an output is always the report on some traces.
TypeOK ==
  /\ file \in [Files -> Content] /\ writes \in 0..MaxWrites
  /\ replaced \subseteq Files
  /\ pc \in {"idle", "resolve", "load", "open json", "write json",
             "open markdown", "write markdown"}
  /\ args \in Seq(Argument) /\ strict \in BOOLEAN
  /\ resolved \in Nat /\ queue \in Seq(Files) /\ audited \in Seq(Trace)
  /\ pc = "resolve" => resolved < Len(args) /\ audited = << >>
  /\ pc = "load" => Len(audited) < Len(queue)
  /\ Len(audited) <= Len(queue)
  /\ Whole(json) => /\ json.traces \in Seq(Trace)
                    /\ json = Report(json.traces, json.write_tools)
  /\ Whole(markdown) => /\ markdown.traces \in Seq(Trace)
                        /\ markdown = Report(markdown.traces, markdown.write_tools)
  /\ history \in Seq(Outcomes)

\* Call i is the last of its name.
IsLast(t, i) ==
  \A j \in DOMAIN t.calls : NameOf(t.calls[j]) = NameOf(t.calls[i]) => j <= i

\* A trace of a written report is flagged proceeded_as_success exactly if it
\* claims success although the last call to some tool failed: "repaired" by
\* any later call (false_success.py:137-144) comes to that, however errors
\* and successes of several tools interleave.
FlaggedIfLastCallFails ==
  Whole(json) =>
    json.proceeded =
      {n \in DOMAIN json.traces :
         /\ Claimed(json.traces[n])
         /\ \E i \in Errors(json.traces[n]) : IsLast(json.traces[n], i)}

\* The counters of the summary (false_success.py:220-229), which are computed
\* apart, tell one story: the classes partition the errors, and the flagged
\* traces lie between each of their two reasons and the sum of them.
SummaryAddsUp ==
  Whole(json) =>
    /\ json.tool_errors = json.repaired + json.ignored + json.proceeded_as_success
    /\ json.tool_errors <= json.tool_calls
    /\ json.success_without_effect <= json.flagged_traces
    /\ Cardinality(json.proceeded) <= json.flagged_traces
    /\ json.flagged_traces <= json.proceeded_as_success + json.success_without_effect
    /\ json.flagged_traces <= Len(json.traces)

Last == history[Len(history)]
Ended(outcomes) == pc = "idle" /\ history # << >> /\ Last \in outcomes

\* Exit code 1 says that the report just written flags a trace and that the
\* user asked for it, exit code 0 that one of the two is not so
\* (cli.py:602-604); both outputs hold that report.
ExitTellsFlags ==
  Ended({"clean", "flagged"}) =>
    /\ json = Report(audited, tools) /\ markdown = json
    /\ Last = "flagged" <=> strict /\ json.flagged_traces > 0

\* No evidence is left out: after a report was written, every file that an
\* argument stands for and that was not replaced meanwhile is a trace that
\* the report holds, and an argument that stood for no file is an error.
NothingLeftOut ==
  Ended({"clean", "flagged"}) =>
    \A a \in DOMAIN args :
      /\ Present(args[a].files) \cup replaced # {}
      /\ \A f \in Present(args[a].files) \ replaced :
           /\ file[f].kind = "trace"
           /\ \E i \in DOMAIN json.traces :
                queue[i] = f /\ json.traces[i] = file[f].trace

\* What a pipeline relies on when the command ends with exit code 0 or 1: the
\* outputs are of all the evidence, and the exit code tells what they say.
ExitVouches == ExitTellsFlags /\ NothingLeftOut

\* The JSON and the Markdown report at OUT are the report on the same traces, after
\* any row of commands: one that fails leaves both as they were, and only a kill
\* between the two writes (false_success.py:279-282) sets them apart, until the
\* next command that writes both.
OutputsAgree ==
  pc = "idle" =>
    \/ json = markdown
    \/ \E i \in DOMAIN history :
         /\ history[i] = "killed"
         /\ \A j \in DOMAIN history : j > i => history[j] = "error"
=============================================================================

----------------------------- MODULE EventImport -----------------------------
(***************************************************************************)
(* trace-to-eval from-cdcp-events LEDGER --out DIR: the failures that a    *)
(* producer's event ledger reports become draft eval cases, for a human to *)
(* review, in DIR/cdcp_event_cases.yaml.                                   *)
(*                                                                         *)
(* A case needs an id of its own.  Ids come from the events, so they may   *)
(* clash with each other and also with the ids the program makes up to     *)
(* keep clashing ones apart; line numbers tell two events of one file      *)
(* apart, not two events of two files.                                     *)
(*                                                                         *)
(* Abstractions: an id is the sequence of words that are joined by "_",    *)
(* with numbers in unary, so that any words can spell a number; an         *)
(* event is named by its file and line; a case holds what its id and its   *)
(* acceptance by the schema depend on.  The loop that drops malformed      *)
(* lines and the loop that makes cases of the others are one loop here.    *)
(***************************************************************************)
EXTENDS Naturals, Sequences

CONSTANTS
  NFiles,      \* ledger files the directory may come to hold
  Words,       \* the words ids are made of
  Lines,       \* lines a producer may append
  Targets,     \* paths a user imports: a file, or Dir
  None,        \* an absent value
  Torn,        \* cdcp_event_cases.yaml when a kill interrupted its writing
  MaxLines,    \* bound: lines per ledger file
  MaxImports   \* bound: imports

Files == 1..NFiles
Dir == 0

(***************************************************************************)
(* A line parses to an event, is malformed (not a JSON object), or is not  *)
(* even UTF-8.  An event's type is abstracted to what it is about and to   *)
(* how it ends; a check to its type and to the values it carries.          *)
(***************************************************************************)
CheckType ==
  [type : {"text", "tools", "refusal", "state"}, value : BOOLEAN,
   values : {"missing", "empty", "some"}]

Abouts == {"gate", "review", "incident", "other"}
Endings == {"failed", "closed", "open"}

LineType ==
  [kind : {"event", "malformed", "undecodable"}, about : Abouts, ending : Endings,
   trace_id : Words \cup {None}, candidate_id : Seq(Words) \cup {None},
   checks : SUBSET CheckType, expected_behavior : SUBSET CheckType]

ASSUME ConstantsAssumption ==
  /\ NFiles \in Nat \ {0} /\ MaxLines \in Nat /\ MaxImports \in Nat
  /\ Targets \subseteq Files \cup {Dir}
  /\ Lines \subseteq LineType
  /\ Abouts \cup Endings \cup {"draft", "line", "_", "1"} \subseteq Words
  /\ None \notin Words /\ None \notin Seq(Words) /\ None # Torn

VARIABLES
  ledger,   \* the ledger files
  pc,       \* next step of the running import
  target,   \* its path argument
  todo,     \* parse_event_logs: files still to open
  read,     \* the lines it has read, per file
  events,   \* positions <<file, line>> of the lines read, in their order
  next,     \* index of the line the loops are at
  cases,    \* its drafts
  seen,     \* seen_ids
  trial,    \* case_id and counter of the while loop
  ignored,  \* number of events that make no case
  verdict,  \* how the import ended
  out,      \* cdcp_event_cases.yaml
  imports   \* imports issued: bound

loop == <<events, next, cases, seen, trial, ignored>>
vars == <<ledger, pc, target, todo, read, loop, verdict, out, imports>>

-----------------------------------------------------------------------------
(* What becomes of one event.                                              *)

\* is_candidate_event
IsCandidate(e) ==
  \/ e.about = "gate" /\ e.ending = "failed"
  \/ e.about = "review"
  \/ e.about = "incident" /\ e.ending # "closed"

MakesCase(e) == e.kind = "event" /\ IsCandidate(e) /\ e.trace_id # None

BaseId(e) ==
  IF e.candidate_id # None THEN e.candidate_id ELSE <<e.trace_id, e.about, e.ending, "draft">>

\* Mutant: a text check without a text is kept.
NormalizesAnyText(check) == check.type # "state"

\* _normalize_check refuses types it does not list and text checks without a text.
Normalizes(check) ==
  /\ check.type # "state"
  /\ check.type = "text" => check.value \/ check.values = "some"

Placeholder == [type |-> "text", value |-> TRUE, values |-> "missing"]

Explicit(e) == {c \in e.checks : Normalizes(c)}
Expected(e) == {c \in e.expected_behavior : Normalizes(c)}

Checks(e) ==
  IF Explicit(e) # {} THEN Explicit(e)
  ELSE IF Expected(e) # {} THEN Expected(e) ELSE {Placeholder}

Numeral(n) == [i \in 1..n |-> "1"]
\* Mutant: the suffix is the number of lines read.
LineIdByCount(base, line) == base \o <<"line">> \o Numeral(Len(events))
LineId(base, line) == base \o <<"line">> \o Numeral(line)
CountedId(base, line, counter) == LineId(base, line) \o <<"_">> \o Numeral(counter)

Event(p) == read[p[1]][p[2]]
Current == Event(events[next])

-----------------------------------------------------------------------------
(* The files.                                                              *)

Exists(f) == ledger[f] # <<>>
Discovered(t) == IF t = Dir THEN {f \in Files : Exists(f)} ELSE {f \in {t} : Exists(f)}
First(S) == CHOOSE f \in S : \A g \in S : f <= g

\* Mutant: lines are counted from zero.
NumberedFromZero(f) == [i \in 1..Len(ledger[f]) |-> <<f, i - 1>>]
Numbered(f) == [i \in 1..Len(ledger[f]) |-> <<f, i>>]
Decodes(f) == \A i \in 1..Len(ledger[f]) : ledger[f][i].kind # "undecodable"

-----------------------------------------------------------------------------
Init ==
  /\ ledger = [f \in Files |-> <<>>]
  /\ pc = "idle" /\ target = Dir /\ todo = {} /\ read = [f \in Files |-> <<>>]
  /\ events = <<>> /\ next = 1 /\ cases = <<>> /\ seen = {} /\ ignored = 0
  /\ trial = [id |-> <<>>, counter |-> 2]
  /\ verdict = "none" /\ out = None /\ imports = 0

Goto(label) == pc' = label
End(v) == verdict' = v /\ Goto("exit")

\* A producer logs an event, before or during an import.
AppendLine ==
  /\ \E f \in Files, l \in Lines :
       Len(ledger[f]) < MaxLines /\ ledger' = [ledger EXCEPT ![f] = Append(@, l)]
  /\ UNCHANGED <<pc, target, todo, read, loop, verdict, out, imports>>

Start ==
  /\ pc = "idle" /\ imports < MaxImports
  /\ target' \in Targets
  /\ todo' = {} /\ read' = [f \in Files |-> <<>>]
  /\ events' = <<>> /\ next' = 1 /\ cases' = <<>> /\ seen' = {} /\ ignored' = 0
  /\ trial' = [id |-> <<>>, counter |-> 2]
  /\ verdict' = "none" /\ imports' = imports + 1
  /\ Goto("discover")
  /\ UNCHANGED <<ledger, out>>

\* No file or no ledger is a FileNotFoundError, which the CLI reports.
Discover ==
  /\ pc = "discover"
  /\ todo' = Discovered(target)
  /\ IF todo' = {} THEN End("refused") ELSE Goto("read") /\ UNCHANGED verdict
  /\ UNCHANGED <<ledger, target, read, loop, out, imports>>

\* Opens the next file.  read_text raises a UnicodeDecodeError, which is not an OSError.
Read ==
  /\ pc = "read"
  /\ LET f == First(todo) IN
       /\ todo' = todo \ {f}
       /\ read' = [read EXCEPT ![f] = ledger[f]]
       /\ IF Decodes(f)
          THEN /\ events' = events \o Numbered(f)
               /\ Goto(IF todo' = {} THEN "name" ELSE "read")
               /\ UNCHANGED verdict
          ELSE End("uncaught") /\ UNCHANGED events
  /\ UNCHANGED <<ledger, target, next, cases, seen, trial, ignored, out, imports>>

\* The event at next becomes the draft with this id.
Keep(id) ==
  /\ cases' = Append(cases, [id |-> id, from |-> events[next], checks |-> Checks(Current)])
  /\ seen' = seen \cup {id}
  /\ next' = next + 1

\* A malformed line is skipped, an event that makes no case is counted.
Ignore ==
  /\ pc = "name" /\ next <= Len(events) /\ ~MakesCase(Current)
  /\ ignored' = IF Current.kind = "event" THEN ignored + 1 ELSE ignored
  /\ next' = next + 1
  /\ UNCHANGED <<ledger, pc, target, todo, read, events, cases, seen, trial, verdict, out, imports>>

\* Mutant: an event with an id that was seen is taken for a duplicate.
TakeOnce ==
  /\ pc = "name" /\ next <= Len(events) /\ MakesCase(Current)
  /\ IF BaseId(Current) \notin seen
     THEN Keep(BaseId(Current)) /\ UNCHANGED ignored
     ELSE next' = next + 1 /\ ignored' = ignored + 1 /\ UNCHANGED <<cases, seen>>
  /\ UNCHANGED <<ledger, pc, target, todo, read, events, trial, verdict, out, imports>>

Take ==
  /\ pc = "name" /\ next <= Len(events) /\ MakesCase(Current)
  /\ IF BaseId(Current) \notin seen
     THEN Keep(BaseId(Current)) /\ UNCHANGED <<pc, trial>>
     ELSE /\ trial' = [id |-> LineId(BaseId(Current), events[next][2]), counter |-> 2]
          /\ Goto("rename") /\ UNCHANGED <<cases, seen, next>>
  /\ UNCHANGED <<ledger, target, todo, read, events, ignored, verdict, out, imports>>

\* Mutant: the id made up for a clash is not looked up itself.
RenameUnchecked ==
  /\ pc = "rename" /\ Keep(trial.id) /\ Goto("name")
  /\ UNCHANGED <<ledger, target, todo, read, events, ignored, trial, verdict, out, imports>>

\* Mutant: the counter stays at 2.
RenameUncounted ==
  /\ pc = "rename"
  /\ IF trial.id \in seen
     THEN /\ trial' = [trial EXCEPT !.id = CountedId(BaseId(Current), events[next][2], trial.counter)]
          /\ UNCHANGED <<pc, cases, seen, next>>
     ELSE Keep(trial.id) /\ Goto("name") /\ UNCHANGED trial
  /\ UNCHANGED <<ledger, target, todo, read, events, ignored, verdict, out, imports>>

\* One test of the while loop, with its body when the test holds.
Rename ==
  /\ pc = "rename"
  /\ IF trial.id \in seen
     THEN /\ trial' = [id |-> CountedId(BaseId(Current), events[next][2], trial.counter),
                       counter |-> trial.counter + 1]
          /\ UNCHANGED <<pc, cases, seen, next>>
     ELSE Keep(trial.id) /\ Goto("name") /\ UNCHANGED trial
  /\ UNCHANGED <<ledger, target, todo, read, events, ignored, verdict, out, imports>>

\* Without cases nothing is written, and the drafts of an earlier import stay.
Named ==
  /\ pc = "name" /\ next > Len(events)
  /\ IF cases = <<>> THEN End("no cases") ELSE Goto("write") /\ UNCHANGED verdict
  /\ UNCHANGED <<ledger, target, todo, read, loop, out, imports>>

Write ==
  /\ pc = "write"
  /\ out' = [cases |-> cases, read |-> read]
  /\ Goto("validate")
  /\ UNCHANGED <<ledger, target, todo, read, loop, verdict, imports>>

\* What eval-case.schema.json asks of a draft's checks.
SchemaAccepts(checks) ==
  checks # {} /\ \A c \in checks : c.type = "text" => c.value \/ c.values # "missing"

\* The ValueError for a refused file is not an OSError either.
Validate ==
  /\ pc = "validate"
  /\ End(IF \A i \in 1..Len(out.cases) : SchemaAccepts(out.cases[i].checks) THEN "ok" ELSE "uncaught")
  /\ UNCHANGED <<ledger, target, todo, read, loop, out, imports>>

Exit ==
  /\ pc = "exit" /\ Goto("idle")
  /\ UNCHANGED <<ledger, target, todo, read, loop, verdict, out, imports>>

\* The process is killed; write_text truncates the file before it writes.
Interrupt ==
  /\ pc # "idle" /\ Goto("idle") /\ verdict' = "killed"
  /\ out' \in IF pc = "write" THEN {out, Torn} ELSE {out}
  /\ UNCHANGED <<ledger, target, todo, read, loop, imports>>

Step ==
  \/ Discover \/ Read \/ Ignore \/ Take \/ Rename \/ Named \/ Write \/ Validate \/ Exit

Next == AppendLine \/ Start \/ Step \/ Interrupt

Spec == Init /\ [][Next]_vars
FairSpec == Spec /\ WF_vars(Step)

-----------------------------------------------------------------------------
CaseType == [id : Seq(Words), from : Files \X (1..MaxLines), checks : SUBSET CheckType]

\* Types of all variables.
TypeOK ==
  /\ ledger \in [Files -> Seq(Lines)] /\ read \in [Files -> Seq(Lines)]
  /\ pc \in {"idle", "discover", "read", "name", "rename", "write", "validate", "exit"}
  /\ target \in Files \cup {Dir} /\ todo \subseteq Files
  /\ events \in Seq(Files \X (1..MaxLines))
  /\ next \in 1..(Len(events) + 1) /\ cases \in Seq(CaseType)
  /\ seen \subseteq Seq(Words)
  /\ trial \in [id : Seq(Words), counter : Nat] /\ ignored \in Nat
  /\ verdict \in {"none", "refused", "no cases", "ok", "uncaught", "killed"}
  /\ out \in {None, Torn} \cup [cases : Seq(CaseType), read : [Files -> Seq(Lines)]]
  /\ imports \in 0..MaxImports

Drafts(file) == IF file \in {None, Torn} THEN <<>> ELSE file.cases
Written == out \notin {None, Torn}

\* No two drafts of a file have the same id: run reports and the reliability report key
\* cases by id, and the latter refuses a report with a duplicate (reliability.py:26-27).
DistinctIds(drafts) == \A i, j \in 1..Len(drafts) : drafts[i].id = drafts[j].id => i = j
IdsUnique == DistinctIds(Drafts(out))

\* The positions, in the lines a draft file was made from, of events that make a case.
Candidates(view) ==
  {p \in Files \X (1..MaxLines) :
     p[2] <= Len(view[p[1]]) /\ MakesCase(view[p[1]][p[2]])}

Prefix(s, t) == Len(s) <= Len(t) /\ \A i \in 1..Len(s) : s[i] = t[i]
Before(p, q) == p[1] < q[1] \/ (p[1] = q[1] /\ p[2] < q[2])

\* A draft file has one draft for each event of the ledgers that calls for one, none for
\* any other line, and keeps their order, even if events are logged while it is made.
EveryCandidateDrafted ==
  Written =>
    /\ {out.cases[i].from : i \in 1..Len(out.cases)} = Candidates(out.read)
    /\ \A i, j \in 1..Len(out.cases) : i < j => Before(out.cases[i].from, out.cases[j].from)
    /\ \A f \in Files : Prefix(out.read[f], ledger[f])

\* A reviewer may refer to a draft by its id: importing a ledger again after it has grown
\* gives each event the same id, as long as no file sorted before its own has changed.
DraftsKeepTheirIds ==
  [][\A i \in 1..Len(Drafts(out)), j \in 1..Len(Drafts(out')) :
       LET p == out.cases[i].from IN
       (p = out'.cases[j].from /\ \A f \in 1..(p[1] - 1) : out.read[f] = out'.read[f])
         => out.cases[i].id = out'.cases[j].id]_out

\* An import that gets to its drafts succeeds: what it keeps of an event's checks is always
\* something the eval-case schema accepts (cdcp_events.py:422-428 raises if it does not).
DraftsConform == pc = "exit" /\ next > 1 => verdict \in {"ok", "no cases"}

\* An import that is not killed ends, however ids clash (the while loop of
\* cdcp_events.py:398-400 finds a free id).
ImportsEnd == pc # "idle" ~> pc = "idle"

\* R-TTE-006 (requirements.md:22-29): malformed lines are skipped "without aborting".
MalformedLinesSkipped == verdict # "uncaught"
=============================================================================

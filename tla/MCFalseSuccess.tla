--------------------------- MODULE MCFalseSuccess ---------------------------
(* A small instance of FalseSuccess for TLC. *)
EXTENDS FalseSuccess

CONSTANTS read, send

TwoTools == {read, send}
TwoFiles == {1, 2}

Called(tool, marks) == [tool |-> tool, named |-> TRUE, marks |-> marks]
Nameless(marks) == [tool |-> send, named |-> FALSE, marks |-> marks]
Calls ==
  {Called(read, {}), Called(read, {"status"}), Called(send, {}), Called(send, {"error"}),
   Nameless({}), Nameless({"is_error", "status"})}

Run(claims, effects, calls) == [claims |-> claims, effects |-> effects, calls |-> calls]
Holds(trace) == [kind |-> "trace", trace |-> trace]
Unreadable(kind) == [kind |-> kind, trace |-> Run({}, "absent", << >>)]

\* Every sequence of up to three calls, in traces that claim success or not
\* and that list their effects or not.
Rich ==
  {Holds(Run(claims, effects, calls)) :
     claims \in {{}, {"output_phrase"}}, effects \in {"absent", "empty"},
     calls \in UNION {[1..n -> Calls] : n \in 0..3}}

\* The few contents of the runs in which files are replaced.
Plain ==
  {Unreadable("absent"), Unreadable("broken"),
   Holds(Run({"terminal_state"}, "listed", <<Called(send, {"error"}), Called(send, {})>>)),
   Holds(Run({"terminal_state"}, "empty", <<Called(send, {})>>)),
   Holds(Run({"terminal_state"}, "no list", <<Called(read, {"status"})>>))}

AllContents == Rich \cup Plain

Directory == [dir |-> TRUE, files |-> TwoFiles]
File(f) == [dir |-> FALSE, files |-> {f}]
Paths == {<<Directory>>, <<File(1)>>, <<File(2), Directory>>}

\* No write tool, and those the default verbs find.
NameSets == {{}, {send, <<send, {}>>}}

\* A rich content stands alone, in one command.
Scenario ==
  \/ \A f \in Files : file[f] \in Plain
  \/ /\ writes = 0 /\ Len(history) <= (IF pc = "idle" THEN 1 ELSE 0)
     /\ file[1] \in Rich /\ file[2] = Unreadable("absent")
     /\ pc # "idle" => args = <<Directory>>

ScenarioInit == Init /\ Scenario

ScenarioSpec == ScenarioInit /\ [][Next /\ Scenario']_vars
=============================================================================

----------------------------- MODULE MCPortfolio -----------------------------
(***************************************************************************)
(* Small portfolios for TLC.  In each behaviour one kind of command reads  *)
(* what the producer and the evidence command write: the readers share no  *)
(* files with each other.                                                  *)
(***************************************************************************)
EXTENDS Portfolio

CONSTANTS v1, v2

passed == [gate |-> TRUE, status |-> "none", type |-> "passed"]
plain == [gate |-> FALSE, status |-> "warn", type |-> "failed"]

TheLines == {passed, plain}

inRepo == [scheme |-> "repo", repo |-> "other", name |-> "a"]
aside == [scheme |-> "relative", repo |-> "producer", name |-> "b"]
logical == [scheme |-> "artifact", repo |-> "other", name |-> "a"]
TheRefs == {inRepo, aside, logical}

TheForms ==
  {[canonical |-> TRUE, sandbox |-> TRUE, outputs |-> {inRepo, logical}],
   [canonical |-> FALSE, sandbox |-> FALSE, outputs |-> {aside, inRepo}]}

TheVersions == {v1, v2}

TheLayouts ==
  {[ledger |-> "ops/event-ledger", record |-> "ops/run-records"],
   [ledger |-> "ops/event-log", record |-> "elsewhere"]}

stock ==
  [p \in Places |-> IF p \in {<<"other", "a">>, <<"producer", "b">>} THEN v1 ELSE Missing]
TheStocks == {stock}

TheChecks == {<<1>>, <<2, 1>>}
TheWalks == {<<Directory>>, <<2, Directory, 2>>}

TheForeigners == {{}, {2}}

TheOrders ==
  {[refs |-> TRUE, trace |-> {}, trace_hash |-> {}, well_formed |-> TRUE,
    artifacts |-> {inRepo}, identity |-> "run"],
   [refs |-> TRUE, trace |-> {inRepo}, trace_hash |-> {v2}, well_formed |-> TRUE,
    artifacts |-> {}, identity |-> "other_run"],
   [refs |-> FALSE, trace |-> {}, trace_hash |-> {}, well_formed |-> TRUE,
    artifacts |-> {}, identity |-> "run"],
   [refs |-> TRUE, trace |-> {}, trace_hash |-> {}, well_formed |-> FALSE,
    artifacts |-> {}, identity |-> "run"]}

NoStrict == strict = Idle
NoBundles == maker = NoMaker /\ compared = Missing /\ \A b \in Bundles : bundles[b] = Missing
NoPackets == gen = NoRun /\ generated = 0

\* One artifact may change; a ledger of gates is of interest on the page.
Changing == artifacts \in {[stock EXCEPT ![<<"other", "a">>] = v] : v \in Versions \cup {Missing}}
Passing == \A i \in DOMAIN ledger : ledger[i] = passed

\* A foreign file lies in the directory.
Strange == \E f \in PacketFiles : packets[f] = Foreign

\* The worlds: a packet checked by strict validation, bundles, a dashboard
\* over packets of a producer that leaves its artifacts alone and is done
\* with writing, some of them beside a foreign file.
Scenario ==
  \/ NoBundles /\ board = NoBoard /\ Changing /\ Passing /\ (NoStrict \/ generated <= 1)
     /\ (Strange => writes = 0)
  \/ ~Strange /\ NoPackets /\ NoStrict /\ board = NoBoard /\ Changing /\ Passing
  \/ NoBundles /\ NoStrict /\ artifacts = stock /\ (board = NoBoard \/ writes = MaxWrites)
     /\ (Strange => generated <= 1)

ScenarioInit == Init /\ Scenario

ScenarioSpec == ScenarioInit /\ [][Next /\ Scenario']_vars
=============================================================================

---------------------------- MODULE MCReliability ----------------------------
(* Small instances of Reliability for TLC. *)
EXTENDS Reliability

CONSTANTS a, b, s1, s2, p1, p2

Report(cases) == [kind |-> "report", cases |-> cases]
Unreadable(kind) == [kind |-> kind, cases |-> << >>]
Pass(c) == [id |-> c, suite |-> s1, passed |-> TRUE]
Fail(c) == [id |-> c, suite |-> s1, passed |-> FALSE]
Moved(c) == [id |-> c, suite |-> s2, passed |-> TRUE]

TwoIds == {a, b}
TwoSuites == {s1, s2}
TwoPaths == {p1, p2}

\* Every pattern of passed, failed and missing results of two cases.
Scored ==
  {Report(<< >>)}
  \cup {Report(<<x>>) : x \in {Pass(a), Fail(a), Pass(b), Fail(b)}}
  \cup {Report(<<x, y>>) : x \in {Pass(a), Fail(a)}, y \in {Pass(b), Fail(b)}}

\* What a path may hold besides: every reason to refuse it.
Unscored ==
  {Unreadable("absent"), Unreadable("other"), Report(<<Moved(a)>>),
   Report(<<Pass(a), Fail(a)>>), [Report(<<Pass(a)>>) EXCEPT !.kind = "loose"]}

AllContents == Scored \cup Unscored

\* One to three attempts; a path may be given twice, and be replaced meanwhile.
Attempts == {<<p1>>, <<p1, p2>>, <<p1, p2, p1>>}
=============================================================================

------------------------------ MODULE Dashboard ------------------------------
(***************************************************************************)
(* trace-to-eval dashboard PATH ...: packet files are read one after the   *)
(* other and added up per producer repository.  A file that cannot be      *)
(* opened or is no JSON is left out, any other that is no packet ends the  *)
(* command.                                                                *)
(*                                                                         *)
(* Abstractions: the layout of the page; a packet names repositories by    *)
(* its record ref and its artifact refs; every packet has the same runtime *)
(* provider.                                                               *)
(***************************************************************************)
EXTENDS PacketStore

CONSTANTS
  Directory,  \* the directory of all packet files, as an argument
  Walks       \* lists of packet files and directories a user may give

ASSUME WalksAssumption ==
  Walks \subseteq Seq(PacketFiles \cup {Directory}) /\ Directory \notin PacketFiles

VARIABLE board  \* the running command

\* A path that was given before is left out.
Deduped(paths) ==
  LET first(i) == \A j \in 1..(i - 1) : paths[j] # paths[i]
      kept == {i \in DOMAIN paths : first(i)}
  IN  [n \in 1..Cardinality(kept) |->
         paths[CHOOSE i \in kept : Cardinality({j \in kept : j <= i}) = n]]

NoBoard == [pc |-> "idle"]

(***************************************************************************)
(* paths  the arguments, without those that were given before              *)
(* files  the files still to read of the present path                      *)
(* seen   the packets that were read                                       *)
(* given, quiet, begun  the arguments, and whether an evidence command ran *)
(*        when the dashboard began and how many had begun: read by the     *)
(*        properties only                                                  *)
(***************************************************************************)
StartBoard(paths) ==
  /\ board.pc = "idle"
  /\ board' = [pc |-> "read", paths |-> Deduped(paths), files |-> {}, seen |-> << >>,
               given |-> paths, quiet |-> gen.pc = "idle", begun |-> generated]

\* A directory stands for the files it holds now.
Visit ==
  /\ board.pc = "read" /\ board.files = {} /\ board.paths # << >>
  /\ board' = [board EXCEPT !.paths = Tail(@),
                 !.files = {f \in PacketFiles : /\ Head(board.paths) \in {f, Directory}
                                                /\ packets[f] # Missing}]

\* Mutant: a packet that is being written ends the tour of a directory.
ReadOrStop ==
  /\ board.pc = "read"
  /\ \E f \in board.files :
       /\ packets[f] # Foreign /\ \A g \in board.files : f <= g
       /\ board' = IF Whole(packets[f])
                   THEN [board EXCEPT !.files = @ \ {f}, !.seen = Append(@, packets[f])]
                   ELSE [board EXCEPT !.files = {}]

\* The files of a directory are read in the order of their names; one that
\* went away or is half-written is passed over.
ReadPacket ==
  /\ board.pc = "read"
  /\ \E f \in board.files :
       /\ packets[f] # Foreign /\ \A g \in board.files : f <= g
       /\ board' = [board EXCEPT !.files = @ \ {f},
                      !.seen = IF Whole(packets[f]) THEN Append(@, packets[f]) ELSE @]

\* No handler is there for a file that is not UTF-8 or holds no JSON object:
\* no page is printed.
StopAtForeign ==
  /\ board.pc = "read"
  /\ \E f \in board.files :
       /\ packets[f] = Foreign /\ \A g \in board.files : f <= g
       /\ board' = NoBoard

Unattributed == "(unattributed)"

\* The repositories a packet is counted for.
ProducersOf(packet) ==
  LET named == packet.producer \cup {ref.repo : ref \in {r \in packet.artifact_refs : r.scheme = "repo"}}
  IN  IF named = {} THEN {Unattributed} ELSE named

Of(seen, repo) == {i \in DOMAIN seen : repo \in ProducersOf(seen[i])}

\* The gate results of some packets with one of some statuses.
Gates(seen, N, statuses) ==
  {v \in UNION {{i} \X seen[i].gate_results : i \in N} : v[2][2] \in statuses}

AllStatuses == {"passed", "failed", "warn", "skipped", "unknown"}

Latest(seen, N) ==
  CHOOSE d \in {seen[i].generated_at : i \in N} : \A i \in N : seen[i].generated_at <= d

\* The columns of the page go by these words.
PassWords == {"pass", "ok"}
FailWords == {"fail", "error"}

Summary(seen, repo) ==
  LET N == Of(seen, repo)
      pass == Cardinality(Gates(seen, N, PassWords))
      fail == Cardinality(Gates(seen, N, FailWords))
  IN  [packet_count |-> Cardinality(N),
       artifact_count |-> Cardinality(UNION {{i} \X seen[i].artifact_hashes : i \in N}),
       pass |-> pass, fail |-> fail,
       other |-> Cardinality(Gates(seen, N, AllStatuses)) - pass - fail,
       latest_generated_at |-> Latest(seen, N)]

\* The page, one line for each repository that a packet names.
Render ==
  /\ board.pc = "read" /\ board.paths = << >> /\ board.files = {}
  /\ board' =
       [pc |-> "printed", seen |-> board.seen, given |-> board.given,
        quiet |-> board.quiet, begun |-> board.begun,
        page |-> [repo \in UNION {ProducersOf(board.seen[i]) : i \in DOMAIN board.seen} |->
                    Summary(board.seen, repo)]]

EndBoard == board.pc # "idle" /\ board' = NoBoard

BoardStep ==
  \/ \E paths \in Walks : StartBoard(paths)
  \/ Visit \/ ReadPacket \/ StopAtForeign \/ Render \/ EndBoard
=============================================================================

---------------------------- MODULE StrictRehash ----------------------------
(***************************************************************************)
(* trace-to-eval evidence validate --strict PACKET ...: each packet is     *)
(* validated on one read, read again, and every ref in it is resolved and  *)
(* hashed anew, one file after the other, while producers and other        *)
(* commands go on writing.                                                 *)
(***************************************************************************)
EXTENDS PacketStore

CONSTANT Checks  \* lists of packet files a user may give

ASSUME StrictAssumption == Checks \subseteq Seq(PacketFiles) \ {<< >>}

VARIABLE strict  \* the running command

Idle == [pc |-> "idle"]

(***************************************************************************)
(* paths     the packets still to check, the present one first             *)
(* failed    has one been refused?                                         *)
(* packet    the second read of the present one                            *)
(* failures  what did not match so far                                     *)
(* then      the ledger when the Run record was hashed: read by the        *)
(*           properties only                                               *)
(***************************************************************************)
StartStrict(paths) ==
  /\ strict.pc = "idle"
  /\ strict' = [pc |-> "validate", paths |-> paths, failed |-> FALSE]

\* On to the next packet, or to the exit code.
Proceed(failed) ==
  IF Len(strict.paths) = 1 THEN [pc |-> "exit", failed |-> failed]
  ELSE [pc |-> "validate", paths |-> Tail(strict.paths), failed |-> failed]

\* Whatever goes wrong in the first read refuses the packet, no more.
ValidatePacket ==
  /\ strict.pc = "validate"
  /\ strict' = IF Whole(packets[Head(strict.paths)])
               THEN [strict EXCEPT !.pc = "load"]
               ELSE Proceed(TRUE)

\* The second read is in nobody's care: without a whole file it ends the
\* command in an exception.
Load ==
  /\ strict.pc = "load"
  /\ LET file == packets[Head(strict.paths)]
     IN  strict' = IF Whole(file)
                   THEN [pc |-> "hash_record", paths |-> strict.paths, failed |-> strict.failed,
                         packet |-> file, failures |-> {}]
                   ELSE [pc |-> "uncaught"]

\* Mutant: the raw bytes are hashed.
HashRecordBytes ==
  /\ strict.pc = "hash_record"
  /\ strict' =
       [pc |-> "hash_ledger", paths |-> strict.paths, failed |-> strict.failed,
        packet |-> strict.packet, then |-> LedgerAt(strict.packet.log_ref),
        todo |-> strict.packet.artifact_hashes,
        failures |-> IF RecordAt(strict.packet.record_ref) = {strict.packet.record_hash}
                     THEN {} ELSE {"run_record"}]

HashRecord ==
  /\ strict.pc = "hash_record"
  /\ LET found == {Canonical(r) : r \in RecordAt(strict.packet.record_ref)}
     IN  strict' =
           [pc |-> "hash_ledger", paths |-> strict.paths, failed |-> strict.failed,
            packet |-> strict.packet, then |-> LedgerAt(strict.packet.log_ref),
            todo |-> strict.packet.artifact_hashes,
            failures |-> IF found = {strict.packet.record_hash} THEN {} ELSE {"run_record"}]

\* Mutant: a ledger that grew since is accepted.
RehashLedgerPrefix ==
  /\ strict.pc = "hash_ledger"
  /\ strict' = [strict EXCEPT !.pc = "hash_artifacts",
                  !.failures = @ \cup
                    IF \E log \in LedgerAt(strict.packet.log_ref) :
                         SubSeq(log, 1, Len(strict.packet.log_hash)) = strict.packet.log_hash
                    THEN {} ELSE {"event_log"}]

RehashLedger ==
  /\ strict.pc = "hash_ledger"
  /\ strict' = [strict EXCEPT !.pc = "hash_artifacts",
                  !.failures = @ \cup
                    IF LedgerAt(strict.packet.log_ref) = {strict.packet.log_hash}
                    THEN {} ELSE {"event_log"}]

RehashArtifact ==
  /\ strict.pc = "hash_artifacts"
  /\ \E entry \in strict.todo :
       strict' = [strict EXCEPT !.todo = @ \ {entry},
                    !.failures = @ \cup
                      IF At(Resolve(entry[1])) = {entry[2]} THEN {} ELSE {"artifact"}]

Answer ==
  /\ strict.pc = "hash_artifacts" /\ strict.todo = {}
  /\ strict' = Proceed(strict.failed \/ strict.failures # {})

\* The exit code is read, or the command killed.
EndStrict ==
  /\ strict.pc # "idle" /\ strict' = Idle

StrictStep ==
  \/ \E paths \in Checks : StartStrict(paths)
  \/ ValidatePacket \/ Load \/ HashRecord \/ RehashLedger \/ RehashArtifact \/ Answer
  \/ EndStrict
=============================================================================

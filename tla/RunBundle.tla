------------------------------ MODULE RunBundle ------------------------------
(***************************************************************************)
(* trace-to-eval bundle create and bundle compare: an envelope around the  *)
(* hashes of a Run record, a ledger and an optional trace, and what two    *)
(* envelopes are compared by.                                              *)
(*                                                                         *)
(* Abstractions: the trace and the sandbox manifest are treated alike, so  *)
(* there is one of them; the rest of an envelope is copied from the        *)
(* command line.                                                           *)
(***************************************************************************)
EXTENDS PacketStore

CONSTANTS
  Bundles,      \* bundle files
  Orders        \* command lines of bundle create

(***************************************************************************)
(* refs         do --run-record and --event-ledger have a form that        *)
(*              resolves?                                                  *)
(* trace        --trace-ref, as a set of at most one                       *)
(* trace_hash   --trace-hash, likewise                                     *)
(* well_formed  does every --artifact name a ref and a hash?               *)
(* artifacts    their refs                                                 *)
(* identity     run id, adapter and fingerprint                            *)
(***************************************************************************)
Order ==
  [refs : BOOLEAN, trace : SUBSET Refs, trace_hash : SUBSET Versions,
   well_formed : BOOLEAN, artifacts : SUBSET Refs, identity : STRING]

ASSUME BundleAssumption == Orders \subseteq Order

VARIABLES
  bundles,  \* the bundle files
  maker,    \* the running bundle create
  compared  \* the bundles that were compared last, and how

NoMaker == [pc |-> "idle"]

Create(b, order) ==
  /\ maker.pc = "idle"
  /\ maker' = IF order.well_formed THEN [pc |-> "hash_record", out |-> b, order |-> order]
                                   ELSE NoMaker
  /\ UNCHANGED <<bundles, compared>>

\* The raw bytes are hashed here, formatting included.
BundleRecord ==
  /\ maker.pc = "hash_record"
  /\ maker' = IF maker.order.refs /\ record # Missing
              THEN [pc |-> "hash_ledger", out |-> maker.out, order |-> maker.order,
                    record |-> record]
              ELSE NoMaker
  /\ UNCHANGED <<bundles, compared>>

BundleLedger ==
  /\ maker.pc = "hash_ledger"
  /\ maker' = IF ledger # << >>
              THEN [pc |-> "hash_trace", out |-> maker.out, order |-> maker.order,
                    record |-> maker.record, log |-> ledger]
              ELSE NoMaker
  /\ UNCHANGED <<bundles, compared>>

\* A trace has to be there even if its hash is given.
BundleTrace ==
  /\ maker.pc = "hash_trace"
  /\ LET order == maker.order
         found == UNION {At(Resolve(ref)) : ref \in order.trace}
     IN  maker' = IF order.trace # {} /\ found = {} THEN NoMaker
                  ELSE [pc |-> "open", out |-> maker.out, order |-> order,
                        record |-> maker.record, log |-> maker.log,
                        trace_hash |-> IF order.trace # {} /\ order.trace_hash # {}
                                       THEN order.trace_hash ELSE found]
  /\ UNCHANGED <<bundles, compared>>

OpenBundle ==
  /\ maker.pc = "open"
  /\ bundles' = [bundles EXCEPT ![maker.out] = Torn]
  /\ maker' = [maker EXCEPT !.pc = "write"]
  /\ UNCHANGED compared

WriteBundle ==
  /\ maker.pc = "write"
  /\ bundles' = [bundles EXCEPT ![maker.out] =
       [bundle_id |-> maker.order.identity, run_record_hash |-> maker.record,
        event_ledger_hash |-> maker.log, trace_hash |-> maker.trace_hash,
        artifacts |-> maker.order.artifacts]]
  /\ maker' = NoMaker
  /\ UNCHANGED compared

KillMaker == maker.pc # "idle" /\ maker' = NoMaker /\ UNCHANGED <<bundles, compared>>

\* The two bundles are read and compared by identity and by the refs, but
\* not the hashes, of their artifacts.
Compare(left, right) ==
  /\ Whole(bundles[left]) /\ Whole(bundles[right])
  /\ compared' =
       [left |-> bundles[left], right |-> bundles[right],
        identity_match |-> bundles[left].bundle_id = bundles[right].bundle_id,
        artifact_set_match |-> bundles[left].artifacts = bundles[right].artifacts]
  /\ UNCHANGED <<bundles, maker>>

BundleStep ==
  \/ \E b \in Bundles, order \in Orders : Create(b, order)
  \/ BundleRecord \/ BundleLedger \/ BundleTrace \/ OpenBundle \/ WriteBundle \/ KillMaker
  \/ \E left, right \in Bundles : Compare(left, right)

BundleInit ==
  /\ bundles = [b \in Bundles |-> Missing] /\ maker = NoMaker /\ compared = Missing
=============================================================================

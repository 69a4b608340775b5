-------------------------- MODULE CompliancePolicies --------------------------
(***************************************************************************)
(* The two composition contracts over one set of primitives: a policy      *)
(* engine and a compliance aggregator, configured independently by their   *)
(* admins. "Pick one per integration" only makes sense if they mean the    *)
(* same thing when they are given the same checks.                         *)
(***************************************************************************)
EXTENDS PolicyEngine, FiniteSets

CONSTANT MaxBatchSize   \* MAX_BATCH_SIZE of the aggregator

VARIABLES
  aggAdmin, aggPaused, denylist_gate, jurisdiction_flag, aggBreaker, aggWasm

aggVars ==
  <<aggAdmin, aggPaused, <<denylist_gate, jurisdiction_flag, aggBreaker>>, aggWasm>>
vars == <<engineVars, aggVars>>

Aggregator == INSTANCE ComplianceAggregator
  WITH admin <- aggAdmin, paused <- aggPaused, circuit_breaker <- aggBreaker,
       wasm <- aggWasm

TypeOK == EngineTypeOK /\ Aggregator!TypeOK

Init == EngineInit /\ Aggregator!Init

Next ==
  \/ EngineNext /\ UNCHANGED aggVars
  \/ Aggregator!Next /\ UNCHANGED engineVars

Spec == Init /\ [][Next]_vars

-----------------------------------------------------------------------------
\* The aggregator's properties, under the names the configurations use.
EntryPointsAgree == Aggregator!EntryPointsAgree
FrozenDeniesEverywhere == Aggregator!FrozenDeniesEverywhere

\* The engine's list holds what the aggregator has registered, and no more.
SameChecks ==
  /\ admin # None
  /\ op = "All"
  /\ circuit_breaker = aggBreaker
  /\ {checks[i] : i \in DOMAIN checks} = {denylist_gate, jurisdiction_flag} \ {None}
  /\ checks # <<>>

\* Given the same checks, the engine under All admits a transfer exactly when
\* the aggregator clears both of its parties, in whatever order and however
\* often the engine lists them.
SiblingsAgree ==
  SameChecks =>
    \A w \in World : \A x, y \in Address :
      evaluate(w, x, y) = "pass" <=>
        /\ Aggregator!check_address(w, x) = "pass"
        /\ Aggregator!check_address(w, y) = "pass"
=============================================================================

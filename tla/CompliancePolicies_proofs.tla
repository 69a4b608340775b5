----------------------- MODULE CompliancePolicies_proofs -----------------------
(***************************************************************************)
(* Proofs about the engine, about the aggregator, and about both together, *)
(* for any worlds, addresses and registered checks.                        *)
(*                                                                         *)
(* What is said of the engine rests on what the loop of evaluate_inner     *)
(* amounts to, which the lemma EvaluationMeans states without the loop;    *)
(* that lemma needs the least of a set of indices to exist, and so the     *)
(* well-foundedness of Nat.                                                *)
(***************************************************************************)
EXTENDS CompliancePolicies, WellFoundedInduction, SequenceTheorems, TLAPS


-----------------------------------------------------------------------------
(* The engine. *)

\* A set of indices has a first one: First never chooses from nothing.
LEMMA HasFirst ==
  ASSUME NEW S, S \subseteq Nat, S # {}
  PROVE  First(S) \in S /\ \A j \in S : First(S) <= j
<1> DEFINE Less == {ss \in Nat \X Nat : ss[1] < ss[2]}
<1>0. OpToRel(<, Nat) = Less
  BY Zenon DEF OpToRel
<1>1. IsWellFoundedOn(Less, Nat)
  BY <1>0, NatLessThanWellFounded, Zenon
<1> HIDE DEF Less
<1>2. PICK x \in S : \A y \in S : ~(<<y, x>> \in Less)
  BY <1>1, WFMin, Zenon
<1>3. \A y \in S : x <= y
  <2> SUFFICES ASSUME NEW y \in S PROVE x <= y
    OBVIOUS
  <2>1. <<y, x>> \in Nat \X Nat
    OBVIOUS
  <2>2. ~(<<y, x>>[1] < <<y, x>>[2])
    BY <1>2, <2>1 DEF Less
  <2>3. QED
    BY <2>2
<1>4. QED
  BY <1>3 DEF First

\* A registered check answers, and so does one asked about both parties.
LEMMA AnswerType ==
  ASSUME NEW w \in World, NEW c \in CheckKind, NEW x \in Address, NEW y \in Address
  PROVE  run_check(w, c, x) \in Answer /\ OnBoth(w, c, x, y) \in Answer
  <1>1. \A z \in Address : w[c][z] \in Answer
    BY WorldAssumption
  <1>2. \A z \in Address : run_check(w, c, z) \in Answer
    BY <1>1 DEF run_check, Answer
  <1> QED BY <1>2 DEF OnBoth

-----------------------------------------------------------------------------
\* What an evaluation amounts to, without the loop.
SlotPasses(w, x) ==
  circuit_breaker # None => run_check(w, circuit_breaker, x) = "pass"

EvaluationFacts ==
  admin # None =>
    \A w \in World : \A x, y \in Address :
      LET At(i) == OnBoth(w, checks[i], x, y)
      IN  /\ evaluate(w, x, y) \in Answer
          /\ op = "All" =>
               (evaluate(w, x, y) = "pass" <=>
                  SlotPasses(w, x) /\ \A i \in DOMAIN checks : At(i) = "pass")
          /\ op = "Any" =>
               (evaluate(w, x, y) = "pass" <=>
                  /\ SlotPasses(w, x)
                  /\ \E i \in DOMAIN checks :
                       At(i) = "pass" /\ \A j \in 1..(i - 1) : At(j) = "fail")
          /\ op = "Any" /\ SlotPasses(w, x) =>
               (evaluate(w, x, y) = "fail" <=> \A i \in DOMAIN checks : At(i) = "fail")
          /\ ~SlotPasses(w, x) => evaluate(w, x, y) = run_check(w, circuit_breaker, x)

LEMMA EvaluationMeans == EngineTypeOK => EvaluationFacts
  <1> SUFFICES ASSUME EngineTypeOK, admin # None,
                      NEW w \in World, NEW x \in Address, NEW y \in Address
               PROVE  LET At(i) == OnBoth(w, checks[i], x, y)
                      IN  /\ evaluate(w, x, y) \in Answer
                          /\ op = "All" =>
                               (evaluate(w, x, y) = "pass" <=>
                                  SlotPasses(w, x) /\ \A i \in DOMAIN checks : At(i) = "pass")
                          /\ op = "Any" =>
                               (evaluate(w, x, y) = "pass" <=>
                                  /\ SlotPasses(w, x)
                                  /\ \E i \in DOMAIN checks :
                                       At(i) = "pass" /\ \A j \in 1..(i - 1) : At(j) = "fail")
                          /\ op = "Any" /\ SlotPasses(w, x) =>
                               (evaluate(w, x, y) = "fail" <=>
                                  \A i \in DOMAIN checks : At(i) = "fail")
                          /\ ~SlotPasses(w, x) =>
                               evaluate(w, x, y) = run_check(w, circuit_breaker, x)
    BY DEF EvaluationFacts
  <1> DEFINE At(i) == OnBoth(w, checks[i], x, y)
             D == Deciders(w, x, y)
             first == First(D)
  <1>1. /\ op \in {"All", "Any"}
        /\ Len(checks) \in Nat
        /\ DOMAIN checks = 1..Len(checks)
        /\ \A i \in DOMAIN checks : checks[i] \in CheckKind
    BY DEF EngineTypeOK, CombineOp
  <1>2. \A i \in DOMAIN checks : At(i) \in Answer
    BY <1>1, AnswerType
  <1>3. circuit_breaker # None => run_check(w, circuit_breaker, x) \in Answer
    BY AnswerType DEF EngineTypeOK, CheckKind
  <1>4. D = {i \in DOMAIN checks : At(i) # IF op = "All" THEN "pass" ELSE "fail"}
    BY DEF Deciders
  <1>5. D # {} => first \in D /\ \A j \in D : first <= j
    <2>1. D \subseteq Nat
      BY <1>1, <1>4
    <2> QED BY <2>1, HasFirst
  <1>6. Combine(w, x, y) = IF D # {} THEN At(first)
                           ELSE IF op = "All" THEN "pass" ELSE "fail"
    BY DEF Combine
  <1>7. evaluate(w, x, y) = IF SlotPasses(w, x) THEN Combine(w, x, y)
                            ELSE run_check(w, circuit_breaker, x)
    BY DEF evaluate, evaluate_inner, SlotPasses
  <1>8. SlotPasses(w, x) \/ run_check(w, circuit_breaker, x) \in {"fail", "trap"}
    BY <1>3 DEF SlotPasses, Answer
  <1> HIDE DEF At, D
  <1>9. Combine(w, x, y) \in Answer
    BY <1>2, <1>4, <1>5, <1>6 DEF Answer
  <1>10. op = "All" => (Combine(w, x, y) = "pass" <=> \A i \in DOMAIN checks : At(i) = "pass")
    BY <1>4, <1>5, <1>6
  <1>11. op = "Any" => (Combine(w, x, y) = "fail" <=> \A i \in DOMAIN checks : At(i) = "fail")
    BY <1>4, <1>5, <1>6
  <1>12. ASSUME op = "Any"
         PROVE  Combine(w, x, y) = "pass" <=>
                  \E i \in DOMAIN checks :
                    At(i) = "pass" /\ \A j \in 1..(i - 1) : At(j) = "fail"
    <2>1. D = {i \in DOMAIN checks : At(i) # "fail"}
      BY <1>4, <1>12
    <2>2. ASSUME Combine(w, x, y) = "pass"
          PROVE  /\ first \in DOMAIN checks
                 /\ At(first) = "pass"
                 /\ \A j \in 1..(first - 1) : At(j) = "fail"
      <3>1. D # {} /\ At(first) = "pass"
        BY <2>2, <1>6, <1>12
      <3>2. first \in DOMAIN checks /\ \A j \in D : first <= j
        BY <3>1, <1>5, <2>1
      <3>3. ASSUME NEW j \in 1..(first - 1) PROVE At(j) = "fail"
        <4>1. j \in DOMAIN checks /\ ~(first <= j)
          BY <3>2, <1>1
        <4> QED BY <4>1, <3>2, <2>1
      <3> QED BY <3>1, <3>2, <3>3
    <2>3. ASSUME NEW i \in DOMAIN checks, At(i) = "pass",
                 \A j \in 1..(i - 1) : At(j) = "fail"
          PROVE  Combine(w, x, y) = "pass"
      <3>1. i \in D
        BY <2>1, <2>3
      <3>2. first \in D /\ first <= i /\ first \in 1..Len(checks) /\ At(first) # "fail"
        BY <3>1, <1>5, <2>1, <1>1
      <3>3. first = i
        BY <3>2, <2>3, <1>1
      <3> QED BY <3>1, <3>3, <2>3, <1>6
    <2> QED BY <2>2, <2>3
  <1> QED BY <1>7, <1>8, <1>9, <1>10, <1>11, <1>12 DEF At, Answer

-----------------------------------------------------------------------------
\* The type invariant is inductive: no operation leaves the list longer than
\* MAX_CHECKS or with an entry that is not a registered check.
LEMMA EngineInitTypeOK == EngineInit => EngineTypeOK
  <1>1. 0 \in 0..MaxLedger /\ 0 <= MaxChecks
    BY EngineAssumption
  <1>2. <<>> \in Seq(CheckKind) /\ Len(<<>>) = 0
    OBVIOUS
  <1> QED BY <1>1, <1>2, EngineAssumption DEF EngineInit, EngineTypeOK

\* What an operation on the list makes of it.
LEMMA ListOperations ==
  ASSUME EngineTypeOK
  PROVE  /\ \A a \in Account, c \in CheckKind :
              add_check(a, c) =>
                /\ checks' \in Seq(CheckKind)
                /\ Len(checks') = Len(checks) + 1
                /\ Len(checks') <= MaxChecks
                /\ \A k \in DOMAIN checks : checks'[k] = checks[k]
                /\ checks'[Len(checks')] = c
         /\ \A a \in Account : \A i \in DOMAIN checks :
              remove_check(a, i) =>
                /\ checks' \in Seq(CheckKind)
                /\ Len(checks') = Len(checks) - 1
                /\ \A k \in DOMAIN checks' : checks'[k] = checks[IF k < i THEN k ELSE k + 1]
         /\ \A a \in Account : \A i, j \in DOMAIN checks :
              swap_checks(a, i, j) =>
                /\ checks' \in Seq(CheckKind)
                /\ Len(checks') = Len(checks)
                /\ checks'[i] = checks[j] /\ checks'[j] = checks[i]
                /\ \A k \in DOMAIN checks \ {i, j} : checks'[k] = checks[k]
  <1> USE DEF EngineTypeOK, SetChecks
  <1>1. Len(checks) \in Nat /\ DOMAIN checks = 1..Len(checks)
    OBVIOUS
  <1>2. ASSUME NEW a \in Account, NEW c \in CheckKind, add_check(a, c)
        PROVE  /\ checks' \in Seq(CheckKind)
               /\ Len(checks') = Len(checks) + 1
               /\ Len(checks') <= MaxChecks
               /\ \A k \in DOMAIN checks : checks'[k] = checks[k]
               /\ checks'[Len(checks')] = c
    BY <1>1, <1>2, EngineAssumption DEF add_check
  <1>3. ASSUME NEW a \in Account, NEW i \in DOMAIN checks, remove_check(a, i)
        PROVE  /\ checks' \in Seq(CheckKind)
               /\ Len(checks') = Len(checks) - 1
               /\ \A k \in DOMAIN checks' : checks'[k] = checks[IF k < i THEN k ELSE k + 1]
    <2> DEFINE n == Len(checks) - 1
    <2>1. n \in Nat
      BY <1>1, <1>3
    <2>2. checks' = [k \in 1..n |-> checks[IF k < i THEN k ELSE k + 1]]
      BY <1>3 DEF remove_check
    <2>3. \A k \in 1..n : checks[IF k < i THEN k ELSE k + 1] \in CheckKind
      BY <1>1, <2>1
    <2>4. checks' \in [1..n -> CheckKind]
      BY <2>2, <2>3
    <2>5. checks' \in Seq(CheckKind) /\ Len(checks') = n
      BY <2>1, <2>4
    <2> QED BY <2>2, <2>4, <2>5
  <1>4. ASSUME NEW a \in Account, NEW i \in DOMAIN checks, NEW j \in DOMAIN checks,
               swap_checks(a, i, j)
        PROVE  /\ checks' \in Seq(CheckKind)
               /\ Len(checks') = Len(checks)
               /\ checks'[i] = checks[j] /\ checks'[j] = checks[i]
               /\ \A k \in DOMAIN checks \ {i, j} : checks'[k] = checks[k]
    <2>1. checks' = [checks EXCEPT ![i] = checks[j], ![j] = checks[i]] /\ i # j
      BY <1>4 DEF swap_checks
    <2>2. checks \in [1..Len(checks) -> CheckKind]
      OBVIOUS
    <2>3. checks' \in [1..Len(checks) -> CheckKind]
      BY <2>1, <2>2
    <2>4. checks' \in Seq(CheckKind) /\ Len(checks') = Len(checks)
      BY <1>1, <2>3
    <2> QED BY <1>1, <2>1, <2>2, <2>4
  <1> QED BY <1>2, <1>3, <1>4

LEMMA EngineNextTypeOK == EngineTypeOK /\ [EngineNext]_engineVars => EngineTypeOK'
  <1> SUFFICES ASSUME EngineTypeOK, [EngineNext]_engineVars PROVE EngineTypeOK'
    OBVIOUS
  <1> USE DEF EngineTypeOK
  <1>1. CASE CloseLedger
    BY <1>1, EngineAssumption DEF CloseLedger, policy
  <1>2. ASSUME NEW a \in Account, NEW o \in CombineOp, NEW b \in CircuitBreaker \cup {None},
               initialize(a, o, b)
        PROVE  EngineTypeOK'
    <2>1. <<>> \in Seq(CheckKind) /\ Len(<<>>) = 0 /\ 0 <= MaxChecks
      BY EngineAssumption
    <2>2. o # None
      BY EngineAssumption DEF CombineOp
    <2> QED BY <1>2, <2>1, <2>2, EngineAssumption DEF initialize
  <1>3. ASSUME NEW a \in Account, NEW b \in CircuitBreaker, set_circuit_breaker(a, b)
        PROVE  EngineTypeOK'
    BY <1>3 DEF set_circuit_breaker
  <1>4. ASSUME NEW a \in Account, NEW h \in Wasm, NEW d \in 0..MaxDelay,
               propose_upgrade(a, h, d)
        PROVE  EngineTypeOK'
    <2>1. ledger + d \in 0..(MaxLedger + MaxDelay)
      BY EngineAssumption
    <2>2. pendingUpgrade' \in UpgradeState
      BY <1>4, <2>1 DEF propose_upgrade, UpgradeState
    <2> QED BY <1>4, <2>2 DEF propose_upgrade, policy
  <1>5. ASSUME NEW a \in Account, commit_upgrade(a)
        PROVE  EngineTypeOK'
    BY <1>5 DEF commit_upgrade, policy, UpgradeState
  <1>6. ASSUME NEW a \in Account, cancel_upgrade(a)
        PROVE  EngineTypeOK'
    BY <1>6 DEF cancel_upgrade, policy
  <1>7. ASSUME NEW a \in Account, NEW c \in CheckKind, add_check(a, c)
        PROVE  EngineTypeOK'
    BY <1>7, ListOperations DEF add_check, SetChecks
  <1>8. ASSUME NEW a \in Account, NEW i \in DOMAIN checks, remove_check(a, i)
        PROVE  EngineTypeOK'
    <2>1. checks' \in Seq(CheckKind) /\ Len(checks') = Len(checks) - 1
      BY <1>8, ListOperations
    <2>2. Len(checks') <= MaxChecks
      BY <2>1, EngineAssumption
    <2> QED BY <1>8, <2>1, <2>2 DEF remove_check, SetChecks
  <1>9. ASSUME NEW a \in Account, NEW i \in DOMAIN checks, NEW j \in DOMAIN checks,
               swap_checks(a, i, j)
        PROVE  EngineTypeOK'
    BY <1>9, ListOperations DEF swap_checks, SetChecks
  <1>10. ASSUME NEW a \in Account, clear_checks(a)
         PROVE  EngineTypeOK'
    <2>1. checks' = <<>> /\ <<>> \in Seq(CheckKind) /\ Len(<<>>) = 0 /\ 0 <= MaxChecks
      BY <1>10, EngineAssumption DEF clear_checks, SetChecks
    <2> QED BY <1>10, <2>1 DEF clear_checks, SetChecks
  <1>11. CASE UNCHANGED engineVars
    BY <1>11 DEF engineVars, policy
  <1> QED
    BY <1>1, <1>2, <1>3, <1>4, <1>5, <1>6, <1>7, <1>8, <1>9, <1>10, <1>11 DEF EngineNext

THEOREM EngineTypeCorrect == EngineSpec => []EngineTypeOK
  BY EngineInitTypeOK, EngineNextTypeOK, PTL DEF EngineSpec

-----------------------------------------------------------------------------
\* Whatever the primitives answer, the engine admits under All only what every
\* check passes for both parties, and under Any what one check passes for both.
LEMMA TypeOKClears == EngineTypeOK => AdmittedIsCleared
  <1> SUFFICES ASSUME EngineTypeOK, NEW w \in World, NEW x \in Address, NEW y \in Address,
                      evaluate(w, x, y) = "pass"
               PROVE  LET Clears(c) == run_check(w, c, x) = "pass" /\ run_check(w, c, y) = "pass"
                      IN  /\ circuit_breaker # None => Clears(circuit_breaker)
                          /\ op = "All" => \A i \in DOMAIN checks : Clears(checks[i])
                          /\ op = "Any" => \E i \in DOMAIN checks : Clears(checks[i])
    BY DEF AdmittedIsCleared
  <1>1. admin # None
    BY DEF evaluate
  <1>2. SlotPasses(w, x)
    <2>1. ASSUME ~SlotPasses(w, x) PROVE FALSE
      <3>1. circuit_breaker # None /\ run_check(w, circuit_breaker, x) # "pass"
        BY <2>1 DEF SlotPasses
      <3> QED BY <3>1, <1>1 DEF evaluate, evaluate_inner
    <2> QED BY <2>1
  <1>3. circuit_breaker # None => run_check(w, circuit_breaker, y) = "pass"
    BY <1>2, BreakerAssumption DEF SlotPasses, run_check, EngineTypeOK
  <1>4. \A c : OnBoth(w, c, x, y) = "pass" =>
                 run_check(w, c, x) = "pass" /\ run_check(w, c, y) = "pass"
    BY DEF OnBoth
  <1>5. EvaluationFacts
    BY EvaluationMeans
  <1>6. op = "All" => \A i \in DOMAIN checks : OnBoth(w, checks[i], x, y) = "pass"
    BY <1>1, <1>5 DEF EvaluationFacts
  <1>7. op = "Any" => \E i \in DOMAIN checks : OnBoth(w, checks[i], x, y) = "pass"
    BY <1>1, <1>5 DEF EvaluationFacts
  <1> QED BY <1>2, <1>3, <1>4, <1>6, <1>7 DEF SlotPasses

THEOREM AdmissionIsClearance == EngineSpec => []AdmittedIsCleared
  BY EngineTypeCorrect, TypeOKClears, PTL

-----------------------------------------------------------------------------
\* The facts about an evaluation before and after a step that leaves all of the
\* policy but its list alone.
LEMMA EvaluationStep ==
  ASSUME EngineTypeOK, EngineTypeOK', EvaluationFacts, EvaluationFacts',
         admin # None, admin' = admin, op' = op, circuit_breaker' = circuit_breaker,
         NEW w \in World, NEW x \in Address, NEW y \in Address
  PROVE  /\ evaluate(w, x, y) \in Answer /\ evaluate(w, x, y)' \in Answer
         /\ op = "All" =>
              /\ evaluate(w, x, y) = "pass" <=>
                   /\ SlotPasses(w, x)
                   /\ \A i \in DOMAIN checks : OnBoth(w, checks[i], x, y) = "pass"
              /\ evaluate(w, x, y)' = "pass" <=>
                   /\ SlotPasses(w, x)
                   /\ \A i \in DOMAIN checks' : OnBoth(w, checks'[i], x, y) = "pass"
         /\ op = "Any" =>
              /\ evaluate(w, x, y) = "pass" <=>
                   /\ SlotPasses(w, x)
                   /\ \E i \in DOMAIN checks :
                        /\ OnBoth(w, checks[i], x, y) = "pass"
                        /\ \A j \in 1..(i - 1) : OnBoth(w, checks[j], x, y) = "fail"
              /\ evaluate(w, x, y)' = "pass" <=>
                   /\ SlotPasses(w, x)
                   /\ \E i \in DOMAIN checks' :
                        /\ OnBoth(w, checks'[i], x, y) = "pass"
                        /\ \A j \in 1..(i - 1) : OnBoth(w, checks'[j], x, y) = "fail"
         /\ op = "Any" /\ SlotPasses(w, x) =>
              /\ evaluate(w, x, y) = "fail" <=>
                   \A i \in DOMAIN checks : OnBoth(w, checks[i], x, y) = "fail"
              /\ evaluate(w, x, y)' = "fail" <=>
                   \A i \in DOMAIN checks' : OnBoth(w, checks'[i], x, y) = "fail"
         /\ ~SlotPasses(w, x) => evaluate(w, x, y)' = evaluate(w, x, y)
         /\ op \in {"All", "Any"}
  <1>1. SlotPasses(w, x)' <=> SlotPasses(w, x)
    BY DEF SlotPasses
  <1>2. op \in {"All", "Any"}
    BY DEF EngineTypeOK, CombineOp
  <1> QED BY <1>1, <1>2 DEF EvaluationFacts

-----------------------------------------------------------------------------
\* What an evaluation sees before and after an operation on the list, index by
\* index: the two lists of answers, and where each of one is in the other.
LEMMA SwapKeepsTheVerdict ==
  ASSUME EngineTypeOK, EngineTypeOK', EvaluationFacts, EvaluationFacts',
         NEW a \in Account, NEW i \in DOMAIN checks, NEW j \in DOMAIN checks,
         swap_checks(a, i, j),
         NEW w \in World, NEW x \in Address, NEW y \in Address
  PROVE  \/ evaluate(w, x, y)' = evaluate(w, x, y)
         \/ evaluate(w, x, y)' = "trap"
         \/ evaluate(w, x, y) = "trap"
  <1> DEFINE Of(c) == OnBoth(w, c, x, y)
  <1>1. /\ admin # None /\ admin' = admin /\ op' = op
        /\ circuit_breaker' = circuit_breaker
    BY DEF swap_checks, SetChecks, RequireAdmin
  <1>2. /\ DOMAIN checks' = DOMAIN checks
        /\ checks'[i] = checks[j] /\ checks'[j] = checks[i]
        /\ \A k \in DOMAIN checks \ {i, j} : checks'[k] = checks[k]
    <2>1. /\ Len(checks') = Len(checks)
          /\ checks'[i] = checks[j] /\ checks'[j] = checks[i]
          /\ \A k \in DOMAIN checks \ {i, j} : checks'[k] = checks[k]
      BY ListOperations
    <2>2. DOMAIN checks' = 1..Len(checks') /\ DOMAIN checks = 1..Len(checks)
      BY DEF EngineTypeOK
    <2> QED BY <2>1, <2>2
  <1>3. \A answer :
          (\A k \in DOMAIN checks : Of(checks[k]) = answer)
            <=> (\A k \in DOMAIN checks' : Of(checks'[k]) = answer)
    <2> HIDE DEF Of
    <2> QED BY <1>2
  <1>4. /\ evaluate(w, x, y) \in Answer /\ evaluate(w, x, y)' \in Answer
        /\ ~SlotPasses(w, x) => evaluate(w, x, y)' = evaluate(w, x, y)
        /\ op \in {"All", "Any"}
    BY <1>1, EvaluationStep
  <1>5. CASE op = "All"
    <2>1. evaluate(w, x, y)' = "pass" <=> evaluate(w, x, y) = "pass"
      BY <1>1, <1>3, <1>5, EvaluationStep
    <2> QED BY <1>4, <2>1 DEF Answer
  <1>6. CASE op = "Any" /\ SlotPasses(w, x)
    <2>1. evaluate(w, x, y)' = "fail" <=> evaluate(w, x, y) = "fail"
      BY <1>1, <1>3, <1>6, EvaluationStep
    <2> QED BY <1>4, <2>1 DEF Answer
  <1> QED BY <1>4, <1>5, <1>6

LEMMA SwappingStep ==
  EngineTypeOK /\ EngineTypeOK' /\ EvaluationFacts /\ EvaluationFacts' => KeepsTheVerdict
  BY SwapKeepsTheVerdict DEF KeepsTheVerdict

\* Whatever the primitives answer and however long the list, reordering it turns
\* no refusal into an admission and no admission into a refusal.
THEOREM ReorderingIsSafe == EngineSpec => ReorderingKeepsTheVerdict
  BY EngineTypeCorrect, EvaluationMeans, SwappingStep, PTL DEF ReorderingKeepsTheVerdict

-----------------------------------------------------------------------------
LEMMA AddIsMonotone ==
  ASSUME EngineTypeOK, EngineTypeOK', EvaluationFacts, EvaluationFacts',
         NEW a \in Account, NEW c \in CheckKind, add_check(a, c),
         NEW w \in World, NEW x \in Address, NEW y \in Address
  PROVE  IF op = "All" THEN evaluate(w, x, y)' = "pass" => evaluate(w, x, y) = "pass"
         ELSE evaluate(w, x, y) = "pass" => evaluate(w, x, y)' = "pass"
  <1> DEFINE Of(d) == OnBoth(w, d, x, y)
  <1>1. /\ admin # None /\ admin' = admin /\ op' = op
        /\ circuit_breaker' = circuit_breaker
    BY DEF add_check, SetChecks, RequireAdmin
  <1>2. /\ DOMAIN checks = 1..Len(checks) /\ Len(checks) \in Nat
        /\ DOMAIN checks \subseteq DOMAIN checks'
        /\ \A k \in DOMAIN checks : checks'[k] = checks[k]
    <2>1. Len(checks') = Len(checks) + 1 /\ \A k \in DOMAIN checks : checks'[k] = checks[k]
      BY ListOperations
    <2>2. DOMAIN checks' = 1..Len(checks') /\ DOMAIN checks = 1..Len(checks)
          /\ Len(checks) \in Nat
      BY DEF EngineTypeOK
    <2> QED BY <2>1, <2>2
  <1>3. op \in {"All", "Any"}
    BY <1>1, EvaluationStep
  <1>4. CASE op = "All"
    <2>1. (\A k \in DOMAIN checks' : Of(checks'[k]) = "pass")
            => \A k \in DOMAIN checks : Of(checks[k]) = "pass"
      <3> HIDE DEF Of
      <3> QED BY <1>2
    <2> QED BY <1>1, <1>4, <2>1, EvaluationStep
  <1>5. CASE op = "Any"
    <2>1. ASSUME NEW k \in DOMAIN checks, Of(checks[k]) = "pass",
                 \A m \in 1..(k - 1) : Of(checks[m]) = "fail"
          PROVE  /\ k \in DOMAIN checks' /\ Of(checks'[k]) = "pass"
                 /\ \A m \in 1..(k - 1) : Of(checks'[m]) = "fail"
      <3> HIDE DEF Of
      <3>1. \A m \in 1..(k - 1) : m \in DOMAIN checks
        BY <1>2
      <3> QED BY <1>2, <2>1, <3>1
    <2>2. evaluate(w, x, y) = "pass" =>
            /\ SlotPasses(w, x)
            /\ \E k \in DOMAIN checks :
                 Of(checks[k]) = "pass" /\ \A m \in 1..(k - 1) : Of(checks[m]) = "fail"
      BY <1>1, <1>5, EvaluationStep
    <2>3. (/\ SlotPasses(w, x)
           /\ \E k \in DOMAIN checks' :
                Of(checks'[k]) = "pass" /\ \A m \in 1..(k - 1) : Of(checks'[m]) = "fail")
            => evaluate(w, x, y)' = "pass"
      BY <1>1, <1>5, EvaluationStep
    <2> HIDE DEF Of
    <2> QED BY <1>5, <2>1, <2>2, <2>3
  <1> QED BY <1>3, <1>4, <1>5

\* A list whose answers all come from the list before: what removing does.
LEMMA FewerIsMonotone ==
  ASSUME EngineTypeOK, EngineTypeOK', EvaluationFacts, EvaluationFacts',
         admin # None, admin' = admin, op' = op, circuit_breaker' = circuit_breaker,
         \A k \in DOMAIN checks' : \E m \in DOMAIN checks : checks'[k] = checks[m],
         NEW w \in World, NEW x \in Address, NEW y \in Address
  PROVE  IF op = "All" THEN evaluate(w, x, y) = "pass" => evaluate(w, x, y)' = "pass"
         ELSE evaluate(w, x, y)' = "pass" => evaluate(w, x, y) # "fail"
  <1> DEFINE Of(d) == OnBoth(w, d, x, y)
  <1>1. \A answer :
          (\A m \in DOMAIN checks : Of(checks[m]) = answer)
            => \A k \in DOMAIN checks' : Of(checks'[k]) = answer
    <2> HIDE DEF Of
    <2> QED OBVIOUS
  <1>2. op \in {"All", "Any"}
    BY EvaluationStep
  <1>3. CASE op = "All"
    BY <1>1, <1>3, EvaluationStep
  <1>4. CASE op = "Any"
    <2>1. ASSUME evaluate(w, x, y)' = "pass", evaluate(w, x, y) = "fail"
          PROVE  FALSE
      <3>1. SlotPasses(w, x)
        BY <2>1, EvaluationStep
      <3>2. \A m \in DOMAIN checks : Of(checks[m]) = "fail"
        BY <1>4, <2>1, <3>1, EvaluationStep
      <3>3. evaluate(w, x, y)' = "fail"
        BY <1>1, <1>4, <3>1, <3>2, EvaluationStep
      <3> QED BY <2>1, <3>3
    <2> QED BY <1>4, <2>1
  <1> QED BY <1>2, <1>3, <1>4

LEMMA ListStep ==
  EngineTypeOK /\ EngineTypeOK' /\ EvaluationFacts /\ EvaluationFacts'
    => AddingIsMonotone /\ RemovingIsMonotone
  <1> SUFFICES ASSUME EngineTypeOK, EngineTypeOK', EvaluationFacts, EvaluationFacts'
               PROVE  AddingIsMonotone /\ RemovingIsMonotone
    OBVIOUS
  <1>1. AddingIsMonotone
    BY AddIsMonotone DEF AddingIsMonotone
  <1>2. ASSUME NEW a \in Account,
               clear_checks(a) \/ \E i \in DOMAIN checks : remove_check(a, i)
        PROVE  /\ admin # None /\ admin' = admin /\ op' = op
               /\ circuit_breaker' = circuit_breaker
               /\ \A k \in DOMAIN checks' : \E m \in DOMAIN checks : checks'[k] = checks[m]
    <2>1. /\ admin # None /\ admin' = admin /\ op' = op
          /\ circuit_breaker' = circuit_breaker
      BY <1>2 DEF clear_checks, remove_check, SetChecks, RequireAdmin
    <2>2. CASE clear_checks(a)
      <3>1. checks' = <<>>
        BY <2>2 DEF clear_checks, SetChecks
      <3>2. DOMAIN checks' = {}
        BY <3>1
      <3> QED BY <2>1, <3>2
    <2>3. ASSUME NEW i \in DOMAIN checks, remove_check(a, i),
                 NEW k \in DOMAIN checks'
          PROVE  \E m \in DOMAIN checks : checks'[k] = checks[m]
      <3>1. /\ Len(checks') = Len(checks) - 1
            /\ checks'[k] = checks[IF k < i THEN k ELSE k + 1]
        BY <2>3, ListOperations
      <3>2. DOMAIN checks' = 1..Len(checks') /\ DOMAIN checks = 1..Len(checks)
            /\ Len(checks) \in Nat
        BY DEF EngineTypeOK
      <3>3. (IF k < i THEN k ELSE k + 1) \in DOMAIN checks
        BY <3>1, <3>2
      <3> QED BY <3>1, <3>3
    <2> QED BY <1>2, <2>1, <2>2, <2>3
  <1>3. RemovingIsMonotone
    BY <1>2, FewerIsMonotone DEF RemovingIsMonotone
  <1> QED BY <1>1, <1>3

\* Whatever the primitives answer and however long the list, adding a check
\* under All and removing one under Any admit nothing that was refused, and the
\* opposite operations refuse nothing that was admitted.
THEOREM ListIsMonotone == EngineSpec => ChecksAreMonotone
  BY EngineTypeCorrect, EvaluationMeans, ListStep, PTL DEF ChecksAreMonotone

-----------------------------------------------------------------------------
(* The aggregator. *)

Registered == {denylist_gate, jurisdiction_flag, aggBreaker}

LEMMA AggregatorInitType == Aggregator!Init => Aggregator!TypeOK
  BY Zenon DEF Aggregator!Init, Aggregator!TypeOK

\* Every setter stores a contract of the kind its slot is for.
LEMMA AggregatorStepType ==
  ASSUME Aggregator!TypeOK, Aggregator!Next
  PROVE  Aggregator!TypeOK'
  <1>1. aggPaused' \in BOOLEAN
    BY Zenon
       DEF Aggregator!TypeOK, Aggregator!Next, Aggregator!initialize, Aggregator!pause,
           Aggregator!unpause, Aggregator!upgrade, Aggregator!set_admin,
           Aggregator!set_denylist_gate, Aggregator!set_jurisdiction_flag,
           Aggregator!clear_denylist_gate, Aggregator!clear_jurisdiction_flag,
           Aggregator!set_circuit_breaker
  <1>2. /\ aggAdmin' \in Account \cup {None}
        /\ denylist_gate' \in Denylist \cup {None}
        /\ jurisdiction_flag' \in Jurisdiction \cup {None}
        /\ aggBreaker' \in CircuitBreaker \cup {None}
        /\ aggWasm' \in Wasm
    BY DEF Aggregator!TypeOK, Aggregator!Next, Aggregator!initialize, Aggregator!pause,
           Aggregator!unpause, Aggregator!upgrade, Aggregator!set_admin,
           Aggregator!set_denylist_gate, Aggregator!set_jurisdiction_flag,
           Aggregator!clear_denylist_gate, Aggregator!clear_jurisdiction_flag,
           Aggregator!set_circuit_breaker, Aggregator!registered
  <1> QED BY <1>1, <1>2 DEF Aggregator!TypeOK

LEMMA InitTypeOK == Init => TypeOK
  BY AggregatorInitType, EngineInitTypeOK DEF Init, TypeOK

LEMMA NextTypeOK == TypeOK /\ [Next]_vars => TypeOK'
  <1> SUFFICES ASSUME TypeOK, [Next]_vars PROVE TypeOK'
    OBVIOUS
  <1>1. ASSUME UNCHANGED aggVars PROVE Aggregator!TypeOK'
    BY <1>1 DEF TypeOK, Aggregator!TypeOK, aggVars
  <1>2. ASSUME [EngineNext]_engineVars PROVE EngineTypeOK'
    BY <1>2, EngineNextTypeOK DEF TypeOK
  <1> QED BY <1>1, <1>2, AggregatorStepType DEF TypeOK, Next, vars

-----------------------------------------------------------------------------
\* Engine and aggregator call a check in the same way.
LEMMA SameRunCheck ==
  ASSUME NEW w, NEW c, NEW x
  PROVE  Aggregator!run_check(w, c, x) = run_check(w, c, x)
  BY DEF Aggregator!run_check, run_check

\* A slot of the aggregator answers, also when nothing is registered in it.
LEMMA SlotAnswers ==
  ASSUME TypeOK, NEW w \in World, NEW x \in Address
  PROVE  /\ Aggregator!Asked(w, denylist_gate, x) \in Answer
         /\ Aggregator!Asked(w, jurisdiction_flag, x) \in Answer
         /\ Aggregator!Asked(w, aggBreaker, x) \in Answer
         /\ Aggregator!AllPassed(w, x) \in Answer
  <1>1. {denylist_gate, jurisdiction_flag, aggBreaker} \subseteq CheckKind \cup {None}
    BY DEF TypeOK, Aggregator!TypeOK, CheckKind
  <1>2. ASSUME NEW c \in CheckKind \cup {None} PROVE Aggregator!Asked(w, c, x) \in Answer
    <2>1. c # None => run_check(w, c, x) \in Answer
      BY AnswerType
    <2> QED BY <2>1, SameRunCheck DEF Aggregator!Asked, Answer
  <1> QED BY <1>1, <1>2 DEF Aggregator!AllPassed

\* What check_address answers, by the breaker's answer and the two checks'.
LEMMA CheckAddressMeans ==
  ASSUME TypeOK, NEW w \in World, NEW x \in Address
  PROVE  LET breaker == Aggregator!Asked(w, aggBreaker, x)
             both == Aggregator!AllPassed(w, x)
             answer == Aggregator!check_address(w, x)
         IN  /\ answer \in {"pass", "fail"} <=>
                  breaker = "fail" \/ (breaker = "pass" /\ Registered # {None} /\ both # "trap")
             /\ answer = "pass" <=>
                  breaker = "pass" /\ Registered # {None} /\ both = "pass"
  BY SlotAnswers DEF Answer, Aggregator!check_address, Registered

\* check_all and batch_check are check_address, address by address, although
\* each has a loop of its own.
LEMMA TypeOKAgrees == TypeOK => EntryPointsAgree
  <1> SUFFICES ASSUME TypeOK, NEW w \in World, NEW batch \in SUBSET Address, batch # {}
               PROVE  LET returns == \A x \in batch :
                            Aggregator!check_address(w, x) \in {"pass", "fail"}
                          one == [ok |-> returns,
                                  passed |-> {x \in batch :
                                    returns /\ Aggregator!check_address(w, x) = "pass"}]
                      IN  /\ Aggregator!check_all(w, batch) = one
                          /\ /\ \A x \in batch : Aggregator!Asked(w, aggBreaker, x) = "pass"
                             /\ {denylist_gate, jurisdiction_flag} # {None}
                             /\ Aggregator!Cardinality(batch) <= MaxBatchSize
                             => Aggregator!batch_check(w, batch) = one
    BY DEF EntryPointsAgree, Aggregator!EntryPointsAgree
  <1> DEFINE Breaker(x) == Aggregator!Asked(w, aggBreaker, x)
             Both(x) == Aggregator!AllPassed(w, x)
             Answered(x) == Aggregator!check_address(w, x)
             returns == \A x \in batch : Answered(x) \in {"pass", "fail"}
             passing == {x \in batch : returns /\ Answered(x) = "pass"}
  <1>1. \A x \in batch :
          /\ Breaker(x) \in Answer /\ Both(x) \in Answer
          /\ Answered(x) \in {"pass", "fail"} <=>
               \/ Breaker(x) = "fail"
               \/ Breaker(x) = "pass" /\ Registered # {None} /\ Both(x) # "trap"
          /\ Answered(x) = "pass" <=>
               Breaker(x) = "pass" /\ Registered # {None} /\ Both(x) = "pass"
    BY SlotAnswers, CheckAddressMeans
  <1>2. Registered = {None} => \A x \in batch : Breaker(x) = "pass"
    BY DEF Registered, Aggregator!Asked
  <1>3. Aggregator!check_all(w, batch) = [ok |-> returns, passed |-> passing]
    <2> DEFINE ok == /\ batch # {}
                     /\ \A x \in batch : Breaker(x) # "trap"
                     /\ Registered # {None}
                     /\ \A x \in batch : Breaker(x) = "fail" \/ Both(x) # "trap"
               listed == {x \in batch : Breaker(x) # "fail" /\ Both(x) = "pass"}
    <2>1. Aggregator!check_all(w, batch) = Aggregator!Batch(ok, listed)
      BY DEF Aggregator!check_all, Registered
    <2> HIDE DEF Breaker, Both, Answered
    <2>2. ok <=> returns
      BY <1>1, <1>2 DEF Answer
    <2>3. (IF ok THEN listed ELSE {}) = passing
      BY <1>1, <2>2 DEF Answer
    <2> HIDE DEF ok, listed, passing, returns
    <2> QED BY <2>1, <2>2, <2>3, Zenon DEF Aggregator!Batch
  <1>4. ASSUME \A x \in batch : Breaker(x) = "pass",
               {denylist_gate, jurisdiction_flag} # {None},
               Aggregator!Cardinality(batch) <= MaxBatchSize
        PROVE  Aggregator!batch_check(w, batch) = [ok |-> returns, passed |-> passing]
    <2> DEFINE ok == /\ batch # {}
                     /\ Aggregator!Cardinality(batch) <= MaxBatchSize
                     /\ {denylist_gate, jurisdiction_flag} # {None}
                     /\ \A x \in batch : Both(x) # "trap"
               listed == {x \in batch : Both(x) = "pass"}
    <2>1. Aggregator!batch_check(w, batch) = Aggregator!Batch(ok, listed)
      BY DEF Aggregator!batch_check
    <2>2. Registered # {None}
      BY <1>4 DEF Registered
    <2> HIDE DEF Breaker, Both, Answered
    <2>3. ok <=> returns
      BY <1>1, <1>4, <2>2
    <2>4. (IF ok THEN listed ELSE {}) = passing
      BY <1>1, <1>4, <2>2, <2>3
    <2> HIDE DEF ok, listed, passing, returns
    <2> QED BY <2>1, <2>3, <2>4, Zenon DEF Aggregator!Batch
  <1> QED BY <1>3, <1>4

-----------------------------------------------------------------------------
\* A check asked about both parties passes when it passes for each.
LEMMA OnBothPasses ==
  ASSUME NEW w, NEW c, NEW x, NEW y
  PROVE  OnBoth(w, c, x, y) = "pass" <=>
           run_check(w, c, x) = "pass" /\ run_check(w, c, y) = "pass"
  BY DEF OnBoth

\* Engine under All and aggregator ask the same of both parties.
LEMMA TypeOKSiblings == TypeOK => SiblingsAgree
  <1> SUFFICES ASSUME TypeOK, SameChecks,
                      NEW w \in World, NEW x \in Address, NEW y \in Address
               PROVE  evaluate(w, x, y) = "pass" <=>
                        /\ Aggregator!check_address(w, x) = "pass"
                        /\ Aggregator!check_address(w, y) = "pass"
    BY DEF SiblingsAgree
  <1> DEFINE Passes(c, z) == run_check(w, c, z) = "pass"
             Wanted == {denylist_gate, jurisdiction_flag} \ {None}
  <1>1. /\ admin # None /\ op = "All" /\ circuit_breaker = aggBreaker
        /\ {checks[i] : i \in DOMAIN checks} = Wanted
        /\ checks # <<>> /\ checks \in Seq(CheckKind)
    BY DEF SameChecks, TypeOK, EngineTypeOK
  <1>2. evaluate(w, x, y) = "pass" <=>
          /\ SlotPasses(w, x)
          /\ \A i \in DOMAIN checks : OnBoth(w, checks[i], x, y) = "pass"
    BY <1>1, EvaluationMeans DEF TypeOK, EvaluationFacts
  <1>3. (\A i \in DOMAIN checks : OnBoth(w, checks[i], x, y) = "pass") <=>
          \A c \in Wanted : Passes(c, x) /\ Passes(c, y)
    BY <1>1, OnBothPasses
  <1>4. Registered # {None}
    <2>1. 1 \in DOMAIN checks
      BY <1>1, EmptySeq
    <2>2. Wanted # {}
      BY <1>1, <2>1
    <2> QED BY <2>2 DEF Registered
  <1>5. ASSUME NEW z \in Address
        PROVE  Aggregator!check_address(w, z) = "pass" <=>
                 SlotPasses(w, z) /\ \A c \in Wanted : Passes(c, z)
    <2>1. Aggregator!Asked(w, aggBreaker, z) = "pass" <=> SlotPasses(w, z)
      BY <1>1, SameRunCheck DEF Aggregator!Asked, SlotPasses
    <2>2. Aggregator!AllPassed(w, z) = "pass" <=> \A c \in Wanted : Passes(c, z)
      BY SameRunCheck DEF Aggregator!AllPassed, Aggregator!Asked
    <2> QED BY <1>4, <2>1, <2>2, CheckAddressMeans
  <1>6. SlotPasses(w, x) <=> SlotPasses(w, y)
    BY <1>1, BreakerAssumption DEF SlotPasses, run_check, TypeOK, EngineTypeOK
  <1> QED BY <1>2, <1>3, <1>5, <1>6

-----------------------------------------------------------------------------
\* Next to an aggregator the engine still behaves as it does alone, so that all
\* of the above holds of it there.
THEOREM EngineRunsAlone == Spec => EngineSpec
  <1>1. Init => EngineInit
    BY DEF Init
  <1>2. [Next]_vars => [EngineNext]_engineVars
    BY DEF Next, vars
  <1> QED BY <1>1, <1>2, PTL DEF Spec, EngineSpec

\* And so does the aggregator: neither contract calls or configures the other.
THEOREM AggregatorRunsAlone == Spec => Aggregator!Spec
  <1>1. Init => Aggregator!Init
    BY DEF Init
  <1>2. [Next]_vars => [Aggregator!Next]_(Aggregator!vars)
    BY DEF Next, vars, aggVars, Aggregator!vars, Aggregator!registered
  <1> QED BY <1>1, <1>2, PTL DEF Spec, Aggregator!Spec

\* Both contracts keep the shape of their storage.
THEOREM PoliciesTypeCorrect == Spec => []TypeOK
  <1> QED BY InitTypeOK, NextTypeOK, PTL DEF Spec

\* The aggregator's three loops give one verdict, whatever is registered and
\* however the registered contracts answer, fail or trap.
THEOREM EntryPointsAreOne == Spec => []EntryPointsAgree
  <1> QED BY PoliciesTypeCorrect, TypeOKAgrees, PTL

\* Given the same checks, engine and aggregator admit the same transfers.
THEOREM SiblingsAreOne == Spec => []SiblingsAgree
  <1> QED BY PoliciesTypeCorrect, TypeOKSiblings, PTL
=============================================================================

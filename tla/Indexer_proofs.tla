----------------------------- MODULE Indexer_proofs -----------------------------
(***************************************************************************)
(* Proofs about the indexer's poll loop and database, for every value of   *)
(* the constants: any histories, page sizes and bounds on the faults.      *)
(*                                                                         *)
(* The inductive invariant says what a database holds in the middle of a   *)
(* poll: the events of the pages already applied (Done), with the tables   *)
(* as the last of these left them, over what the checkpoint stands for.    *)
(* What keeps it is stated first about databases alone, one lemma for a    *)
(* page, one for a poll cut off and one for a checkpoint; the steps of the *)
(* process are then instances of these.                                    *)
(***************************************************************************)
EXTENDS Indexer, FiniteSetTheorems, WellFoundedInduction, TLAPS

-----------------------------------------------------------------------------
(* What a database holds of a history c. *)

Ids(c) == 1..Len(c)
Cell == Table \X Address
Shown == Code \cup {Absent, Present}

Writes(c, i, k) == k = <<TableOf(c[i].kind), c[i].addr>>
Silent(c, W, k) == \A i \in W : ~Writes(c, i, k)

\* The last of the events W that writes the cell k leaves v there.
Leaves(c, W, k, v) ==
  \E i \in W : /\ Writes(c, i, k) /\ v = RowLeft(c[i])
               /\ \A j \in W : Writes(c, j, k) => j <= i

Covered(c, lo, hi) == {i \in Ids(c) : c[i].ledger \in lo..hi}
Unindexed(c, db, i) == db.last <= 0 \/ c[i].ledger > db.last

\* The cell k is what the events up to the checkpoint left, or some event past
\* it was stored that writes k.
Mirrors(c, db, k) ==
  \/ Leaves(c, Covered(c, db.origin, db.last), k, db.view[k])
  \/ (Silent(c, Covered(c, db.origin, db.last), k) /\ db.view[k] = Absent)
  \/ \E j \in Ids(c) : /\ db.rows[j] > 0 /\ Writes(c, j, k)
                       /\ j \notin Covered(c, db.origin, db.last)

\* The database db fits the history c when the poll under way has applied the
\* events D, n polls were interrupted and the events A abandoned.
RowsFit(c, db, D, n) ==
  \A i \in Ids(c) : /\ db.rows[i] <= n + 1
                    /\ i \notin D /\ Unindexed(c, db, i) => db.rows[i] <= n
                    /\ i \in D => db.rows[i] > 0
ClaimsFit(c, db, A) ==
  \A i \in Covered(c, db.origin, db.last) : db.rows[i] > 0 \/ i \in A

ViewFits(c, db, D, A) ==
  A = {} =>
    \A k \in Cell : \/ Leaves(c, D, k, db.view[k])
                    \/ Silent(c, D, k) /\ Mirrors(c, db, k)
Fits(c, db, D, n, A) ==
  /\ RowsFit(c, db, D, n) /\ ClaimsFit(c, db, A) /\ ViewFits(c, db, D, A)
  /\ db.last >= 0 => db.origin <= db.last

-----------------------------------------------------------------------------
(* The inductive invariant. *)

\* The events the poll under way has applied: nothing before its first page, all
\* of its range once it has no page left, and up to the cursor in between.
Done ==
  IF pc \notin {"page", "save"} THEN {}
  ELSE {i \in Covered(setup.chain, poll.start, poll.horizon) :
          /\ setup.chain[i].ledger <= poll.target
          /\ i <= poll.cursor \/ (pc = "save" /\ poll.cursor = 0)}

PollFits ==
  /\ pc \in {"earliest", "latest", "page", "save"} => poll.last = mem.last
  /\ pc = "earliest" => mem.last = 0
  /\ pc = "latest" => poll.cursor = 0 /\ poll.horizon = 0
  /\ pc \in {"latest", "page", "save"} =>
       /\ poll.start >= 1
       /\ mem.last > 0 => poll.start = mem.last + 1
  /\ pc \in {"page", "save"} => poll.start <= poll.target
  /\ pc \in {"page", "save"} /\ poll.cursor > 0 =>
       setup.chain[poll.cursor].ledger <= poll.horizon
  /\ pc = "page" /\ poll.horizon > 0 => poll.cursor > 0
  /\ pc = "save" =>
       \A i \in Covered(setup.chain, poll.start, poll.horizon) :
         setup.chain[i].ledger <= poll.target => i \in Done \/ i \in abandoned

DiskFits ==
  /\ pc = "down" => mem = EmptyDb
  /\ pc = "down" => disk = Unreadable \/ disk.last >= 0
  /\ pc # "down" => mem.last >= 0 /\ disk \in {mem, EmptyDb, Unreadable}

MemFits == Fits(setup.chain, mem, Done, interrupted, abandoned)
FileFits == pc = "down" => Fits(setup.chain, disk, {}, interrupted, abandoned)

IInv == TypeOK /\ PollFits /\ DiskFits /\ MemFits /\ FileFits

-----------------------------------------------------------------------------
(* Databases and histories. *)

History(c) ==
  /\ Len(c) \in Nat
  /\ \A i \in Ids(c) : c[i].ledger \in Nat /\ c[i].ledger > 0
  /\ \A i, j \in Ids(c) : i < j => c[i].ledger <= c[j].ledger

Numbers(c, db) ==
  /\ db.last \in Int /\ db.origin \in Nat
  /\ \A i \in Ids(c) : db.rows[i] \in Nat

\* A database that is as new fits any history.
LEMMA NewFits ==
  ASSUME NEW c, History(c), NEW db, NEW n \in Nat, NEW A,
         db.last \in {0, -1}, db.origin = 0, \A i \in Ids(c) : db.rows[i] = 0,
         \A k \in Cell : db.view[k] = Absent
  PROVE  Fits(c, db, {}, n, A)
  <1>1. Covered(c, db.origin, db.last) = {}
    BY DEF Covered, History
  <1>2. RowsFit(c, db, {}, n)
    BY DEF RowsFit
  <1>3. ClaimsFit(c, db, A)
    BY <1>1 DEF ClaimsFit
  <1>4. ViewFits(c, db, {}, A)
    BY <1>1 DEF ViewFits, Mirrors, Silent
  <1> QED BY <1>2, <1>3, <1>4 DEF Fits

\* One more event may be abandoned at any time.
LEMMA AbandoningFits ==
  ASSUME NEW c, NEW db, NEW D, NEW n, NEW A, NEW B, Fits(c, db, D, n, A), A \subseteq B
  PROVE  Fits(c, db, D, n, B)
  BY DEF Fits, ClaimsFit, ViewFits

\* What the events of a page leave, on top of what the events before them left.
LEMMA LeavesMore ==
  ASSUME NEW c, NEW k, NEW D, NEW E, NEW v, NEW w, D \subseteq Nat, E \subseteq Nat,
         \A i \in E : \A j \in D : j < i
  PROVE  /\ Leaves(c, E, k, v) => Leaves(c, D \cup E, k, v)
         /\ Silent(c, E, k) /\ Leaves(c, D, k, v) => Leaves(c, D \cup E, k, v)
         /\ Silent(c, E, k) /\ Silent(c, D, k) => Silent(c, D \cup E, k)
  <1>1. ASSUME Leaves(c, E, k, v) PROVE Leaves(c, D \cup E, k, v)
    <2>1. PICK i \in E : /\ Writes(c, i, k) /\ v = RowLeft(c[i])
                         /\ \A j \in E : Writes(c, j, k) => j <= i
      BY <1>1 DEF Leaves
    <2>2. \A j \in D : j <= i
      OBVIOUS
    <2> QED BY <2>1, <2>2 DEF Leaves
  <1>2. ASSUME Silent(c, E, k), Leaves(c, D, k, v) PROVE Leaves(c, D \cup E, k, v)
    BY <1>2 DEF Leaves, Silent
  <1>3. ASSUME Silent(c, E, k), Silent(c, D, k) PROVE Silent(c, D \cup E, k)
    BY <1>3 DEF Silent
  <1> QED BY <1>1, <1>2, <1>3

\* A page is applied.
LEMMA PageFits ==
  ASSUME NEW c, History(c), NEW db, Numbers(c, db), NEW D \in SUBSET Ids(c), NEW n \in Nat,
         NEW A, Fits(c, db, D, n, A),
         NEW E \in SUBSET Ids(c), \A i \in E : Unindexed(c, db, i) /\ \A j \in D : j < i,
         NEW new, new.last = db.last, new.origin = db.origin,
         \A i \in Ids(c) : new.rows[i] = IF i \in E THEN db.rows[i] + 1 ELSE db.rows[i],
         \A k \in Cell : \/ Leaves(c, E, k, new.view[k])
                         \/ Silent(c, E, k) /\ new.view[k] = db.view[k]
  PROVE  Fits(c, new, D \cup E, n, A)
  <1>1. \A i \in E : i \notin D
    BY DEF Ids, History
  <1>2. RowsFit(c, new, D \cup E, n)
    <2> SUFFICES ASSUME NEW i \in Ids(c)
                 PROVE  /\ new.rows[i] <= n + 1
                        /\ i \notin D \cup E /\ Unindexed(c, new, i) => new.rows[i] <= n
                        /\ i \in D \cup E => new.rows[i] > 0
      BY DEF RowsFit
    <2>1. /\ db.rows[i] \in Nat /\ db.rows[i] <= n + 1
          /\ i \notin D /\ Unindexed(c, db, i) => db.rows[i] <= n
          /\ i \in D => db.rows[i] > 0
      BY DEF Fits, RowsFit, Numbers
    <2>2. Unindexed(c, new, i) <=> Unindexed(c, db, i)
      BY DEF Unindexed
    <2> QED BY <1>1, <2>1, <2>2
  <1>3. \A i \in Ids(c) : db.rows[i] > 0 => new.rows[i] > 0
    BY DEF Numbers
  <1>4. Covered(c, new.origin, new.last) = Covered(c, db.origin, db.last)
    OBVIOUS
  <1>5. ClaimsFit(c, new, A)
    BY <1>3, <1>4 DEF Fits, ClaimsFit, Covered
  <1>6. ASSUME A = {}, NEW k \in Cell
        PROVE  \/ Leaves(c, D \cup E, k, new.view[k])
               \/ Silent(c, D \cup E, k) /\ Mirrors(c, new, k)
    <2>1. D \subseteq Nat /\ E \subseteq Nat
      BY DEF Ids, History
    <2>2. CASE Leaves(c, E, k, new.view[k])
      BY <2>1, <2>2, LeavesMore
    <2>3. CASE Silent(c, E, k) /\ new.view[k] = db.view[k]
      <3>1. CASE Leaves(c, D, k, db.view[k])
        BY <2>1, <2>3, <3>1, LeavesMore
      <3>2. CASE Silent(c, D, k) /\ Mirrors(c, db, k)
        <4>1. Mirrors(c, new, k)
          BY <1>3, <1>4, <2>3, <3>2 DEF Mirrors
        <4> QED BY <2>1, <2>3, <3>2, <4>1, LeavesMore
      <3> QED BY <1>6, <3>1, <3>2 DEF Fits, ViewFits
    <2> QED BY <2>2, <2>3
  <1>7. ViewFits(c, new, D \cup E, A)
    BY <1>6 DEF ViewFits
  <1> QED BY <1>2, <1>5, <1>7 DEF Fits

\* A poll is cut off: what it had applied is now stored past the checkpoint.
LEMMA CutOffFits ==
  ASSUME NEW c, History(c), NEW db, Numbers(c, db), NEW D \in SUBSET Ids(c), NEW n \in Nat,
         NEW A, Fits(c, db, D, n, A), \A i \in D : i \notin Covered(c, db.origin, db.last),
         NEW m \in Nat, (m = n /\ D = {}) \/ m = n + 1
  PROVE  Fits(c, db, {}, m, A)
  <1>1. RowsFit(c, db, {}, m)
    BY DEF Fits, RowsFit, Numbers
  <1>2. ASSUME A = {}, NEW k \in Cell PROVE Silent(c, {}, k) /\ Mirrors(c, db, k)
    <2>1. CASE Leaves(c, D, k, db.view[k])
      <3>1. PICK i \in D : Writes(c, i, k)
        BY <2>1 DEF Leaves
      <3>2. db.rows[i] > 0
        BY DEF Fits, RowsFit
      <3> QED BY <3>1, <3>2 DEF Mirrors, Silent
    <2>2. CASE Silent(c, D, k) /\ Mirrors(c, db, k)
      BY <2>2 DEF Silent
    <2> QED BY <1>2, <2>1, <2>2 DEF Fits, ViewFits
  <1> QED BY <1>1, <1>2 DEF Fits, ViewFits

\* A checkpoint: the poll has applied, or a regression made it leave, all events
\* from lo to hi.
LEMMA CheckpointFits ==
  ASSUME NEW c, History(c), NEW db, Numbers(c, db), NEW D \in SUBSET Ids(c), NEW n \in Nat,
         NEW A, Fits(c, db, D, n, A),
         NEW lo \in Nat, NEW hi \in Nat, 0 < lo, lo <= hi,
         db.last >= 0, db.last > 0 => lo = db.last + 1,
         D \subseteq Covered(c, lo, hi), Covered(c, lo, hi) \subseteq D \cup A,
         NEW new, new.last = hi, new.origin = IF db.last = 0 THEN lo ELSE db.origin,
         new.rows = db.rows, new.view = db.view
  PROVE  Fits(c, new, {}, n, A)
  <1> DEFINE old == Covered(c, db.origin, db.last)
             all == Covered(c, new.origin, new.last)
  <1>1. db.origin <= db.last /\ db.last \in Nat /\ db.origin \in Nat
    BY DEF Fits, Numbers
  <1>2. all = old \cup Covered(c, lo, hi)
    <2>1. CASE db.last = 0
      <3>1. old = {}
        BY <1>1, <2>1 DEF Covered, History
      <3> QED BY <2>1, <3>1
    <2>2. CASE db.last > 0
      BY <1>1, <2>2 DEF Covered, History
    <2> QED BY <1>1, <2>1, <2>2
  <1>3. \A i \in old, j \in D : i < j
    <2> SUFFICES ASSUME NEW i \in old, NEW j \in D PROVE i < j
      OBVIOUS
    <2>1. i \in Ids(c) /\ j \in Ids(c) /\ c[i].ledger \in db.origin..db.last /\ c[j].ledger \in lo..hi
      BY DEF Covered
    <2>2. c[i].ledger > 0
      BY <2>1 DEF History
    <2>3. c[i].ledger < c[j].ledger
      BY <1>1, <2>1, <2>2
    <2>4. i \in Nat /\ j \in Nat /\ i # j
      BY <2>1, <2>3 DEF Ids, History
    <2>5. ~(j < i)
      BY <2>1, <2>3 DEF History
    <2> QED BY <2>4, <2>5
  <1> HIDE DEF old, all
  <1>4. RowsFit(c, new, {}, n)
    <2> SUFFICES ASSUME NEW i \in Ids(c)
                 PROVE  new.rows[i] <= n + 1 /\ (Unindexed(c, new, i) => new.rows[i] <= n)
      BY DEF RowsFit
    <2>1. ASSUME Unindexed(c, new, i) PROVE i \notin D /\ Unindexed(c, db, i)
      <3>1. c[i].ledger > hi /\ c[i].ledger \in Nat
        BY <2>1 DEF Unindexed, History
      <3>2. i \notin D
        BY <3>1 DEF Covered
      <3> QED BY <1>1, <3>1, <3>2 DEF Unindexed
    <2> QED BY <2>1 DEF Fits, RowsFit
  <1>5. ClaimsFit(c, new, A)
    <2>1. \A i \in old : new.rows[i] > 0 \/ i \in A
      BY DEF Fits, ClaimsFit, old
    <2>2. \A i \in D : new.rows[i] > 0
      BY DEF Fits, RowsFit
    <2> QED BY <1>2, <2>1, <2>2 DEF ClaimsFit, all
  <1>6. ASSUME A = {}, NEW k \in Cell PROVE Mirrors(c, new, k)
    <2>1. D = Covered(c, lo, hi)
      BY <1>6
    <2>2. old \subseteq Nat /\ D \subseteq Nat /\ all = old \cup D
      BY <1>2, <2>1 DEF old, Covered, Ids
    <2>3. CASE Leaves(c, D, k, db.view[k])
      <3>1. Leaves(c, all, k, new.view[k])
        BY <1>3, <2>2, <2>3, LeavesMore
      <3> QED BY <3>1 DEF Mirrors, all
    <2>4. CASE Silent(c, D, k) /\ Mirrors(c, db, k)
      <3>1. CASE Leaves(c, old, k, db.view[k])
        <4>1. Leaves(c, all, k, new.view[k])
          BY <1>3, <2>2, <2>4, <3>1, LeavesMore
        <4> QED BY <4>1 DEF Mirrors, all
      <3>2. CASE Silent(c, old, k) /\ db.view[k] = Absent
        <4>1. Silent(c, all, k)
          BY <2>2, <2>4, <3>2 DEF Silent
        <4> QED BY <3>2, <4>1 DEF Mirrors, all
      <3>3. ASSUME NEW j \in Ids(c), db.rows[j] > 0, Writes(c, j, k), j \notin old
            PROVE  Mirrors(c, new, k)
        <4>1. j \notin all
          BY <2>2, <2>4, <3>3 DEF Silent
        <4> QED BY <3>3, <4>1 DEF Mirrors, all
      <3> QED BY <2>4, <3>1, <3>2, <3>3 DEF Mirrors, old
    <2> QED BY <1>6, <2>3, <2>4 DEF Fits, ViewFits
  <1>7. ViewFits(c, new, {}, A)
    BY <1>6 DEF ViewFits, Silent
  <1>8. new.origin <= new.last
    BY <1>1
  <1> QED BY <1>4, <1>5, <1>7, <1>8 DEF Fits

-----------------------------------------------------------------------------
(* The operators of the model. *)

\* A set of naturals that is not empty has a least element.
LEMMA Least ==
  ASSUME NEW T, T \subseteq Nat, T # {}
  PROVE  \E n \in T : \A m \in T : n <= m
  <1> DEFINE Less == {ss \in Nat \X Nat : ss[1] < ss[2]}
  <1>1. OpToRel(<, Nat) = Less
    BY Zenon DEF OpToRel
  <1>2. IsWellFoundedOn(Less, Nat)
    BY <1>1, NatLessThanWellFounded, Zenon
  <1>3. ASSUME NEW m \in Nat, NEW n \in Nat, m < n PROVE <<m, n>> \in Less
    BY <1>3
  <1> HIDE DEF Less
  <1>4. PICK n \in T : \A m \in T : ~(<<m, n>> \in Less)
    BY <1>2, WFMin, Zenon
  <1>5. \A m \in T : n <= m
    <2> TAKE m \in T
    <2>1. n \in Nat /\ m \in Nat
      OBVIOUS
    <2>2. ~(m < n)
      BY <1>3, <1>4, <2>1
    <2> QED BY <2>1, <2>2
  <1> QED BY <1>5

\* A set of naturals with a bound has a greatest element, which Max is.
LEMMA Greatest ==
  ASSUME NEW T, T \subseteq Nat, T # {}, NEW b \in Nat, \A m \in T : m <= b
  PROVE  Max(T) \in T /\ \A m \in T : m <= Max(T)
  <1> DEFINE Bounds == {n \in Nat : \A m \in T : m <= n}
  <1>1. Bounds \subseteq Nat /\ Bounds # {}
    OBVIOUS
  <1>2. PICK n \in Bounds : \A m \in Bounds : n <= m
    BY <1>1, Least
  <1>3. n \in T
    <2> SUFFICES ASSUME n \notin T PROVE FALSE
      OBVIOUS
    <2>1. n \in Nat /\ \A m \in T : m \in Nat /\ m <= n /\ m # n
      BY <1>2
    <2>2. \A m \in T : m <= n - 1
      BY <2>1
    <2>3. n - 1 \in Nat
      <3>1. PICK m \in T : TRUE
        OBVIOUS
      <3>2. m \in Nat /\ m <= n /\ m # n
        BY <2>1
      <3> QED BY <2>1, <3>2
    <2>4. n - 1 \in Bounds
      BY <2>2, <2>3
    <2> QED BY <1>2, <2>1, <2>4
  <1>4. \E x \in T : \A y \in T : x >= y
    BY <1>2, <1>3
  <1> QED BY <1>4 DEF Max

LEMMA LowerOfTwo ==
  ASSUME NEW a \in Int, NEW b \in Int
  PROVE  /\ Min({a, b}) \in {a, b} /\ Min({a, b}) <= a /\ Min({a, b}) <= b
  <1>1. \E x \in {a, b} : \A y \in {a, b} : x <= y
    OBVIOUS
  <1> QED BY <1>1 DEF Min

LEMMA HigherOfTwo ==
  ASSUME NEW a \in Int, NEW b \in Int
  PROVE  /\ Max({a, b}) \in {a, b} /\ Max({a, b}) >= a /\ Max({a, b}) >= b
  <1>1. \E x \in {a, b} : \A y \in {a, b} : x >= y
    OBVIOUS
  <1> QED BY <1>1 DEF Max

\* The tables while a batch is applied: an unfolding of Materialised, and a
\* solution of its equation.
Tables(view, ids, f) ==
  f = [n \in 0..Len(setup.chain) |->
         IF n = 0 THEN view
         ELSE IF n \in ids THEN updateState(f[n - 1], setup.chain[n]) ELSE f[n - 1]]

LEMMA MaterialisedIs ==
  ASSUME NEW view, NEW ids
  PROVE  Materialised(view, ids) = (CHOOSE f : Tables(view, ids, f))[Len(setup.chain)]
  BY DEF Materialised, Tables

LEMMA TablesExist ==
  ASSUME NEW view, DOMAIN view = Cell, view = [k \in Cell |-> view[k]],
         NEW ids \in SUBSET Ids(setup.chain), Len(setup.chain) \in Nat
  PROVE  \E f : Tables(view, ids, f)
  <1> DEFINE c == setup.chain
             N == Len(c)
             Writers(n, k) == {i \in ids : i <= n /\ Writes(c, i, k)}
             Left(W, k) == IF W = {} THEN view[k] ELSE RowLeft(c[Max(W)])
             f == [n \in 0..N |-> [k \in Cell |-> Left(Writers(n, k), k)]]
             g == [n \in 0..N |->
                     IF n = 0 THEN view
                     ELSE IF n \in ids THEN updateState(f[n - 1], c[n]) ELSE f[n - 1]]
  <1>1. ASSUME NEW n \in 0..N PROVE f[n] = g[n]
    <2>1. CASE n = 0
      <3>1. \A k \in Cell : Left(Writers(0, k), k) = view[k]
        <4>1. \A k \in Cell : Writers(0, k) = {}
          BY DEF Ids
        <4> QED BY <4>1
      <3> HIDE DEF Left, Writers
      <3> QED BY <2>1, <3>1
    <2>2. CASE n # 0 /\ n \notin ids
      <3>1. n - 1 \in 0..N /\ \A i \in ids : i <= n <=> i <= n - 1
        BY <2>2 DEF Ids
      <3>2. \A k \in Cell : Writers(n, k) = Writers(n - 1, k)
        BY <3>1
      <3> HIDE DEF Left, Writers
      <3> QED BY <2>2, <3>1, <3>2
    <2>3. CASE n # 0 /\ n \in ids
      <3>1. n - 1 \in 0..N /\ n \in Int /\ \A i \in ids : i <= n <=> i = n \/ i <= n - 1
        BY <2>3 DEF Ids
      <3>2. ASSUME NEW k \in Cell, Writes(c, n, k)
            PROVE  Left(Writers(n, k), k) = RowLeft(c[n])
        <4>1. n \in Writers(n, k) /\ \A i \in Writers(n, k) : i \in Int /\ n >= i
          BY <2>3, <3>1, <3>2 DEF Ids
        <4> HIDE DEF Writers
        <4>2. Max(Writers(n, k)) = n
          BY <3>1, <4>1 DEF Max
        <4> QED BY <4>1, <4>2
      <3>3. ASSUME NEW k \in Cell, ~Writes(c, n, k)
            PROVE  Writers(n, k) = Writers(n - 1, k)
        BY <3>1, <3>3
      <3> HIDE DEF Left, Writers
      <3>4. g[n] = [k \in Cell |-> IF Writes(c, n, k) THEN RowLeft(c[n])
                                   ELSE Left(Writers(n - 1, k), k)]
        BY <2>3, <3>1 DEF updateState, Writes, Cell
      <3> QED BY <3>2, <3>3, <3>4
    <2> QED BY <2>1, <2>2, <2>3
  <1> HIDE DEF Left
  <1>2. f = g
    BY <1>1
  <1>3. Tables(view, ids, f)
    BY <1>2 DEF Tables
  <1> QED BY <1>3

\* A batch leaves in a cell what its last event that writes the cell does, and
\* other cells alone.
LEMMA BatchLeaves ==
  ASSUME NEW view \in [Cell -> Shown],
         NEW ids \in SUBSET Ids(setup.chain), Len(setup.chain) \in Nat,
         \A i \in Ids(setup.chain) : setup.chain[i].code \in Code
  PROVE  /\ Materialised(view, ids) \in [Cell -> Shown]
         /\ \A k \in Cell :
              \/ Leaves(setup.chain, ids, k, Materialised(view, ids)[k])
              \/ Silent(setup.chain, ids, k) /\ Materialised(view, ids)[k] = view[k]
  <1> DEFINE c == setup.chain
             N == Len(c)
             f == CHOOSE x : Tables(view, ids, x)
             Upto(n) == {i \in ids : i <= n}
             Right(n) == /\ f[n] \in [Cell -> Shown]
                         /\ \A k \in Cell : \/ Leaves(c, Upto(n), k, f[n][k])
                                            \/ Silent(c, Upto(n), k) /\ f[n][k] = view[k]
  <1>1. Tables(view, ids, f)
    BY TablesExist
  <1>2. Materialised(view, ids) = f[N]
    BY MaterialisedIs
  <1> HIDE DEF f
  <1>3. /\ 0 \in 0..N => f[0] = view
        /\ \A n \in 0..N : n # 0 => f[n] = IF n \in ids THEN updateState(f[n - 1], c[n]) ELSE f[n - 1]
    BY <1>1 DEF Tables
  <1>0. N \in Nat /\ \A i \in ids : i \in Int /\ 1 <= i /\ i <= N
    BY DEF Ids
  <1>4. Right(0)
    <2>1. Upto(0) = {}
      BY <1>0
    <2> QED BY <1>3, <2>1 DEF Silent
  <1>5. ASSUME NEW n \in 0..N, n # 0, Right(n - 1) PROVE Right(n)
    <2>1. n - 1 \in 0..N
      BY <1>5
    <2>2. CASE n \notin ids
      <3>1. Upto(n) = Upto(n - 1)
        <4>1. \A i \in ids : i <= n <=> i <= n - 1
          BY <1>0, <2>2
        <4> QED BY <4>1
      <3>2. f[n] = f[n - 1]
        BY <1>3, <1>5, <2>2
      <3> HIDE DEF Upto
      <3> QED BY <1>5, <3>1, <3>2
    <2>3. CASE n \in ids
      <3>1. Upto(n) = Upto(n - 1) \cup {n}
        <4>1. n <= n /\ \A i \in ids : i <= n <=> i = n \/ i <= n - 1
          BY <1>0, <2>3
        <4> QED BY <2>3, <4>1
      <3>2. f[n] = [k \in Cell |-> IF Writes(c, n, k) THEN RowLeft(c[n]) ELSE f[n - 1][k]]
        BY <1>3, <1>5, <2>3 DEF updateState, Writes, Cell
      <3>3. RowLeft(c[n]) \in Shown
        BY <2>3 DEF RowLeft, Shown
      <3>4. f[n] \in [Cell -> Shown]
        BY <1>5, <3>2, <3>3
      <3>5. \A i \in Upto(n) : i <= n
        OBVIOUS
      <3>6. ASSUME NEW k \in Cell
            PROVE  \/ Leaves(c, Upto(n), k, f[n][k])
                   \/ Silent(c, Upto(n), k) /\ f[n][k] = view[k]
        <4>1. CASE Writes(c, n, k)
          BY <3>1, <3>2, <3>5, <4>1 DEF Leaves
        <4>2. CASE ~Writes(c, n, k)
          <5>1. f[n][k] = f[n - 1][k]
            BY <3>2, <4>2
          <5> HIDE DEF Upto
          <5> QED BY <1>5, <3>1, <4>2, <5>1 DEF Leaves, Silent
        <4> QED BY <4>1, <4>2
      <3> QED BY <3>4, <3>6
    <2> QED BY <2>2, <2>3
  <1> HIDE DEF Right
  <1>6. Right(N)
    <2> DEFINE Wrong == {n \in 0..N : ~Right(n)}
    <2> SUFFICES ASSUME ~Right(N) PROVE FALSE
      OBVIOUS
    <2>1. Wrong \subseteq Nat /\ Wrong # {}
      OBVIOUS
    <2>2. PICK n \in Wrong : \A m \in Wrong : n <= m
      BY <2>1, Least
    <2>3. n \in 0..N /\ n # 0 /\ ~Right(n)
      BY <1>4, <2>2
    <2>4. Right(n - 1)
      <3>1. n - 1 \in 0..N /\ ~(n <= n - 1)
        BY <2>3
      <3> QED BY <2>2, <3>1
    <2> QED BY <1>5, <2>3, <2>4
  <1>7. Upto(N) = ids
    BY <1>0
  <1> HIDE DEF Upto
  <1> QED BY <1>2, <1>6, <1>7 DEF Right

\* What a node may leave out of a page: nothing before an event it contains, and
\* nothing at all of a page that is not full.
LEMMA PageIsAPrefix ==
  ASSUME History(setup.chain), NEW lo, NEW cursor, NEW h
  PROVE  LET Found == {i \in EventId : i > cursor /\ setup.chain[i].ledger \in lo..h}
             fetched == Page(lo, cursor, h)
         IN  /\ fetched \subseteq Found
             /\ \A i \in fetched, j \in Found : j < i => j \in fetched
             /\ Cardinality(fetched) # PageLimit => fetched = Found
             /\ fetched # {} => Max(fetched) \in fetched /\ \A i \in fetched : i <= Max(fetched)
             /\ Cardinality(fetched) = PageLimit => fetched # {}
  <1> DEFINE Found == {i \in EventId : i > cursor /\ setup.chain[i].ledger \in lo..h}
             Before(i) == {j \in Found : j < i}
             fetched == {i \in Found : Cardinality(Before(i)) < PageLimit}
  <1>1. Page(lo, cursor, h) = fetched
    BY DEF Page
  <1>2. /\ Found \subseteq Nat /\ Len(setup.chain) \in Nat /\ \A i \in Found : i <= Len(setup.chain)
        /\ IsFiniteSet(Found)
    <2>1. IsFiniteSet(1..Len(setup.chain))
      BY FS_Interval DEF History
    <2> QED BY <2>1, FS_Subset DEF EventId, History
  <1>3. \A i \in Found : Before(i) \subseteq Found /\ IsFiniteSet(Before(i)) /\ Cardinality(Before(i)) \in Nat
    <2>1. \A i \in Found : Before(i) \in SUBSET Found
      OBVIOUS
    <2> HIDE DEF Before, Found
    <2> QED BY <1>2, <2>1, FS_Subset, FS_CardinalityType
  <1>4. PageLimit \in Nat /\ PageLimit > 0
    BY BoundAssumption
  <1> HIDE DEF Found
  <1>5. ASSUME NEW i \in fetched, NEW j \in Found, j < i PROVE j \in fetched
    <2>1. Before(j) \subseteq Before(i) /\ i \in Found
      <3>1. i \in Found /\ i \in Nat /\ j \in Nat /\ \A x \in Found : x \in Nat
        BY <1>2
      <3>2. \A x \in Found : x < j => x < i
        BY <1>5, <3>1
      <3> QED BY <3>1, <3>2
    <2> HIDE DEF Before
    <2>2. Cardinality(Before(j)) <= Cardinality(Before(i))
      BY <1>3, <2>1, FS_Subset
    <2> QED BY <1>3, <1>4, <1>5, <2>1, <2>2
  <1>6. fetched # {} => Max(fetched) \in fetched /\ \A i \in fetched : i <= Max(fetched)
    <2>1. fetched \subseteq Nat /\ \A i \in fetched : i <= Len(setup.chain)
      BY <1>2
    <2> HIDE DEF fetched
    <2> QED BY <1>2, <2>1, Greatest
  <1>7. Cardinality(fetched) \in Nat /\ Cardinality(fetched) <= PageLimit
    <2>1. CASE fetched = {}
      <3> HIDE DEF fetched
      <3> QED BY <1>4, <2>1, FS_EmptySet
    <2>2. CASE fetched # {}
      <3> DEFINE m == Max(fetched)
      <3>1. m \in fetched /\ m \in Nat /\ \A i \in fetched : i \in Nat /\ i <= m
        BY <1>2, <1>6, <2>2
      <3>2. fetched = Before(m) \cup {m} /\ m \notin Before(m)
        <4>1. \A j \in Before(m) : j \in fetched
          BY <1>5, <3>1
        <4>2. \A i \in fetched : i \in Found /\ (i = m \/ i < m)
          <5> HIDE DEF m
          <5> QED BY <3>1
        <4>3. ~(m < m)
          <5> HIDE DEF m, fetched
          <5> QED BY <3>1
        <4> HIDE DEF m, fetched
        <4> QED BY <3>1, <4>1, <4>2, <4>3
      <3>3. IsFiniteSet(Before(m)) /\ Cardinality(Before(m)) \in Nat /\ Cardinality(Before(m)) < PageLimit
        BY <1>3, <3>1
      <3> HIDE DEF m, fetched, Before
      <3>4. Cardinality(Before(m) \cup {m}) = Cardinality(Before(m)) + 1
        BY <3>2, <3>3, FS_AddElement
      <3> QED BY <1>4, <3>2, <3>3, <3>4
    <2> QED BY <2>1, <2>2
  <1>8. ASSUME Cardinality(fetched) # PageLimit PROVE fetched = Found
    <2> DEFINE missing == Found \ fetched
    <2> SUFFICES ASSUME missing # {} PROVE FALSE
      OBVIOUS
    <2>1. missing \subseteq Nat
      BY <1>2
    <2>2. PICK i \in missing : \A j \in missing : i <= j
      BY <2>1, Least
    <2>3. i \in Found /\ i \notin fetched /\ i \in Nat
      BY <1>2, <2>2
    <2>4. \A j \in Before(i) : j \in fetched
      <3> SUFFICES ASSUME NEW j \in Before(i), j \notin fetched PROVE FALSE
        OBVIOUS
      <3>1. j \in missing /\ j < i /\ j \in Nat
        BY <1>2
      <3> QED BY <2>2, <2>3, <3>1
    <2>5. \A j \in fetched : j \in Before(i)
      <3> SUFFICES ASSUME NEW j \in fetched, ~(j < i) PROVE FALSE
        BY <1>2
      <3>1. j \in Nat /\ j # i
        BY <1>2, <2>3
      <3>2. i < j
        BY <2>3, <3>1
      <3> QED BY <1>5, <2>3, <3>2
    <2>6. fetched = Before(i)
      BY <2>4, <2>5
    <2>7. ~(Cardinality(Before(i)) < PageLimit)
      BY <2>3
    <2> HIDE DEF fetched, Before
    <2> QED BY <1>4, <1>7, <1>8, <2>6, <2>7
  <1> HIDE DEF fetched
  <1>9. Cardinality(fetched) = PageLimit => fetched # {}
    BY <1>4, FS_EmptySet
  <1>10. fetched \subseteq Found
    BY DEF fetched
  <1> QED BY <1>1, <1>5, <1>6, <1>8, <1>9, <1>10 DEF Found

-----------------------------------------------------------------------------
(* The state of the process. *)

LEMMA ChainIsHistory ==
  ASSUME setup \in Setup
  PROVE  /\ History(setup.chain) /\ EventId = Ids(setup.chain)
         /\ \A i \in EventId : setup.chain[i].code \in Code
         /\ setup.start \in Nat /\ setup.end \in Nat
  <1>1. /\ setup.chain \in Seq(Event) /\ setup.start \in Nat /\ setup.end \in Nat
        /\ \A i, j \in DOMAIN setup.chain :
             i < j => setup.chain[i].ledger <= setup.chain[j].ledger
    BY SetupAssumption
  <1>2. /\ Len(setup.chain) \in Nat /\ DOMAIN setup.chain = 1..Len(setup.chain)
        /\ \A i \in 1..Len(setup.chain) : setup.chain[i] \in Event
    BY <1>1
  <1>3. \A e \in Event : e.ledger \in Nat /\ e.ledger > 0 /\ e.code \in Code
    BY BoundAssumption DEF Event
  <1> QED BY <1>1, <1>2, <1>3 DEF History, Ids, EventId

LEMMA NewDatabases ==
  ASSUME setup \in Setup
  PROVE  /\ EmptyDb \in Db /\ EmptyDb.last = 0 /\ EmptyDb.origin = 0
         /\ Unreadable \in Db /\ Unreadable.last = -1 /\ Unreadable.origin = 0
         /\ \A n \in Nat : \A A :
              /\ Fits(setup.chain, EmptyDb, {}, n, A)
              /\ Fits(setup.chain, Unreadable, {}, n, A)
  <1>1. History(setup.chain) /\ EventId = Ids(setup.chain)
    BY ChainIsHistory
  <1>2. /\ EmptyDb \in Db /\ EmptyDb.last = 0 /\ EmptyDb.origin = 0
        /\ Unreadable \in Db /\ Unreadable.last = -1 /\ Unreadable.origin = 0
    BY BoundAssumption DEF EmptyDb, Unreadable, Db
  <1>3. /\ \A i \in Ids(setup.chain) : EmptyDb.rows[i] = 0 /\ Unreadable.rows[i] = 0
        /\ \A k \in Cell : EmptyDb.view[k] = Absent /\ Unreadable.view[k] = Absent
    BY <1>1 DEF EmptyDb, Unreadable, Cell
  <1>4. ASSUME NEW n \in Nat, NEW A
        PROVE  Fits(setup.chain, EmptyDb, {}, n, A) /\ Fits(setup.chain, Unreadable, {}, n, A)
    <2>1. ASSUME NEW db, db.last \in {0, -1}, db.origin = 0,
                 \A i \in Ids(setup.chain) : db.rows[i] = 0,
                 \A k \in Cell : db.view[k] = Absent
          PROVE  Fits(setup.chain, db, {}, n, A)
      BY <1>1, <2>1, NewFits
    <2>2. Fits(setup.chain, EmptyDb, {}, n, A)
      BY <1>2, <1>3, <2>1
    <2>3. Fits(setup.chain, Unreadable, {}, n, A)
      BY <1>2, <1>3, <2>1
    <2> QED BY <2>2, <2>3
  <1> QED BY <1>2, <1>4

LEMMA SameSetup ==
  ASSUME setup' = setup
  PROVE  EventId' = EventId /\ EmptyDb' = EmptyDb /\ Unreadable' = Unreadable /\ Db' = Db
  BY DEF EventId, EmptyDb, Unreadable, Db

LEMMA DbNumbers ==
  ASSUME setup \in Setup, NEW db \in Db
  PROVE  Numbers(setup.chain, db) /\ db.last <= MaxHeight /\ db.view \in [Cell -> Shown]
  BY ChainIsHistory, BoundAssumption DEF Db, Numbers, Cell, Shown

\* What applyEvents does to a database.
LEMMA Applied ==
  ASSUME setup \in Setup, NEW db \in Db, NEW ids \in SUBSET EventId
  PROVE  /\ applyEvents(db, ids) \in Db
         /\ applyEvents(db, ids).last = db.last /\ applyEvents(db, ids).origin = db.origin
         /\ \A i \in Ids(setup.chain) :
              applyEvents(db, ids).rows[i] = IF i \in ids THEN db.rows[i] + 1 ELSE db.rows[i]
         /\ \A k \in Cell :
              \/ Leaves(setup.chain, ids, k, applyEvents(db, ids).view[k])
              \/ Silent(setup.chain, ids, k) /\ applyEvents(db, ids).view[k] = db.view[k]
  <1> DEFINE R == [i \in EventId |-> IF i \in ids THEN db.rows[i] + 1 ELSE db.rows[i]]
             M == Materialised(db.view, ids)
  <1>1. /\ Len(setup.chain) \in Nat /\ EventId = Ids(setup.chain)
        /\ \A i \in Ids(setup.chain) : setup.chain[i].code \in Code
    BY ChainIsHistory DEF History
  <1>2. /\ Materialised(db.view, ids) \in [Cell -> Shown]
        /\ \A k \in Cell :
             \/ Leaves(setup.chain, ids, k, Materialised(db.view, ids)[k])
             \/ Silent(setup.chain, ids, k) /\ Materialised(db.view, ids)[k] = db.view[k]
    <2>1. db.view \in [Cell -> Shown] /\ ids \in SUBSET Ids(setup.chain)
      BY <1>1, DbNumbers
    <2> QED BY <1>1, <2>1, BatchLeaves
  <1>3. db = [last |-> db.last, origin |-> db.origin, rows |-> db.rows, view |-> db.view]
    BY DEF Db
  <1>4. applyEvents(db, ids) = [db EXCEPT !.rows = R, !.view = M]
    BY DEF applyEvents
  <1>5. R \in [EventId -> Nat] /\ \A i \in EventId : R[i] = IF i \in ids THEN db.rows[i] + 1 ELSE db.rows[i]
    BY DEF Db
  <1>6. M \in [Cell -> Shown]
    BY <1>2
  <1> HIDE DEF R, M
  <1>7. applyEvents(db, ids) = [last |-> db.last, origin |-> db.origin, rows |-> R, view |-> M]
    BY <1>3, <1>4
  <1>8. applyEvents(db, ids) \in Db
    BY <1>5, <1>6, <1>7 DEF Db, Cell, Shown
  <1>9. /\ applyEvents(db, ids).last = db.last /\ applyEvents(db, ids).origin = db.origin
        /\ applyEvents(db, ids).rows = R /\ applyEvents(db, ids).view = M
    BY <1>7
  <1> QED BY <1>1, <1>2, <1>5, <1>8, <1>9 DEF M

\* What the poll has applied lies past the checkpoint.
LEMMA DoneIsPending ==
  ASSUME IInv, pc \in {"page", "save"}
  PROVE  /\ Done \in SUBSET Ids(setup.chain)
         /\ \A i \in Ids(setup.chain) : setup.chain[i].ledger >= poll.start =>
              /\ i \notin Covered(setup.chain, mem.origin, mem.last)
              /\ Unindexed(setup.chain, mem, i)
         /\ \A i \in Done : setup.chain[i].ledger >= poll.start
  <1>1. /\ mem.last \in Int /\ poll.start \in Nat /\ poll.start >= 1
        /\ mem.last > 0 => poll.start = mem.last + 1
    BY DbNumbers DEF IInv, TypeOK, PollFits, Numbers
  <1>2. \A i \in Ids(setup.chain) : setup.chain[i].ledger \in Nat /\ setup.chain[i].ledger > 0
    BY ChainIsHistory DEF History, IInv, TypeOK
  <1> QED BY <1>1, <1>2 DEF Done, Covered, Unindexed

\* A poll is cut off by a crash, a failed request or a node that is behind.
LEMMA InterruptFits ==
  ASSUME IInv, pc \in {"page", "save"}, Interrupt
  PROVE  interrupted' \in Nat /\ Fits(setup.chain, mem, {}, interrupted', abandoned)
  <1>1. /\ History(setup.chain) /\ Numbers(setup.chain, mem) /\ EventId = Ids(setup.chain)
        /\ interrupted \in Nat /\ Fits(setup.chain, mem, Done, interrupted, abandoned)
    BY ChainIsHistory, DbNumbers DEF IInv, TypeOK, MemFits
  <1>2. /\ Done \in SUBSET Ids(setup.chain)
        /\ \A i \in Done : i \notin Covered(setup.chain, mem.origin, mem.last)
        /\ \A i \in Done : setup.chain[i].ledger >= poll.start
    BY DoneIsPending
  <1>3. \A i \in Done : mem.rows[i] > 0
    BY <1>1, <1>2 DEF Fits, RowsFit
  <1>4. interrupted' \in Nat /\ ((interrupted' = interrupted /\ Done = {}) \/ interrupted' = interrupted + 1)
    BY <1>1, <1>2, <1>3 DEF Interrupt
  <1> QED BY <1>1, <1>2, <1>4, CutOffFits

\* Between polls the database is at rest.
LEMMA RestFits ==
  ASSUME MemFits, pc \notin {"page", "save"}
  PROVE  Fits(setup.chain, mem, {}, interrupted, abandoned)
  BY DEF MemFits, Done

\* The file, as the running process may have left it.
LEMMA FileToo ==
  ASSUME setup \in Setup, DiskFits, pc # "down", NEW n \in Nat, NEW A,
         Fits(setup.chain, mem, {}, n, A), NEW f \in {mem, disk, EmptyDb, Unreadable}
  PROVE  Fits(setup.chain, f, {}, n, A) /\ (f = Unreadable \/ f.last >= 0)
  BY NewDatabases DEF DiskFits

\* The conjuncts of the invariant after a step that leaves no poll under way.
LEMMA AtRest ==
  ASSUME setup' = setup, pc' \notin {"page", "save"}, TypeOK', PollFits', DiskFits',
         Fits(setup.chain, mem', {}, interrupted', abandoned'),
         pc' = "down" => Fits(setup.chain, disk', {}, interrupted', abandoned')
  PROVE  IInv'
  <1>1. Done' = {}
    BY DEF Done
  <1> QED BY <1>1 DEF IInv, MemFits, FileFits

\* The types the actions need again and again.
LEMMA Typed ==
  ASSUME IInv
  PROVE  /\ setup \in Setup /\ History(setup.chain) /\ EventId = Ids(setup.chain)
         /\ setup.start \in Nat /\ setup.end \in Nat
         /\ mem \in Db /\ disk \in Db /\ Numbers(setup.chain, mem)
         /\ mem.last \in Int /\ mem.last <= MaxHeight
         /\ height \in Nat /\ height >= 1 /\ height <= MaxHeight /\ MaxHeight \in Nat
         /\ interrupted \in Nat
  BY ChainIsHistory, DbNumbers, BoundAssumption DEF IInv, TypeOK, Numbers

Locals == [last : 0..MaxHeight, start : Nat, target : 0..MaxHeight,
           cursor : 0..Len(setup.chain), horizon : 0..MaxHeight]
Budget == [lag : 0..MaxLag, error : 0..MaxErrors, crash : 0..MaxCrashes, torn : 0..MaxTorn]

LEMMA TypeParts ==
  TypeOK <=>
    /\ setup \in Setup
    /\ height \in 1..MaxHeight
    /\ pc \in {"down", "idle", "earliest", "latest", "page", "save", "stopped"}
    /\ poll \in Locals
    /\ mem \in Db /\ disk \in Db
    /\ used \in Budget
    /\ abandoned \subseteq EventId
    /\ interrupted \in Nat
    /\ pc # "down" /\ used.torn = 0 => mem = disk
  BY DEF TypeOK, Locals, Budget

LEMMA NoPollIsTyped ==
  ASSUME setup \in Setup
  PROVE  NoPoll \in Locals
  BY ChainIsHistory, BoundAssumption DEF NoPoll, Locals, History

\* What the environment may use up of its bounds.
LEMMA BudgetKept ==
  ASSUME used \in Budget
  PROVE  /\ used.lag < MaxLag => [used EXCEPT !.lag = @ + 1] \in Budget
         /\ used.error < MaxErrors => [used EXCEPT !.error = @ + 1] \in Budget
         /\ used.crash < MaxCrashes => [used EXCEPT !.crash = @ + 1] \in Budget
         /\ used.torn < MaxTorn =>
              /\ [used EXCEPT !.torn = @ + 1] \in Budget
              /\ [used EXCEPT !.torn = @ + 1].torn # 0
         /\ \A done \in BOOLEAN : used.crash < MaxCrashes /\ MayTear(done) =>
              [used EXCEPT !.crash = @ + 1, !.torn = IF done THEN @ ELSE @ + 1] \in Budget
         /\ [used EXCEPT !.lag = @ + 1].torn = used.torn
         /\ [used EXCEPT !.error = @ + 1].torn = used.torn
  <1>1. /\ used.lag \in Nat /\ used.error \in Nat /\ used.crash \in Nat /\ used.torn \in Nat
        /\ used.lag <= MaxLag /\ used.error <= MaxErrors /\ used.crash <= MaxCrashes
        /\ used.torn <= MaxTorn
        /\ MaxLag \in Nat /\ MaxErrors \in Nat /\ MaxCrashes \in Nat /\ MaxTorn \in Nat
    BY BoundAssumption DEF Budget
  <1>2. used = [lag |-> used.lag, error |-> used.error, crash |-> used.crash, torn |-> used.torn]
    BY DEF Budget
  <1>3. used.lag < MaxLag => [used EXCEPT !.lag = @ + 1] \in Budget
    BY <1>1, <1>2 DEF Budget
  <1>4. used.error < MaxErrors => [used EXCEPT !.error = @ + 1] \in Budget
    BY <1>1, <1>2 DEF Budget
  <1>5. used.crash < MaxCrashes => [used EXCEPT !.crash = @ + 1] \in Budget
    BY <1>1, <1>2 DEF Budget
  <1>6. used.torn < MaxTorn =>
          [used EXCEPT !.torn = @ + 1] \in Budget /\ [used EXCEPT !.torn = @ + 1].torn # 0
    BY <1>1, <1>2 DEF Budget
  <1>7. ASSUME NEW done \in BOOLEAN, used.crash < MaxCrashes, MayTear(done)
        PROVE  [used EXCEPT !.crash = @ + 1, !.torn = IF done THEN @ ELSE @ + 1] \in Budget
    <2> DEFINE torn == IF done THEN used.torn ELSE used.torn + 1
    <2>1. torn \in 0..MaxTorn
      BY <1>1, <1>7 DEF MayTear
    <2>2. used.crash + 1 \in 0..MaxCrashes
      BY <1>1, <1>7
    <2> HIDE DEF torn
    <2>3. [used EXCEPT !.crash = used.crash + 1, !.torn = torn] \in Budget
      BY <1>1, <1>2, <2>1, <2>2 DEF Budget
    <2> QED BY <2>3 DEF torn
  <1>8. /\ [used EXCEPT !.lag = @ + 1].torn = used.torn
        /\ [used EXCEPT !.error = @ + 1].torn = used.torn
    BY <1>2
  <1> QED BY <1>3, <1>4, <1>5, <1>6, <1>7, <1>8

LEMMA AnswerKeeps ==
  ASSUME used \in Budget, NEW h, Answers(h)
  PROVE  used' \in Budget /\ used'.torn = used.torn /\ h \in 1..height
  BY BudgetKept DEF Answers

-----------------------------------------------------------------------------
(* The steps of the environment. *)

LEMMA InitIInv == Init => IInv
  <1> SUFFICES ASSUME Init PROVE IInv
    OBVIOUS
  <1>1. /\ setup \in Setup /\ height = 1 /\ pc = "down" /\ poll = NoPoll
        /\ mem = EmptyDb /\ disk = EmptyDb /\ abandoned = {} /\ interrupted = 0
        /\ used = [lag |-> 0, error |-> 0, crash |-> 0, torn |-> 0]
    BY DEF Init
  <1>2. TypeOK
    <2>1. used \in Budget
      BY <1>1, BoundAssumption DEF Budget
    <2>2. height \in 1..MaxHeight
      BY <1>1, BoundAssumption
    <2> QED BY <1>1, <2>1, <2>2, NewDatabases, NoPollIsTyped, TypeParts
  <1>3. PollFits
    BY <1>1 DEF PollFits
  <1>4. DiskFits
    BY <1>1, NewDatabases DEF DiskFits
  <1>5. Fits(setup.chain, EmptyDb, {}, 0, {})
    BY <1>1, NewDatabases
  <1>6. Done = {}
    BY <1>1 DEF Done
  <1> QED BY <1>1, <1>2, <1>3, <1>4, <1>5, <1>6 DEF IInv, MemFits, FileFits

LEMMA StutterStep ==
  ASSUME IInv, UNCHANGED <<setup, pc, poll, mem, disk, abandoned, interrupted, used>>,
         height' \in 1..MaxHeight
  PROVE  IInv'
  <1>1. Done' = Done /\ EventId' = EventId /\ EmptyDb' = EmptyDb /\ Unreadable' = Unreadable
        /\ Db' = Db
    BY SameSetup DEF Done
  <1>2. TypeOK'
    BY <1>1 DEF IInv, TypeOK
  <1>3. PollFits'
    BY <1>1 DEF IInv, PollFits
  <1>4. DiskFits'
    BY <1>1 DEF IInv, DiskFits
  <1> QED BY <1>1, <1>2, <1>3, <1>4 DEF IInv, MemFits, FileFits

\* The process goes down, by a kill or by a signal.
LEMMA DownStep ==
  ASSUME IInv, setup' = setup, height' = height, abandoned' = abandoned,
         pc # "down", pc' = "down", mem' = EmptyDb, poll' = NoPoll, used' \in Budget,
         disk' \in {mem, disk, EmptyDb, Unreadable},
         IF pc \in {"page", "save"} THEN Interrupt ELSE UNCHANGED interrupted
  PROVE  IInv'
  <1>1. /\ interrupted' \in Nat
        /\ Fits(setup.chain, mem, {}, interrupted', abandoned')
    BY InterruptFits, RestFits, Typed DEF IInv
  <1>2. Fits(setup.chain, disk', {}, interrupted', abandoned') /\ (disk' = Unreadable \/ disk'.last >= 0)
    BY <1>1, FileToo, Typed DEF IInv
  <1>3. Fits(setup.chain, mem', {}, interrupted', abandoned')
    BY <1>1, NewDatabases, Typed
  <1>4. TypeOK'
    <2>1. mem' \in Db /\ disk' \in Db /\ poll' \in Locals
      BY Typed, NewDatabases, NoPollIsTyped
    <2> QED BY <1>1, <2>1, SameSetup, TypeParts DEF IInv, TypeOK, Budget, Locals
  <1>5. PollFits'
    BY DEF PollFits
  <1>6. DiskFits'
    BY <1>2, SameSetup DEF DiskFits
  <1> QED BY <1>2, <1>3, <1>4, <1>5, <1>6, AtRest

LEMMA EnvironmentStep ==
  ASSUME IInv, Environment
  PROVE  IInv'
  <1>1. CASE closeLedger
    <2>1. height' \in 1..MaxHeight
      BY <1>1, Typed DEF closeLedger
    <2> QED BY <1>1, <2>1, StutterStep DEF closeLedger
  <1>2. CASE crash
    <2>1. used' \in Budget
      BY <1>2, BudgetKept, TypeParts DEF crash, IInv
    <2>2. /\ UNCHANGED <<setup, height, abandoned>> /\ pc # "down" /\ pc' = "down"
          /\ mem' = EmptyDb /\ poll' = NoPoll /\ disk' = disk
          /\ IF pc \in {"page", "save"} THEN Interrupt ELSE UNCHANGED interrupted
      BY <1>2 DEF crash
    <2> QED BY <2>1, <2>2, DownStep
  <1>3. ASSUME NEW done \in BOOLEAN, shutdown(done) PROVE IInv'
    <2>1. used' \in Budget
      BY <1>3, BudgetKept, TypeParts DEF shutdown, IInv
    <2>2. /\ UNCHANGED <<setup, height, abandoned>> /\ pc \notin {"down", "save"} /\ pc' = "down"
          /\ mem' = EmptyDb /\ poll' = NoPoll /\ disk' \in {mem, EmptyDb, Unreadable}
          /\ IF pc = "page" THEN Interrupt ELSE UNCHANGED interrupted
      BY <1>3 DEF shutdown, flush
    <2> QED BY <2>1, <2>2, DownStep
  <1>4. CASE requestFails
    <2>1. /\ UNCHANGED <<setup, height, mem, disk, abandoned>>
          /\ pc \in {"earliest", "latest", "page"} /\ pc' = "idle" /\ poll' = NoPoll
          /\ used' \in Budget /\ used'.torn = used.torn
          /\ IF pc \in {"page", "save"} THEN Interrupt ELSE UNCHANGED interrupted
      BY <1>4, BudgetKept, TypeParts DEF requestFails, Awaiting, IInv
    <2>2. /\ interrupted' \in Nat
          /\ Fits(setup.chain, mem', {}, interrupted', abandoned')
      BY <2>1, InterruptFits, RestFits, Typed DEF IInv
    <2>3. TypeOK'
      BY <2>1, <2>2, SameSetup, NoPollIsTyped, TypeParts DEF IInv, TypeOK, Budget, Locals
    <2>4. PollFits'
      BY <2>1 DEF PollFits
    <2>5. DiskFits'
      BY <2>1, SameSetup DEF DiskFits, IInv
    <2> QED BY <2>1, <2>2, <2>3, <2>4, <2>5, AtRest
  <1> QED BY <1>1, <1>2, <1>3, <1>4 DEF Environment

-----------------------------------------------------------------------------
(* The steps of the process. *)

LEMMA StartStep ==
  ASSUME IInv, NEW done \in BOOLEAN, start(done)
  PROVE  IInv'
  <1>1. /\ UNCHANGED <<setup, height, poll, abandoned, interrupted>>
        /\ pc = "down" /\ disk # Unreadable /\ MayTear(done)
        /\ used' = IF done THEN used ELSE [used EXCEPT !.torn = @ + 1]
        /\ IF done THEN disk' = disk /\ pc' = "idle" /\ mem' = disk
           ELSE disk' \in {EmptyDb, Unreadable} /\ pc' = pc /\ mem' = mem
    BY DEF start, Tear, flush
  <1>2. /\ mem = EmptyDb /\ disk.last >= 0
        /\ Fits(setup.chain, disk, {}, interrupted, abandoned)
    BY <1>1 DEF IInv, DiskFits, FileFits
  <1>3. used' \in Budget /\ (done => used' = used)
    BY <1>1, BudgetKept, TypeParts DEF IInv, MayTear
  <1>4. mem' \in Db /\ disk' \in Db /\ pc' \in {"down", "idle"}
    BY <1>1, NewDatabases, Typed
  <1>5. TypeOK'
    BY <1>1, <1>3, <1>4, SameSetup, TypeParts DEF IInv, TypeOK, Budget, Locals
  <1>6. PollFits'
    BY <1>4 DEF PollFits
  <1>7. DiskFits'
    BY <1>1, <1>2, SameSetup, NewDatabases, Typed DEF DiskFits
  <1>8. Fits(setup.chain, mem', {}, interrupted', abandoned')
    BY <1>1, <1>2, NewDatabases, Typed
  <1>9. pc' = "down" => Fits(setup.chain, disk', {}, interrupted', abandoned')
    BY <1>1, NewDatabases, Typed
  <1> QED BY <1>1, <1>4, <1>5, <1>6, <1>7, <1>8, <1>9, AtRest

\* A step between polls, or within one before its first page, that leaves both
\* databases as they are.
LEMMA QuietStep ==
  ASSUME IInv, UNCHANGED <<setup, height, mem, disk, abandoned, interrupted>>,
         pc \notin {"down", "page", "save"},
         pc' \in {"idle", "earliest", "latest", "stopped"},
         poll' \in Locals, used' \in Budget, used'.torn = used.torn, PollFits'
  PROVE  IInv'
  <1>1. TypeOK'
    BY SameSetup, TypeParts DEF IInv, TypeOK, Budget, Locals
  <1>2. DiskFits'
    BY SameSetup DEF DiskFits, IInv
  <1>3. Fits(setup.chain, mem', {}, interrupted', abandoned')
    BY RestFits DEF IInv
  <1> QED BY <1>1, <1>2, <1>3, AtRest

LEMMA BeginTyped ==
  ASSUME setup \in Setup, mem.last \in 0..MaxHeight, NEW n \in Nat
  PROVE  /\ BeginAt(n) \in Locals /\ BeginAt(n).last = mem.last /\ BeginAt(n).start = n
         /\ BeginAt(n).cursor = 0 /\ BeginAt(n).horizon = 0
  <1>1. BeginAt(n) = [last |-> mem.last, start |-> n, target |-> 0, cursor |-> 0, horizon |-> 0]
    BY DEF BeginAt
  <1>2. 0 \in 0..MaxHeight /\ 0 \in 0..Len(setup.chain)
    BY ChainIsHistory, BoundAssumption DEF History
  <1> QED BY <1>1, <1>2 DEF Locals

LEMMA TickStep ==
  ASSUME IInv, tick
  PROVE  IInv'
  <1>1. /\ UNCHANGED <<setup, height, mem, disk, used, abandoned, interrupted>>
        /\ pc = "idle" /\ poll' = BeginAt(ResumeFrom)
        /\ pc' = IF ResumeFrom > 0 THEN "latest" ELSE "earliest"
    BY DEF tick
  <1>2. mem.last \in Nat /\ mem.last <= MaxHeight /\ MaxHeight \in Nat /\ setup.start \in Nat
    BY <1>1, Typed DEF IInv, DiskFits
  <1>3. /\ ResumeFrom \in Nat
        /\ mem.last > 0 => ResumeFrom = mem.last + 1
        /\ mem.last = 0 \/ ResumeFrom > 0
    BY <1>2 DEF ResumeFrom
  <1>4. /\ poll' \in Locals /\ poll'.last = mem.last /\ poll'.start = ResumeFrom
        /\ poll'.cursor = 0 /\ poll'.horizon = 0
    <2>1. mem.last \in 0..MaxHeight
      BY <1>2
    <2> HIDE DEF ResumeFrom
    <2> QED BY <1>1, <1>3, <2>1, BeginTyped, Typed
  <1> HIDE DEF ResumeFrom
  <1>5. PollFits'
    BY <1>1, <1>2, <1>3, <1>4 DEF PollFits
  <1>6. used \in Budget
    BY TypeParts DEF IInv
  <1> QED BY <1>1, <1>4, <1>5, <1>6, QuietStep

LEMMA EarliestStep ==
  ASSUME IInv, NEW h, getEarliestAvailableLedger(h)
  PROVE  IInv'
  <1> DEFINE first == Max({1, h - Retention})
  <1>1. /\ UNCHANGED <<setup, height, mem, disk, abandoned, interrupted>>
        /\ pc = "earliest" /\ pc' = "latest" /\ poll' = BeginAt(first) /\ Answers(h)
    BY DEF getEarliestAvailableLedger
  <1>2. used' \in Budget /\ used'.torn = used.torn /\ h \in Int
    BY <1>1, AnswerKeeps, TypeParts, Typed DEF IInv
  <1>3. first \in Nat /\ first >= 1
    <2>1. 1 \in Int /\ h - Retention \in Int
      BY <1>2, BoundAssumption
    <2>2. first \in {1, h - Retention} /\ first >= 1
      BY <2>1, HigherOfTwo
    <2> QED BY <2>1, <2>2
  <1>4. mem.last = 0
    BY <1>1 DEF IInv, PollFits
  <1> HIDE DEF first
  <1>5. /\ poll' \in Locals /\ poll'.last = mem.last /\ poll'.start = first
        /\ poll'.cursor = 0 /\ poll'.horizon = 0
    <2>1. mem.last \in 0..MaxHeight
      BY <1>4, Typed
    <2> QED BY <1>1, <1>3, <2>1, BeginTyped, Typed
  <1>6. PollFits'
    BY <1>1, <1>3, <1>4, <1>5 DEF PollFits
  <1> QED BY <1>1, <1>2, <1>5, <1>6, QuietStep

LEMMA LatestStep ==
  ASSUME IInv, NEW h, getLatestLedger(h)
  PROVE  IInv'
  <1> DEFINE target == IF setup.end > 0 THEN Min({h, setup.end}) ELSE h
             complete == setup.end > 0 /\ poll.last >= setup.end
  <1>1. /\ UNCHANGED <<setup, height, mem, disk, abandoned, interrupted>>
        /\ pc = "latest" /\ Answers(h)
        /\ IF complete \/ poll.start > target
             THEN pc' = (IF complete THEN "stopped" ELSE "idle") /\ poll' = NoPoll
             ELSE pc' = "page" /\ poll' = [poll EXCEPT !.target = target]
    BY DEF getLatestLedger
  <1>2. used' \in Budget /\ used'.torn = used.torn /\ h \in 1..height
    BY <1>1, AnswerKeeps, TypeParts DEF IInv
  <1>3. CASE complete \/ poll.start > target
    <2>1. PollFits'
      BY <1>1, <1>3 DEF PollFits
    <2>2. poll' \in Locals
      BY <1>1, <1>3, NoPollIsTyped, Typed
    <2> QED BY <1>1, <1>2, <1>3, <2>1, <2>2, QuietStep
  <1>4. CASE ~(complete \/ poll.start > target)
    <2>1. target \in 0..MaxHeight
      <3>1. /\ h \in Int /\ 1 <= h /\ h <= MaxHeight /\ MaxHeight \in Nat /\ setup.end \in Nat
        BY <1>2, Typed
      <3>2. Min({h, setup.end}) \in {h, setup.end} /\ Min({h, setup.end}) <= h
        <4>1. h \in Int /\ setup.end \in Int
          BY <3>1
        <4> QED BY <4>1, LowerOfTwo
      <3> QED BY <3>1, <3>2
    <2>2. /\ poll \in Locals /\ poll.start >= 1 /\ poll.last = mem.last
          /\ mem.last > 0 => poll.start = mem.last + 1
          /\ poll.cursor = 0 /\ poll.horizon = 0
      BY <1>1, TypeParts DEF IInv, PollFits
    <2>3. ~(poll.start > target)
      BY <1>4
    <2> HIDE DEF target, complete
    <2>4. pc' = "page" /\ poll' = [poll EXCEPT !.target = target]
      BY <1>1, <1>4
    <2>5. /\ poll' \in Locals /\ poll'.last = mem.last /\ poll'.start = poll.start
          /\ poll'.target = target /\ poll'.cursor = 0 /\ poll'.horizon = 0
      BY <2>1, <2>2, <2>4 DEF Locals
    <2>6. poll.start <= target
      BY <2>1, <2>2, <2>3 DEF Locals
    <2>7. PollFits'
      BY <1>1, <2>2, <2>4, <2>5, <2>6 DEF PollFits
    <2>8. Done' = {}
      BY <1>1, <2>2, <2>4, <2>5, Typed DEF Done, Covered, Locals, History
    <2>9. TypeOK'
      BY <1>1, <1>2, <2>4, <2>5, SameSetup, TypeParts DEF IInv, TypeOK, Budget, Locals
    <2>10. DiskFits'
      BY <1>1, <2>4, SameSetup DEF DiskFits, IInv
    <2>11. Fits(setup.chain, mem, {}, interrupted, abandoned)
      BY <1>1, RestFits DEF IInv
    <2> QED BY <1>1, <2>4, <2>7, <2>8, <2>9, <2>10, <2>11 DEF IInv, MemFits, FileFits
  <1> QED BY <1>3, <1>4

LEMMA BelowStep ==
  ASSUME IInv, NEW h, regressBelowCheckpoint(h)
  PROVE  IInv'
  <1>1. /\ UNCHANGED <<setup, height, mem, disk, abandoned>>
        /\ pc = "page" /\ Answers(h) /\ pc' = "idle" /\ poll' = NoPoll /\ Interrupt
    BY DEF regressBelowCheckpoint
  <1>2. used' \in Budget /\ used'.torn = used.torn
    BY <1>1, AnswerKeeps, TypeParts DEF IInv
  <1>3. interrupted' \in Nat /\ Fits(setup.chain, mem', {}, interrupted', abandoned')
    BY <1>1, InterruptFits
  <1>4. TypeOK'
    BY <1>1, <1>2, <1>3, SameSetup, NoPollIsTyped, TypeParts DEF IInv, TypeOK, Budget, Locals
  <1>5. PollFits'
    BY <1>1 DEF PollFits
  <1>6. DiskFits'
    BY <1>1, SameSetup DEF DiskFits, IInv
  <1> QED BY <1>1, <1>3, <1>4, <1>5, <1>6, AtRest

LEMMA BetweenStep ==
  ASSUME IInv, NEW h, regressBetweenPages(h)
  PROVE  IInv'
  <1>1. /\ UNCHANGED <<setup, height, poll, mem, disk, interrupted>>
        /\ pc = "page" /\ Answers(h) /\ pc' = "save" /\ h < poll.horizon
        /\ abandoned' = abandoned \cup
             {i \in EventId : i > poll.cursor /\ setup.chain[i].ledger \in poll.start..poll.horizon}
    BY DEF regressBetweenPages
  <1>2. used' \in Budget /\ used'.torn = used.torn /\ h \in Int /\ h >= 1
    BY <1>1, AnswerKeeps, TypeParts, Typed DEF IInv
  <1>3. poll \in Locals
    BY TypeParts DEF IInv
  <1>4. poll.cursor > 0 /\ poll.cursor \in Int /\ poll.horizon \in Int
    BY <1>1, <1>2, <1>3 DEF IInv, PollFits, Locals
  <1>5. Done' = Done
    BY <1>1, <1>4 DEF Done
  <1>6. MemFits'
    <2>1. Fits(setup.chain, mem, Done, interrupted, abandoned')
      BY <1>1, AbandoningFits DEF IInv, MemFits
    <2> QED BY <1>1, <1>5, <2>1 DEF MemFits
  <1>7. TypeOK'
    <2>1. abandoned' \subseteq EventId
      BY <1>1, TypeParts DEF IInv
    <2> QED BY <1>1, <1>2, <2>1, SameSetup, TypeParts DEF IInv, TypeOK, Budget, Locals
  <1>8. PollFits'
    <2>1. ASSUME NEW i \in Covered(setup.chain, poll.start, poll.horizon),
                 setup.chain[i].ledger <= poll.target
          PROVE  i \in Done \/ i \in abandoned'
      <3>1. i \in EventId /\ i \in Int /\ setup.chain[i].ledger \in poll.start..poll.horizon
        BY Typed DEF Covered, Ids, History
      <3> QED BY <1>1, <1>4, <2>1, <3>1 DEF Done
    <2> QED BY <1>1, <1>4, <1>5, <2>1 DEF IInv, PollFits
  <1>9. DiskFits'
    BY <1>1, SameSetup DEF DiskFits, IInv
  <1> QED BY <1>1, <1>6, <1>7, <1>8, <1>9 DEF IInv, FileFits

\* A page continues where the pages before it ended: what it adds to the events
\* applied is all of the poll's range up to the new cursor or, when no page
\* follows, up to the node's last ledger.
Full(fetched) ==
  /\ Cardinality(fetched) = PageLimit
  /\ ~(setup.end > 0 /\ \E i \in fetched : setup.chain[i].ledger > poll.target)

InPoll(h) == {i \in Covered(setup.chain, poll.start, h) : setup.chain[i].ledger <= poll.target}

LEMMA PageContinues ==
  ASSUME IInv, pc = "page", NEW h \in 1..height, PageIsUsable(h)
  PROVE  LET fetched == Page(poll.start, poll.cursor, h)
             kept == InRange(fetched, h)
         IN  /\ kept \in SUBSET Ids(setup.chain)
             /\ \A i \in kept : /\ setup.chain[i].ledger >= poll.start
                                /\ \A j \in Done : j < i
             /\ Full(fetched) =>
                  /\ Max(fetched) \in Ids(setup.chain)
                  /\ setup.chain[Max(fetched)].ledger <= h
                  /\ Done \cup kept = {i \in InPoll(h) : i <= Max(fetched)}
             /\ ~Full(fetched) => Done \cup kept = InPoll(h)
  <1> DEFINE c == setup.chain
             fetched == Page(poll.start, poll.cursor, h)
             Found == {i \in EventId : i > poll.cursor /\ c[i].ledger \in poll.start..h}
             kept == InRange(fetched, h)
  <1>1. /\ History(c) /\ EventId = Ids(c) /\ \A i \in Ids(c) : i \in Nat /\ i >= 1 /\ c[i].ledger \in Nat
        /\ \A i, j \in Ids(c) : i <= j => c[i].ledger <= c[j].ledger
        /\ setup.end \in Nat /\ h \in Nat
    <2>1. History(c) /\ EventId = Ids(c) /\ setup.end \in Nat /\ h \in Nat
      BY Typed
    <2>2. \A i \in Ids(c) : i \in Nat /\ i >= 1 /\ c[i].ledger \in Nat
      BY <2>1 DEF History, Ids
    <2>3. ASSUME NEW i \in Ids(c), NEW j \in Ids(c), i <= j PROVE c[i].ledger <= c[j].ledger
      BY <2>1, <2>2, <2>3 DEF History
    <2> QED BY <2>1, <2>2, <2>3
  <1>2. /\ poll.start \in Nat /\ poll.cursor \in Nat /\ poll.target \in Nat /\ poll.horizon \in Nat
        /\ poll.cursor > 0 => poll.cursor \in Ids(c) /\ c[poll.cursor].ledger <= poll.horizon
        /\ poll.horizon <= h
    BY <1>1, TypeParts DEF IInv, PollFits, Locals, PageIsUsable, Ids, History
  <1>3. /\ fetched \subseteq Found
        /\ \A i \in fetched, j \in Found : j < i => j \in fetched
        /\ Cardinality(fetched) # PageLimit => fetched = Found
        /\ fetched # {} => Max(fetched) \in fetched /\ \A i \in fetched : i <= Max(fetched)
        /\ Cardinality(fetched) = PageLimit => fetched # {}
    BY <1>1, PageIsAPrefix
  <1> HIDE DEF fetched
  <1>4. \A i \in fetched : i \in kept <=> c[i].ledger <= poll.target
    <2> SUFFICES ASSUME NEW i \in fetched PROVE i \in kept <=> c[i].ledger <= poll.target
      OBVIOUS
    <2>1. c[i].ledger \in Nat /\ poll.start <= c[i].ledger /\ c[i].ledger <= h
      BY <1>1, <1>2, <1>3
    <2>2. poll.target \in Int /\ h \in Int
      BY <1>1, <1>2
    <2>3. /\ Min({poll.target, h}) \in {poll.target, h}
          /\ Min({poll.target, h}) <= poll.target /\ Min({poll.target, h}) <= h
      BY <2>2, LowerOfTwo
    <2> QED BY <1>2, <2>1, <2>2, <2>3 DEF InRange
  <1>5. kept \subseteq fetched
    BY DEF InRange
  <1>6. Done = {i \in Ids(c) : /\ c[i].ledger \in poll.start..poll.horizon
                              /\ c[i].ledger <= poll.target /\ i <= poll.cursor}
    BY <1>1 DEF Done, Covered
  <1>7. InPoll(h) = {i \in Ids(c) : c[i].ledger \in poll.start..h /\ c[i].ledger <= poll.target}
    BY DEF InPoll, Covered
  <1> HIDE DEF kept
  <1>8. Done \subseteq InPoll(h) /\ kept \subseteq InPoll(h)
    <2>1. Done \subseteq InPoll(h)
      BY <1>1, <1>2, <1>6, <1>7
    <2>2. kept \subseteq InPoll(h)
      BY <1>1, <1>3, <1>4, <1>5, <1>7
    <2> QED BY <2>1, <2>2
  <1>9. ASSUME NEW i \in InPoll(h) PROVE i \in Done \/ i \in Found
    <2>1. i \in Ids(c) /\ i \in Nat /\ i >= 1 /\ c[i].ledger \in poll.start..h /\ c[i].ledger <= poll.target
          /\ c[i].ledger \in Nat
      BY <1>1, <1>7
    <2>2. CASE i <= poll.cursor
      <3>1. poll.cursor > 0 /\ poll.cursor \in Ids(c) /\ c[poll.cursor].ledger <= poll.horizon
        BY <1>2, <2>1, <2>2
      <3>2. c[i].ledger <= c[poll.cursor].ledger /\ c[poll.cursor].ledger \in Nat
        BY <1>1, <2>1, <2>2, <3>1
      <3>3. c[i].ledger <= poll.horizon
        BY <1>2, <2>1, <3>1, <3>2
      <3> QED BY <1>2, <1>6, <2>1, <2>2, <3>3
    <2>3. CASE ~(i <= poll.cursor)
      BY <1>1, <1>2, <2>1, <2>3
    <2> QED BY <2>2, <2>3
  <1>10. ASSUME NEW i \in kept
         PROVE  c[i].ledger >= poll.start /\ \A j \in Done : j < i
    <2>1. i \in Nat /\ i > poll.cursor /\ c[i].ledger \in poll.start..h
      BY <1>1, <1>3, <1>5
    <2>2. \A j \in Done : j \in Nat /\ j <= poll.cursor
      BY <1>1, <1>6
    <2> QED BY <1>2, <2>1, <2>2
  <1>11. ASSUME Full(fetched)
         PROVE  /\ Max(fetched) \in Ids(c) /\ c[Max(fetched)].ledger <= h
                /\ Done \cup kept = {i \in InPoll(h) : i <= Max(fetched)}
    <2> DEFINE m == Max(fetched)
    <2>1. m \in fetched /\ \A i \in fetched : i <= m
      BY <1>3, <1>11 DEF Full
    <2>2. m \in Found /\ m \in Ids(c) /\ m \in Nat /\ m > poll.cursor /\ c[m].ledger <= h
      BY <1>1, <1>2, <1>3, <2>1
    <2> HIDE DEF m
    <2>3. ASSUME NEW i \in Done \cup kept PROVE i <= m
      <3>1. CASE i \in kept
        BY <1>5, <2>1, <3>1
      <3>2. CASE i \in Done
        <4>1. i \in Nat /\ i <= poll.cursor
          BY <1>1, <1>6, <3>2
        <4> QED BY <1>2, <2>2, <4>1
      <3> QED BY <3>1, <3>2
    <2>4. ASSUME NEW i \in InPoll(h), i <= m PROVE i \in Done \cup kept
      <3>1. CASE i \in Done
        BY <3>1
      <3>2. CASE i \in Found
        <4>1. i \in Nat /\ c[i].ledger <= poll.target
          BY <1>1, <1>7
        <4>2. i = m \/ i < m
          BY <2>2, <2>4, <4>1
        <4>3. i \in fetched
          BY <1>3, <2>1, <3>2, <4>2
        <4> QED BY <1>4, <4>1, <4>3
      <3> QED BY <1>9, <3>1, <3>2
    <2> QED BY <1>8, <2>2, <2>3, <2>4 DEF m
  <1>12. ASSUME ~Full(fetched) PROVE Done \cup kept = InPoll(h)
    <2> SUFFICES ASSUME NEW i \in InPoll(h), i \in Found PROVE i \in kept
      BY <1>8, <1>9
    <2>1. i \in Ids(c) /\ i \in Nat /\ c[i].ledger <= poll.target /\ c[i].ledger \in Nat
      BY <1>1, <1>7
    <2>2. i \in fetched
      <3>1. CASE Cardinality(fetched) # PageLimit
        BY <1>3, <3>1
      <3>2. CASE Cardinality(fetched) = PageLimit
        <4>1. PICK j \in fetched : c[j].ledger > poll.target
          BY <1>12, <3>2 DEF Full
        <4>2. j \in Ids(c) /\ j \in Nat /\ c[j].ledger \in Nat
          BY <1>1, <1>3
        <4>3. ~(j <= i)
          <5>1. ASSUME j <= i PROVE FALSE
            <6>1. c[j].ledger <= c[i].ledger
              BY <1>1, <2>1, <4>2, <5>1
            <6> QED BY <1>2, <2>1, <4>1, <4>2, <6>1
          <5> QED BY <5>1
        <4>4. i < j
          BY <2>1, <4>2, <4>3
        <4> QED BY <1>3, <4>4
      <3> QED BY <3>1, <3>2
    <2> QED BY <1>4, <2>1, <2>2
  <1>13. kept \in SUBSET Ids(c)
    BY <1>7, <1>8
  <1> QED BY <1>10, <1>11, <1>12, <1>13 DEF fetched, kept

\* What a page makes of the database, whether or not its write will succeed.
LEMMA PageApplied ==
  ASSUME IInv, pc = "page", NEW h \in 1..height, PageIsUsable(h),
         NEW kept, kept = InRange(Page(poll.start, poll.cursor, h), h),
         kept = {} => mem' = mem, kept # {} => mem' = applyEvents(mem, kept)
  PROVE  /\ mem' \in Db /\ mem'.last = mem.last /\ mem'.origin = mem.origin
         /\ Done \cup kept \in SUBSET Ids(setup.chain)
         /\ \A i \in Done \cup kept : i \notin Covered(setup.chain, mem'.origin, mem'.last)
         /\ Fits(setup.chain, mem', Done \cup kept, interrupted, abandoned)
  <1>1. /\ kept \in SUBSET Ids(setup.chain)
        /\ \A i \in kept : setup.chain[i].ledger >= poll.start /\ \A j \in Done : j < i
    BY PageContinues
  <1>2. /\ Done \in SUBSET Ids(setup.chain)
        /\ \A i \in Done \cup kept : i \notin Covered(setup.chain, mem.origin, mem.last)
        /\ \A i \in kept : Unindexed(setup.chain, mem, i)
    BY <1>1, DoneIsPending
  <1>3. Fits(setup.chain, mem, Done, interrupted, abandoned)
    BY DEF IInv, MemFits
  <1>4. CASE kept = {}
    <2>1. Done \cup kept = Done
      BY <1>4
    <2> QED BY <1>2, <1>3, <1>4, <2>1, Typed
  <1>5. CASE kept # {}
    <2>1. /\ mem' \in Db /\ mem'.last = mem.last /\ mem'.origin = mem.origin
          /\ \A i \in Ids(setup.chain) :
               mem'.rows[i] = IF i \in kept THEN mem.rows[i] + 1 ELSE mem.rows[i]
          /\ \A k \in Cell : \/ Leaves(setup.chain, kept, k, mem'.view[k])
                             \/ Silent(setup.chain, kept, k) /\ mem'.view[k] = mem.view[k]
      BY <1>1, <1>5, Applied, Typed
    <2>2. /\ History(setup.chain) /\ Numbers(setup.chain, mem) /\ interrupted \in Nat
          /\ \A i \in kept : Unindexed(setup.chain, mem, i) /\ \A j \in Done : j < i
      BY <1>1, <1>2, Typed
    <2>3. Fits(setup.chain, mem', Done \cup kept, interrupted, abandoned)
      <3> DEFINE c == setup.chain
                 D == Done
                 new == mem'
      <3>1. kept \in SUBSET Ids(c) /\ D \in SUBSET Ids(c) /\ interrupted \in Nat
        BY <1>1, <1>2, <2>2
      <3>2. History(c) /\ Numbers(c, mem) /\ Fits(c, mem, D, interrupted, abandoned)
        BY <1>3, <2>2
      <3>3. \A i \in kept : Unindexed(c, mem, i) /\ \A j \in D : j < i
        BY <2>2
      <3>4. new.last = mem.last /\ new.origin = mem.origin
        BY <2>1
      <3>5. \A i \in Ids(c) : new.rows[i] = IF i \in kept THEN mem.rows[i] + 1 ELSE mem.rows[i]
        BY <2>1
      <3>6. \A k \in Cell : \/ Leaves(c, kept, k, new.view[k])
                            \/ Silent(c, kept, k) /\ new.view[k] = mem.view[k]
        BY <2>1
      <3> HIDE DEF c, D, new
      <3>7. Fits(c, new, D \cup kept, interrupted, abandoned)
        BY <3>1, <3>2, <3>3, <3>4, <3>5, <3>6, PageFits
      <3> QED BY <3>7 DEF c, D, new
    <2> QED BY <1>1, <1>2, <2>1, <2>3
  <1> QED BY <1>4, <1>5

LEMMA PageStep ==
  ASSUME IInv, NEW h, NEW done \in BOOLEAN, getEvents(h, done)
  PROVE  IInv'
  <1> DEFINE fetched == Page(poll.start, poll.cursor, h)
             kept == InRange(fetched, h)
  <1>1. /\ pc = "page" /\ h \in 1..height /\ PageIsUsable(h)
        /\ UNCHANGED <<setup, height, abandoned>>
        /\ kept = {} => done /\ mem' = mem
        /\ kept # {} => mem' = applyEvents(mem, kept)
        /\ IF kept = {} THEN disk' = disk ELSE flush(mem', done)
        /\ done => Answers(h)
        /\ ~done => MayTear(done) /\ Tear(done)
        /\ done => /\ pc' = IF Full(fetched) THEN "page" ELSE "save"
                   /\ poll' = [poll EXCEPT !.horizon = h,
                                           !.cursor = IF Full(fetched) THEN Max(fetched) ELSE 0]
                   /\ interrupted' = interrupted
        /\ ~done => pc' = "idle" /\ poll' = NoPoll /\ interrupted' = interrupted + 1
    BY DEF getEvents, Full
  <1>2. /\ mem' \in Db /\ mem'.last = mem.last /\ mem'.origin = mem.origin
        /\ Done \cup kept \in SUBSET Ids(setup.chain)
        /\ \A i \in Done \cup kept : i \notin Covered(setup.chain, mem'.origin, mem'.last)
        /\ Fits(setup.chain, mem', Done \cup kept, interrupted, abandoned)
    <2> HIDE DEF fetched
    <2> DEFINE K == kept
    <2>1. K = InRange(fetched, h) /\ (K = {} => mem' = mem) /\ (K # {} => mem' = applyEvents(mem, K))
      BY <1>1
    <2> HIDE DEF K
    <2> QED BY <1>1, <2>1, PageApplied DEF fetched, K
  <1>3. /\ Full(fetched) => /\ Max(fetched) \in Ids(setup.chain)
                            /\ setup.chain[Max(fetched)].ledger <= h
                            /\ Done \cup kept = {i \in InPoll(h) : i <= Max(fetched)}
        /\ ~Full(fetched) => Done \cup kept = InPoll(h)
    BY <1>1, PageContinues
  <1> HIDE DEF kept, fetched
  <1>4. CASE done
    <2>1. used' \in Budget /\ used'.torn = used.torn /\ h \in 1..height
      BY <1>1, <1>4, AnswerKeeps, TypeParts DEF IInv
    <2>2. /\ poll \in Locals /\ poll.last = mem.last /\ poll.start >= 1 /\ poll.start <= poll.target
          /\ mem.last > 0 => poll.start = mem.last + 1
          /\ height \in Nat /\ height <= MaxHeight /\ MaxHeight \in Nat
      BY <1>1, TypeParts, Typed DEF IInv, PollFits
    <2> DEFINE cursor == IF Full(fetched) THEN Max(fetched) ELSE 0
    <2>3. /\ cursor \in 0..Len(setup.chain)
          /\ cursor > 0 => Full(fetched) /\ setup.chain[cursor].ledger <= h
          /\ cursor = 0 <=> ~Full(fetched)
      BY <1>3, Typed DEF Ids, History
    <2>4. /\ Full(fetched) => Done \cup kept = {i \in InPoll(h) : i <= cursor}
          /\ ~Full(fetched) => Done \cup kept = InPoll(h)
      BY <1>3
    <2>5. pc' = (IF Full(fetched) THEN "page" ELSE "save")
          /\ poll' = [poll EXCEPT !.horizon = h, !.cursor = cursor]
          /\ interrupted' = interrupted /\ disk' \in {disk, mem'} /\ (mem' = mem \/ disk' = mem')
      BY <1>1, <1>4 DEF flush
    <2> HIDE DEF cursor
    <2>6. /\ poll' \in Locals /\ poll'.last = poll.last /\ poll'.start = poll.start
          /\ poll'.target = poll.target /\ poll'.cursor = cursor /\ poll'.horizon = h
      <3>1. poll = [last |-> poll.last, start |-> poll.start, target |-> poll.target,
                    cursor |-> poll.cursor, horizon |-> poll.horizon]
        BY <2>2 DEF Locals
      <3>2. poll' = [last |-> poll.last, start |-> poll.start, target |-> poll.target,
                     cursor |-> cursor, horizon |-> h]
        BY <2>5, <3>1
      <3>3. h \in 0..MaxHeight
        BY <2>1, <2>2
      <3> QED BY <2>2, <2>3, <3>2, <3>3 DEF Locals
    <2>7. Done' = Done \cup kept
      <3>1. CASE Full(fetched)
        <4>1. pc' = "page" /\ setup' = setup
          BY <1>1, <2>5, <3>1
        <4>2. Done' = {i \in Covered(setup.chain, poll.start, h) :
                        setup.chain[i].ledger <= poll.target /\ i <= cursor}
          BY <2>6, <4>1 DEF Done
        <4> QED BY <2>4, <3>1, <4>2 DEF InPoll
      <3>2. CASE ~Full(fetched)
        <4>1. pc' = "save" /\ setup' = setup /\ cursor = 0
          BY <1>1, <2>3, <2>5, <3>2
        <4>2. Done' = {i \in Covered(setup.chain, poll.start, h) : setup.chain[i].ledger <= poll.target}
          BY <2>6, <4>1 DEF Done
        <4> QED BY <2>4, <3>2, <4>2 DEF InPoll
      <3> QED BY <3>1, <3>2
    <2>8. PollFits'
      <3>1. pc' \in {"page", "save"} /\ (pc' = "page" => cursor > 0) /\ setup' = setup
        BY <1>1, <2>3, <2>5
      <3>2. pc' = "save" =>
              \A i \in Covered(setup.chain, poll.start, h) :
                setup.chain[i].ledger <= poll.target => i \in Done'
        BY <2>4, <2>5, <2>7 DEF InPoll
      <3> QED BY <1>2, <2>2, <2>3, <2>6, <3>1, <3>2 DEF PollFits
    <2>9. TypeOK'
      <3>1. disk' \in Db /\ (used.torn = 0 => mem' = disk')
        BY <1>1, <1>2, <2>5, Typed, TypeParts DEF IInv
      <3>2. pc' \in {"page", "save"}
        BY <2>5
      <3> QED BY <1>1, <1>2, <2>1, <2>5, <2>6, <3>1, <3>2, SameSetup, TypeParts
              DEF IInv, TypeOK, Budget, Locals
    <2>10. DiskFits'
      <3>1. pc' # "down" /\ mem.last >= 0 /\ disk \in {mem, EmptyDb, Unreadable}
        BY <1>1, <2>5 DEF IInv, DiskFits
      <3> QED BY <1>1, <1>2, <2>5, <3>1, SameSetup DEF DiskFits
    <2>11. pc' # "down" /\ Fits(setup.chain, mem', Done', interrupted', abandoned')
      BY <1>1, <1>2, <2>5, <2>7
    <2> QED BY <1>1, <2>8, <2>9, <2>10, <2>11 DEF IInv, MemFits, FileFits
  <1>5. CASE ~done
    <2>1. /\ pc' = "idle" /\ poll' = NoPoll /\ interrupted' = interrupted + 1
          /\ disk' \in {EmptyDb, Unreadable} /\ MayTear(done)
          /\ used' = [used EXCEPT !.torn = @ + 1]
      BY <1>1, <1>5 DEF flush, Tear
    <2>2. used' \in Budget /\ used'.torn # 0
      BY <1>5, <2>1, BudgetKept, TypeParts DEF IInv, MayTear
    <2>3. Fits(setup.chain, mem', {}, interrupted', abandoned')
      <3> DEFINE D == Done \cup kept
                 m == interrupted + 1
                 new == mem'
      <3>1. History(setup.chain) /\ Numbers(setup.chain, new) /\ interrupted \in Nat /\ m \in Nat
        BY <1>2, DbNumbers, Typed
      <3>2. /\ D \in SUBSET Ids(setup.chain) /\ Fits(setup.chain, new, D, interrupted, abandoned)
            /\ \A i \in D : i \notin Covered(setup.chain, new.origin, new.last)
        BY <1>2
      <3>3. (m = interrupted /\ D = {}) \/ m = interrupted + 1
        OBVIOUS
      <3> HIDE DEF D, m, new
      <3>4. Fits(setup.chain, new, {}, m, abandoned)
        BY <3>1, <3>2, <3>3, CutOffFits
      <3> QED BY <1>1, <2>1, <3>4 DEF m, new
    <2>4. TypeOK'
      <3>1. disk' \in Db /\ poll' \in Locals
        BY <2>1, NewDatabases, NoPollIsTyped, Typed
      <3>2. interrupted' \in Nat /\ pc' = "idle"
        BY <2>1, Typed
      <3> QED BY <1>1, <1>2, <2>2, <3>1, <3>2, SameSetup, TypeParts DEF IInv, TypeOK, Budget, Locals
    <2>5. PollFits'
      BY <2>1 DEF PollFits
    <2>6. DiskFits'
      BY <1>1, <1>2, <2>1, SameSetup DEF DiskFits, IInv
    <2> QED BY <1>1, <2>1, <2>3, <2>4, <2>5, <2>6, AtRest
  <1> QED BY <1>4, <1>5

\* The checkpoint of a poll covers all that the poll applied, and nothing else
\* of the chain that a regression did not leave.
LEMMA IndexedThroughIs ==
  ASSUME IInv, pc = "save"
  PROVE  /\ poll.last = mem.last /\ mem.last >= 0 /\ poll.start \in Nat /\ poll.start > 0
         /\ IF IndexedThrough > poll.last
              THEN /\ IndexedThrough \in Nat /\ IndexedThrough <= MaxHeight
                   /\ poll.start <= IndexedThrough /\ poll.start <= MaxHeight
                   /\ mem.last > 0 => poll.start = mem.last + 1
                   /\ Done \subseteq Covered(setup.chain, poll.start, IndexedThrough)
                   /\ Covered(setup.chain, poll.start, IndexedThrough) \subseteq Done \cup abandoned
              ELSE Done = {}
  <1> DEFINE c == setup.chain
             hi == Min({poll.target, poll.horizon})
  <1>1. /\ poll.last = mem.last /\ mem.last >= 0 /\ poll.start \in Nat /\ poll.start > 0
        /\ poll.target \in Nat /\ poll.horizon \in Nat /\ mem.last \in Int
        /\ poll.target <= MaxHeight /\ poll.horizon <= MaxHeight /\ MaxHeight \in Nat
        /\ poll.start <= poll.target /\ (mem.last > 0 => poll.start = mem.last + 1)
    BY TypeParts, Typed DEF IInv, PollFits, DiskFits, Locals
  <1>2. /\ hi \in {poll.target, poll.horizon} /\ hi <= poll.target /\ hi <= poll.horizon
    <2>1. poll.target \in Int /\ poll.horizon \in Int
      BY <1>1
    <2> QED BY <2>1, LowerOfTwo
  <1>3. \A i \in Ids(c) : c[i].ledger \in Nat
    BY Typed DEF History
  <1>4. IndexedThrough = IF poll.horizon < poll.start THEN poll.last ELSE hi
    BY DEF IndexedThrough
  <1>5. \A i \in Done : i \in Covered(c, poll.start, poll.horizon) /\ c[i].ledger <= poll.target
    BY DEF Done
  <1>6. \A i \in Covered(c, poll.start, poll.horizon) :
          c[i].ledger <= poll.target => i \in Done \/ i \in abandoned
    BY DEF IInv, PollFits
  <1> HIDE DEF hi
  <1>7. CASE poll.horizon < poll.start
    <2>1. Covered(c, poll.start, poll.horizon) = {}
      BY <1>1, <1>3, <1>7 DEF Covered
    <2>2. Done = {}
      BY <1>5, <2>1
    <2>3. ~(IndexedThrough > poll.last)
      BY <1>1, <1>4, <1>7
    <2> QED BY <1>1, <2>2, <2>3
  <1>8. CASE ~(poll.horizon < poll.start)
    <2>1. /\ IndexedThrough = hi /\ hi \in Nat /\ hi <= MaxHeight
          /\ poll.start <= hi /\ poll.start <= MaxHeight /\ hi > poll.last
      BY <1>1, <1>2, <1>4, <1>8
    <2>2. ASSUME NEW i \in Done PROVE i \in Covered(c, poll.start, hi)
      <3>1. /\ i \in Ids(c) /\ c[i].ledger \in poll.start..poll.horizon
            /\ c[i].ledger <= poll.target /\ c[i].ledger \in Nat
        BY <1>3, <1>5 DEF Covered
      <3> QED BY <1>1, <1>2, <3>1 DEF Covered
    <2>3. ASSUME NEW i \in Covered(c, poll.start, hi) PROVE i \in Done \cup abandoned
      <3>1. i \in Ids(c) /\ c[i].ledger \in poll.start..hi /\ c[i].ledger \in Nat
        BY <1>3 DEF Covered
      <3>2. i \in Covered(c, poll.start, poll.horizon) /\ c[i].ledger <= poll.target
        BY <1>1, <1>2, <2>1, <3>1 DEF Covered
      <3> QED BY <1>6, <3>2
    <2> QED BY <1>1, <2>1, <2>2, <2>3
  <1> QED BY <1>7, <1>8

LEMMA CheckpointStep ==
  ASSUME IInv, NEW done \in BOOLEAN, setLastIndexedLedger(done)
  PROVE  IInv'
  <1>1. /\ UNCHANGED <<setup, height, abandoned, interrupted>> /\ poll' = NoPoll
        /\ pc = "save" /\ pc' \in {"idle", "stopped"} /\ MayTear(done) /\ Tear(done)
        /\ IF IndexedThrough > poll.last
             THEN /\ mem' = [mem EXCEPT !.last = IndexedThrough,
                               !.origin = IF poll.last = 0 THEN poll.start ELSE @]
                  /\ flush(mem', done)
             ELSE done /\ mem' = mem /\ disk' = disk
    BY DEF setLastIndexedLedger
  <1>2. /\ poll.last = mem.last /\ mem.last >= 0 /\ poll.start \in Nat /\ poll.start > 0
        /\ IF IndexedThrough > poll.last
             THEN /\ IndexedThrough \in Nat /\ IndexedThrough <= MaxHeight
                  /\ poll.start <= IndexedThrough /\ poll.start <= MaxHeight
                  /\ mem.last > 0 => poll.start = mem.last + 1
                  /\ Done \subseteq Covered(setup.chain, poll.start, IndexedThrough)
                  /\ Covered(setup.chain, poll.start, IndexedThrough) \subseteq Done \cup abandoned
             ELSE Done = {}
    BY <1>1, IndexedThroughIs
  <1>3. mem' \in Db /\ mem'.last >= 0 /\ Fits(setup.chain, mem', {}, interrupted, abandoned)
    <2>1. Fits(setup.chain, mem, Done, interrupted, abandoned)
      BY DEF IInv, MemFits
    <2>2. CASE IndexedThrough > poll.last
      <3> DEFINE hi == IndexedThrough
                 new == mem'
                 origin == IF mem.last = 0 THEN poll.start ELSE mem.origin
                 c == setup.chain
                 D == Done
                 lo == poll.start
      <3>1. mem = [last |-> mem.last, origin |-> mem.origin, rows |-> mem.rows, view |-> mem.view]
        BY Typed DEF Db
      <3>2. mem' = [mem EXCEPT !.last = hi, !.origin = origin]
        BY <1>1, <1>2, <2>2
      <3>3. /\ hi \in Nat /\ hi <= MaxHeight /\ lo \in Nat /\ lo <= MaxHeight /\ 0 < lo /\ lo <= hi
            /\ mem.last > 0 => lo = mem.last + 1
        BY <1>2, <2>2
      <3>4. D \subseteq Covered(c, lo, hi) /\ Covered(c, lo, hi) \subseteq D \cup abandoned
        BY <1>2, <2>2
      <3>5. origin \in 0..MaxHeight
        BY <3>3, Typed DEF Db
      <3>6. origin = IF mem.last = 0 THEN lo ELSE mem.origin
        OBVIOUS
      <3> HIDE DEF hi, origin
      <3>7. new = [last |-> hi, origin |-> origin, rows |-> mem.rows, view |-> mem.view]
        BY <3>1, <3>2
      <3>8. new \in Db
        BY <3>3, <3>5, <3>7, Typed DEF Db
      <3>9. /\ new.last = hi /\ new.origin = origin
            /\ new.rows = mem.rows /\ new.view = mem.view
        BY <3>7
      <3>10. /\ History(c) /\ Numbers(c, mem) /\ interrupted \in Nat /\ D \in SUBSET Ids(c)
             /\ mem.last >= 0
        BY <1>1, <1>2, DoneIsPending, Typed
      <3>11. Fits(c, mem, D, interrupted, abandoned)
        BY <2>1
      <3>12. new.origin = IF mem.last = 0 THEN lo ELSE mem.origin
        BY <3>6, <3>9
      <3> HIDE DEF new, c, D, lo
      <3>13. Fits(c, new, {}, interrupted, abandoned)
        BY <3>3, <3>4, <3>9, <3>10, <3>11, <3>12, CheckpointFits
      <3>14. new.last >= 0
        BY <3>3, <3>9
      <3> QED BY <3>8, <3>13, <3>14 DEF new, c
    <2>3. CASE ~(IndexedThrough > poll.last)
      <3>1. Done = {} /\ mem' = mem
        BY <1>1, <1>2, <2>3
      <3> QED BY <1>2, <2>1, <3>1, Typed
    <2> QED BY <2>2, <2>3
  <1>4. /\ used' \in Budget /\ (used'.torn = 0 => done /\ used.torn = 0)
    BY <1>1, BudgetKept, TypeParts DEF IInv, MayTear, Tear
  <1>5. /\ disk' \in {mem', EmptyDb, Unreadable, disk}
        /\ (mem' = mem /\ disk' = disk) \/ disk' \in {mem', EmptyDb, Unreadable}
        /\ done => disk' = mem' \/ (mem' = mem /\ disk' = disk)
    BY <1>1 DEF flush
  <1>6. TypeOK'
    <2>1. disk' \in Db /\ poll' \in Locals
      BY <1>1, <1>3, <1>5, NewDatabases, NoPollIsTyped, Typed
    <2>2. used'.torn = 0 => mem' = disk'
      BY <1>1, <1>4, <1>5, TypeParts DEF IInv
    <2> QED BY <1>1, <1>3, <1>4, <2>1, <2>2, SameSetup, TypeParts DEF IInv, TypeOK, Budget, Locals
  <1>7. PollFits'
    BY <1>1 DEF PollFits
  <1>8. DiskFits'
    <2>1. disk \in {mem, EmptyDb, Unreadable}
      BY <1>1 DEF IInv, DiskFits
    <2> QED BY <1>1, <1>3, <1>5, <2>1, SameSetup DEF DiskFits
  <1> QED BY <1>1, <1>3, <1>6, <1>7, <1>8, AtRest

\* Every step keeps the inductive invariant.
LEMMA StepIInv == IInv /\ [Next]_vars => IInv'
  <1> SUFFICES ASSUME IInv, [Next]_vars PROVE IInv'
    OBVIOUS
  <1>1. CASE UNCHANGED vars
    <2>1. height' \in 1..MaxHeight
      BY <1>1, TypeParts DEF vars, IInv
    <2> QED BY <1>1, <2>1, StutterStep DEF vars
  <1>2. CASE Environment
    BY <1>2, EnvironmentStep
  <1>3. CASE Process
    BY <1>3, StartStep, CheckpointStep, TickStep, EarliestStep, LatestStep, BelowStep,
       BetweenStep, PageStep DEF Process
  <1> QED BY <1>1, <1>2, <1>3 DEF Next

LEMMA AlwaysIInv == Spec => []IInv
  BY InitIInv, StepIInv, PTL DEF Spec

-----------------------------------------------------------------------------
(* What follows. *)

\* Both databases fit the history, the file as if no poll were under way.
LEMMA BothFit ==
  ASSUME IInv, NEW db \in {mem, disk}
  PROVE  /\ db \in Db /\ setup \in Setup /\ interrupted \in Nat
         /\ \/ db = mem /\ Fits(setup.chain, db, Done, interrupted, abandoned)
            \/ Fits(setup.chain, db, {}, interrupted, abandoned)
  BY NewDatabases, Typed DEF IInv, MemFits, FileFits, DiskFits

LEMMA NothingElseSkipped == IInv => OnlyRegressionSkips
  <1> SUFFICES ASSUME IInv, NEW db \in {mem, disk}, NEW i \in Claimed(db)
               PROVE  db.rows[i] > 0 \/ i \in abandoned
    BY DEF OnlyRegressionSkips
  <1>1. ClaimsFit(setup.chain, db, abandoned)
    BY BothFit DEF Fits
  <1>2. i \in Covered(setup.chain, db.origin, db.last)
    BY Typed DEF Claimed, Covered
  <1> QED BY <1>1, <1>2 DEF ClaimsFit

LEMMA FewDuplicates == IInv => DuplicatesNeedARetry
  <1> SUFFICES ASSUME IInv, NEW db \in {mem, disk}, NEW i \in EventId
               PROVE  db.rows[i] <= 1 + interrupted
    BY DEF DuplicatesNeedARetry
  <1>1. db.rows[i] <= interrupted + 1
    BY BothFit, Typed DEF Fits, RowsFit
  <1>2. db.rows[i] \in Nat /\ interrupted \in Nat
    BY BothFit DEF Db
  <1> QED BY <1>1, <1>2

\* A row of a list: the last event that writes it added the address or removed it.
LEMMA ListRow ==
  ASSUME IInv, NEW W \in SUBSET EventId, NEW a \in Address, NEW v, NEW table, NEW add, NEW remove,
         \/ table = "allowlist" /\ add = "AllowAdd" /\ remove = "AllowRemove"
         \/ table = "denylist" /\ add = "DenyAdd" /\ remove = "DenyRemove",
         \/ Leaves(setup.chain, W, <<table, a>>, v)
         \/ Silent(setup.chain, W, <<table, a>>) /\ v = Absent
  PROVE  v = IF Listed(add, remove, a, W) THEN Present ELSE Absent
  <1> DEFINE c == setup.chain
             k == <<table, a>>
  <1>1. \A i \in W : Writes(c, i, k) <=> i \in About(add, a, W) \cup About(remove, a, W)
    <2> TAKE i \in W
    <2>1. TableOf(c[i].kind) = table <=> c[i].kind \in {add, remove}
      BY DEF TableOf
    <2> QED BY <2>1 DEF Writes, About
  <1>2. /\ \A i \in About(add, a, W) : RowLeft(c[i]) = Present
        /\ \A i \in About(remove, a, W) : RowLeft(c[i]) = Absent
    BY DEF About, RowLeft
  <1>3. W \subseteq Nat /\ Present # Absent
    BY Typed DEF EventId, History, Present, Absent
  <1>4. \A i \in About(add, a, W) \cup About(remove, a, W) : i \in W
    BY DEF About
  <1>5. CASE Silent(c, W, k) /\ v = Absent
    <2>1. About(add, a, W) = {}
      BY <1>1, <1>4, <1>5 DEF Silent
    <2> QED BY <1>5, <2>1 DEF Listed
  <1>6. CASE Leaves(c, W, k, v)
    <2>1. PICK i \in W : /\ Writes(c, i, k) /\ v = RowLeft(c[i])
                         /\ \A j \in W : Writes(c, j, k) => j <= i
      BY <1>6 DEF Leaves
    <2>2. \A j \in About(add, a, W) \cup About(remove, a, W) : j <= i
      BY <1>1, <1>4, <2>1
    <2>3. CASE i \in About(add, a, W)
      <3>1. i \notin About(remove, a, W)
        BY <1>2, <1>3, <2>3
      <3>2. \A j \in About(remove, a, W) : j < i
        <4> TAKE j \in About(remove, a, W)
        <4>1. j \in Nat /\ i \in Nat /\ j # i /\ j <= i
          BY <1>3, <1>4, <2>2, <2>3, <3>1
        <4> QED BY <4>1
      <3>3. Listed(add, remove, a, W)
        BY <2>3, <3>2 DEF Listed
      <3> QED BY <1>2, <2>1, <2>3, <3>3
    <2>4. CASE i \in About(remove, a, W)
      <3>1. \A j \in About(add, a, W) : ~(i < j)
        <4> TAKE j \in About(add, a, W)
        <4>1. j \in Nat /\ i \in Nat /\ j <= i
          BY <1>3, <1>4, <2>2, <2>4
        <4> QED BY <4>1
      <3>2. \A j \in About(add, a, W) : \E m \in About(remove, a, W) : ~(m < j)
        BY <2>4, <3>1
      <3>3. ~Listed(add, remove, a, W)
        BY <3>2 DEF Listed
      <3> QED BY <1>2, <2>1, <2>4, <3>3
    <2> QED BY <1>1, <2>1, <2>3, <2>4
  <1> QED BY <1>5, <1>6

\* A row of the jurisdictions table: the last set of the address.
LEMMA JurisdictionRow ==
  ASSUME IInv, NEW W \in SUBSET EventId, NEW a \in Address, NEW v,
         \/ Leaves(setup.chain, W, <<"jurisdictions", a>>, v)
         \/ Silent(setup.chain, W, <<"jurisdictions", a>>) /\ v = Absent,
         Absent \notin Code
  PROVE  /\ v = Absent <=> About("JurisdictionSet", a, W) = {}
         /\ \/ v \in Attached(a, W) \cup {Absent}
            \/ \E i \in About("JurisdictionRemoved", a, W) :
                 \A j \in About("JurisdictionSet", a, W) : j < i
  <1> DEFINE c == setup.chain
             k == <<"jurisdictions", a>>
             Sets == About("JurisdictionSet", a, W)
  <1>1. \A i \in W : Writes(c, i, k) <=> i \in Sets
    <2> TAKE i \in W
    <2>1. TableOf(c[i].kind) = "jurisdictions" <=> c[i].kind = "JurisdictionSet"
      BY DEF TableOf
    <2> QED BY <2>1 DEF Writes, About
  <1>2. \A i \in Sets : i \in W /\ RowLeft(c[i]) = c[i].code
    BY DEF About, RowLeft
  <1>3. CASE Silent(c, W, k) /\ v = Absent
    <2>1. Sets = {}
      BY <1>1, <1>2, <1>3 DEF Silent
    <2> QED BY <1>3, <2>1
  <1>4. CASE Leaves(c, W, k, v)
    <2>1. PICK i \in W : /\ Writes(c, i, k) /\ v = RowLeft(c[i])
                         /\ \A j \in W : Writes(c, j, k) => j <= i
      BY <1>4 DEF Leaves
    <2>2. i \in Sets /\ v = c[i].code /\ \A j \in Sets : j <= i
      BY <1>1, <1>2, <2>1
    <2>3. c[i].code \in Code /\ W \subseteq Nat
      <3>1. /\ EventId = Ids(setup.chain) /\ Ids(setup.chain) \subseteq Nat
            /\ \A j \in Ids(setup.chain) : setup.chain[j].code \in Code
        BY Typed, ChainIsHistory DEF History, Ids
      <3> QED BY <3>1
    <2>4. v # Absent
      BY <2>2, <2>3
    <2>5. CASE \E j \in About("JurisdictionRemoved", a, W) : j > i
      <3>1. PICK j \in About("JurisdictionRemoved", a, W) : j > i
        BY <2>5
      <3>2. j \in Nat /\ i \in Nat
        BY <2>3 DEF About
      <3>3. \A m \in Sets : m < j
        <4> TAKE m \in Sets
        <4>1. m \in Nat /\ m <= i
          BY <1>2, <2>2, <2>3
        <4> QED BY <3>1, <3>2, <4>1
      <3> QED BY <2>2, <2>4, <3>1, <3>3
    <2>6. CASE ~\E j \in About("JurisdictionRemoved", a, W) : j > i
      <3>1. ASSUME NEW j \in W, j > i, c[j].addr = a PROVE ~Detaches(j, v)
        <4>1. c[j].kind # "JurisdictionRemoved"
          BY <2>6, <3>1 DEF About
        <4>2. c[j].kind # "JurisdictionSet"
          <5>1. j \notin Sets
            <6>1. j \in Nat /\ i \in Nat
              BY <2>3
            <6> QED BY <2>2, <3>1, <6>1
          <5> QED BY <3>1, <5>1 DEF About
        <4> QED BY <4>1, <4>2 DEF Detaches
      <3>2. v \in Attached(a, W)
        BY <2>2, <2>3, <3>1 DEF Attached
      <3> QED BY <2>2, <2>4, <3>2
    <2> QED BY <2>5, <2>6
  <1> QED BY <1>3, <1>4

LEMMA TablesFollow == IInv => TablesMirrorTheChain
  <1> SUFFICES ASSUME IInv, NEW db \in {mem, disk}, Settled(db), NEW a \in Address
               PROVE  LET ids == Emitted(db.origin, db.last)
                      IN  /\ db.view[<<"allowlist", a>>] =
                               IF Listed("AllowAdd", "AllowRemove", a, ids) THEN Present ELSE Absent
                          /\ db.view[<<"denylist", a>>] =
                               IF Listed("DenyAdd", "DenyRemove", a, ids) THEN Present ELSE Absent
                          /\ db.view[<<"jurisdictions", a>>] = Absent <=>
                               About("JurisdictionSet", a, ids) = {}
                          /\ \/ db.view[<<"jurisdictions", a>>] \in Attached(a, ids) \cup {Absent}
                             \/ \E i \in About("JurisdictionRemoved", a, ids) :
                                  \A j \in About("JurisdictionSet", a, ids) : j < i
    BY Zenon DEF TablesMirrorTheChain
  <1> DEFINE c == setup.chain
             W == Emitted(db.origin, db.last)
  <1>1. /\ db \in Db /\ EventId = Ids(c) /\ Len(c) \in Nat
        /\ W = Covered(c, db.origin, db.last) /\ W \in SUBSET EventId
        /\ \A j \in Ids(c) : db.rows[j] > 0 => j \in W
        /\ abandoned = {}
    BY BothFit, Typed DEF Covered, History, Emitted, Settled, Claimed
  <1>2. Fits(c, db, {}, interrupted, abandoned)
    <2>1. CASE db = mem /\ Fits(c, db, Done, interrupted, abandoned)
      <3>1. CASE pc \in {"page", "save"}
        <4>1. \A i \in Done : i \in Ids(c) /\ i \notin Covered(c, mem.origin, mem.last)
          BY <3>1, DoneIsPending
        <4>2. \A i \in Done : db.rows[i] > 0
          BY <2>1, <4>1 DEF Fits, RowsFit
        <4>3. Done = {}
          BY <1>1, <2>1, <4>1, <4>2
        <4> QED BY <2>1, <4>3
      <3>2. CASE pc \notin {"page", "save"}
        BY <2>1, <3>2, RestFits DEF IInv
      <3> QED BY <3>1, <3>2
    <2> QED BY <2>1, BothFit
  <1>3. ASSUME NEW k \in Cell
        PROVE  \/ Leaves(c, W, k, db.view[k])
               \/ Silent(c, W, k) /\ db.view[k] = Absent
    <2>1. Mirrors(c, db, k)
      BY <1>1, <1>2, <1>3 DEF Fits, ViewFits, Leaves
    <2> QED BY <1>1, <2>1 DEF Mirrors
  <1>4. /\ <<"allowlist", a>> \in Cell /\ <<"denylist", a>> \in Cell
        /\ <<"jurisdictions", a>> \in Cell
    BY DEF Cell, Table
  <1>5. W \in SUBSET EventId
    BY <1>1
  <1> HIDE DEF W
  <1>6. db.view[<<"allowlist", a>>] = IF Listed("AllowAdd", "AllowRemove", a, W) THEN Present ELSE Absent
    <2>1. \/ Leaves(setup.chain, W, <<"allowlist", a>>, db.view[<<"allowlist", a>>])
          \/ /\ Silent(setup.chain, W, <<"allowlist", a>>)
             /\ db.view[<<"allowlist", a>>] = Absent
      BY <1>3, <1>4
    <2> QED BY <1>5, <2>1, ListRow
  <1>7. db.view[<<"denylist", a>>] = IF Listed("DenyAdd", "DenyRemove", a, W) THEN Present ELSE Absent
    <2>1. \/ Leaves(setup.chain, W, <<"denylist", a>>, db.view[<<"denylist", a>>])
          \/ /\ Silent(setup.chain, W, <<"denylist", a>>)
             /\ db.view[<<"denylist", a>>] = Absent
      BY <1>3, <1>4
    <2> QED BY <1>5, <2>1, ListRow
  <1>8. /\ db.view[<<"jurisdictions", a>>] = Absent <=> About("JurisdictionSet", a, W) = {}
        /\ \/ db.view[<<"jurisdictions", a>>] \in Attached(a, W) \cup {Absent}
           \/ \E i \in About("JurisdictionRemoved", a, W) :
                \A j \in About("JurisdictionSet", a, W) : j < i
    <2>1. \/ Leaves(setup.chain, W, <<"jurisdictions", a>>, db.view[<<"jurisdictions", a>>])
          \/ /\ Silent(setup.chain, W, <<"jurisdictions", a>>)
             /\ db.view[<<"jurisdictions", a>>] = Absent
      BY <1>3, <1>4
    <2> QED BY <1>5, <2>1, JurisdictionRow, CodeAssumption DEF Absent
  <1> QED BY <1>6, <1>7, <1>8 DEF W

\* The locals of poll(), both databases and the budget of faults keep their
\* types, and the process never forgets to write the file: until a write is
\* torn, what it holds is what is on disk.
THEOREM IndexerTypeCorrect == Spec => []TypeOK
  BY AlwaysIInv, PTL DEF IInv

\* However the node lags, requests fail, writes tear and the process dies, the
\* checkpoint never covers an event that was not stored, other than those on
\* the pages a regressing node made poll() leave.
THEOREM OnlyRegressionsSkip == Spec => []OnlyRegressionSkips
  BY AlwaysIInv, NothingElseSkipped, PTL

\* An event has one row, and one more for each poll that was cut off after a
\* page: nothing else that a retry or a restart repeats stores it again.
THEOREM DuplicatesBounded == Spec => []DuplicatesNeedARetry
  BY AlwaysIInv, FewDuplicates, PTL

\* At a checkpoint with nothing stored past it and nothing abandoned, the two list
\* tables are what the contracts' own rules make of the events, and a jurisdiction
\* row is a code the contract stores unless a removal followed the last set,
\* whatever pages were replayed.
THEOREM TablesMirrored == Spec => []TablesMirrorTheChain
  BY AlwaysIInv, TablesFollow, PTL
=============================================================================

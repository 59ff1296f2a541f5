------------------------- MODULE MigrationsProofs -------------------------
(***************************************************************************)
(* What the migrations do to the rows and the schema of a database, of     *)
(* either kind, wherever runs are sent, killed or stopped: for any number  *)
(* of them.                                                                *)
(***************************************************************************)
EXTENDS Migrations, SequenceTheorems, WellFoundedInduction, TLAPS

-----------------------------------------------------------------------------
(* The inductive invariant.                                                *)

\* What a view of the database, committed or of the run, always satisfies.
View(d, w) ==
  /\ DOMAIN w = {"version", "schema", "rows"}
  /\ DOMAIN w.rows = {"txn", "mandate", "digest", "marked", "stripped", "orphans"}
  /\ w.version \in 0..Latest
  /\ w.rows.txn \in {"none", "PAYMENT_PENDING", "PROVIDER_AUTHORIZED", "PAID"}
  /\ w.rows.mandate \in {"none", "active", "ACTIVE", "REVOKED"}
  /\ w.rows.digest \in 0..2 /\ w.rows.marked \in 0..2 /\ w.rows.stripped \in BOOLEAN
  /\ w.rows.txn # "none" => Table("provider_transactions") \in w.schema
  /\ w.rows.marked # 0 <=> w.rows.digest # 0 /\ HashVersion \in w.schema
  /\ w.rows.marked # 0 => w.rows.marked = w.rows.digest \/ w.rows.stripped
  /\ HashVersion \notin w.schema => w.rows.digest # 2 \/ w.rows.stripped
  /\ d = "postgresql" /\ w.version >= 14 => w.rows.mandate # "active"

\* A statement that adds the hash version drops neither it nor its table.
Marks(step) ==
  HashVersion \in step.adds =>
    HashVersion \notin step.drops /\ Table("audit_events") \notin step.drops

Safe(step) == Marks(step) /\ step.write # "restore"

\* The downgrade of the state vocabulary is under way.
Restoring(version, goal) == version = Latest /\ goal < Latest

\* What is known of the statements left between two versions.
Plan(left, version, goal) ==
  /\ left \in Seq(Range(left))
  /\ \A step \in Range(left) :
       IF Restoring(version, goal) THEN Marks(step) /\ step.mode = "rows" ELSE Safe(step)
  /\ version = goal => left = << >>

\* A statement left will give the values of the next version to the rows that need it.
Repairs(d, left, version, goal, rows) ==
  /\ version = 18 /\ goal > 18 /\ rows.txn = "PAYMENT_PENDING" =>
       \E step \in Range(left) : step.write = "retire"
  /\ d = "postgresql" /\ version = 13 /\ goal > 13 /\ rows.mandate = "active" =>
       \E step \in Range(left) : step.write = "upper"

RunOK ==
  /\ DOMAIN run = {"on", "goal", "open", "left"} /\ run.on \in BOOLEAN
  /\ ~run.on => run = Idle /\ work = disk
  /\ run.on => /\ run.goal \in 0..Latest
               /\ Plan(run.left, work.version, run.goal)
               /\ Repairs(dialect, run.left, work.version, run.goal, work.rows)

\* No payment is in the retired state at the last version.
Retired ==
  /\ disk.version = Latest => disk.rows.txn # "PAYMENT_PENDING"
  /\ work.version = Latest /\ ~(run.on /\ Restoring(work.version, run.goal)) =>
       work.rows.txn # "PAYMENT_PENDING"

SameMeaning(new, old) == new = "none" \/ (old # "none" /\ Meaning(new) = Meaning(old))

MeaningInv ==
  SameMeaning(work.rows.txn, disk.rows.txn) /\ SameMeaning(work.rows.mandate, disk.rows.mandate)

HistoryInv ==
  /\ dialect \in Dialects /\ cut \subseteq {"up", "down"}
  /\ disturbances \in 0..MaxDisturbances /\ crashes \in 0..MaxCrashes
  /\ View(dialect, disk) /\ View(dialect, work)
  /\ RunOK /\ Retired /\ MeaningInv

-----------------------------------------------------------------------------
(* Sequences of statements.                                                *)

\* The least element of a set of numbers, as induction.
LEMMA Induct ==
  ASSUME NEW T, T \subseteq Nat, 0 \in T, \A k \in T : k + 1 \in T
  PROVE  T = Nat
<1> SUFFICES ASSUME Nat \ T # {} PROVE FALSE
  OBVIOUS
<1>1. PICK m \in Nat \ T : \A k \in Nat \ T : ~(<<k, m>> \in OpToRel(<, Nat))
  BY NatLessThanWellFounded, WFMin
<1>2. \A k \in Nat : k < m => k \in T
  BY <1>1 DEF OpToRel
<1>3. m # 0 /\ m - 1 \in Nat /\ m - 1 < m
  OBVIOUS
<1>4. m - 1 \in T
  BY <1>2, <1>3
<1> QED BY <1>3, <1>4

\* The elements of two sequences joined.
LEMMA RangeJoin ==
  ASSUME NEW S, NEW a \in Seq(S), NEW b \in Seq(S)
  PROVE  a \o b \in Seq(S) /\ Range(a \o b) = Range(a) \cup Range(b)
<1>1. /\ a \o b \in Seq(S) /\ Len(a \o b) = Len(a) + Len(b)
      /\ \A i \in 1 .. Len(a) + Len(b) :
           (a \o b)[i] = IF i <= Len(a) THEN a[i] ELSE b[i - Len(a)]
  BY ConcatProperties
<1> DEFINE c == a \o b
<1>2. /\ Len(a) \in Nat /\ Len(b) \in Nat /\ DOMAIN a = 1 .. Len(a) /\ DOMAIN b = 1 .. Len(b)
      /\ DOMAIN c = 1 .. Len(a) + Len(b)
  BY <1>1
<1> HIDE DEF c
<1>3. Range(c) \subseteq Range(a) \cup Range(b)
  <2> SUFFICES ASSUME NEW i \in DOMAIN c PROVE c[i] \in Range(a) \cup Range(b)
    BY DEF Range
  <2>1. CASE i <= Len(a)
    BY <1>1, <1>2, <2>1 DEF Range, c
  <2>2. CASE ~(i <= Len(a))
    <3>1. i - Len(a) \in 1 .. Len(b) /\ c[i] = b[i - Len(a)]
      BY <1>1, <1>2, <2>2 DEF c
    <3> QED BY <1>2, <3>1 DEF Range
  <2> QED BY <2>1, <2>2
<1>4. ASSUME NEW i \in DOMAIN a PROVE a[i] \in Range(c)
  <2>1. i \in DOMAIN c /\ c[i] = a[i]
    BY <1>1, <1>2 DEF c
  <2> QED BY <2>1 DEF Range
<1>5. ASSUME NEW i \in DOMAIN b PROVE b[i] \in Range(c)
  <2>1. /\ i + Len(a) \in 1 .. Len(a) + Len(b) /\ ~(i + Len(a) <= Len(a))
        /\ (i + Len(a)) - Len(a) = i
    BY <1>2
  <2>2. c[i + Len(a)] = b[i]
    BY <1>1, <2>1 DEF c
  <2> QED BY <1>2, <2>1, <2>2 DEF Range
<1> QED BY <1>1, <1>3, <1>4, <1>5 DEF Range, c

\* How a sequence of sequences over S is flattened, one after the other.
Flattens(S, n, ss, flat) ==
  /\ flat \in [1 .. n -> Seq(S)]
  /\ flat[1] = ss[1] /\ \A k \in 1 .. n - 1 : flat[k + 1] = flat[k] \o ss[k + 1]

LEMMA FlattenSteps ==
  ASSUME NEW S, NEW n \in Nat, NEW ss \in [1 .. n -> Seq(S)], n # 0
  PROVE  \E flat : Flattens(S, n, ss, flat) /\ FlattenSeq(ss) = flat[n]
<1> DEFINE From(f, i) == IF i = 1 THEN ss[i] ELSE f[i - 1] \o ss[i]
           flatten == CHOOSE f : f = [i \in 1 .. Len(ss) |-> From(f, i)]
           Defined(k) == \E f \in [1 .. k -> Seq(S)] : \A i \in 1 .. k : f[i] = From(f, i)
           T == {k \in Nat : k <= n => Defined(k)}
<1>1. Len(ss) = n /\ DOMAIN ss = 1 .. n
  OBVIOUS
<1>2. FlattenSeq(ss) = flatten[n]
  BY <1>1 DEF FlattenSeq
<1>3. \A i \in 1 .. n : ss[i] \in Seq(S)
  OBVIOUS
<1>4. /\ \A f : From(f, 1) = ss[1]
      /\ \A f, i : i # 1 => From(f, i) = f[i - 1] \o ss[i]
  OBVIOUS
<1> HIDE DEF From
<1>5. Defined(0)
  <2>1. [i \in 1 .. 0 |-> << >>] \in [1 .. 0 -> Seq(S)]
    OBVIOUS
  <2>2. \A i : i \notin 1 .. 0
    OBVIOUS
  <2> QED BY <2>1, <2>2
<1>6. ASSUME NEW k \in Nat, Defined(k), k + 1 <= n PROVE Defined(k + 1)
  <2>1. PICK f \in [1 .. k -> Seq(S)] : \A i \in 1 .. k : f[i] = From(f, i)
    BY <1>6
  <2> DEFINE next == From(f, k + 1)
             g == [i \in 1 .. k + 1 |-> IF i <= k THEN f[i] ELSE next]
  <2>2. ss[k + 1] \in Seq(S) /\ (k # 0 => f[k] \in Seq(S))
    BY <1>3, <1>6
  <2>3. next \in Seq(S)
    <3>1. CASE k = 0
      BY <1>4, <2>2, <3>1
    <3>2. CASE k # 0
      <4>1. k + 1 # 1 /\ (k + 1) - 1 = k
        BY <3>2
      <4>2. next = f[k] \o ss[k + 1]
        BY <1>4, <4>1
      <4> QED BY <2>2, <3>2, <4>2, ConcatProperties
    <3> QED BY <3>1, <3>2
  <2> HIDE DEF next
  <2>4. g \in [1 .. k + 1 -> Seq(S)]
    BY <2>3
  <2>5. ASSUME NEW i \in 1 .. k + 1 PROVE g[i] = From(g, i)
    <3>1. i # 1 => g[i - 1] = f[i - 1]
      OBVIOUS
    <3>2. From(g, i) = From(f, i)
      <4>1. CASE i = 1
        BY <1>4, <4>1
      <4>2. CASE i # 1
        BY <1>4, <3>1, <4>2
      <4> QED BY <4>1, <4>2
    <3> QED BY <2>1, <3>2 DEF next
  <2> QED BY <2>4, <2>5
<1> HIDE DEF Defined
<1>7. Defined(n)
  <2>1. 0 \in T /\ \A k \in T : k + 1 \in T
    BY <1>5, <1>6
  <2> HIDE DEF T
  <2>2. T = Nat
    BY <2>1, Induct DEF T
  <2> QED BY <2>2 DEF T
<1>8. PICK f \in [1 .. n -> Seq(S)] : \A i \in 1 .. n : f[i] = From(f, i)
  BY <1>7 DEF Defined
<1>9. f = [i \in 1 .. Len(ss) |-> From(f, i)]
  BY <1>1, <1>8
<1> DEFINE Is(g) == g = [i \in 1 .. Len(ss) |-> From(g, i)]
<1>10. Is(flatten)
  BY <1>9
<1>11. DOMAIN flatten = 1 .. n /\ \A i \in 1 .. n : flatten[i] = From(flatten, i)
  BY <1>1, <1>10
<1> HIDE DEF flatten
<1> DEFINE U == {k \in Nat : k + 1 <= n => flatten[k + 1] \in Seq(S)}
<1>12. flatten[1] = ss[1] /\ \A k \in 1 .. n - 1 : flatten[k + 1] = flatten[k] \o ss[k + 1]
  <2>1. 1 \in 1 .. n /\ \A k \in 1 .. n - 1 : k + 1 \in 1 .. n /\ k + 1 # 1 /\ (k + 1) - 1 = k
    OBVIOUS
  <2>2. flatten[1] = ss[1]
    BY <1>4, <1>11, <2>1
  <2> QED BY <1>4, <1>11, <2>1, <2>2
<1>13. 0 \in U
  BY <1>3, <1>12
<1>14. ASSUME NEW k \in U PROVE k + 1 \in U
  <2> SUFFICES ASSUME k + 2 <= n PROVE flatten[k + 2] \in Seq(S)
    OBVIOUS
  <2>1. k + 1 \in 1 .. n - 1 /\ (k + 1) + 1 = k + 2 /\ k + 2 \in 1 .. n
    OBVIOUS
  <2>2. flatten[k + 2] = flatten[k + 1] \o ss[k + 2]
    BY <1>12, <2>1
  <2>3. flatten[k + 1] \in Seq(S) /\ ss[k + 2] \in Seq(S)
    BY <1>3, <1>14, <2>1
  <2> QED BY <2>2, <2>3, ConcatProperties
<1> HIDE DEF U
<1>15. U = Nat
  BY <1>13, <1>14, Induct DEF U
<1>16. \A i \in 1 .. n : flatten[i] \in Seq(S)
  <2> SUFFICES ASSUME NEW i \in 1 .. n PROVE flatten[i] \in Seq(S)
    OBVIOUS
  <2>1. i - 1 \in U /\ (i - 1) + 1 = i /\ i <= n
    BY <1>15
  <2> QED BY <2>1 DEF U
<1>17. flatten \in [1 .. n -> Seq(S)]
  <2>1. flatten = [i \in 1 .. n |-> flatten[i]]
    BY <1>9, <1>10, <1>11
  <2> QED BY <1>16, <2>1
<1> QED BY <1>2, <1>12, <1>17 DEF Flattens

\* A sequence of sequences over S is flattened to a sequence over S, with the elements of each.
LEMMA FlattenIn ==
  ASSUME NEW S, NEW n \in Nat, NEW ss \in [1 .. n -> Seq(S)]
  PROVE  /\ FlattenSeq(ss) \in Seq(S)
         /\ \A i \in 1 .. n : Range(ss[i]) \subseteq Range(FlattenSeq(ss))
<1>1. CASE n = 0
  <2>1. ss = << >> /\ << >> \in Seq(S) /\ DOMAIN ss = {} /\ Len(ss) = 0
    BY <1>1
  <2>2. FlattenSeq(ss) = ss
    BY <2>1 DEF FlattenSeq
  <2>3. \A i : i \notin 1 .. n
    BY <1>1
  <2> QED BY <2>1, <2>2, <2>3
<1>2. CASE n # 0
  <2>0. PICK flat : Flattens(S, n, ss, flat) /\ FlattenSeq(ss) = flat[n]
    BY <1>2, FlattenSteps
  <2>1. /\ flat \in [1 .. n -> Seq(S)]
        /\ flat[1] = ss[1] /\ \A k \in 1 .. n - 1 : flat[k + 1] = flat[k] \o ss[k + 1]
        /\ FlattenSeq(ss) = flat[n]
    BY <2>0 DEF Flattens
  <2> DEFINE Holds(k) == \A i \in 1 .. k : Range(ss[i]) \subseteq Range(flat[k])
             U == {k \in Nat : k + 1 <= n => Holds(k + 1)}
  <2>2. 0 \in U
    <3>1. \A i \in 1 .. 1 : i = 1
      OBVIOUS
    <3> QED BY <2>1, <3>1
  <2>3. ASSUME NEW k \in U PROVE k + 1 \in U
    <3> SUFFICES ASSUME k + 2 <= n PROVE Holds(k + 2)
      OBVIOUS
    <3>1. k + 1 \in 1 .. n - 1 /\ (k + 1) + 1 = k + 2
      OBVIOUS
    <3>2. flat[k + 2] = flat[k + 1] \o ss[k + 2]
      BY <2>1, <3>1
    <3>3. flat[k + 1] \in Seq(S) /\ ss[k + 2] \in Seq(S)
      BY <2>1
    <3>4. Holds(k + 1)
      BY <2>3, <3>1
    <3>5. Range(flat[k + 2]) = Range(flat[k + 1]) \cup Range(ss[k + 2])
      BY <3>2, <3>3, RangeJoin
    <3>6. \A i \in 1 .. k + 2 : i \in 1 .. k + 1 \/ i = k + 2
      OBVIOUS
    <3> QED BY <3>4, <3>5, <3>6
  <2> HIDE DEF U
  <2>4. n - 1 \in U
    <3>1. U = Nat
      BY <2>2, <2>3, Induct DEF U
    <3> QED BY <1>2, <3>1
  <2>5. Holds(n)
    BY <1>2, <2>4 DEF U
  <2> QED BY <1>2, <2>1, <2>5
<1> QED BY <1>1, <1>2

-----------------------------------------------------------------------------
(* The statements of the revisions.                                        *)

SafeSeq(left) == left \in Seq(Range(left)) /\ \A step \in Range(left) : Safe(step)

LEMMA SafeFrom ==
  ASSUME NEW S, NEW left \in Seq(S), \A step \in S : Safe(step)
  PROVE  SafeSeq(left)
<1>1. left \in [1 .. Len(left) -> S] /\ Len(left) \in Nat
  OBVIOUS
<1>2. \A i \in 1 .. Len(left) : left[i] \in Range(left)
  BY <1>1 DEF Range
<1>3. left \in Seq(Range(left))
  BY <1>1, <1>2
<1> QED BY <1>1, <1>3 DEF SafeSeq, Range

LEMMA SafeJoin ==
  ASSUME NEW a, NEW b, SafeSeq(a), SafeSeq(b)
  PROVE  SafeSeq(a \o b)
<1> DEFINE S == Range(a) \cup Range(b)
<1>1. a \in Seq(S) /\ b \in Seq(S)
  <2>1. a \in Seq(Range(a)) /\ b \in Seq(Range(b))
    BY DEF SafeSeq
  <2> HIDE DEF SafeSeq
  <2>2. Range(a) \subseteq S /\ Range(b) \subseteq S
    OBVIOUS
  <2> HIDE DEF S
  <2> QED BY <2>1, <2>2
<1>2. \A step \in S : Safe(step)
  BY DEF SafeSeq
<1> HIDE DEF S
<1>3. a \o b \in Seq(S)
  BY <1>1, ConcatProperties
<1> QED BY <1>2, <1>3, SafeFrom

LEMMA SafeNone == SafeSeq(<< >>)
<1> DEFINE S == {}
<1>1. << >> \in Seq(S) /\ \A x \in S : Safe(x)
  OBVIOUS
<1> HIDE DEF S
<1> QED BY <1>1, SafeFrom

LEMMA SafeOne == ASSUME NEW step, Safe(step) PROVE SafeSeq(<<step>>)
<1> DEFINE S == {step}
<1>1. <<step>> \in Seq(S) /\ \A x \in S : Safe(x)
  OBVIOUS
<1> HIDE DEF S
<1> QED BY <1>1, SafeFrom

LEMMA SafeTwo == ASSUME NEW a, NEW b, Safe(a), Safe(b) PROVE SafeSeq(<<a, b>>)
<1> DEFINE S == {a, b}
<1>1. <<a, b>> \in Seq(S) /\ \A x \in S : Safe(x)
  OBVIOUS
<1> HIDE DEF S
<1> QED BY <1>1, SafeFrom

\* The loops over statements that are safe one by one.
LEMMA SafeLoop ==
  ASSUME NEW n \in Nat, NEW ss, DOMAIN ss = 1 .. n, ss = [i \in 1 .. n |-> ss[i]],
         \A i \in 1 .. n : Safe(ss[i])
  PROVE  SafeSeq(ss)
<1> DEFINE S == {ss[i] : i \in 1 .. n}
<1>1. ss \in Seq(S)
  OBVIOUS
<1>2. \A step \in S : Safe(step)
  OBVIOUS
<1> HIDE DEF S
<1> QED BY <1>1, <1>2, SafeFrom

LEMMA SafeFlatten ==
  ASSUME NEW n \in Nat, NEW ss, ss = [i \in 1 .. n |-> ss[i]],
         \A i \in 1 .. n : SafeSeq(ss[i])
  PROVE  SafeSeq(FlattenSeq(ss))
<1> DEFINE S == UNION {Range(ss[i]) : i \in 1 .. n}
<1>1. ASSUME NEW i \in 1 .. n PROVE ss[i] \in Seq(S)
  <2>1. ss[i] \in Seq(Range(ss[i])) /\ Range(ss[i]) \subseteq S
    BY DEF SafeSeq
  <2> HIDE DEF S
  <2> QED BY <2>1
<1>2. \A step \in S : Safe(step)
  BY DEF SafeSeq
<1> HIDE DEF S
<1>3. ss \in [1 .. n -> Seq(S)]
  BY <1>1
<1>4. FlattenSeq(ss) \in Seq(S)
  BY <1>3, FlattenIn
<1> QED BY <1>2, <1>4, SafeFrom

\* The kinds of statement.
LEMMA SafeKinds ==
  /\ \A objects : Safe(Add(objects)) /\ Safe(Drop(objects))
  /\ \A os : Safe(RefuseOrphans(os))
  /\ \A labels, s : Safe(AddLabels(labels, s))
  /\ Safe(Commit)
  /\ \A how : how # "restore" => Safe(Rewrite(how))
  BY DEF Safe, Marks, Add, Drop, RefuseOrphans, AddLabels, Commit, Rewrite, Plain

LEMMA SafeBatch ==
  ASSUME NEW d, NEW t, NEW adds, NEW drops, HashVersion \notin adds
  PROVE  SafeSeq(Batch(d, t, adds, drops))
<1>1. HashVersion # Scratch(t)
  BY DEF HashVersion, Column, Scratch
<1>2. CASE d = "postgresql"
  <2>1. Safe([Add(adds) EXCEPT !.drops = drops])
    BY DEF Safe, Marks, Add, Plain
  <2> QED BY <1>2, <2>1, SafeOne DEF Batch
<1>3. CASE d # "postgresql"
  <2>1. Safe([Add({Scratch(t)}) EXCEPT !.needs = drops])
    BY <1>1 DEF Safe, Marks, Add, Plain
  <2>2. Safe([Rewrite("nothing") EXCEPT !.adds = adds, !.drops = drops \cup {Scratch(t)}])
    BY DEF Safe, Marks, Rewrite, Plain
  <2> QED BY <1>3, <2>1, <2>2, SafeTwo DEF Batch
<1> QED BY <1>2, <1>3

LEMMA SafeTables ==
  ASSUME NEW n \in Nat, NEW ts, DOMAIN ts = 1 .. n
  PROVE  /\ SafeSeq(CreateTables(ts)) /\ SafeSeq(DropTables(ts))
         /\ \A t : SafeSeq(AddColumns(t, ts)) /\ SafeSeq(DropColumns(t, ts))
<1>1. SafeSeq(CreateTables(ts))
  BY SafeKinds, SafeLoop DEF CreateTables
<1>2. SafeSeq(DropTables(ts))
  BY SafeKinds, SafeLoop DEF DropTables
<1>3. ASSUME NEW t PROVE SafeSeq(AddColumns(t, ts))
  BY SafeKinds, SafeLoop DEF AddColumns
<1>4. ASSUME NEW t PROVE SafeSeq(DropColumns(t, ts))
  BY SafeKinds, SafeLoop DEF DropColumns
<1> QED BY <1>1, <1>2, <1>3, <1>4

SafeRevision(rev) == SafeSeq(rev.up) /\ SafeSeq(rev.down)

LEMMA SafeUpDown ==
  ASSUME NEW up, NEW down, SafeSeq(up), SafeSeq(down)
  PROVE  SafeRevision([up |-> up, down |-> down])
  BY DEF SafeRevision

\* Short lists of tables or columns.
LEMMA ListDomains ==
  /\ \A a : DOMAIN <<a>> = 1 .. 1
  /\ \A a, b : DOMAIN <<a, b>> = 1 .. 2
  /\ \A a, b, c : DOMAIN <<a, b, c>> = 1 .. 3
  /\ \A a, b, c, e : DOMAIN <<a, b, c, e>> = 1 .. 4
  /\ {1, 2, 3, 4, 10, 12} \subseteq Nat
  OBVIOUS

LEMMA SafeColumns == \* 2, 3, 5, 11, 12
  /\ SafeRevision(ReviewExpiry) /\ SafeRevision(ReconciledAt) /\ SafeRevision(AgentProtocol)
  /\ SafeRevision(LlmAttributed) /\ SafeRevision(SigningAndAudit)
<1>1. SafeRevision(ReviewExpiry)
  BY ListDomains, SafeTables, SafeUpDown DEF ReviewExpiry
<1>2. SafeRevision(ReconciledAt)
  BY ListDomains, SafeTables, SafeUpDown DEF ReconciledAt
<1>3. SafeRevision(AgentProtocol)
  BY ListDomains, SafeTables, SafeUpDown DEF AgentProtocol
<1>4. SafeRevision(LlmAttributed)
  BY ListDomains, SafeTables, SafeUpDown DEF LlmAttributed
<1>5. SafeRevision(SigningAndAudit)
  <2>1. \A a, b, c : \A t : SafeSeq(AddColumns(t, <<a, b, c>>)) /\ SafeSeq(DropColumns(t, <<a, b, c>>))
    BY ListDomains, SafeTables
  <2>2. \A a, b, c, e : \A t : SafeSeq(AddColumns(t, <<a, b, c, e>>))
                               /\ SafeSeq(DropColumns(t, <<a, b, c, e>>))
    BY ListDomains, SafeTables
  <2>3. SafeSeq(SigningAndAudit.up)
    BY <2>1, <2>2, SafeJoin DEF SigningAndAudit
  <2>4. SafeSeq(SigningAndAudit.down)
    BY <2>1, <2>2, SafeJoin DEF SigningAndAudit
  <2> QED BY <2>3, <2>4 DEF SafeRevision
<1> QED BY <1>1, <1>2, <1>3, <1>4, <1>5

LEMMA SafeTrails == \* 4, 7, 18
  ASSUME NEW d
  PROVE  SafeRevision(AuditEvents) /\ SafeRevision(RateBuckets) /\ SafeRevision(AuditHashVersion(d))
<1>1. SafeRevision(AuditEvents)
  BY ListDomains, SafeTables, SafeKinds, SafeOne, SafeUpDown DEF AuditEvents
<1>2. SafeRevision(RateBuckets)
  BY ListDomains, SafeTables, SafeKinds, SafeOne, SafeUpDown DEF RateBuckets
<1>3. SafeRevision(AuditHashVersion(d))
  <2>1. SafeSeq(Batch(d, "audit_events", {}, {HashVersion}))
    BY SafeBatch
  <2> QED BY <2>1, SafeKinds, SafeOne, SafeUpDown DEF AuditHashVersion
<1> QED BY <1>1, <1>2, <1>3

LEMMA SafeBaseline == \* 1
  ASSUME NEW d PROVE SafeRevision([up |-> Baseline(d), down |-> DropBaseline])
<1>1. DOMAIN BaselineTables = 1 .. 10
  BY DEF BaselineTables
<1>2. SafeSeq(Baseline(d))
  BY <1>1, ListDomains, SafeKinds, SafeLoop DEF Baseline
<1>3. SafeSeq(DropBaseline)
  <2> DEFINE ts == <<"credentials", "delegation_records", "agents", "revocation_records",
                     "provider_transactions", "payment_intents", "parent_authorities",
                     "mfa_challenges", "bounded_authorizations", "auth_nonces">>
  <2>1. DOMAIN ts = 1 .. 10 /\ DropBaseline = DropTables(ts)
    BY DEF DropBaseline
  <2> HIDE DEF ts
  <2> QED BY <2>1, ListDomains, SafeTables
<1> QED BY <1>2, <1>3, SafeUpDown

LEMMA SafeTrust == \* 6
  ASSUME NEW d PROVE SafeRevision(TrustRotation(d))
<1>1. \A a : \A t : SafeSeq(AddColumns(t, <<a>>)) /\ SafeSeq(DropColumns(t, <<a>>))
  BY ListDomains, SafeTables
<1>2. \A a, b : \A t : SafeSeq(AddColumns(t, <<a, b>>)) /\ SafeSeq(DropColumns(t, <<a, b>>))
  BY ListDomains, SafeTables
<1>3. SafeSeq(<<Rewrite("nothing")>>) /\ SafeSeq(Batch(d, "parent_authorities", {}, {}))
  BY SafeKinds, SafeOne, SafeBatch
<1>4. SafeSeq(TrustRotation(d).up)
  BY <1>1, <1>2, <1>3, SafeJoin DEF TrustRotation
<1>5. SafeSeq(TrustRotation(d).down)
  BY <1>1, <1>2, SafeJoin DEF TrustRotation
<1> QED BY <1>4, <1>5 DEF SafeRevision

\* A foreign key is not a column.
LEMMA KeysAreNotMarks ==
  /\ \A t, c, ref, name : Key(t, c, ref, name) # HashVersion
  /\ \A t, c : t # "audit_events" => Column(t, c) # HashVersion
  /\ \A t : MandateKey(t) # HashVersion
  /\ \A fk : OwnKey(fk) # HashVersion
<1>1. \A t, c, ref, name : Key(t, c, ref, name)[1] = "key"
  BY DEF Key
<1>2. HashVersion[1] = "column" /\ HashVersion[2] = "audit_events"
  BY DEF HashVersion, Column
<1>3. \A t, c : Column(t, c)[2] = t
  BY DEF Column
<1> QED BY <1>1, <1>2, <1>3 DEF MandateKey, OwnKey

LEMMA SafeTenancy == \* 8
  ASSUME NEW d, NEW s PROVE SafeRevision(Multitenancy(d, s))
<1>1. \A a, b : SafeSeq(CreateTables(<<a, b>>)) /\ SafeSeq(DropTables(<<a, b>>))
  BY ListDomains, SafeTables
<1>2. \A a, b, c : Safe(a) /\ Safe(b) /\ Safe(c) => SafeSeq(<<a, b, c>>)
  <2> SUFFICES ASSUME NEW a, NEW b, NEW c, Safe(a), Safe(b), Safe(c) PROVE SafeSeq(<<a, b, c>>)
    OBVIOUS
  <2> DEFINE S == {a, b, c}
  <2>1. <<a, b, c>> \in Seq(S) /\ \A x \in S : Safe(x)
    OBVIOUS
  <2> HIDE DEF S
  <2> QED BY <2>1, SafeFrom
<1> DEFINE columns == Add({Column(t, "org_id") : t \in Range(AddOrgColumnTables)} \ s)
           keys == IF d = "postgresql" THEN <<Add(MultitenancyKeys)>> ELSE << >>
           unkeys == IF d = "postgresql" THEN <<Drop(MultitenancyKeys)>> ELSE << >>
           tables == [i \in DOMAIN AddOrgColumnTables |->
                        Batch(d, AddOrgColumnTables[i], {}, {Column(AddOrgColumnTables[i], "org_id")})]
<1>3. SafeSeq(<<Rewrite("nothing"), columns, RefuseOrphans(OrphanChecks)>>)
  BY <1>2, SafeKinds
<1>4. SafeSeq(keys) /\ SafeSeq(unkeys)
  BY SafeKinds, SafeOne, SafeNone
<1>5. SafeSeq(FlattenSeq(tables))
  <2>1. DOMAIN AddOrgColumnTables = 1 .. 10
    BY DEF AddOrgColumnTables
  <2>2. \A i \in 1 .. 10 : SafeSeq(tables[i])
    BY <2>1, SafeBatch
  <2>3. tables = [i \in 1 .. 10 |-> tables[i]]
    BY <2>1
  <2> HIDE DEF tables
  <2> QED BY <2>2, <2>3, ListDomains, SafeFlatten
<1>6. /\ Multitenancy(d, s).up =
           CreateTables(<<"organizations", "provider_accounts">>)
           \o <<Rewrite("nothing"), columns, RefuseOrphans(OrphanChecks)>> \o keys
      /\ Multitenancy(d, s).down =
           unkeys \o FlattenSeq(tables) \o DropTables(<<"provider_accounts", "organizations">>)
  BY DEF Multitenancy, ForEach
<1> HIDE DEF columns, keys, unkeys, tables
<1>7. SafeSeq(Multitenancy(d, s).up)
  BY <1>1, <1>3, <1>4, <1>6, SafeJoin
<1>8. SafeSeq(Multitenancy(d, s).down)
  BY <1>1, <1>4, <1>5, <1>6, SafeJoin
<1> QED BY <1>7, <1>8 DEF SafeRevision

LEMMA SafeProofs == \* 9
  ASSUME NEW d PROVE SafeRevision(RequestProofs(d))
<1> DEFINE key == Key("request_proofs", "agent_id", "agents", <<"fk_request_proofs_agent">>)
           keys == IF d = "postgresql" THEN <<Add({key})>> ELSE << >>
           unkeys == IF d = "postgresql" THEN <<Drop({key})>> ELSE << >>
<1>1. \A a : SafeSeq(CreateTables(<<a>>)) /\ SafeSeq(DropTables(<<a>>))
  BY ListDomains, SafeTables
<1>2. SafeSeq(keys) /\ SafeSeq(unkeys)
  BY SafeKinds, SafeOne, SafeNone
<1>3. /\ RequestProofs(d).up = CreateTables(<<"request_proofs">>) \o keys
      /\ RequestProofs(d).down = unkeys \o DropTables(<<"request_proofs">>)
  BY DEF RequestProofs
<1> HIDE DEF keys, unkeys
<1> QED BY <1>1, <1>2, <1>3, SafeJoin DEF SafeRevision

LEMMA SafeMandates == \* 10
  ASSUME NEW d PROVE SafeRevision(UserPaymentMandates(d))
<1> DEFINE mandates == "user_payment_mandates"
           bindings == "payment_instrument_bindings"
           intents == {Column("payment_intents", "mandate_id"),
                       Column("payment_intents", "merchant_category"), MandateKey("payment_intents")}
           authorizations == {Column("bounded_authorizations", "mandate_id"),
                              MandateKey("bounded_authorizations")}
           first == Add({Table(mandates),
                         Key(mandates, "agent_id", "agents", Inline(d, mandates, "agent_id"))})
           second == Add({Table(bindings),
                          Key(bindings, "mandate_id", mandates, Inline(d, bindings, "mandate_id"))})
<1>1. HashVersion \notin intents /\ HashVersion \notin authorizations
  BY KeysAreNotMarks
<1>2. SafeSeq(<<first, second>>)
  BY SafeKinds, SafeTwo
<1>3. \A a, b : SafeSeq(DropTables(<<a, b>>))
  BY ListDomains, SafeTables
<1>4. /\ UserPaymentMandates(d).up =
           <<first, second>> \o Batch(d, "payment_intents", intents, {})
           \o Batch(d, "bounded_authorizations", authorizations, {})
      /\ UserPaymentMandates(d).down =
           Batch(d, "bounded_authorizations", {}, authorizations)
           \o Batch(d, "payment_intents", {}, intents) \o DropTables(<<bindings, mandates>>)
  BY DEF UserPaymentMandates
<1> HIDE DEF intents, authorizations, first, second
<1>5. /\ SafeSeq(Batch(d, "payment_intents", intents, {}))
      /\ SafeSeq(Batch(d, "bounded_authorizations", authorizations, {}))
      /\ SafeSeq(Batch(d, "payment_intents", {}, intents))
      /\ SafeSeq(Batch(d, "bounded_authorizations", {}, authorizations))
  BY <1>1, SafeBatch
<1> QED BY <1>2, <1>3, <1>4, <1>5, SafeJoin DEF SafeRevision

LEMMA SafeAgentKeys == \* 13, 15
  ASSUME NEW d, NEW s
  PROVE  SafeRevision(ParentSuspended(d, s)) /\ SafeRevision(IntentAgentKey(d, s))
<1>1. SafeSeq(ParentSuspended(d, s).up) /\ SafeSeq(ParentSuspended(d, s).down)
  BY SafeKinds, SafeNone, SafeTwo DEF ParentSuspended
<1>2. SafeSeq(IntentAgentKey(d, s).up) /\ SafeSeq(IntentAgentKey(d, s).down)
  BY SafeKinds, SafeNone, SafeOne, SafeTwo DEF IntentAgentKey
<1> QED BY <1>1, <1>2 DEF SafeRevision

LEMMA SafeStatus == \* 14
  ASSUME NEW d, NEW s
  PROVE  /\ SafeRevision(MandateStatusEnum(d, s))
         /\ d = "postgresql" =>
              \E step \in Range(MandateStatusEnum(d, s).up) : step.write = "upper"
<1> DEFINE status == Native("user_payment_mandates", "status")
           a == Add({Type("mandatestatus")} \ s)
           b == Rewrite("upper")
           c == [Add({status}) EXCEPT !.write = "cast"]
<1>1. Safe(a) /\ Safe(b) /\ b.write = "upper"
  BY SafeKinds DEF Rewrite, Plain
<1>2. Safe(c)
  BY DEF Safe, Marks, Add, Plain
<1>3. CASE d # "postgresql"
  <2>1. SafeSeq(MandateStatusEnum(d, s).up) /\ SafeSeq(MandateStatusEnum(d, s).down)
    BY <1>3, SafeNone DEF MandateStatusEnum
  <2> QED BY <1>3, <2>1 DEF SafeRevision
<1>4. CASE d = "postgresql"
  <2>1. MandateStatusEnum(d, s).up = <<a, Commit, b, c>>
        /\ MandateStatusEnum(d, s).down = <<Drop({status})>>
    BY <1>4 DEF MandateStatusEnum
  <2> HIDE DEF a, b, c
  <2> DEFINE S == {a, Commit, b, c}
             up == <<a, Commit, b, c>>
  <2>2. up \in Seq(S) /\ \A step \in S : Safe(step)
    BY <1>1, <1>2, SafeKinds
  <2>3. b \in Range(up)
    <3>1. up[3] = b /\ 3 \in DOMAIN up
      OBVIOUS
    <3> HIDE DEF up
    <3> QED BY <3>1 DEF Range
  <2> HIDE DEF S, up
  <2>4. SafeSeq(up) /\ SafeSeq(<<Drop({status})>>)
    BY <2>2, SafeFrom, SafeKinds, SafeOne
  <2> QED BY <1>1, <2>1, <2>3, <2>4 DEF SafeRevision, up
<1> QED BY <1>3, <1>4

LEMMA SafeParity == \* 16
  ASSUME NEW d, NEW s PROVE SafeRevision(FkParity(d, s))
<1>1. DOMAIN RequiredFks = 1 .. 12 /\ DOMAIN Reverse(RequiredFks) = 1 .. 12
  <2>1. Len(RequiredFks) = 12 /\ DOMAIN RequiredFks = 1 .. 12
    BY DEF RequiredFks
  <2> QED BY <2>1 DEF Reverse
<1> DEFINE missing(fk) == IF Missing(s, fk) THEN Batch(d, fk[1], {OwnKey(fk)}, {}) ELSE << >>
           own(fk) == IF OwnKey(fk) \in s \/ \E e \in KeysOn(s, fk[1], fk[2]) : e[5] = << >>
                      THEN Batch(d, fk[1], {}, {OwnKey(fk)}) ELSE << >>
           check == RefuseOrphans(Dangling({fk \in Range(RequiredFks) : Missing(s, fk)}))
           added == [i \in DOMAIN RequiredFks |-> missing(RequiredFks[i])]
           dropped == [i \in DOMAIN Reverse(RequiredFks) |-> own(Reverse(RequiredFks)[i])]
<1>2. FkParity(d, s).up = <<check>> \o FlattenSeq(added)
      /\ FkParity(d, s).down = FlattenSeq(dropped)
  BY DEF FkParity, AddMissingFks, DropOwnFks, ForEach
<1>3. \A fk : SafeSeq(missing(fk)) /\ SafeSeq(own(fk))
  <2> SUFFICES ASSUME NEW fk PROVE SafeSeq(missing(fk)) /\ SafeSeq(own(fk))
    OBVIOUS
  <2>1. HashVersion \notin {OwnKey(fk)}
    BY KeysAreNotMarks
  <2>2. SafeSeq(Batch(d, fk[1], {OwnKey(fk)}, {})) /\ SafeSeq(Batch(d, fk[1], {}, {OwnKey(fk)}))
    BY <2>1, SafeBatch
  <2> QED BY <2>2, SafeNone
<1>4. SafeSeq(<<check>>)
  BY SafeKinds, SafeOne
<1> HIDE DEF missing, own, check
<1>5. SafeSeq(FlattenSeq(added)) /\ SafeSeq(FlattenSeq(dropped))
  <2>1. /\ added = [i \in 1 .. 12 |-> added[i]] /\ \A i \in 1 .. 12 : SafeSeq(added[i])
        /\ dropped = [i \in 1 .. 12 |-> dropped[i]] /\ \A i \in 1 .. 12 : SafeSeq(dropped[i])
    BY <1>1, <1>3
  <2> HIDE DEF added, dropped
  <2> QED BY <2>1, ListDomains, SafeFlatten
<1> HIDE DEF added, dropped
<1> QED BY <1>2, <1>4, <1>5, SafeJoin DEF SafeRevision

LEMMA SafeProvenance == \* 17
  ASSUME NEW d PROVE SafeRevision(Provenance(d))
<1> DEFINE columns == <<"provider_environment", "provider_key_id_prefix", "provider_api_base">>
<1>1. SafeSeq(AddColumns("provider_transactions", columns))
  BY ListDomains, SafeTables
<1>2. SafeSeq(Batch(d, "provider_transactions", {},
                    {Column("provider_transactions", c) : c \in Range(columns)}))
  BY SafeBatch
<1> QED BY <1>1, <1>2 DEF SafeRevision, Provenance

LEMMA RangeOne == ASSUME NEW x PROVE Range(<<x>>) = {x}
<1> DEFINE one == <<x>>
<1>1. DOMAIN one = 1 .. 1 /\ one[1] = x
  OBVIOUS
<1> HIDE DEF one
<1>2. Range(one) = {x}
  BY <1>1 DEF Range
<1> QED BY <1>2 DEF one

\* 19
LEMMA VocabularySteps ==
  /\ SafeSeq(StateVocabulary.up)
  /\ \E step \in Range(StateVocabulary.up) : step.write = "retire"
  /\ StateVocabulary.down \in Seq(Range(StateVocabulary.down))
  /\ \A step \in Range(StateVocabulary.down) : Marks(step) /\ step.mode = "rows"
<1> DEFINE retire == Rewrite("retire")
           restore == Rewrite("restore")
<1>1. StateVocabulary.up = <<retire>> /\ StateVocabulary.down = <<restore>>
  BY DEF StateVocabulary
<1>2. Safe(retire) /\ retire.write = "retire" /\ Marks(restore) /\ restore.mode = "rows"
  BY DEF Safe, Marks, Rewrite, Plain
<1> HIDE DEF retire, restore
<1>3. Range(<<retire>>) = {retire} /\ Range(<<restore>>) = {restore}
  BY RangeOne
<1>4. <<restore>> \in Seq({restore})
  OBVIOUS
<1> QED BY <1>1, <1>2, <1>3, <1>4, SafeOne

\* Every revision but the last is safe in both directions.
LEMMA Revisions ==
  ASSUME NEW n \in 1 .. Latest, NEW d, NEW s
  PROVE  /\ n # Latest => SafeRevision(Revision(n, d, s))
         /\ n = Latest => Revision(n, d, s) = StateVocabulary
         /\ n = 14 => Revision(n, d, s) = MandateStatusEnum(d, s)
<1> USE DEF Revision
<1>1. CASE n \in {1, 2, 3, 4, 5, 6}
  BY <1>1, SafeBaseline, SafeColumns, SafeTrails, SafeTrust DEF Latest
<1>2. CASE n \in {7, 8, 9, 10, 11, 12}
  BY <1>2, SafeTrails, SafeTenancy, SafeProofs, SafeMandates, SafeColumns DEF Latest
<1>3. CASE n \in {13, 14, 15, 16, 17, 18}
  BY <1>3, SafeAgentKeys, SafeStatus, SafeParity, SafeProvenance, SafeTrails DEF Latest
<1>4. CASE n = 19
  BY <1>4 DEF Latest
<1> QED BY <1>1, <1>2, <1>3, <1>4 DEF Latest

\* What is left between two versions when a run gets to the first of them.
LEMMA PlanStarts ==
  ASSUME NEW d, NEW s, NEW rows, NEW version \in 0 .. Latest, NEW goal \in 0 .. Latest
  PROVE  /\ Plan(Statements(d, s, version, goal), version, goal)
         /\ Repairs(d, Statements(d, s, version, goal), version, goal, rows)
<1> SUFFICES ASSUME NEW left, left = Statements(d, s, version, goal)
             PROVE  Plan(left, version, goal) /\ Repairs(d, left, version, goal, rows)
  OBVIOUS
<1>l. Latest = 19 /\ version \in 0 .. 19 /\ goal \in 0 .. 19
  BY DEF Latest
<1>1. CASE version = goal
  <2>1. left = << >>
    BY <1>1 DEF Statements
  <2>2. SafeSeq(left)
    BY <2>1, SafeNone
  <2>3. ~Restoring(version, goal) /\ ~(version = 18 /\ goal > 18) /\ ~(version = 13 /\ goal > 13)
    BY <1>l, <1>1 DEF Restoring
  <2> QED BY <2>1, <2>2, <2>3 DEF Plan, Repairs, SafeSeq
<1>2. CASE version < goal
  <2>1. version + 1 \in 1 .. Latest /\ left = Revision(version + 1, d, s).up
    BY <1>l, <1>2 DEF Statements
  <2>2. SafeSeq(left)
    BY <2>1, Revisions, VocabularySteps DEF SafeRevision
  <2>3. version = 18 => \E step \in Range(left) : step.write = "retire"
    BY <1>l, <2>1, Revisions, VocabularySteps
  <2>4. d = "postgresql" /\ version = 13 => \E step \in Range(left) : step.write = "upper"
    BY <2>1, Revisions, SafeStatus
  <2>5. ~Restoring(version, goal) /\ version # goal
    BY <1>l, <1>2 DEF Restoring
  <2> QED BY <2>2, <2>3, <2>4, <2>5 DEF Plan, Repairs, SafeSeq
<1>3. CASE version > goal
  <2>1. version \in 1 .. Latest /\ left = Revision(version, d, s).down
    BY <1>l, <1>3 DEF Statements
  <2>2. CASE version = Latest
    <3>1. Restoring(version, goal) /\ ~(version = 18 /\ goal > 18) /\ ~(version = 13 /\ goal > 13)
      BY <1>l, <1>3, <2>2 DEF Restoring
    <3>2. left = StateVocabulary.down
      BY <2>1, <2>2, Revisions
    <3>3. version # goal
      BY <1>3
    <3> QED BY <3>1, <3>2, <3>3, VocabularySteps DEF Plan, Repairs
  <2>3. CASE version # Latest
    <3>1. SafeSeq(left)
      BY <2>1, <2>3, Revisions DEF SafeRevision
    <3>2. ~Restoring(version, goal) /\ ~(version = 18 /\ goal > 18) /\ ~(version = 13 /\ goal > 13)
      BY <1>l, <1>3, <2>3 DEF Restoring
    <3>3. version # goal
      BY <1>3
    <3> QED BY <3>1, <3>2, <3>3 DEF Plan, Repairs, SafeSeq
  <2> QED BY <2>2, <2>3
<1> QED BY <1>1, <1>2, <1>3

\* A statement is taken from the front of what is left.
LEMMA PlanGoesOn ==
  ASSUME NEW left, NEW version, NEW goal, Plan(left, version, goal), left # << >>
  PROVE  /\ Head(left) \in Range(left) /\ Plan(Tail(left), version, goal)
         /\ \A step \in Range(left) : step = Head(left) \/ step \in Range(Tail(left))
<1> DEFINE S == Range(left)
<1>1. left \in Seq(S)
  BY DEF Plan
<1>2. Len(left) \in Nat \ {0} /\ DOMAIN left = 1 .. Len(left)
  BY <1>1, EmptySeq
<1>3. /\ Head(left) = left[1] /\ Tail(left) \in Seq(S)
      /\ Len(Tail(left)) = Len(left) - 1
      /\ \A i \in 1 .. Len(Tail(left)) : Tail(left)[i] = left[i + 1]
  BY <1>1, HeadTailProperties
<1>4. Head(left) \in Range(left)
  BY <1>2, <1>3 DEF Range
<1>5. DOMAIN Tail(left) = 1 .. Len(Tail(left))
  BY <1>3
<1> DEFINE rest == Tail(left)
<1> HIDE DEF S, rest
<1>6. Range(rest) \subseteq Range(left)
  BY <1>2, <1>3, <1>5 DEF Range, rest
<1>7. rest \in Seq(Range(rest))
  <2>0. rest \in Seq(S)
    BY <1>3 DEF rest
  <2>1. rest \in [1 .. Len(rest) -> S] /\ Len(rest) \in Nat
    BY <2>0
  <2>2. \A i \in 1 .. Len(rest) : rest[i] \in Range(rest)
    BY <2>1 DEF Range
  <2> QED BY <2>1, <2>2
<1>8. ASSUME NEW step \in Range(left) PROVE step = Head(left) \/ step \in Range(rest)
  <2>1. PICK i \in 1 .. Len(left) : step = left[i]
    BY <1>2 DEF Range
  <2>2. CASE i = 1
    BY <1>3, <2>1, <2>2
  <2>3. CASE i # 1
    <3>1. i - 1 \in 1 .. Len(rest) /\ (i - 1) + 1 = i
      BY <1>2, <1>3, <2>3 DEF rest
    <3>2. step = rest[i - 1]
      BY <1>3, <2>1, <3>1 DEF rest
    <3> QED BY <1>5, <3>1, <3>2 DEF Range, rest
  <2> QED BY <2>2, <2>3
<1>9. version # goal
  BY DEF Plan
<1> QED BY <1>4, <1>6, <1>7, <1>8, <1>9 DEF Plan, rest

-----------------------------------------------------------------------------
(* What a statement does to the rows.                                      *)

LEMMA Relabels ==
  ASSUME NEW d, NEW w, View(d, w), NEW how
  PROVE  LET new == Relabelled(how, w.rows) IN
         /\ DOMAIN new = DOMAIN w.rows
         /\ new.txn \in {"none", "PAYMENT_PENDING", "PROVIDER_AUTHORIZED", "PAID"}
         /\ new.mandate \in {"none", "active", "ACTIVE", "REVOKED"}
         /\ new.digest = w.rows.digest /\ new.marked = w.rows.marked
         /\ new.stripped = w.rows.stripped
         /\ SameMeaning(new.txn, w.rows.txn) /\ SameMeaning(new.mandate, w.rows.mandate)
         /\ (new.txn = "PAYMENT_PENDING") =>
              (how = "restore" \/ (w.rows.txn = "PAYMENT_PENDING" /\ how # "retire"))
         /\ new.mandate = "active" => w.rows.mandate = "active" /\ how # "upper"
  BY DEF View, Relabelled, SameMeaning, Meaning

LEMMA RunKeeps ==
  ASSUME NEW d, NEW w, View(d, w), NEW step, Succeeds(d, step, w), Marks(step)
  PROVE  LET new == Run(step, w) IN
         /\ View(d, new) /\ new.version = w.version
         /\ SameMeaning(new.rows.txn, w.rows.txn)
         /\ SameMeaning(new.rows.mandate, w.rows.mandate)
         /\ new.rows.txn = "PAYMENT_PENDING" =>
              (step.write = "restore" \/ (w.rows.txn = "PAYMENT_PENDING" /\ step.write # "retire"))
         /\ new.rows.mandate = "active" => w.rows.mandate = "active" /\ step.write # "upper"
<1> DEFINE mid == Relabelled(step.write, w.rows)
           kept == Kept(mid, step)
           schema == (w.schema \ Dropped(step, w.schema)) \cup step.adds
           gone(t) == Table(t) \in step.drops
           unmarked == gone("audit_events") \/ HashVersion \in step.drops
           new == Run(step, w)
<1>1. /\ DOMAIN new = {"version", "schema", "rows"} /\ new.version = w.version
      /\ new.schema = schema /\ new.rows = kept
  BY DEF Run, View
<1> HIDE DEF new
<1>2. /\ mid.digest = w.rows.digest /\ mid.marked = w.rows.marked
      /\ mid.stripped = w.rows.stripped
      /\ mid.txn \in {"none", "PAYMENT_PENDING", "PROVIDER_AUTHORIZED", "PAID"}
      /\ mid.mandate \in {"none", "active", "ACTIVE", "REVOKED"}
      /\ SameMeaning(mid.txn, w.rows.txn) /\ SameMeaning(mid.mandate, w.rows.mandate)
      /\ (mid.txn = "PAYMENT_PENDING") =>
           (step.write = "restore" \/ (w.rows.txn = "PAYMENT_PENDING" /\ step.write # "retire"))
      /\ mid.mandate = "active" => w.rows.mandate = "active" /\ step.write # "upper"
  BY Relabels
<1> HIDE DEF mid
<1>3. /\ DOMAIN kept = {"txn", "mandate", "digest", "marked", "stripped", "orphans"}
      /\ kept.txn = IF gone("provider_transactions") THEN "none" ELSE mid.txn
      /\ kept.mandate = IF gone("user_payment_mandates") THEN "none" ELSE mid.mandate
      /\ kept.digest = IF gone("audit_events") THEN 0 ELSE mid.digest
      /\ kept.marked = IF unmarked THEN 0
                       ELSE IF HashVersion \in step.adds /\ mid.digest # 0 THEN HashVersionDefault
                       ELSE mid.marked
      /\ kept.stripped \in BOOLEAN
      /\ kept.stripped <=> ~gone("audit_events") /\ (mid.stripped \/ (unmarked /\ mid.marked # 0))
  BY DEF Kept
<1> HIDE DEF kept
<1>4. Table("provider_transactions") \in w.schema /\ ~gone("provider_transactions") =>
        Table("provider_transactions") \in schema
  BY DEF Dropped, Table
<1>5. HashVersion \in schema <=>
        (HashVersion \in w.schema /\ ~unmarked) \/ HashVersion \in step.adds
  BY DEF Dropped, HashVersion, Column
<1>6. /\ HashVersion \in step.adds => HashVersion \notin w.schema /\ ~unmarked
      /\ HashVersion \in step.drops => HashVersion \in w.schema
  BY DEF Marks, Succeeds
<1> HIDE DEF schema, unmarked, gone
<1>7. /\ kept.txn \in {"none", "PAYMENT_PENDING", "PROVIDER_AUTHORIZED", "PAID"}
      /\ kept.mandate \in {"none", "active", "ACTIVE", "REVOKED"}
      /\ SameMeaning(kept.txn, w.rows.txn) /\ SameMeaning(kept.mandate, w.rows.mandate)
      /\ kept.txn = "PAYMENT_PENDING" => mid.txn = "PAYMENT_PENDING"
      /\ kept.mandate = "active" => mid.mandate = "active"
  BY <1>2, <1>3 DEF SameMeaning
<1>8. kept.txn # "none" => Table("provider_transactions") \in schema
  BY <1>2, <1>3, <1>4 DEF View, SameMeaning
<1>9. gone("audit_events") => unmarked
  BY DEF unmarked
<1>10. /\ kept.digest \in 0 .. 2 /\ kept.marked \in 0 .. 2 /\ kept.stripped \in BOOLEAN
       /\ kept.marked # 0 <=> kept.digest # 0 /\ HashVersion \in schema
       /\ kept.marked # 0 => kept.marked = kept.digest \/ kept.stripped
       /\ HashVersion \notin schema => kept.digest # 2 \/ kept.stripped
  <2>1. /\ w.rows.digest \in 0 .. 2 /\ w.rows.marked \in 0 .. 2 /\ w.rows.stripped \in BOOLEAN
        /\ w.rows.marked # 0 <=> w.rows.digest # 0 /\ HashVersion \in w.schema
        /\ w.rows.marked # 0 => w.rows.marked = w.rows.digest \/ w.rows.stripped
        /\ HashVersion \notin w.schema => w.rows.digest # 2 \/ w.rows.stripped
    BY DEF View
  <2>2. CASE gone("audit_events")
    <3>1. kept.digest = 0 /\ kept.marked = 0
      BY <1>3, <1>9, <2>2
    <3> QED BY <1>3, <3>1
  <2>3. CASE ~gone("audit_events") /\ unmarked
    <3>1. kept.digest = w.rows.digest /\ kept.marked = 0 /\ HashVersion \notin schema
          /\ (kept.stripped <=> w.rows.stripped \/ w.rows.marked # 0)
      BY <1>2, <1>3, <1>5, <1>6, <2>3
    <3> QED BY <1>3, <2>1, <3>1
  <2>4. CASE ~unmarked /\ HashVersion \in step.adds
    <3>1. kept.digest = w.rows.digest /\ (kept.stripped <=> w.rows.stripped)
          /\ HashVersion \in schema /\ HashVersion \notin w.schema
          /\ kept.marked = IF w.rows.digest # 0 THEN 1 ELSE w.rows.marked
      BY <1>2, <1>3, <1>5, <1>6, <1>9, <2>4 DEF HashVersionDefault
    <3> QED BY <1>3, <2>1, <3>1
  <2>5. CASE ~unmarked /\ HashVersion \notin step.adds
    <3>1. kept.digest = w.rows.digest /\ (kept.stripped <=> w.rows.stripped)
          /\ kept.marked = w.rows.marked /\ (HashVersion \in schema <=> HashVersion \in w.schema)
      BY <1>2, <1>3, <1>5, <1>9, <2>5
    <3> QED BY <1>3, <2>1, <3>1
  <2> QED BY <2>2, <2>3, <2>4, <2>5
<1>11. View(d, new)
  BY <1>1, <1>2, <1>3, <1>7, <1>8, <1>10 DEF View
<1> QED BY <1>1, <1>2, <1>7, <1>11 DEF new

-----------------------------------------------------------------------------
(* The steps.                                                              *)

LEMMA SameMeanings ==
  ASSUME NEW a, NEW b, NEW c
  PROVE  SameMeaning(a, a) /\ (SameMeaning(a, b) /\ SameMeaning(b, c) => SameMeaning(a, c))
  BY DEF SameMeaning

LEMMA HistoryInit == Init => HistoryInv
<1> SUFFICES ASSUME Init PROVE HistoryInv
  OBVIOUS
<1>1. View(dialect, Empty)
  <2>1. /\ DOMAIN Empty = {"version", "schema", "rows"} /\ Empty.version = 0
        /\ Empty.schema = {} /\ Empty.rows = NoRows
    BY DEF Empty
  <2>2. /\ DOMAIN NoRows = {"txn", "mandate", "digest", "marked", "stripped", "orphans"}
        /\ NoRows.txn = "none" /\ NoRows.mandate = "none"
        /\ NoRows.digest = 0 /\ NoRows.marked = 0 /\ NoRows.stripped \in BOOLEAN
    BY DEF NoRows
  <2>3. /\ 0 \in 0 .. Latest /\ 0 \in 0 .. 2 /\ ~(0 >= 14)
        /\ HashVersion \notin {} /\ "none" # "active"
    BY DEF Latest
  <2> QED BY <2>1, <2>2, <2>3 DEF View
<1>2. disk = Empty /\ work = Empty /\ run = Idle /\ Empty.version # Latest
  BY DEF Init, Empty, Latest
<1>3. RunOK
  BY <1>2 DEF RunOK, Idle
<1>4. Retired /\ MeaningInv
  BY <1>2, SameMeanings DEF Retired, MeaningInv
<1> QED BY <1>1, <1>2, <1>3, <1>4, BoundsAssumption DEF Init, HistoryInv

LEMMA Starts ==
  ASSUME HistoryInv, ~run.on, NEW goal \in 0 .. Latest, UNCHANGED <<dialect, disk, work, cut, crashes>>,
         disturbances' \in 0 .. MaxDisturbances,
         run' = [on |-> TRUE, goal |-> goal, open |-> FALSE,
                 left |-> Statements(dialect, disk.schema, disk.version, goal)]
  PROVE  HistoryInv'
<1>1. work = disk /\ disk.version \in 0 .. Latest
  BY DEF HistoryInv, RunOK, View
<1> DEFINE left == Statements(dialect, disk.schema, disk.version, goal)
<1>2. Plan(left, work.version, goal) /\ Repairs(dialect, left, work.version, goal, work.rows)
  BY <1>1, PlanStarts
<1>3. /\ DOMAIN run' = {"on", "goal", "open", "left"}
      /\ run'.on = TRUE /\ run'.goal = goal /\ run'.left = left
  OBVIOUS
<1> HIDE DEF left
<1>4. RunOK'
  BY <1>2, <1>3 DEF RunOK
<1>5. Retired' /\ MeaningInv'
  BY <1>1 DEF HistoryInv, Retired, MeaningInv
<1> QED BY <1>4, <1>5 DEF HistoryInv

LEMMA Executes ==
  ASSUME HistoryInv, Execute
  PROVE  /\ HistoryInv'
         /\ SameMeaning(work'.rows.txn, disk.rows.txn)
         /\ SameMeaning(work'.rows.mandate, disk.rows.mandate)
<1>1. PICK step : step = Head(run.left)
  OBVIOUS
<1>2. /\ run.on /\ run.left # << >> /\ Succeeds(dialect, step, work)
      /\ work' = Run(step, work) /\ disk' = IF Durable(step) THEN work' ELSE disk
      /\ run' = [run EXCEPT !.left = Tail(@), !.open = @ \/ step.mode = "rows"]
      /\ UNCHANGED <<dialect, cut, disturbances, crashes>>
  BY <1>1 DEF Execute
<1>3. /\ View(dialect, work) /\ View(dialect, disk)
      /\ run.goal \in 0 .. Latest /\ Plan(run.left, work.version, run.goal)
      /\ Repairs(dialect, run.left, work.version, run.goal, work.rows)
  BY <1>2 DEF HistoryInv, RunOK
<1>4. /\ step \in Range(run.left) /\ Plan(Tail(run.left), work.version, run.goal)
      /\ \A s \in Range(run.left) : s = step \/ s \in Range(Tail(run.left))
  BY <1>1, <1>2, <1>3, PlanGoesOn
<1>5. work.version # run.goal
  BY <1>2, <1>3 DEF Plan
<1>6. Marks(step) /\ IF Restoring(work.version, run.goal) THEN step.mode = "rows"
                     ELSE step.write # "restore"
  BY <1>3, <1>4 DEF Plan, Safe
<1>7. /\ View(dialect, work') /\ work'.version = work.version
      /\ SameMeaning(work'.rows.txn, work.rows.txn)
      /\ SameMeaning(work'.rows.mandate, work.rows.mandate)
      /\ work'.rows.txn = "PAYMENT_PENDING" =>
           (step.write = "restore" \/ (work.rows.txn = "PAYMENT_PENDING" /\ step.write # "retire"))
      /\ work'.rows.mandate = "active" => work.rows.mandate = "active" /\ step.write # "upper"
  BY <1>2, <1>3, <1>6, RunKeeps
<1>8. SameMeaning(work'.rows.txn, disk.rows.txn) /\ SameMeaning(work'.rows.mandate, disk.rows.mandate)
  BY <1>7, SameMeanings DEF HistoryInv, MeaningInv
<1>9. work.version = Latest => Restoring(work.version, run.goal) /\ disk' = disk
  <2> SUFFICES ASSUME work.version = Latest
               PROVE  Restoring(work.version, run.goal) /\ disk' = disk
    OBVIOUS
  <2>1. Restoring(work.version, run.goal)
    BY <1>3, <1>5 DEF Restoring, Latest
  <2> QED BY <1>2, <1>6, <2>1 DEF Durable
<1>10. /\ DOMAIN run' = {"on", "goal", "open", "left"} /\ run'.on = run.on
       /\ run'.goal = run.goal /\ run'.left = Tail(run.left)
  BY <1>2 DEF HistoryInv, RunOK
<1>11. Repairs(dialect, Tail(run.left), work.version, run.goal, work'.rows)
  <2>1. work.version = 18 => ~Restoring(work.version, run.goal)
    BY DEF Restoring, Latest
  <2>2. ASSUME work.version = 18, run.goal > 18, work'.rows.txn = "PAYMENT_PENDING"
        PROVE  \E s \in Range(Tail(run.left)) : s.write = "retire"
    <3>1. work.rows.txn = "PAYMENT_PENDING" /\ step.write # "retire"
      BY <1>6, <1>7, <2>1, <2>2
    <3> QED BY <1>3, <1>4, <2>2, <3>1 DEF Repairs
  <2>3. ASSUME dialect = "postgresql", work.version = 13, run.goal > 13,
               work'.rows.mandate = "active"
        PROVE  \E s \in Range(Tail(run.left)) : s.write = "upper"
    <3>1. work.rows.mandate = "active" /\ step.write # "upper"
      BY <1>7, <2>3
    <3> QED BY <1>3, <1>4, <2>3, <3>1 DEF Repairs
  <2> QED BY <2>2, <2>3 DEF Repairs
<1>12. RunOK'
  BY <1>2, <1>3, <1>4, <1>7, <1>10, <1>11 DEF RunOK, HistoryInv
<1>13. Retired'
  BY <1>2, <1>7, <1>9, <1>10 DEF Retired, HistoryInv
<1>14. MeaningInv'
  BY <1>2, <1>8, SameMeanings DEF MeaningInv
<1>15. View(dialect, disk')
  BY <1>2, <1>3, <1>7
<1> QED BY <1>2, <1>7, <1>8, <1>12, <1>13, <1>14, <1>15 DEF HistoryInv

LEMMA Records ==
  ASSUME HistoryInv, Record
  PROVE  HistoryInv' /\ work'.rows = work.rows
<1>1. PICK version : version = IF work.version < run.goal THEN work.version + 1 ELSE work.version - 1
  OBVIOUS
<1>2. /\ run.on /\ run.left = << >> /\ work.version # run.goal
      /\ work' = [work EXCEPT !.version = version]
      /\ disk' = IF dialect = "sqlite" THEN work' ELSE disk
      /\ run' = [run EXCEPT !.open = FALSE,
                            !.left = Statements(dialect, work'.schema, work'.version, run.goal)]
      /\ UNCHANGED <<dialect, cut, disturbances, crashes>>
  BY <1>1 DEF Record
<1>3. /\ View(dialect, work) /\ View(dialect, disk) /\ run.goal \in 0 .. Latest
      /\ Repairs(dialect, run.left, work.version, run.goal, work.rows)
  BY <1>2 DEF HistoryInv, RunOK
<1>4. work.version \in 0 .. Latest /\ Latest = 19
  BY <1>3 DEF View, Latest
<1>5. version \in 0 .. Latest
  BY <1>1, <1>2, <1>3, <1>4
<1>6. /\ DOMAIN work' = {"version", "schema", "rows"} /\ work'.version = version
      /\ work'.schema = work.schema /\ work'.rows = work.rows
  BY <1>2, <1>3 DEF View
<1>7. /\ work.version = 18 /\ run.goal > 18 => work.rows.txn # "PAYMENT_PENDING"
      /\ dialect = "postgresql" /\ work.version = 13 /\ run.goal > 13 =>
           work.rows.mandate # "active"
  <2>1. Range(run.left) = {}
    BY <1>2 DEF Range
  <2> QED BY <1>3, <2>1 DEF Repairs
<1>8. version = Latest => work.rows.txn # "PAYMENT_PENDING"
  BY <1>1, <1>3, <1>4, <1>7
<1>9. dialect = "postgresql" /\ version >= 14 => work.rows.mandate # "active"
  <2> SUFFICES ASSUME dialect = "postgresql", version >= 14 PROVE work.rows.mandate # "active"
    OBVIOUS
  <2>1. work.version >= 14 \/ (work.version = 13 /\ run.goal > 13)
    BY <1>1, <1>3, <1>4
  <2> QED BY <1>3, <1>7, <2>1 DEF View
<1>10. View(dialect, work')
  BY <1>3, <1>5, <1>6, <1>9 DEF View
<1>11. View(dialect, disk')
  BY <1>2, <1>3, <1>10
<1>12. PICK left : left = Statements(dialect, work'.schema, work'.version, run.goal)
  OBVIOUS
<1>13. /\ DOMAIN run' = {"on", "goal", "open", "left"} /\ run'.on = run.on
       /\ run'.goal = run.goal /\ run'.left = left
  BY <1>2, <1>12 DEF HistoryInv, RunOK
<1>14. Plan(left, version, run.goal) /\ Repairs(dialect, left, version, run.goal, work.rows)
  BY <1>3, <1>5, <1>6, <1>12, PlanStarts
<1>15. RunOK'
  BY <1>2, <1>3, <1>6, <1>13, <1>14 DEF RunOK, HistoryInv
<1>16. Retired'
  BY <1>2, <1>6, <1>8 DEF Retired, HistoryInv
<1>17. MeaningInv'
  BY <1>2, <1>6, SameMeanings DEF MeaningInv, HistoryInv
<1> QED BY <1>2, <1>6, <1>10, <1>11, <1>15, <1>16, <1>17 DEF HistoryInv

\* A run that ends leaves both views the same.
LEMMA Ends ==
  ASSUME HistoryInv, run' = Idle, work' = disk', UNCHANGED <<dialect, disturbances>>,
         disk' = disk \/ (disk' = work /\ run.on /\ work.version = run.goal),
         cut' \subseteq {"up", "down"}, crashes' \in 0 .. MaxCrashes
  PROVE  HistoryInv'
<1>1. RunOK'
  BY DEF RunOK, Idle
<1>2. View(dialect, disk')
  BY DEF HistoryInv
<1>3. ~Restoring(run.goal, run.goal)
  BY DEF Restoring, Latest
<1>4. ~run'.on
  BY DEF Idle
<1>5. Retired'
  BY <1>3, <1>4 DEF Retired, HistoryInv
<1>6. MeaningInv'
  BY SameMeanings DEF MeaningInv
<1> QED BY <1>1, <1>2, <1>5, <1>6 DEF HistoryInv

LEMMA Writes ==
  ASSUME HistoryInv, NEW rows, Write(rows), disturbances' \in 0 .. MaxDisturbances,
         DOMAIN rows = {"txn", "mandate", "digest", "marked", "stripped", "orphans"},
         rows.txn = disk.rows.txn
           \/ (/\ Table("provider_transactions") \in disk.schema
               /\ rows.txn \in {"PAYMENT_PENDING", "PROVIDER_AUTHORIZED", "PAID"}
               /\ disk.version = Latest => rows.txn # "PAYMENT_PENDING"),
         rows.mandate = disk.rows.mandate
           \/ (/\ rows.mandate \in {"active", "ACTIVE", "REVOKED"}
               /\ dialect = "postgresql" /\ disk.version >= 14 => rows.mandate # "active"),
         rows.stripped = disk.rows.stripped,
         \/ rows.digest = disk.rows.digest /\ rows.marked = disk.rows.marked
         \/ HashVersion \in disk.schema /\ rows.digest = 2 /\ rows.marked = 2
         \/ HashVersion \notin disk.schema /\ rows.digest = 1 /\ rows.marked = 0
  PROVE  HistoryInv'
<1>1. /\ ~run.on /\ disk' = [disk EXCEPT !.rows = rows] /\ work' = disk'
      /\ UNCHANGED <<dialect, run, cut, crashes>>
  BY DEF Write
<1>2. View(dialect, disk)
  BY DEF HistoryInv
<1>3. /\ DOMAIN disk' = {"version", "schema", "rows"} /\ disk'.version = disk.version
      /\ disk'.schema = disk.schema /\ disk'.rows = rows
  BY <1>1, <1>2 DEF View
<1>4. View(dialect, disk')
  <2>1. /\ disk.version \in 0..Latest
        /\ rows.txn \in {"none", "PAYMENT_PENDING", "PROVIDER_AUTHORIZED", "PAID"}
        /\ rows.mandate \in {"none", "active", "ACTIVE", "REVOKED"}
        /\ rows.txn # "none" => Table("provider_transactions") \in disk.schema
        /\ dialect = "postgresql" /\ disk.version >= 14 => rows.mandate # "active"
    BY <1>2 DEF View
  <2>2. /\ rows.digest \in 0..2 /\ rows.marked \in 0..2 /\ rows.stripped \in BOOLEAN
        /\ rows.marked # 0 <=> rows.digest # 0 /\ HashVersion \in disk.schema
        /\ rows.marked # 0 => rows.marked = rows.digest \/ rows.stripped
        /\ HashVersion \notin disk.schema => rows.digest # 2 \/ rows.stripped
    BY <1>2 DEF View
  <2> QED BY <1>3, <2>1, <2>2 DEF View
<1>5. disk.version = Latest => rows.txn # "PAYMENT_PENDING"
  BY DEF HistoryInv, Retired
<1>6. RunOK' /\ Retired' /\ MeaningInv'
  BY <1>1, <1>3, <1>5, SameMeanings DEF HistoryInv, RunOK, Retired, MeaningInv
<1> QED BY <1>1, <1>4, <1>6 DEF HistoryInv

LEMMA WritersKeep ==
  ASSUME HistoryInv,
         WriteTransaction \/ WriteMandate \/ WriteEvent \/ WriteOrphan \/ Resolve
  PROVE  HistoryInv'
<1>1. /\ View(dialect, disk) /\ disturbances \in 0 .. MaxDisturbances
      /\ DOMAIN disk.rows = {"txn", "mandate", "digest", "marked", "stripped", "orphans"}
  BY DEF HistoryInv, View
<1>2. CASE WriteTransaction
  <2>1. PICK state \in {"PAID", IF disk.version = Latest THEN "PROVIDER_AUTHORIZED" ELSE "PAYMENT_PENDING"} :
          Write([disk.rows EXCEPT !.txn = state])
    BY <1>2 DEF WriteTransaction
  <2> DEFINE rows == [disk.rows EXCEPT !.txn = state]
  <2>2. /\ DOMAIN rows = DOMAIN disk.rows /\ rows.txn = state /\ rows.mandate = disk.rows.mandate
        /\ rows.digest = disk.rows.digest /\ rows.marked = disk.rows.marked
        /\ rows.stripped = disk.rows.stripped
    BY <1>1
  <2>3. /\ state \in {"PAYMENT_PENDING", "PROVIDER_AUTHORIZED", "PAID"}
        /\ disk.version = Latest => state # "PAYMENT_PENDING"
    OBVIOUS
  <2>4. Table("provider_transactions") \in disk.schema /\ disturbances' = disturbances
    BY <1>2 DEF WriteTransaction
  <2>5. Write(rows)
    BY <2>1
  <2> HIDE DEF rows
  <2> QED BY <1>1, <2>2, <2>3, <2>4, <2>5, Writes
<1>3. CASE WriteMandate
  <2>1. PICK status \in {"REVOKED", IF dialect = "postgresql" /\ disk.version >= 14 THEN "ACTIVE" ELSE "active"} :
          Write([disk.rows EXCEPT !.mandate = status])
    BY <1>3 DEF WriteMandate
  <2> DEFINE rows == [disk.rows EXCEPT !.mandate = status]
  <2>2. /\ DOMAIN rows = DOMAIN disk.rows /\ rows.txn = disk.rows.txn /\ rows.mandate = status
        /\ rows.digest = disk.rows.digest /\ rows.marked = disk.rows.marked
        /\ rows.stripped = disk.rows.stripped
    BY <1>1
  <2>3. /\ status \in {"active", "ACTIVE", "REVOKED"}
        /\ dialect = "postgresql" /\ disk.version >= 14 => status # "active"
    OBVIOUS
  <2>4. disturbances' = disturbances
    BY <1>3 DEF WriteMandate
  <2>5. Write(rows)
    BY <2>1
  <2> HIDE DEF rows
  <2> QED BY <1>1, <2>2, <2>3, <2>4, <2>5, Writes
<1>4. CASE WriteEvent
  <2> DEFINE newest == IF HashVersion \in disk.schema THEN HashVersionNewest ELSE 0
             rows == [disk.rows EXCEPT !.digest = IF newest = 0 THEN 1 ELSE newest, !.marked = newest]
  <2>1. Write(rows) /\ disturbances' = disturbances
    BY <1>4 DEF WriteEvent
  <2>2. /\ DOMAIN rows = DOMAIN disk.rows
        /\ rows.txn = disk.rows.txn /\ rows.mandate = disk.rows.mandate
        /\ rows.digest = (IF newest = 0 THEN 1 ELSE newest) /\ rows.marked = newest
        /\ rows.stripped = disk.rows.stripped
    BY <1>1
  <2>3. newest = IF HashVersion \in disk.schema THEN 2 ELSE 0
    BY DEF HashVersionNewest
  <2> HIDE DEF rows, newest
  <2> QED BY <1>1, <2>1, <2>2, <2>3, Writes
<1>5. ASSUME NEW os, Write([disk.rows EXCEPT !.orphans = os]),
             disturbances' \in 0 .. MaxDisturbances
      PROVE  HistoryInv'
  <2> DEFINE rows == [disk.rows EXCEPT !.orphans = os]
  <2>1. /\ DOMAIN rows = DOMAIN disk.rows
        /\ rows.txn = disk.rows.txn /\ rows.mandate = disk.rows.mandate
        /\ rows.digest = disk.rows.digest /\ rows.marked = disk.rows.marked
        /\ rows.stripped = disk.rows.stripped
    BY <1>1
  <2>2. Write(rows)
    BY <1>5
  <2> HIDE DEF rows
  <2> QED BY <1>1, <1>5, <2>1, <2>2, Writes
<1>6. CASE WriteOrphan
  <2>1. \E o : Write([disk.rows EXCEPT !.orphans = @ \cup {o}])
    BY <1>6 DEF WriteOrphan
  <2>2. disturbances' \in 0 .. MaxDisturbances
    BY <1>1, <1>6, BoundsAssumption DEF WriteOrphan
  <2> QED BY <1>5, <2>1, <2>2
<1>7. CASE Resolve
  BY <1>1, <1>5, <1>7 DEF Resolve
<1> QED BY <1>2, <1>3, <1>4, <1>6, <1>7

LEMMA HistoryStep == ASSUME HistoryInv, [Next]_vars PROVE HistoryInv'
<1>1. CASE UNCHANGED vars
  BY <1>1 DEF vars, HistoryInv, View, RunOK, Retired, MeaningInv
<1>2. CASE UpgradeHead
  BY <1>2, Starts DEF UpgradeHead, HistoryInv, Latest
<1>3. ASSUME NEW goal \in Targets, Command(goal) PROVE HistoryInv'
  <2>1. goal \in 0 .. Latest /\ disturbances' \in 0 .. MaxDisturbances
    BY <1>3, TargetsAssumption, BoundsAssumption DEF Command, HistoryInv, Latest
  <2> QED BY <1>3, <2>1, Starts DEF Command
<1>4. CASE Finish
  <2>1. /\ run' = Idle /\ disk' = work /\ work' = disk' /\ run.on /\ work.version = run.goal
        /\ UNCHANGED <<dialect, cut, disturbances, crashes>>
    BY <1>4 DEF Finish
  <2>2. cut' \subseteq {"up", "down"} /\ crashes' \in 0 .. MaxCrashes
    BY <2>1 DEF HistoryInv
  <2> QED BY <2>1, <2>2, Ends
<1>5. ASSUME Stop, crashes' \in 0 .. MaxCrashes PROVE HistoryInv'
  <2>1. /\ run' = Idle /\ work' = disk /\ disk' = disk /\ UNCHANGED <<dialect, disturbances>>
        /\ cut' \subseteq {"up", "down"}
    BY <1>5 DEF Stop, HistoryInv
  <2> QED BY <1>5, <2>1, Ends
<1>6. CASE Fail
  BY <1>5, <1>6 DEF Fail, HistoryInv
<1>7. CASE Crash
  BY <1>5, <1>7, BoundsAssumption DEF Crash, HistoryInv
<1> QED BY <1>1, <1>2, <1>3, <1>4, <1>6, <1>7, Executes, Records, WritersKeep DEF Next

-----------------------------------------------------------------------------
(* What the statements of a revision add and drop, altogether.             *)

Takes(steps) == UNION {step.drops : step \in Range(steps)}

\* The scratch table of a rebuild, which only SQLite has.
Scrap(d, e) == d # "postgresql" /\ e[1] = "scratch"

Sum(d, left, adds, drops) ==
  /\ left \in Seq(Range(left))
  /\ adds \subseteq Adds(left) /\ \A e \in Adds(left) : e \in adds \/ Scrap(d, e)
  /\ drops \subseteq Takes(left) /\ \A e \in Takes(left) : e \in drops \/ Scrap(d, e)

Calm(left) == \A step \in Range(left) : step.mode # "commit"

Effect(d, left, adds, drops) == Sum(d, left, adds, drops) /\ Calm(left)

LEMMA SelfSeq == ASSUME NEW S, NEW left \in Seq(S) PROVE left \in Seq(Range(left))
<1>1. left \in [1 .. Len(left) -> S] /\ Len(left) \in Nat
  OBVIOUS
<1>2. \A i \in 1 .. Len(left) : left[i] \in Range(left)
  BY <1>1 DEF Range
<1> QED BY <1>1, <1>2

LEMMA EffectJoin ==
  ASSUME NEW d, NEW a, NEW b, NEW A, NEW B, NEW C, NEW D,
         Effect(d, a, A, B), Effect(d, b, C, D)
  PROVE  Effect(d, a \o b, A \cup C, B \cup D)
<1> DEFINE S == Range(a) \cup Range(b)
           c == a \o b
<1>1. a \in Seq(S) /\ b \in Seq(S)
  <2>1. a \in Seq(Range(a)) /\ b \in Seq(Range(b))
    BY DEF Effect, Sum
  <2>2. Range(a) \subseteq S /\ Range(b) \subseteq S
    OBVIOUS
  <2> HIDE DEF S
  <2> QED BY <2>1, <2>2
<1> HIDE DEF S
<1>2. c \in Seq(S) /\ Range(c) = Range(a) \cup Range(b)
  BY <1>1, RangeJoin
<1> HIDE DEF c
<1>3. c \in Seq(Range(c))
  BY <1>2, SelfSeq
<1>4. Adds(c) = Adds(a) \cup Adds(b) /\ Takes(c) = Takes(a) \cup Takes(b)
  BY <1>2 DEF Adds, Takes
<1>5. Calm(c)
  BY <1>2 DEF Calm, Effect
<1>6. /\ A \cup C \subseteq Adds(c) /\ \A e \in Adds(c) : e \in A \cup C \/ Scrap(d, e)
      /\ B \cup D \subseteq Takes(c) /\ \A e \in Takes(c) : e \in B \cup D \/ Scrap(d, e)
  BY <1>4 DEF Effect, Sum
<1> QED BY <1>3, <1>5, <1>6 DEF Effect, Sum, c

\* On the way up, and on the way down.
LEMMA EffectUp ==
  ASSUME NEW d, NEW a, NEW b, NEW A, NEW B, Effect(d, a, A, {}), Effect(d, b, B, {})
  PROVE  Effect(d, a \o b, A \cup B, {})
<1>1. {} \cup {} = {}
  OBVIOUS
<1>2. Effect(d, a \o b, A \cup B, {} \cup {})
  BY EffectJoin
<1> QED BY <1>1, <1>2

LEMMA EffectDown ==
  ASSUME NEW d, NEW a, NEW b, NEW A, NEW B, Effect(d, a, {}, A), Effect(d, b, {}, B)
  PROVE  Effect(d, a \o b, {}, A \cup B)
<1>1. {} \cup {} = {}
  OBVIOUS
<1>2. Effect(d, a \o b, {} \cup {}, A \cup B)
  BY EffectJoin
<1> QED BY <1>1, <1>2

\* Any list of statements.
LEMMA SumList ==
  ASSUME NEW d, NEW n \in Nat, NEW ss, ss = [i \in 1 .. n |-> ss[i]]
  PROVE  Sum(d, ss, UNION {ss[i].adds : i \in 1 .. n}, UNION {ss[i].drops : i \in 1 .. n})
<1> DEFINE S == {ss[i] : i \in 1 .. n}
<1>1. DOMAIN ss = 1 .. n
  OBVIOUS
<1>2. Range(ss) = S
  BY <1>1 DEF Range
<1>3. ss \in Seq(S)
  OBVIOUS
<1>4. ss \in Seq(Range(ss))
  BY <1>2, <1>3
<1> QED BY <1>2, <1>4 DEF Sum, Adds, Takes

LEMMA EffectList ==
  ASSUME NEW d, NEW n \in Nat, NEW ss, ss = [i \in 1 .. n |-> ss[i]],
         \A i \in 1 .. n : ss[i].mode # "commit"
  PROVE  Effect(d, ss, UNION {ss[i].adds : i \in 1 .. n}, UNION {ss[i].drops : i \in 1 .. n})
<1>1. DOMAIN ss = 1 .. n
  OBVIOUS
<1> QED BY <1>1, SumList DEF Effect, Calm, Range

LEMMA EffectNone == ASSUME NEW d PROVE Effect(d, << >>, {}, {})
<1> DEFINE ss == << >>
<1>1. /\ ss = [i \in 1 .. 0 |-> ss[i]] /\ 0 \in Nat /\ 1 .. 0 = {}
      /\ \A i \in 1 .. 0 : ss[i].mode # "commit"
  OBVIOUS
<1> HIDE DEF ss
<1>2. Effect(d, ss, UNION {ss[i].adds : i \in 1 .. 0}, UNION {ss[i].drops : i \in 1 .. 0})
  BY <1>1, EffectList
<1>3. UNION {ss[i].adds : i \in 1 .. 0} = {} /\ UNION {ss[i].drops : i \in 1 .. 0} = {}
  BY <1>1
<1> QED BY <1>2, <1>3 DEF ss

LEMMA EffectOne ==
  ASSUME NEW d, NEW a, a.mode # "commit" PROVE Effect(d, <<a>>, a.adds, a.drops)
<1> DEFINE ss == <<a>>
           n == 1
<1>1. ss = [i \in 1 .. n |-> ss[i]] /\ ss[1] = a
  OBVIOUS
<1>2. n \in Nat /\ 1 .. n = {1}
  OBVIOUS
<1> HIDE DEF ss, n
<1>3. \A i \in 1 .. n : ss[i].mode # "commit"
  BY <1>1, <1>2
<1>4. Effect(d, ss, UNION {ss[i].adds : i \in 1 .. n}, UNION {ss[i].drops : i \in 1 .. n})
  BY <1>1, <1>2, <1>3, EffectList
<1>5. UNION {ss[i].adds : i \in 1 .. n} = a.adds /\ UNION {ss[i].drops : i \in 1 .. n} = a.drops
  BY <1>1, <1>2
<1> QED BY <1>4, <1>5 DEF ss

LEMMA EffectTwo ==
  ASSUME NEW d, NEW a, NEW b, a.mode # "commit", b.mode # "commit"
  PROVE  Effect(d, <<a, b>>, a.adds \cup b.adds, a.drops \cup b.drops)
<1> DEFINE ss == <<a, b>>
           n == 2
<1>1. ss = [i \in 1 .. n |-> ss[i]] /\ ss[1] = a /\ ss[2] = b
  OBVIOUS
<1>2. n \in Nat /\ 1 .. n = {1, 2}
  OBVIOUS
<1> HIDE DEF ss, n
<1>3. \A i \in 1 .. n : ss[i].mode # "commit"
  BY <1>1, <1>2
<1>4. Effect(d, ss, UNION {ss[i].adds : i \in 1 .. n}, UNION {ss[i].drops : i \in 1 .. n})
  BY <1>1, <1>2, <1>3, EffectList
<1>5. /\ UNION {ss[i].adds : i \in 1 .. n} = a.adds \cup b.adds
      /\ UNION {ss[i].drops : i \in 1 .. n} = a.drops \cup b.drops
  BY <1>1, <1>2
<1> QED BY <1>4, <1>5 DEF ss

LEMMA EffectBatch ==
  ASSUME NEW d, NEW t, NEW adds, NEW drops
  PROVE  Effect(d, Batch(d, t, adds, drops), adds, drops)
<1>1. CASE d = "postgresql"
  <2> DEFINE a == [Add(adds) EXCEPT !.drops = drops]
  <2>1. a.adds = adds /\ a.drops = drops /\ a.mode = "schema"
    BY DEF Add, Plain
  <2>2. Batch(d, t, adds, drops) = <<a>>
    BY <1>1 DEF Batch
  <2> HIDE DEF a
  <2>3. Effect(d, <<a>>, a.adds, a.drops)
    BY <2>1, EffectOne
  <2> QED BY <2>1, <2>2, <2>3
<1>2. CASE d # "postgresql"
  <2> DEFINE a == [Add({Scratch(t)}) EXCEPT !.needs = drops]
             b == [Rewrite("nothing") EXCEPT !.adds = adds, !.drops = drops \cup {Scratch(t)}]
  <2>1. /\ a.adds = {Scratch(t)} /\ a.drops = {} /\ a.mode = "schema"
        /\ b.adds = adds /\ b.drops = drops \cup {Scratch(t)} /\ b.mode = "rows"
    BY DEF Add, Rewrite, Plain
  <2>2. Batch(d, t, adds, drops) = <<a, b>>
    BY <1>2 DEF Batch
  <2>3. Scrap(d, Scratch(t))
    BY <1>2 DEF Scrap, Scratch
  <2> HIDE DEF a, b
  <2>4. Effect(d, <<a, b>>, {Scratch(t)} \cup adds, drops \cup {Scratch(t)})
    BY <2>1, EffectTwo
  <2> QED BY <2>2, <2>3, <2>4 DEF Effect, Sum
<1> QED BY <1>1, <1>2

LEMMA EffectTables ==
  ASSUME NEW d, NEW t, NEW n \in Nat, NEW ts, DOMAIN ts = 1 .. n
  PROVE  /\ Effect(d, CreateTables(ts), {Table(x) : x \in Range(ts)}, {})
         /\ Effect(d, DropTables(ts), {}, {Table(x) : x \in Range(ts)})
         /\ Effect(d, AddColumns(t, ts), {Column(t, x) : x \in Range(ts)}, {})
         /\ Effect(d, DropColumns(t, ts), {}, {Column(t, x) : x \in Range(ts)})
<1> DEFINE Is(ss, adds, drops) ==
             /\ ss = [i \in 1 .. n |-> ss[i]]
             /\ \A i \in 1 .. n : ss[i].mode # "commit" /\ ss[i].adds = adds[i] /\ ss[i].drops = drops[i]
           All(f) == UNION {f[i] : i \in 1 .. n}
<1>1. ASSUME NEW ss, NEW adds, NEW drops, Is(ss, adds, drops)
      PROVE  Effect(d, ss, All(adds), All(drops))
  <2>1. Effect(d, ss, UNION {ss[i].adds : i \in 1 .. n}, UNION {ss[i].drops : i \in 1 .. n})
    BY <1>1, EffectList
  <2>2. UNION {ss[i].adds : i \in 1 .. n} = All(adds) /\ UNION {ss[i].drops : i \in 1 .. n} = All(drops)
    BY <1>1
  <2> QED BY <2>1, <2>2
<1> DEFINE none == [i \in 1 .. n |-> {}]
           tables == [i \in 1 .. n |-> {Table(ts[i])}]
           columns == [i \in 1 .. n |-> {Column(t, ts[i])}]
<1>2. \A objects : /\ Add(objects).adds = objects /\ Add(objects).drops = {} /\ Add(objects).mode = "schema"
                   /\ Drop(objects).drops = objects /\ Drop(objects).adds = {} /\ Drop(objects).mode = "schema"
  BY DEF Add, Drop, Plain
<1>3. Is(CreateTables(ts), tables, none)
  BY <1>2 DEF CreateTables
<1>4. Is(DropTables(ts), none, tables)
  BY <1>2 DEF DropTables
<1>5. Is(AddColumns(t, ts), columns, none) /\ Is(DropColumns(t, ts), none, columns)
  BY <1>2 DEF AddColumns, DropColumns
<1>6. /\ All(none) = {} /\ All(tables) = {Table(x) : x \in Range(ts)}
      /\ All(columns) = {Column(t, x) : x \in Range(ts)}
  BY DEF Range
<1> HIDE DEF Is, none, tables, columns, All
<1>7. /\ Effect(d, CreateTables(ts), All(tables), All(none))
      /\ Effect(d, DropTables(ts), All(none), All(tables))
  BY <1>1, <1>3, <1>4
<1>8. /\ Effect(d, AddColumns(t, ts), All(columns), All(none))
      /\ Effect(d, DropColumns(t, ts), All(none), All(columns))
  BY <1>1, <1>5
<1> QED BY <1>6, <1>7, <1>8

LEMMA EffectFlatten ==
  ASSUME NEW d, NEW n \in Nat, NEW ss, ss = [i \in 1 .. n |-> ss[i]], NEW A, NEW B, NEW X, NEW Y,
         \A i \in 1 .. n : Effect(d, ss[i], A[i], B[i]),
         \A e : e \in X <=> \E i \in 1 .. n : e \in A[i],
         \A e : e \in Y <=> \E i \in 1 .. n : e \in B[i]
  PROVE  Effect(d, FlattenSeq(ss), X, Y)
<1> DEFINE S == UNION {Range(ss[i]) : i \in 1 .. n}
           c == FlattenSeq(ss)
<1>1. ASSUME NEW i \in 1 .. n PROVE ss[i] \in Seq(S)
  <2>1. ss[i] \in Seq(Range(ss[i])) /\ Range(ss[i]) \subseteq S
    BY DEF Effect, Sum
  <2> HIDE DEF S
  <2> QED BY <2>1
<1> HIDE DEF S
<1>2. ss \in [1 .. n -> Seq(S)]
  BY <1>1
<1>3. c \in Seq(S) /\ \A i \in 1 .. n : Range(ss[i]) \subseteq Range(c)
  BY <1>2, FlattenIn
<1> HIDE DEF c
<1>4. Range(c) \subseteq S
  <2>1. c \in [1 .. Len(c) -> S]
    BY <1>3
  <2> QED BY <2>1 DEF Range
<1>5. c \in Seq(Range(c))
  BY <1>3, SelfSeq
<1>6. \A step : step \in Range(c) <=> \E i \in 1 .. n : step \in Range(ss[i])
  BY <1>3, <1>4 DEF S
<1>7. Calm(c)
  BY <1>6 DEF Calm, Effect
<1>8. /\ \A e : e \in Adds(c) <=> \E i \in 1 .. n : e \in Adds(ss[i])
      /\ \A e : e \in Takes(c) <=> \E i \in 1 .. n : e \in Takes(ss[i])
  BY <1>6 DEF Adds, Takes
<1>9. \A i \in 1 .. n :
        /\ A[i] \subseteq Adds(ss[i]) /\ \A e \in Adds(ss[i]) : e \in A[i] \/ Scrap(d, e)
        /\ B[i] \subseteq Takes(ss[i]) /\ \A e \in Takes(ss[i]) : e \in B[i] \/ Scrap(d, e)
  BY DEF Effect, Sum
<1>10. /\ X \subseteq Adds(c)
       /\ \A e \in Adds(c) : e \in X \/ Scrap(d, e)
  BY <1>8, <1>9
<1>11. /\ Y \subseteq Takes(c)
       /\ \A e \in Takes(c) : e \in Y \/ Scrap(d, e)
  BY <1>8, <1>9
<1> QED BY <1>5, <1>7, <1>10, <1>11 DEF Effect, Sum, c

-----------------------------------------------------------------------------
(* The revision that makes an object.                                      *)

TableBirth(t) ==
  CASE t = "audit_events" -> 4 [] t = "rate_buckets" -> 7
    [] t \in {"organizations", "provider_accounts"} -> 8
    [] t = "request_proofs" -> 9
    [] t \in {"user_payment_mandates", "payment_instrument_bindings"} -> 10
    [] OTHER -> 1

ColumnBirth(t, c) ==
  CASE c = "review_expires_at" -> 2 [] c = "reconciled_at" -> 3 [] c = "protocol_version" -> 5
    [] c \in {"trust_tier", "kyb_provider_ref", "old_public_key_pem", "key_sunset_at",
              "superseded_by", "rotates_at"} -> 6
    [] c = "org_id" -> IF t \in {"audit_events", "rate_buckets"} THEN 1 ELSE 8
    [] c \in {"mandate_id", "merchant_category"} -> 10
    [] c \in {"signing_key_id", "signature_b64", "user_public_key_pem", "signed_at", "llm_run_id",
              "llm_model", "llm_tool_call_id", "llm_tool_name", "max_per_hour",
              "max_per_merchant_per_day", "max_category_per_day"} -> 11
    [] c = "llm_attributed" -> 12
    [] c \in {"provider_environment", "provider_key_id_prefix", "provider_api_base"} -> 17
    [] c = "hash_version" -> 18
    [] OTHER -> 0

KeyBirth(d, e) ==
  IF d = "postgresql" /\ e = AgentKey THEN 15
  ELSE IF e[5] = FkName(e[2], e[3], e[4]) THEN 16
  ELSE IF e[5] = <<"fk_0008", e[2], e[3]>> THEN 8
  ELSE IF e[5] = <<"fk_request_proofs_agent">> THEN 9 ELSE 10

Birth(d, e) ==
  CASE e[1] = "table" -> TableBirth(e[2])
    [] e[1] = "column" -> ColumnBirth(e[2], e[3])
    [] e[1] = "native" -> 14
    [] e[1] = "key" -> KeyBirth(d, e)
    [] OTHER -> 0

\* The keys there are before the parity revision.
EarlyKeys(d) ==
  {MandateKey("payment_intents"), MandateKey("bounded_authorizations"),
   Key("user_payment_mandates", "agent_id", "agents", Inline(d, "user_payment_mandates", "agent_id")),
   Key("payment_instrument_bindings", "mandate_id", "user_payment_mandates",
       Inline(d, "payment_instrument_bindings", "mandate_id"))}
  \cup IF d = "postgresql"
       THEN MultitenancyKeys
            \cup {Key("request_proofs", "agent_id", "agents", <<"fk_request_proofs_agent">>), AgentKey}
       ELSE {}

\* What the n-th revision adds going up (X) and takes back going down (Y).
Dated(d, n, X, Y) ==
  /\ \A e \in X : Birth(d, e) <= n /\ TableBirth(e[2]) <= n /\ e[1] # "scratch"
  /\ \A e \in X \cup Y : n >= 17 => e[1] = "column"
  /\ \A e \in X : e[1] = "key" => e \in EarlyKeys(d)
  /\ \A e \in EarlyKeys(d) : KeyBirth(d, e) = n => e \in X
  /\ n = 1 => Table("payment_intents") \in X /\ Table("agents") \in X
  /\ \A e \in Y : Birth(d, e) >= n
  /\ \A e \in X : e \in Y \/ Table(e[2]) \in Y \/ (d = "postgresql" /\ e[1] \in {"type", "label"})

\* Before a statement that commits, only types and labels are made.
Orderly(left) ==
  \A i, j \in DOMAIN left :
    j <= i /\ left[i].mode = "commit" =>
      left[j].drops = {} /\ \A e \in left[j].adds : e[1] \in {"type", "label"}

Reverses(d, n, X, Y) ==
  /\ \A s : \E x : /\ Sum(d, Revision(n, d, s).up, x, {})
                   /\ Orderly(Revision(n, d, s).up)
                   /\ x \subseteq X /\ X \subseteq x \cup s
  /\ \A s : \E y : /\ Effect(d, Revision(n, d, s).down, {}, y)
                   /\ y \subseteq Y /\ \A e \in Y : e \in y \/ (e[1] = "key" /\ e \notin s)
  /\ Dated(d, n, X, Y)

Reversible(d, n) == \E X, Y : Reverses(d, n, X, Y)

LEMMA Births ==
  ASSUME NEW d
  PROVE  /\ \A t : Birth(d, Table(t)) = TableBirth(t) /\ Table(t)[1] = "table" /\ Table(t)[2] = t
         /\ \A t, c : /\ Birth(d, Column(t, c)) = ColumnBirth(t, c)
                      /\ Column(t, c)[1] = "column" /\ Column(t, c)[2] = t
  BY DEF Birth, Table, Column

LEMMA TableBirths ==
  \A t : TableBirth(t) \in 1 .. 10
  BY DEF TableBirth

\* Revisions that no early key dates from.
LEMMA KeyBirths ==
  ASSUME NEW d, NEW e PROVE KeyBirth(d, e) \in {8, 9, 10, 15, 16}
  BY DEF KeyBirth

LEMMA RangeLists ==
  /\ \A a : Range(<<a>>) = {a}
  /\ \A a, b : Range(<<a, b>>) = {a, b}
  /\ \A a, b, c : Range(<<a, b, c>>) = {a, b, c}
  /\ \A a, b, c, e : Range(<<a, b, c, e>>) = {a, b, c, e}
<1>1. ASSUME NEW a PROVE Range(<<a>>) = {a}
  BY RangeOne
<1>2. ASSUME NEW a, NEW b PROVE Range(<<a, b>>) = {a, b}
  <2> DEFINE f == <<a, b>>
  <2>1. DOMAIN f = {1, 2} /\ f[1] = a /\ f[2] = b
    OBVIOUS
  <2> HIDE DEF f
  <2>2. Range(f) = {a, b}
    BY <2>1 DEF Range
  <2> QED BY <2>2 DEF f
<1>3. ASSUME NEW a, NEW b, NEW c PROVE Range(<<a, b, c>>) = {a, b, c}
  <2> DEFINE f == <<a, b, c>>
  <2>1. DOMAIN f = {1, 2, 3} /\ f[1] = a /\ f[2] = b /\ f[3] = c
    OBVIOUS
  <2> HIDE DEF f
  <2>2. Range(f) = {a, b, c}
    BY <2>1 DEF Range
  <2> QED BY <2>2 DEF f
<1>4. ASSUME NEW a, NEW b, NEW c, NEW e PROVE Range(<<a, b, c, e>>) = {a, b, c, e}
  <2> DEFINE f == <<a, b, c, e>>
  <2>1. DOMAIN f = {1, 2, 3, 4} /\ f[1] = a /\ f[2] = b /\ f[3] = c /\ f[4] = e
    OBVIOUS
  <2> HIDE DEF f
  <2>2. Range(f) = {a, b, c, e}
    BY <2>1 DEF Range
  <2> QED BY <2>2 DEF f
<1> QED BY <1>1, <1>2, <1>3, <1>4

LEMMA CalmIsOrderly == ASSUME NEW left, Calm(left) PROVE Orderly(left)
<1>1. \A i \in DOMAIN left : left[i].mode # "commit"
  BY DEF Calm, Range
<1> QED BY <1>1 DEF Orderly

\* A revision that does not look at the schema.
LEMMA ReversibleFrom ==
  ASSUME NEW d, NEW n, NEW up, NEW down, NEW X, NEW Y,
         \A s : Revision(n, d, s) = [up |-> up, down |-> down],
         Effect(d, up, X, {}), Effect(d, down, {}, Y), Dated(d, n, X, Y)
  PROVE  Reversible(d, n)
<1>1. \A s : Revision(n, d, s).up = up /\ Revision(n, d, s).down = down
  OBVIOUS
<1>2. Orderly(up)
  BY CalmIsOrderly DEF Effect
<1>3. ASSUME NEW s
      PROVE  /\ \E x : /\ Sum(d, Revision(n, d, s).up, x, {})
                       /\ Orderly(Revision(n, d, s).up)
                       /\ x \subseteq X /\ X \subseteq x \cup s
             /\ \E y : /\ Effect(d, Revision(n, d, s).down, {}, y)
                       /\ y \subseteq Y /\ \A e \in Y : e \in y \/ (e[1] = "key" /\ e \notin s)
  <2>1. X \subseteq X /\ X \subseteq X \cup s
    OBVIOUS
  <2>2. Sum(d, Revision(n, d, s).up, X, {}) /\ Effect(d, Revision(n, d, s).down, {}, Y)
    BY <1>1 DEF Effect
  <2>3. Orderly(Revision(n, d, s).up)
    BY <1>1, <1>2
  <2>4. Y \subseteq Y /\ \A e \in Y : e \in Y \/ (e[1] = "key" /\ e \notin s)
    OBVIOUS
  <2> HIDE DEF Orderly
  <2> QED BY <2>1, <2>2, <2>3, <2>4
<1>4. Reverses(d, n, X, Y)
  BY <1>3 DEF Reverses
<1> QED BY <1>4 DEF Reversible

\* Columns added to a table, and dropped from it.
LEMMA EffectColumns ==
  ASSUME NEW d, NEW t
  PROVE  /\ \A a : /\ Effect(d, AddColumns(t, <<a>>), {Column(t, a)}, {})
                   /\ Effect(d, DropColumns(t, <<a>>), {}, {Column(t, a)})
         /\ \A a, b : /\ Effect(d, AddColumns(t, <<a, b>>), {Column(t, a), Column(t, b)}, {})
                      /\ Effect(d, DropColumns(t, <<a, b>>), {}, {Column(t, a), Column(t, b)})
         /\ \A a, b, c : LET cs == {Column(t, a), Column(t, b), Column(t, c)} IN
              /\ Effect(d, AddColumns(t, <<a, b, c>>), cs, {})
              /\ Effect(d, DropColumns(t, <<a, b, c>>), {}, cs)
         /\ \A a, b, c, e : LET cs == {Column(t, a), Column(t, b), Column(t, c), Column(t, e)} IN
              /\ Effect(d, AddColumns(t, <<a, b, c, e>>), cs, {})
              /\ Effect(d, DropColumns(t, <<a, b, c, e>>), {}, cs)
<1> DEFINE Of(ts) == {Column(t, c) : c \in Range(ts)}
           Does(ts, cs) == Effect(d, AddColumns(t, ts), cs, {}) /\ Effect(d, DropColumns(t, ts), {}, cs)
<1>1. ASSUME NEW n \in Nat, NEW ts, DOMAIN ts = 1 .. n PROVE Does(ts, Of(ts))
  BY <1>1, EffectTables
<1>2. /\ \A a : Of(<<a>>) = {Column(t, a)}
      /\ \A a, b : Of(<<a, b>>) = {Column(t, a), Column(t, b)}
      /\ \A a, b, c : Of(<<a, b, c>>) = {Column(t, a), Column(t, b), Column(t, c)}
      /\ \A a, b, c, e : Of(<<a, b, c, e>>) =
                           {Column(t, a), Column(t, b), Column(t, c), Column(t, e)}
  BY RangeLists
<1> HIDE DEF Of, Does
<1>3. /\ \A a : Does(<<a>>, Of(<<a>>))
      /\ \A a, b : Does(<<a, b>>, Of(<<a, b>>))
      /\ \A a, b, c : Does(<<a, b, c>>, Of(<<a, b, c>>))
      /\ \A a, b, c, e : Does(<<a, b, c, e>>, Of(<<a, b, c, e>>))
  BY <1>1, ListDomains
<1>4. /\ \A a : Does(<<a>>, {Column(t, a)})
      /\ \A a, b : Does(<<a, b>>, {Column(t, a), Column(t, b)})
      /\ \A a, b, c : Does(<<a, b, c>>, {Column(t, a), Column(t, b), Column(t, c)})
      /\ \A a, b, c, e : Does(<<a, b, c, e>>, {Column(t, a), Column(t, b), Column(t, c), Column(t, e)})
  BY <1>2, <1>3
<1> QED BY <1>4 DEF Does

LEMMA DatedColumns ==
  ASSUME NEW d, NEW n \in Nat \ {1, 8, 9, 10, 15, 16}, NEW X, NEW Y, \A e \in X : e \in Y,
         \A e \in X \cup Y : \E t, c : /\ e = Column(t, c) /\ ColumnBirth(t, c) = n
                                       /\ TableBirth(t) <= n
  PROVE  Dated(d, n, X, Y)
  BY Births, KeyBirths DEF Dated

LEMMA ReversibleSmall == \* 2, 3, 5, 12
  ASSUME NEW d PROVE Reversible(d, 2) /\ Reversible(d, 3) /\ Reversible(d, 5) /\ Reversible(d, 12)
<1>1. ASSUME NEW n \in Nat \ {1, 8, 9, 10, 15, 16}, NEW t, NEW c, ColumnBirth(t, c) = n, TableBirth(t) <= n,
             \A s : Revision(n, d, s) = [up |-> AddColumns(t, <<c>>), down |-> DropColumns(t, <<c>>)]
      PROVE  Reversible(d, n)
  <2>1. Dated(d, n, {Column(t, c)}, {Column(t, c)})
    BY <1>1, DatedColumns
  <2> QED BY <1>1, <2>1, EffectColumns, ReversibleFrom
<1>2. Reversible(d, 2)
  <2>1. \A s : Revision(2, d, s) = [up |-> AddColumns("payment_intents", <<"review_expires_at">>),
                                    down |-> DropColumns("payment_intents", <<"review_expires_at">>)]
    BY DEF Revision, ReviewExpiry
  <2> QED BY <1>1, <2>1 DEF ColumnBirth, TableBirth
<1>3. Reversible(d, 3)
  <2>1. \A s : Revision(3, d, s) = [up |-> AddColumns("provider_transactions", <<"reconciled_at">>),
                                    down |-> DropColumns("provider_transactions", <<"reconciled_at">>)]
    BY DEF Revision, ReconciledAt
  <2> QED BY <1>1, <2>1 DEF ColumnBirth, TableBirth
<1>4. Reversible(d, 5)
  <2>1. \A s : Revision(5, d, s) = [up |-> AddColumns("agents", <<"protocol_version">>),
                                    down |-> DropColumns("agents", <<"protocol_version">>)]
    BY DEF Revision, AgentProtocol
  <2> QED BY <1>1, <2>1 DEF ColumnBirth, TableBirth
<1>5. Reversible(d, 12)
  <2>1. \A s : Revision(12, d, s) = [up |-> AddColumns("payment_intents", <<"llm_attributed">>),
                                     down |-> DropColumns("payment_intents", <<"llm_attributed">>)]
    BY DEF Revision, LlmAttributed
  <2> QED BY <1>1, <2>1 DEF ColumnBirth, TableBirth
<1> QED BY <1>2, <1>3, <1>4, <1>5

LEMMA ReversibleTrust == \* 6
  ASSUME NEW d PROVE Reversible(d, 6)
<1> DEFINE parents == {Column("parent_authorities", "trust_tier"), Column("parent_authorities", "kyb_provider_ref")}
           agents == {Column("agents", "old_public_key_pem"), Column("agents", "key_sunset_at")}
           credentials == {Column("credentials", "superseded_by"), Column("credentials", "rotates_at")}
           X == parents \cup agents \cup credentials
           nothing == << Rewrite("nothing") >>
<1>1. Effect(d, nothing, {}, {}) /\ Effect(d, Batch(d, "parent_authorities", {}, {}), {}, {})
  <2>1. /\ Rewrite("nothing").adds = {} /\ Rewrite("nothing").drops = {}
        /\ Rewrite("nothing").mode # "commit"
    BY DEF Rewrite, Plain
  <2> QED BY <2>1, EffectOne, EffectBatch
<1>2. Effect(d, TrustRotation(d).up, X, {})
  <2>1. /\ Effect(d, AddColumns("parent_authorities", <<"trust_tier", "kyb_provider_ref">>), parents, {})
        /\ Effect(d, AddColumns("agents", <<"old_public_key_pem">>), {Column("agents", "old_public_key_pem")}, {})
        /\ Effect(d, AddColumns("agents", <<"key_sunset_at">>), {Column("agents", "key_sunset_at")}, {})
        /\ Effect(d, AddColumns("credentials", <<"superseded_by", "rotates_at">>), credentials, {})
    BY EffectColumns
  <2> DEFINE A == AddColumns("parent_authorities", <<"trust_tier", "kyb_provider_ref">>)
             B == AddColumns("agents", <<"old_public_key_pem">>)
             C == AddColumns("credentials", <<"superseded_by", "rotates_at">>)
             D == AddColumns("agents", <<"key_sunset_at">>)
             R == Batch(d, "parent_authorities", {}, {})
  <2>2. TrustRotation(d).up = A \o nothing \o R \o B \o C \o D
    BY DEF TrustRotation
  <2> DEFINE b == {Column("agents", "old_public_key_pem")}
             c == {Column("agents", "key_sunset_at")}
  <2>3. X = (((((parents \cup {}) \cup {}) \cup b) \cup credentials) \cup c)
    OBVIOUS
  <2>4. /\ Effect(d, A, parents, {}) /\ Effect(d, R, {}, {}) /\ Effect(d, B, b, {})
        /\ Effect(d, C, credentials, {}) /\ Effect(d, D, c, {})
    BY <1>1, <2>1
  <2> HIDE DEF A, B, C, D, R, nothing, parents, credentials, X, b, c
  <2>5. Effect(d, A \o nothing \o R, (parents \cup {}) \cup {}, {})
    BY <1>1, <2>4, EffectUp
  <2>6. Effect(d, A \o nothing \o R \o B, ((parents \cup {}) \cup {}) \cup b, {})
    BY <2>4, <2>5, EffectUp
  <2>7. Effect(d, A \o nothing \o R \o B \o C, (((parents \cup {}) \cup {}) \cup b) \cup credentials, {})
    BY <2>4, <2>6, EffectUp
  <2>8. Effect(d, A \o nothing \o R \o B \o C \o D, X, {})
    BY <2>3, <2>4, <2>7, EffectUp
  <2> QED BY <2>2, <2>8
<1>3. Effect(d, TrustRotation(d).down, {}, X)
  <2>1. /\ Effect(d, DropColumns("credentials", <<"rotates_at", "superseded_by">>), {}, credentials)
        /\ Effect(d, DropColumns("agents", <<"key_sunset_at", "old_public_key_pem">>), {}, agents)
        /\ Effect(d, DropColumns("parent_authorities", <<"kyb_provider_ref", "trust_tier">>), {}, parents)
    <3>1. /\ credentials = {Column("credentials", "rotates_at"), Column("credentials", "superseded_by")}
          /\ agents = {Column("agents", "key_sunset_at"), Column("agents", "old_public_key_pem")}
          /\ parents = {Column("parent_authorities", "kyb_provider_ref"), Column("parent_authorities", "trust_tier")}
      OBVIOUS
    <3> HIDE DEF credentials, agents, parents
    <3> QED BY <3>1, EffectColumns
  <2> DEFINE A == DropColumns("credentials", <<"rotates_at", "superseded_by">>)
             B == DropColumns("agents", <<"key_sunset_at", "old_public_key_pem">>)
             C == DropColumns("parent_authorities", <<"kyb_provider_ref", "trust_tier">>)
  <2>2. TrustRotation(d).down = A \o B \o C
    BY DEF TrustRotation
  <2>3. X = (credentials \cup agents) \cup parents
    OBVIOUS
  <2>4. Effect(d, A, {}, credentials) /\ Effect(d, B, {}, agents) /\ Effect(d, C, {}, parents)
    BY <2>1
  <2> HIDE DEF A, B, C, X, credentials, agents, parents
  <2>5. Effect(d, A \o B, {}, credentials \cup agents)
    BY <2>4, EffectDown
  <2>6. Effect(d, A \o B \o C, {}, X)
    BY <2>3, <2>4, <2>5, EffectDown
  <2> QED BY <2>2, <2>6
<1>4. Dated(d, 6, X, X)
  <2>1. \A e \in X : \E t, c : e = Column(t, c) /\ ColumnBirth(t, c) = 6 /\ TableBirth(t) <= 6
    <3>1. \A t \in {"parent_authorities", "agents", "credentials"} : TableBirth(t) <= 6
      BY DEF TableBirth
    <3>2. \A t : \A c \in {"trust_tier", "kyb_provider_ref", "old_public_key_pem", "key_sunset_at",
                           "superseded_by", "rotates_at"} : ColumnBirth(t, c) = 6
      BY DEF ColumnBirth
    <3> QED BY <3>1, <3>2
  <2> HIDE DEF X
  <2> QED BY <2>1, DatedColumns
<1>5. \A s : Revision(6, d, s) = [up |-> TrustRotation(d).up, down |-> TrustRotation(d).down]
  BY DEF Revision, TrustRotation
<1> HIDE DEF X
<1> QED BY <1>2, <1>3, <1>4, <1>5, ReversibleFrom

LEMMA StatementKinds ==
  /\ \A objects : /\ Add(objects).adds = objects /\ Add(objects).drops = {} /\ Add(objects).mode = "schema"
                  /\ Drop(objects).drops = objects /\ Drop(objects).adds = {} /\ Drop(objects).mode = "schema"
  /\ \A how : Rewrite(how).adds = {} /\ Rewrite(how).drops = {} /\ Rewrite(how).mode = "rows"
  /\ \A os : /\ RefuseOrphans(os).adds = {} /\ RefuseOrphans(os).drops = {}
             /\ RefuseOrphans(os).mode = "schema" /\ RefuseOrphans(os).orphans = os
  /\ \A labels, s : AddLabels(labels, s).adds = labels \ s /\ AddLabels(labels, s).drops = {}
  /\ Commit.adds = {} /\ Commit.drops = {} /\ Commit.mode = "commit"
  BY DEF Add, Drop, Rewrite, RefuseOrphans, AddLabels, Commit, Plain

LEMMA EffectKinds ==
  ASSUME NEW d
  PROVE  /\ \A objects : /\ Effect(d, <<Add(objects)>>, objects, {})
                         /\ Effect(d, <<Drop(objects)>>, {}, objects)
         /\ \A how : Effect(d, <<Rewrite(how)>>, {}, {})
         /\ \A os : Effect(d, <<RefuseOrphans(os)>>, {}, {})
<1>1. ASSUME NEW objects PROVE Effect(d, <<Add(objects)>>, objects, {})
  <2> DEFINE a == Add(objects)
  <2>1. a.mode # "commit" /\ a.adds = objects /\ a.drops = {}
    BY StatementKinds
  <2> HIDE DEF a
  <2>2. Effect(d, <<a>>, a.adds, a.drops)
    BY <2>1, EffectOne
  <2> QED BY <2>1, <2>2 DEF a
<1>2. ASSUME NEW objects PROVE Effect(d, <<Drop(objects)>>, {}, objects)
  <2> DEFINE a == Drop(objects)
  <2>1. a.mode # "commit" /\ a.adds = {} /\ a.drops = objects
    BY StatementKinds
  <2> HIDE DEF a
  <2>2. Effect(d, <<a>>, a.adds, a.drops)
    BY <2>1, EffectOne
  <2> QED BY <2>1, <2>2 DEF a
<1>3. ASSUME NEW how PROVE Effect(d, <<Rewrite(how)>>, {}, {})
  <2> DEFINE a == Rewrite(how)
  <2>1. a.mode # "commit" /\ a.adds = {} /\ a.drops = {}
    BY StatementKinds
  <2> HIDE DEF a
  <2>2. Effect(d, <<a>>, a.adds, a.drops)
    BY <2>1, EffectOne
  <2> QED BY <2>1, <2>2 DEF a
<1>4. ASSUME NEW os PROVE Effect(d, <<RefuseOrphans(os)>>, {}, {})
  <2> DEFINE a == RefuseOrphans(os)
  <2>1. a.mode # "commit" /\ a.adds = {} /\ a.drops = {}
    BY StatementKinds
  <2> HIDE DEF a
  <2>2. Effect(d, <<a>>, a.adds, a.drops)
    BY <2>1, EffectOne
  <2> QED BY <2>1, <2>2 DEF a
<1> QED BY <1>1, <1>2, <1>3, <1>4

LEMMA EffectDropTwo ==
  ASSUME NEW d, NEW a, NEW b
  PROVE  /\ Effect(d, CreateTables(<<a, b>>), {Table(a), Table(b)}, {})
         /\ Effect(d, DropTables(<<a, b>>), {}, {Table(a), Table(b)})
<1> DEFINE ts == <<a, b>>
<1>1. DOMAIN ts = 1 .. 2 /\ Range(ts) = {a, b} /\ 2 \in Nat
  BY ListDomains, RangeLists
<1>2. {Table(x) : x \in {a, b}} = {Table(a), Table(b)}
  OBVIOUS
<1> HIDE DEF ts
<1>3. /\ Effect(d, CreateTables(ts), {Table(x) : x \in Range(ts)}, {})
      /\ Effect(d, DropTables(ts), {}, {Table(x) : x \in Range(ts)})
  BY <1>1, EffectTables
<1>4. {Table(x) : x \in Range(ts)} = {Table(a), Table(b)}
  BY <1>1, <1>2
<1> QED BY <1>3, <1>4 DEF ts

LEMMA EffectDropOne ==
  ASSUME NEW d, NEW a
  PROVE  /\ Effect(d, CreateTables(<<a>>), {Table(a)}, {})
         /\ Effect(d, DropTables(<<a>>), {}, {Table(a)})
<1> DEFINE ts == <<a>>
<1>1. DOMAIN ts = 1 .. 1 /\ Range(ts) = {a} /\ 1 \in Nat
  BY ListDomains, RangeLists
<1> HIDE DEF ts
<1>3. /\ Effect(d, CreateTables(ts), {Table(x) : x \in Range(ts)}, {})
      /\ Effect(d, DropTables(ts), {}, {Table(x) : x \in Range(ts)})
  BY <1>1, EffectTables
<1>4. {Table(x) : x \in Range(ts)} = {Table(a)}
  BY <1>1
<1> QED BY <1>3, <1>4 DEF ts

LEMMA ReversibleBaseline == \* 1
  ASSUME NEW d PROVE Reversible(d, 1)
<1> DEFINE ts == <<"credentials", "delegation_records", "agents", "revocation_records",
                   "provider_transactions", "payment_intents", "parent_authorities",
                   "mfa_challenges", "bounded_authorizations", "auth_nonces">>
           n == 10
           made(i) == {Table(BaselineTables[i])} \cup EnumsOf(d, BaselineTables[i])
           X == UNION {made(i) : i \in 1 .. n}
           Y == {Table(t) : t \in Range(ts)}
<1>1. DOMAIN BaselineTables = 1 .. n /\ DOMAIN ts = 1 .. n /\ n \in Nat
  BY DEF BaselineTables
<1>2. ASSUME NEW i \in 1 .. n PROVE TableBirth(BaselineTables[i]) = 1 /\ BaselineTables[i] \in Range(ts)
  <2> DEFINE names == {"auth_nonces", "bounded_authorizations", "mfa_challenges", "parent_authorities",
                       "payment_intents", "provider_transactions", "revocation_records", "agents",
                       "delegation_records", "credentials"}
  <2>1. BaselineTables[i] \in names
    BY DEF BaselineTables
  <2>2. \A t \in names : TableBirth(t) = 1
    BY DEF TableBirth
  <2>3. \A t \in names : \E j \in 1 .. n : ts[j] = t
    <3>1. /\ ts[1] = "credentials" /\ ts[2] = "delegation_records" /\ ts[3] = "agents"
          /\ ts[4] = "revocation_records" /\ ts[5] = "provider_transactions"
          /\ ts[6] = "payment_intents" /\ ts[7] = "parent_authorities" /\ ts[8] = "mfa_challenges"
          /\ ts[9] = "bounded_authorizations" /\ ts[10] = "auth_nonces"
      OBVIOUS
    <3> HIDE DEF ts
    <3> QED BY <3>1
  <2> HIDE DEF names, ts
  <2> QED BY <1>1, <2>1, <2>2, <2>3 DEF Range
<1>3. \A t \in Range(ts) : TableBirth(t) >= 1
  BY TableBirths
<1> HIDE DEF ts
<1>4. Effect(d, Baseline(d), X, {})
  <2> DEFINE ss == Baseline(d)
  <2>1. ss = [i \in 1 .. n |-> ss[i]] /\ \A i \in 1 .. n : ss[i] = Add(made(i))
    BY <1>1 DEF Baseline
  <2> HIDE DEF ss, made, n
  <2>2. \A i \in 1 .. n : ss[i].adds = made(i) /\ ss[i].drops = {} /\ ss[i].mode # "commit"
    BY <2>1, StatementKinds
  <2>3. Effect(d, ss, UNION {ss[i].adds : i \in 1 .. n}, UNION {ss[i].drops : i \in 1 .. n})
    BY <1>1, <2>1, <2>2, EffectList
  <2>4. UNION {ss[i].adds : i \in 1 .. n} = X /\ UNION {ss[i].drops : i \in 1 .. n} = {}
    BY <2>2
  <2> QED BY <2>3, <2>4 DEF ss
<1>5. Effect(d, DropBaseline, {}, Y)
  <2>1. DropBaseline = DropTables(ts)
    BY DEF DropBaseline, ts
  <2> HIDE DEF n
  <2> QED BY <1>1, <2>1, EffectTables
<1>6. \A i : \A e \in EnumsOf(d, BaselineTables[i]) :
        /\ d = "postgresql"
        /\ \E name \in {"parentstatus", "governancedecision", "agentstatus"} : e = Type(name)
  BY DEF EnumsOf
<1>7. \A name \in {"parentstatus", "governancedecision", "agentstatus"} :
        /\ TableBirth(name) = 1 /\ Birth(d, Type(name)) = 0
        /\ Type(name)[1] = "type" /\ Type(name)[2] = name
  BY DEF TableBirth, Birth, Type
<1>8. Dated(d, 1, X, Y)
  <2>1. ASSUME NEW e \in X
        PROVE  /\ Birth(d, e) <= 1 /\ TableBirth(e[2]) <= 1
               /\ (e[1] = "table" /\ e \in Y) \/ (d = "postgresql" /\ e[1] = "type")
    <3>1. PICK i \in 1 .. n : e \in made(i)
      OBVIOUS
    <3>2. CASE e = Table(BaselineTables[i])
      <4>1. /\ Birth(d, e) = TableBirth(BaselineTables[i]) /\ e[1] = "table" /\ e[2] = BaselineTables[i]
        BY <3>2, Births
      <4>2. e \in Y
        BY <1>2, <3>2
      <4> QED BY <1>2, <4>1, <4>2
    <3>3. CASE e \in EnumsOf(d, BaselineTables[i])
      BY <1>6, <1>7, <3>3
    <3> QED BY <3>1, <3>2, <3>3
  <2>2. ASSUME NEW e \in Y PROVE Birth(d, e) >= 1
    BY <1>3, Births
  <2>3. Table("payment_intents") \in X /\ Table("agents") \in X
    <3>1. BaselineTables[5] = "payment_intents" /\ BaselineTables[8] = "agents"
      BY DEF BaselineTables
    <3>2. \A i \in 1 .. n : Table(BaselineTables[i]) \in X
      OBVIOUS
    <3> QED BY <3>1, <3>2
  <2> HIDE DEF X, Y
  <2> QED BY <2>1, <2>2, <2>3, KeyBirths DEF Dated
<1>9. \A s : Revision(1, d, s) = [up |-> Baseline(d), down |-> DropBaseline]
  BY DEF Revision
<1> HIDE DEF X, Y
<1> QED BY <1>4, <1>5, <1>8, <1>9, ReversibleFrom

LEMMA ReversibleTrails == \* 4, 7
  ASSUME NEW d PROVE Reversible(d, 4) /\ Reversible(d, 7)
<1>1. ASSUME NEW n \in {4, 7}, NEW t \in {"audit_events", "rate_buckets"}, TableBirth(t) = n,
             \A s : Revision(n, d, s) = [up |-> << Add({Table(t), Column(t, "org_id")}) >>,
                                         down |-> DropTables(<<t>>)]
      PROVE  Reversible(d, n)
  <2>1. ColumnBirth(t, "org_id") = 1
    BY DEF ColumnBirth
  <2>2. Dated(d, n, {Table(t), Column(t, "org_id")}, {Table(t)})
    BY <1>1, <2>1, Births, KeyBirths DEF Dated
  <2> QED BY <1>1, <2>2, EffectKinds, EffectDropOne, ReversibleFrom
<1>2. Reversible(d, 4)
  <2>1. \A s : Revision(4, d, s) = [up |-> << Add({Table("audit_events"), Column("audit_events", "org_id")}) >>,
                                    down |-> DropTables(<<"audit_events">>)]
    BY DEF Revision, AuditEvents
  <2> QED BY <1>1, <2>1 DEF TableBirth
<1>3. Reversible(d, 7)
  <2>1. \A s : Revision(7, d, s) = [up |-> << Add({Table("rate_buckets"), Column("rate_buckets", "org_id")}) >>,
                                    down |-> DropTables(<<"rate_buckets">>)]
    BY DEF Revision, RateBuckets
  <2> QED BY <1>1, <2>1 DEF TableBirth
<1> QED BY <1>2, <1>3

LEMMA ReversibleSigning == \* 11
  ASSUME NEW d PROVE Reversible(d, 11)
<1> DEFINE mandates == "user_payment_mandates"
           intents == "payment_intents"
           M == {Column(mandates, "signing_key_id"), Column(mandates, "signature_b64"),
                 Column(mandates, "user_public_key_pem"), Column(mandates, "signed_at")}
           L == {Column(intents, "llm_run_id"), Column(intents, "llm_model"),
                 Column(intents, "llm_tool_call_id"), Column(intents, "llm_tool_name")}
           C == {Column(mandates, "max_per_hour"), Column(mandates, "max_per_merchant_per_day"),
                 Column(mandates, "max_category_per_day")}
           A1 == AddColumns(mandates, <<"signing_key_id", "signature_b64", "user_public_key_pem", "signed_at">>)
           A2 == AddColumns(intents, <<"llm_run_id", "llm_model", "llm_tool_call_id", "llm_tool_name">>)
           A3 == AddColumns(mandates, <<"max_per_hour", "max_per_merchant_per_day", "max_category_per_day">>)
           D1 == DropColumns(mandates, <<"max_category_per_day", "max_per_merchant_per_day", "max_per_hour">>)
           D2 == DropColumns(intents, <<"llm_tool_name", "llm_tool_call_id", "llm_model", "llm_run_id">>)
           D3 == DropColumns(mandates, <<"signature_b64", "user_public_key_pem", "signed_at", "signing_key_id">>)
<1>1. Effect(d, A1, M, {}) /\ Effect(d, A2, L, {}) /\ Effect(d, A3, C, {})
  BY EffectColumns
<1>2. Effect(d, D1, {}, C) /\ Effect(d, D2, {}, L) /\ Effect(d, D3, {}, M)
  <2>1. /\ C = {Column(mandates, "max_category_per_day"), Column(mandates, "max_per_merchant_per_day"),
                Column(mandates, "max_per_hour")}
        /\ L = {Column(intents, "llm_tool_name"), Column(intents, "llm_tool_call_id"),
                Column(intents, "llm_model"), Column(intents, "llm_run_id")}
        /\ M = {Column(mandates, "signature_b64"), Column(mandates, "user_public_key_pem"),
                Column(mandates, "signed_at"), Column(mandates, "signing_key_id")}
    OBVIOUS
  <2> HIDE DEF C, L, M
  <2> QED BY <2>1, EffectColumns
<1>3. \A s : Revision(11, d, s) = [up |-> A1 \o A2 \o A3, down |-> D1 \o D2 \o D3]
  BY DEF Revision, SigningAndAudit
<1>4. Dated(d, 11, (M \cup L) \cup C, (C \cup L) \cup M)
  <2>1. /\ \A e \in (M \cup L) \cup C : e \in (C \cup L) \cup M
        /\ \A e \in ((M \cup L) \cup C) \cup ((C \cup L) \cup M) :
             \E t, c : e = Column(t, c) /\ ColumnBirth(t, c) = 11 /\ TableBirth(t) <= 11
    <3>1. TableBirth(mandates) <= 11 /\ TableBirth(intents) <= 11
      BY DEF TableBirth
    <3>2. \A t : \A c \in {"signing_key_id", "signature_b64", "user_public_key_pem", "signed_at", "llm_run_id",
              "llm_model", "llm_tool_call_id", "llm_tool_name", "max_per_hour",
              "max_per_merchant_per_day", "max_category_per_day"} : ColumnBirth(t, c) = 11
      BY DEF ColumnBirth
    <3> QED BY <3>1, <3>2
  <2> HIDE DEF M, L, C
  <2> QED BY <2>1, DatedColumns
<1> HIDE DEF M, L, C, A1, A2, A3, D1, D2, D3
<1>5. Effect(d, A1 \o A2, M \cup L, {}) /\ Effect(d, D1 \o D2, {}, C \cup L)
  BY <1>1, <1>2, EffectUp, EffectDown
<1>6. Effect(d, A1 \o A2 \o A3, (M \cup L) \cup C, {}) /\ Effect(d, D1 \o D2 \o D3, {}, (C \cup L) \cup M)
  BY <1>1, <1>2, <1>5, EffectUp, EffectDown
<1> QED BY <1>3, <1>4, <1>6, ReversibleFrom

LEMMA ReversibleLate == \* 17, 18, 19
  ASSUME NEW d PROVE Reversible(d, 17) /\ Reversible(d, 18) /\ Reversible(d, 19)
<1>1. Reversible(d, 17)
  <2> DEFINE t == "provider_transactions"
             cs == <<"provider_environment", "provider_key_id_prefix", "provider_api_base">>
             X == {Column(t, "provider_environment"), Column(t, "provider_key_id_prefix"),
                   Column(t, "provider_api_base")}
  <2>1. Effect(d, AddColumns(t, cs), X, {})
    BY EffectColumns
  <2>2. {Column(t, c) : c \in Range(cs)} = X
    <3>1. Range(cs) = {"provider_environment", "provider_key_id_prefix", "provider_api_base"}
      BY RangeLists
    <3> HIDE DEF cs
    <3> QED BY <3>1
  <2>3. Effect(d, Batch(d, t, {}, {Column(t, c) : c \in Range(cs)}), {}, X)
    BY <2>2, EffectBatch
  <2>4. \A s : Revision(17, d, s) = [up |-> AddColumns(t, cs),
                                     down |-> Batch(d, t, {}, {Column(t, c) : c \in Range(cs)})]
    BY DEF Revision, Provenance
  <2>5. Dated(d, 17, X, X)
    <3>1. \A e \in X : \E u, c : e = Column(u, c) /\ ColumnBirth(u, c) = 17 /\ TableBirth(u) <= 17
      <4>1. TableBirth(t) <= 17
        BY DEF TableBirth
      <4>2. \A c \in {"provider_environment", "provider_key_id_prefix", "provider_api_base"} : ColumnBirth(t, c) = 17
        BY DEF ColumnBirth
      <4> QED BY <4>1, <4>2
    <3> HIDE DEF X
    <3> QED BY <3>1, DatedColumns
  <2> HIDE DEF X, cs
  <2> QED BY <2>1, <2>3, <2>4, <2>5, ReversibleFrom
<1>2. Reversible(d, 18)
  <2>1. \A s : Revision(18, d, s) = [up |-> << Add({HashVersion}) >>,
                                     down |-> Batch(d, "audit_events", {}, {HashVersion})]
    BY DEF Revision, AuditHashVersion
  <2>2. Dated(d, 18, {HashVersion}, {HashVersion})
    <3>1. ColumnBirth("audit_events", "hash_version") = 18 /\ TableBirth("audit_events") <= 18
      BY DEF ColumnBirth, TableBirth
    <3> QED BY <3>1, DatedColumns DEF HashVersion
  <2>3. Effect(d, <<Add({HashVersion})>>, {HashVersion}, {})
    BY EffectKinds
  <2>4. Effect(d, Batch(d, "audit_events", {}, {HashVersion}), {}, {HashVersion})
    BY EffectBatch
  <2> QED BY <2>1, <2>2, <2>3, <2>4, ReversibleFrom
<1>3. Reversible(d, 19)
  <2>1. \A s : Revision(19, d, s) = [up |-> <<Rewrite("retire")>>, down |-> <<Rewrite("restore")>>]
    BY DEF Revision, StateVocabulary
  <2>2. Dated(d, 19, {}, {})
    BY KeyBirths DEF Dated
  <2> QED BY <2>1, <2>2, EffectKinds, ReversibleFrom
<1> QED BY <1>1, <1>2, <1>3

LEMMA Keys ==
  ASSUME NEW d
  PROVE  \A t, c, ref, name :
           LET e == Key(t, c, ref, name) IN
           /\ e[1] = "key" /\ e[2] = t /\ e[3] = c /\ e[4] = ref /\ e[5] = name
           /\ Birth(d, e) = KeyBirth(d, e)
  BY DEF Key, Birth

\* When each of the early keys was made.
LEMMA EarlyBirths ==
  /\ \A d, t : KeyBirth(d, MandateKey(t)) = 10
  /\ \A d, t, c, ref : KeyBirth(d, Key(t, c, ref, Inline(d, t, c))) = 10
  /\ \A d, t, c, ref : KeyBirth(d, Key(t, c, ref, <<"fk_0008", t, c>>)) = 8
  /\ \A d, t, c, ref : KeyBirth(d, Key(t, c, ref, <<"fk_request_proofs_agent">>)) = 9
  /\ KeyBirth("postgresql", AgentKey) = 15
<1>1. ASSUME NEW d, NEW t, NEW c, NEW ref, NEW name, Len(name) # 4
      PROVE  KeyBirth(d, Key(t, c, ref, name)) =
               IF name = <<"fk_0008", t, c>> THEN 8
               ELSE IF name = <<"fk_request_proofs_agent">> THEN 9 ELSE 10
  <2>1. \A x, y, z : Len(FkName(x, y, z)) = 4
    BY DEF FkName
  <2>2. name # FkName(t, c, ref) /\ AgentKey[5] # name
    BY <1>1, <2>1, Keys DEF AgentKey
  <2> DEFINE e == Key(t, c, ref, name)
  <2>3. e[2] = t /\ e[3] = c /\ e[4] = ref /\ e[5] = name
    BY Keys
  <2> HIDE DEF e
  <2>4. AgentKey # e
    BY <2>2, <2>3
  <2> HIDE DEF e
  <2>5. KeyBirth(d, e) = IF name = <<"fk_0008", t, c>> THEN 8
                         ELSE IF name = <<"fk_request_proofs_agent">> THEN 9 ELSE 10
    BY <2>2, <2>3, <2>4 DEF KeyBirth
  <2> QED BY <2>5 DEF e
<1>2. ASSUME NEW t, NEW c
      PROVE  /\ Len(<<"fk_0008", t, c>>) = 3 /\ <<"fk_0008", t, c>>[1] = "fk_0008"
             /\ Len(<<"fk", t, "mandate_id">>) = 3 /\ <<"fk", t, "mandate_id">>[1] = "fk"
             /\ Len(<<t, c, "fkey">>) = 3 /\ <<t, c, "fkey">>[3] = "fkey"
             /\ Len(<<"fk_request_proofs_agent">>) = 1 /\ Len(<< >>) = 0
  OBVIOUS
<1>3. ASSUME NEW d, NEW t PROVE KeyBirth(d, MandateKey(t)) = 10
  BY <1>1, <1>2 DEF MandateKey
<1>4. ASSUME NEW d, NEW t, NEW c, NEW ref PROVE KeyBirth(d, Key(t, c, ref, Inline(d, t, c))) = 10
  <2>1. Len(Inline(d, t, c)) # 4 /\ Inline(d, t, c) # <<"fk_0008", t, c>>
        /\ Inline(d, t, c) # <<"fk_request_proofs_agent">>
    BY <1>2 DEF Inline
  <2> QED BY <1>1, <2>1
<1>5. ASSUME NEW d, NEW t, NEW c, NEW ref PROVE KeyBirth(d, Key(t, c, ref, <<"fk_0008", t, c>>)) = 8
  BY <1>1, <1>2
<1>6. ASSUME NEW d, NEW t, NEW c, NEW ref
      PROVE  KeyBirth(d, Key(t, c, ref, <<"fk_request_proofs_agent">>)) = 9
  BY <1>1, <1>2
<1>7. KeyBirth("postgresql", AgentKey) = 15
  BY DEF KeyBirth
<1> QED BY <1>3, <1>4, <1>5, <1>6, <1>7

\* The keys of the n-th revision, of those there are before the parity revision.
LEMMA EarlyOf ==
  ASSUME NEW d, NEW e \in EarlyKeys(d)
  PROVE  /\ e[1] = "key" /\ KeyBirth(d, e) \in {8, 9, 10, 15}
         /\ KeyBirth(d, e) = 8 => d = "postgresql" /\ e \in MultitenancyKeys
         /\ KeyBirth(d, e) = 9 =>
              d = "postgresql" /\ e = Key("request_proofs", "agent_id", "agents", <<"fk_request_proofs_agent">>)
         /\ KeyBirth(d, e) = 10 =>
              \/ e = MandateKey("payment_intents") \/ e = MandateKey("bounded_authorizations")
              \/ e = Key("user_payment_mandates", "agent_id", "agents",
                         Inline(d, "user_payment_mandates", "agent_id"))
              \/ e = Key("payment_instrument_bindings", "mandate_id", "user_payment_mandates",
                         Inline(d, "payment_instrument_bindings", "mandate_id"))
         /\ KeyBirth(d, e) = 15 => d = "postgresql" /\ e = AgentKey
<1>1. ASSUME NEW k \in MultitenancyKeys PROVE k[1] = "key" /\ KeyBirth(d, k) = 8
  <2>1. PICK r \in Range(References) : k = Key(r[1], r[2], r[3], <<"fk_0008", r[1], r[2]>>)
    BY DEF MultitenancyKeys
  <2>2. Key(r[1], r[2], r[3], <<"fk_0008", r[1], r[2]>>)[1] = "key"
    BY Keys
  <2>3. KeyBirth(d, Key(r[1], r[2], r[3], <<"fk_0008", r[1], r[2]>>)) = 8
    BY EarlyBirths
  <2> QED BY <2>1, <2>2, <2>3
<1>2. /\ \A t : MandateKey(t)[1] = "key" /\ KeyBirth(d, MandateKey(t)) = 10
      /\ AgentKey[1] = "key"
  BY EarlyBirths, Keys DEF MandateKey, AgentKey
<1> QED BY <1>1, <1>2, EarlyBirths, Keys DEF EarlyKeys

LEMMA ReversibleProofs == \* 9
  ASSUME NEW d PROVE Reversible(d, 9)
<1> DEFINE key == Key("request_proofs", "agent_id", "agents", <<"fk_request_proofs_agent">>)
           keys == IF d = "postgresql" THEN {key} ELSE {}
           up == IF d = "postgresql" THEN <<Add({key})>> ELSE << >>
           down == IF d = "postgresql" THEN <<Drop({key})>> ELSE << >>
           tables == {Table("request_proofs")}
<1>1. Effect(d, up, keys, {}) /\ Effect(d, down, {}, keys)
  BY EffectKinds, EffectNone
<1>2. /\ Effect(d, CreateTables(<<"request_proofs">>), tables, {})
      /\ Effect(d, DropTables(<<"request_proofs">>), {}, tables)
  BY EffectDropOne
<1>3. \A s : Revision(9, d, s) = [up |-> CreateTables(<<"request_proofs">>) \o up,
                                   down |-> down \o DropTables(<<"request_proofs">>)]
  BY DEF Revision, RequestProofs
<1>4. Dated(d, 9, tables \cup keys, keys \cup tables)
  <2>1. TableBirth("request_proofs") = 9
    BY DEF TableBirth
  <2>2. /\ key[1] = "key" /\ key[2] = "request_proofs" /\ Birth(d, key) = 9
    BY Keys, EarlyBirths
  <2>3. key \in EarlyKeys("postgresql")
    BY DEF EarlyKeys
  <2>4. \A e \in EarlyKeys(d) : KeyBirth(d, e) = 9 => e \in keys
    BY EarlyOf
  <2> HIDE DEF key
  <2>5. \A e \in tables \cup keys :
          \/ e[1] = "table" /\ e[2] = "request_proofs" /\ Birth(d, e) = 9
          \/ e[1] = "key" /\ e[2] = "request_proofs" /\ Birth(d, e) = 9 /\ e \in EarlyKeys(d)
    BY <2>1, <2>2, <2>3, Births
  <2> HIDE DEF keys, tables
  <2> QED BY <2>1, <2>4, <2>5 DEF Dated
<1> HIDE DEF up, down, keys, tables
<1>5. /\ Effect(d, CreateTables(<<"request_proofs">>) \o up, tables \cup keys, {})
      /\ Effect(d, down \o DropTables(<<"request_proofs">>), {}, keys \cup tables)
  BY <1>1, <1>2, EffectUp, EffectDown
<1> QED BY <1>3, <1>4, <1>5, ReversibleFrom

LEMMA ReversibleAgentKeys == \* 13, 15
  ASSUME NEW d PROVE Reversible(d, 13) /\ Reversible(d, 15)
<1>1. ASSUME d # "postgresql", NEW n \in {13, 14, 15} PROVE Dated(d, n, {}, {})
  <2>1. \A e \in EarlyKeys(d) : KeyBirth(d, e) \notin {13, 14, 15}
    BY <1>1, EarlyOf
  <2> QED BY <1>1, <2>1 DEF Dated
<1>2. CASE d # "postgresql"
  <2>1. \A s : Revision(13, d, s) = [up |-> << >>, down |-> << >>]
    BY <1>2 DEF Revision, ParentSuspended
  <2>2. \A s : Revision(15, d, s) = [up |-> << >>, down |-> << >>]
    BY <1>2 DEF Revision, IntentAgentKey
  <2>3. Dated(d, 13, {}, {}) /\ Dated(d, 15, {}, {})
    BY <1>1, <1>2
  <2> QED BY <2>1, <2>2, <2>3, EffectNone, ReversibleFrom
<1>3. CASE d = "postgresql"
  <2>1. Reversible(d, 13)
    <3> DEFINE labels == {Label("parentstatus", "SUSPENDED")}
    <3>1. \A s : Revision(13, d, s) = [up |-> <<Commit, AddLabels(labels, s)>>, down |-> << >>]
      BY <1>3 DEF Revision, ParentSuspended
    <3>2. ASSUME NEW s
          PROVE  /\ Sum(d, <<Commit, AddLabels(labels, s)>>, labels \ s, {})
                 /\ Orderly(<<Commit, AddLabels(labels, s)>>)
      <4> DEFINE b == AddLabels(labels, s)
                 ss == <<Commit, b>>
                 n == 2
      <4>1. ss = [i \in 1 .. n |-> ss[i]] /\ ss[1] = Commit /\ ss[2] = b /\ DOMAIN ss = {1, 2}
        OBVIOUS
      <4>2. n \in Nat /\ 1 .. n = {1, 2}
        OBVIOUS
      <4>3. b.adds = labels \ s /\ b.drops = {} /\ Commit.adds = {} /\ Commit.drops = {}
        BY StatementKinds
      <4>4. \A e \in labels : e[1] = "label"
        BY DEF Label
      <4> HIDE DEF ss, n, b, labels
      <4>5. Sum(d, ss, UNION {ss[i].adds : i \in 1 .. n}, UNION {ss[i].drops : i \in 1 .. n})
        BY <4>1, <4>2, SumList
      <4>6. UNION {ss[i].adds : i \in 1 .. n} = labels \ s /\ UNION {ss[i].drops : i \in 1 .. n} = {}
        BY <4>1, <4>2, <4>3
      <4>7. Orderly(ss)
        BY <4>1, <4>3, <4>4 DEF Orderly
      <4> QED BY <4>5, <4>6, <4>7 DEF ss, b
    <3>3. Dated(d, 13, labels, {})
      <4>1. \A e \in EarlyKeys(d) : KeyBirth(d, e) # 13
        BY EarlyOf
      <4>2. \A e \in labels : e[1] = "label" /\ e[2] = "parentstatus" /\ Birth(d, e) = 0
        BY DEF Label, Birth
      <4>3. TableBirth("parentstatus") = 1
        BY DEF TableBirth
      <4> HIDE DEF labels
      <4> QED BY <1>3, <4>1, <4>2, <4>3 DEF Dated
    <3> HIDE DEF labels
    <3>4. ASSUME NEW s
          PROVE  /\ \E x : /\ Sum(d, Revision(13, d, s).up, x, {})
                           /\ Orderly(Revision(13, d, s).up)
                           /\ x \subseteq labels /\ labels \subseteq x \cup s
                 /\ Effect(d, Revision(13, d, s).down, {}, {})
      <4>1. labels \ s \subseteq labels /\ labels \subseteq (labels \ s) \cup s
        OBVIOUS
      <4>2. /\ Revision(13, d, s).up = <<Commit, AddLabels(labels, s)>>
            /\ Revision(13, d, s).down = << >>
        BY <3>1
      <4> QED BY <3>2, <4>1, <4>2, EffectNone
    <3> QED BY <3>3, <3>4 DEF Reversible, Reverses
  <2>2. Reversible(d, 15)
    <3> DEFINE X == {AgentKey}
               refuse == RefuseOrphans(Dangling({<<"payment_intents", "agent_id">>}))
    <3>1. \A s : /\ Revision(15, d, s).up = <<refuse, Add(X)>>
                 /\ Revision(15, d, s).down = <<Drop(X \cap s)>>
      BY <1>3 DEF Revision, IntentAgentKey
    <3>2. Effect(d, <<refuse, Add(X)>>, X, {})
      <4> DEFINE b == Add(X)
      <4>1. /\ refuse.adds = {} /\ refuse.drops = {} /\ refuse.mode # "commit"
            /\ b.adds = X /\ b.drops = {} /\ b.mode # "commit"
        BY StatementKinds
      <4> HIDE DEF refuse, b
      <4>2. Effect(d, <<refuse, b>>, refuse.adds \cup b.adds, refuse.drops \cup b.drops)
        BY <4>1, EffectTwo
      <4>3. refuse.adds \cup b.adds = X /\ refuse.drops \cup b.drops = {}
        BY <4>1
      <4> QED BY <4>2, <4>3 DEF b
    <3>3. Dated(d, 15, X, X)
      <4>1. \A e \in EarlyKeys(d) : KeyBirth(d, e) = 15 => e = AgentKey
        BY EarlyOf
      <4>2. AgentKey[1] = "key" /\ AgentKey[2] = "payment_intents" /\ Birth(d, AgentKey) = 15
        BY <1>3, Keys, EarlyBirths DEF AgentKey
      <4>3. AgentKey \in EarlyKeys(d)
        BY <1>3 DEF EarlyKeys
      <4>4. TableBirth("payment_intents") = 1
        BY DEF TableBirth
      <4> QED BY <4>1, <4>2, <4>3, <4>4 DEF Dated
    <3>4. AgentKey[1] = "key"
      BY Keys DEF AgentKey
    <3>5. Orderly(<<refuse, Add(X)>>)
      BY <3>2, CalmIsOrderly DEF Effect
    <3> HIDE DEF refuse
    <3>6. ASSUME NEW s
          PROVE  /\ \E x : /\ Sum(d, Revision(15, d, s).up, x, {})
                           /\ Orderly(Revision(15, d, s).up)
                           /\ x \subseteq X /\ X \subseteq x \cup s
                 /\ \E y : /\ Effect(d, Revision(15, d, s).down, {}, y)
                           /\ y \subseteq X /\ \A e \in X : e \in y \/ (e[1] = "key" /\ e \notin s)
      <4>1. X \subseteq X /\ X \subseteq X \cup s
        OBVIOUS
      <4>2. Sum(d, Revision(15, d, s).up, X, {}) /\ Orderly(Revision(15, d, s).up)
        BY <3>1, <3>2, <3>5 DEF Effect
      <4>3. Effect(d, Revision(15, d, s).down, {}, X \cap s)
        BY <3>1, EffectKinds
      <4>4. X \cap s \subseteq X /\ \A e \in X : e \in X \cap s \/ (e[1] = "key" /\ e \notin s)
        BY <3>4
      <4> HIDE DEF X
      <4> QED BY <4>1, <4>2, <4>3, <4>4
    <3> HIDE DEF X
    <3> QED BY <3>3, <3>6 DEF Reversible, Reverses
  <2> QED BY <2>1, <2>2
<1> QED BY <1>2, <1>3

LEMMA ReversibleStatus == \* 14
  ASSUME NEW d PROVE Reversible(d, 14)
<1>1. CASE d # "postgresql"
  <2>1. \A s : Revision(14, d, s) = [up |-> << >>, down |-> << >>]
    BY <1>1 DEF Revision, MandateStatusEnum
  <2>2. Dated(d, 14, {}, {})
    BY EarlyOf DEF Dated
  <2> QED BY <2>1, <2>2, EffectNone, ReversibleFrom
<1>2. CASE d = "postgresql"
  <2> DEFINE status == Native("user_payment_mandates", "status")
             type == Type("mandatestatus")
             b == Rewrite("upper")
             c == [Add({status}) EXCEPT !.write = "cast"]
             X == {type, status}
             up(s) == <<Add({type} \ s), Commit, b, c>>
  <2>1. \A s : Revision(14, d, s) = [up |-> up(s), down |-> <<Drop({status})>>]
    BY <1>2 DEF Revision, MandateStatusEnum
  <2>2. /\ type[1] = "type" /\ type[2] = "mandatestatus" /\ Birth(d, type) = 0
        /\ status[1] = "native" /\ status[2] = "user_payment_mandates" /\ Birth(d, status) = 14
    BY DEF Type, Native, Birth
  <2>3. /\ b.adds = {} /\ b.drops = {} /\ b.mode = "rows"
        /\ c.adds = {status} /\ c.drops = {} /\ c.mode = "schema"
    BY StatementKinds DEF Add, Plain
  <2>4. TableBirth("mandatestatus") = 1 /\ TableBirth("user_payment_mandates") = 10
    BY DEF TableBirth
  <2> HIDE DEF status, type, b, c
  <2>5. ASSUME NEW s
        PROVE  Sum(d, up(s), ({type} \ s) \cup {status}, {}) /\ Orderly(up(s))
    <3> DEFINE a == Add({type} \ s)
               ss == <<a, Commit, b, c>>
               n == 4
    <3>1. /\ ss = [i \in 1 .. n |-> ss[i]] /\ ss[1] = a /\ ss[2] = Commit /\ ss[3] = b /\ ss[4] = c
          /\ DOMAIN ss = {1, 2, 3, 4}
      OBVIOUS
    <3>2. n \in Nat /\ 1 .. n = {1, 2, 3, 4}
      OBVIOUS
    <3>3. /\ a.adds = {type} \ s /\ a.drops = {} /\ a.mode = "schema"
          /\ Commit.adds = {} /\ Commit.drops = {}
      BY StatementKinds
    <3> HIDE DEF ss, n, a
    <3>4. Sum(d, ss, UNION {ss[i].adds : i \in 1 .. n}, UNION {ss[i].drops : i \in 1 .. n})
      BY <3>1, <3>2, SumList
    <3>5. /\ UNION {ss[i].adds : i \in 1 .. n} = ({type} \ s) \cup {status}
          /\ UNION {ss[i].drops : i \in 1 .. n} = {}
      BY <2>3, <3>1, <3>2, <3>3
    <3>6. \A i \in DOMAIN ss : ss[i].mode = "commit" => i = 2
      BY <2>3, <3>1, <3>3
    <3>7. \A j \in DOMAIN ss : j <= 2 => ss[j].drops = {} /\ \A e \in ss[j].adds : e[1] \in {"type", "label"}
      BY <2>2, <3>1, <3>3
    <3>8. Orderly(ss)
      BY <3>6, <3>7 DEF Orderly
    <3> QED BY <3>4, <3>5, <3>8 DEF ss, a
  <2>6. Dated(d, 14, X, {status})
    BY <1>2, <2>2, <2>4, EarlyOf DEF Dated
  <2>7. Effect(d, <<Drop({status})>>, {}, {status})
    BY EffectKinds
  <2>8. ASSUME NEW s
        PROVE  /\ \E x : /\ Sum(d, Revision(14, d, s).up, x, {})
                         /\ Orderly(Revision(14, d, s).up)
                         /\ x \subseteq X /\ X \subseteq x \cup s
               /\ Effect(d, Revision(14, d, s).down, {}, {status})
    <3> DEFINE x == ({type} \ s) \cup {status}
    <3>1. x \subseteq X /\ X \subseteq x \cup s
      OBVIOUS
    <3>2. Revision(14, d, s).up = up(s) /\ Revision(14, d, s).down = <<Drop({status})>>
      BY <2>1
    <3>3. Sum(d, up(s), x, {}) /\ Orderly(up(s))
      BY <2>5
    <3> HIDE DEF up, X, x
    <3> QED BY <2>7, <3>1, <3>2, <3>3
  <2> HIDE DEF X
  <2> QED BY <2>6, <2>8 DEF Reversible, Reverses
<1> QED BY <1>1, <1>2

LEMMA ReversibleMandates == \* 10
  ASSUME NEW d PROVE Reversible(d, 10)
<1> DEFINE mandates == "user_payment_mandates"
           bindings == "payment_instrument_bindings"
           agent == Key(mandates, "agent_id", "agents", Inline(d, mandates, "agent_id"))
           mandate == Key(bindings, "mandate_id", mandates, Inline(d, bindings, "mandate_id"))
           intents == {Column("payment_intents", "mandate_id"),
                       Column("payment_intents", "merchant_category"), MandateKey("payment_intents")}
           authorizations == {Column("bounded_authorizations", "mandate_id"),
                              MandateKey("bounded_authorizations")}
           a == Add({Table(mandates), agent})
           b == Add({Table(bindings), mandate})
           first == {Table(mandates), agent} \cup {Table(bindings), mandate}
           tables == {Table(bindings), Table(mandates)}
           B1 == Batch(d, "payment_intents", intents, {})
           B2 == Batch(d, "bounded_authorizations", authorizations, {})
           D1 == Batch(d, "bounded_authorizations", {}, authorizations)
           D2 == Batch(d, "payment_intents", {}, intents)
           D3 == DropTables(<<bindings, mandates>>)
           X == (first \cup intents) \cup authorizations
           Y == (authorizations \cup intents) \cup tables
<1>1. Effect(d, <<a, b>>, first, {})
  <2>1. /\ a.adds = {Table(mandates), agent} /\ a.drops = {} /\ a.mode # "commit"
        /\ b.adds = {Table(bindings), mandate} /\ b.drops = {} /\ b.mode # "commit"
    BY StatementKinds
  <2> HIDE DEF a, b, agent, mandate
  <2>2. Effect(d, <<a, b>>, a.adds \cup b.adds, a.drops \cup b.drops)
    BY <2>1, EffectTwo
  <2>3. a.adds \cup b.adds = first /\ a.drops \cup b.drops = {}
    BY <2>1
  <2> QED BY <2>2, <2>3
<1>2. /\ Effect(d, B1, intents, {}) /\ Effect(d, B2, authorizations, {})
      /\ Effect(d, D1, {}, authorizations) /\ Effect(d, D2, {}, intents) /\ Effect(d, D3, {}, tables)
  BY EffectBatch, EffectDropTwo
<1>3. \A s : Revision(10, d, s) = [up |-> <<a, b>> \o B1 \o B2, down |-> D1 \o D2 \o D3]
  BY DEF Revision, UserPaymentMandates
<1>4. Dated(d, 10, X, Y)
  <2>1. /\ TableBirth(mandates) = 10 /\ TableBirth(bindings) = 10
        /\ TableBirth("payment_intents") = 1 /\ TableBirth("bounded_authorizations") = 1
    BY DEF TableBirth
  <2>2. \A t : ColumnBirth(t, "mandate_id") = 10 /\ ColumnBirth(t, "merchant_category") = 10
    BY DEF ColumnBirth
  <2>3. /\ agent[1] = "key" /\ agent[2] = mandates /\ Birth(d, agent) = 10 /\ agent \in EarlyKeys(d)
        /\ mandate[1] = "key" /\ mandate[2] = bindings /\ Birth(d, mandate) = 10 /\ mandate \in EarlyKeys(d)
    BY Keys, EarlyBirths DEF EarlyKeys
  <2>4. \A t \in {"payment_intents", "bounded_authorizations"} :
          /\ MandateKey(t)[1] = "key" /\ MandateKey(t)[2] = t /\ Birth(d, MandateKey(t)) = 10
          /\ MandateKey(t) \in EarlyKeys(d)
    <3> SUFFICES ASSUME NEW t \in {"payment_intents", "bounded_authorizations"}
                 PROVE  /\ MandateKey(t)[1] = "key" /\ MandateKey(t)[2] = t
                        /\ Birth(d, MandateKey(t)) = 10 /\ MandateKey(t) \in EarlyKeys(d)
      OBVIOUS
    <3>1. MandateKey(t)[1] = "key" /\ MandateKey(t)[2] = t /\ Birth(d, MandateKey(t)) = KeyBirth(d, MandateKey(t))
      BY Keys DEF MandateKey
    <3>2. MandateKey(t) \in EarlyKeys(d)
      BY DEF EarlyKeys
    <3> QED BY <3>1, <3>2, EarlyBirths
  <2>5. \A e \in EarlyKeys(d) : KeyBirth(d, e) = 10 => e \in X
    BY EarlyOf
  <2> HIDE DEF agent, mandate
  <2>6. \A e \in authorizations \cup intents :
          /\ Birth(d, e) = 10 /\ TableBirth(e[2]) <= 10 /\ e[1] \in {"column", "key"}
          /\ e[1] = "key" => e \in EarlyKeys(d)
    BY <2>1, <2>2, <2>4, Births
  <2>7. \A e \in first :
          /\ Birth(d, e) = 10 /\ TableBirth(e[2]) <= 10 /\ e[1] \in {"table", "key"}
          /\ e[1] = "key" => e \in EarlyKeys(d)
          /\ Table(e[2]) \in tables
    BY <2>1, <2>3, Births
  <2>8. \A e \in tables : Birth(d, e) = 10
    BY <2>1, Births
  <2> HIDE DEF authorizations, intents, first, tables
  <2> QED BY <2>5, <2>6, <2>7, <2>8 DEF Dated
<1> HIDE DEF first, intents, authorizations, tables, a, b, B1, B2, D1, D2, D3
<1>5. Effect(d, <<a, b>> \o B1, first \cup intents, {}) /\ Effect(d, D1 \o D2, {}, authorizations \cup intents)
  BY <1>1, <1>2, EffectUp, EffectDown
<1>6. Effect(d, <<a, b>> \o B1 \o B2, X, {}) /\ Effect(d, D1 \o D2 \o D3, {}, Y)
  BY <1>2, <1>5, EffectUp, EffectDown
<1> HIDE DEF X, Y
<1> QED BY <1>3, <1>4, <1>6, ReversibleFrom

LEMMA ReversibleTenancy == \* 8
  ASSUME NEW d PROVE Reversible(d, 8)
<1> DEFINE columns == {Column(t, "org_id") : t \in Range(AddOrgColumnTables)}
           news == {Table("organizations"), Table("provider_accounts")}
           olds == {Table("provider_accounts"), Table("organizations")}
           keys == IF d = "postgresql" THEN MultitenancyKeys ELSE {}
           up == IF d = "postgresql" THEN <<Add(MultitenancyKeys)>> ELSE << >>
           down == IF d = "postgresql" THEN <<Drop(MultitenancyKeys)>> ELSE << >>
           loop == [i \in DOMAIN AddOrgColumnTables |->
                      Batch(d, AddOrgColumnTables[i], {}, {Column(AddOrgColumnTables[i], "org_id")})]
           a == Rewrite("nothing")
           b(s) == Add(columns \ s)
           c == RefuseOrphans(OrphanChecks)
           create == CreateTables(<<"organizations", "provider_accounts">>)
           drop == DropTables(<<"provider_accounts", "organizations">>)
           X == (news \cup columns) \cup keys
           Y == (keys \cup columns) \cup olds
<1>1. Effect(d, up, keys, {}) /\ Effect(d, down, {}, keys)
  BY EffectKinds, EffectNone
<1>2. Effect(d, create, news, {}) /\ Effect(d, drop, {}, olds)
  BY EffectDropTwo
<1>3. ASSUME NEW s PROVE Effect(d, <<a, b(s), c>>, columns \ s, {})
  <2> DEFINE m == b(s)
             ss == <<a, m, c>>
             n == 3
  <2>1. /\ ss = [i \in 1 .. n |-> ss[i]] /\ ss[1] = a /\ ss[2] = m /\ ss[3] = c
    OBVIOUS
  <2>2. n \in Nat /\ 1 .. n = {1, 2, 3}
    OBVIOUS
  <2>3. /\ a.adds = {} /\ a.drops = {} /\ a.mode # "commit"
        /\ m.adds = columns \ s /\ m.drops = {} /\ m.mode # "commit"
        /\ c.adds = {} /\ c.drops = {} /\ c.mode # "commit"
    BY StatementKinds
  <2> HIDE DEF ss, n, a, m, c, columns
  <2>4. \A i \in 1 .. n : ss[i].mode # "commit"
    BY <2>1, <2>2, <2>3
  <2>5. Effect(d, ss, UNION {ss[i].adds : i \in 1 .. n}, UNION {ss[i].drops : i \in 1 .. n})
    BY <2>1, <2>2, <2>4, EffectList
  <2>6. UNION {ss[i].adds : i \in 1 .. n} = columns \ s /\ UNION {ss[i].drops : i \in 1 .. n} = {}
    BY <2>1, <2>2, <2>3
  <2> QED BY <2>5, <2>6 DEF ss, m
<1>4. Effect(d, FlattenSeq(loop), {}, columns)
  <2> DEFINE n == 10
             A == [i \in 1 .. n |-> {}]
             B == [i \in 1 .. n |-> {Column(AddOrgColumnTables[i], "org_id")}]
  <2>1. DOMAIN AddOrgColumnTables = 1 .. n /\ n \in Nat
    BY DEF AddOrgColumnTables
  <2>2. loop = [i \in 1 .. n |-> loop[i]]
    BY <2>1
  <2>e. \A i \in 1 .. n : Effect(d, loop[i], A[i], B[i])
    BY <2>1, EffectBatch
  <2>3. /\ \A e : e \in {} <=> \E i \in 1 .. n : e \in A[i]
        /\ \A e : e \in columns <=> \E i \in 1 .. n : e \in B[i]
    BY <2>1 DEF Range
  <2> HIDE DEF loop, A, B, n, columns
  <2> QED BY <2>1, <2>2, <2>e, <2>3, EffectFlatten
<1>5. \A s : Revision(8, d, s) = [up |-> create \o <<a, b(s), c>> \o up,
                                  down |-> down \o FlattenSeq(loop) \o drop]
  BY DEF Revision, Multitenancy, ForEach
<1>6. Dated(d, 8, X, Y)
  <2>1. /\ \A t \in Range(AddOrgColumnTables) : TableBirth(t) = 1 /\ ColumnBirth(t, "org_id") = 8
        /\ TableBirth("organizations") = 8 /\ TableBirth("provider_accounts") = 8
    <3> DEFINE names == {"parent_authorities", "delegation_records", "revocation_records", "agents",
                         "credentials", "auth_nonces", "payment_intents", "mfa_challenges",
                         "bounded_authorizations", "provider_transactions"}
    <3>1. \A i \in DOMAIN AddOrgColumnTables : AddOrgColumnTables[i] \in names
      BY DEF AddOrgColumnTables
    <3>2. \A t \in names : TableBirth(t) = 1 /\ ColumnBirth(t, "org_id") = 8
      BY DEF TableBirth, ColumnBirth
    <3> HIDE DEF names
    <3>3. TableBirth("organizations") = 8 /\ TableBirth("provider_accounts") = 8
      BY DEF TableBirth
    <3> QED BY <3>1, <3>2, <3>3 DEF Range
  <2>2. \A e \in columns : Birth(d, e) = 8 /\ TableBirth(e[2]) = 1 /\ e[1] = "column"
    BY <2>1, Births
  <2>3. \A e \in news : /\ Birth(d, e) = 8 /\ TableBirth(e[2]) = 8 /\ e[1] = "table" /\ e \in olds
    BY <2>1, Births
  <2>4. \A e \in olds : e \in news
    OBVIOUS
  <2>5. ASSUME NEW e \in keys
        PROVE  Birth(d, e) = 8 /\ TableBirth(e[2]) = 1 /\ e[1] = "key" /\ e \in EarlyKeys(d)
    <3>1. d = "postgresql" /\ e \in MultitenancyKeys
      OBVIOUS
    <3>2. PICK r \in Range(References) : e = Key(r[1], r[2], r[3], <<"fk_0008", r[1], r[2]>>)
      BY <3>1 DEF MultitenancyKeys
    <3>3. \A k \in Range(References) : TableBirth(k[1]) = 1
      <4>1. \A i \in DOMAIN References :
              References[i][1] \in {"bounded_authorizations", "provider_transactions", "mfa_challenges"}
        BY DEF References
      <4>2. \A t \in {"bounded_authorizations", "provider_transactions", "mfa_challenges"} : TableBirth(t) = 1
        BY DEF TableBirth
      <4> QED BY <4>1, <4>2 DEF Range
    <3>4. /\ Key(r[1], r[2], r[3], <<"fk_0008", r[1], r[2]>>)[1] = "key"
          /\ Key(r[1], r[2], r[3], <<"fk_0008", r[1], r[2]>>)[2] = r[1]
          /\ Birth(d, e) = KeyBirth(d, e)
      BY <3>2, Keys
    <3>5. KeyBirth(d, e) = 8
      BY <3>2, EarlyBirths
    <3>6. e \in EarlyKeys(d)
      BY <3>1 DEF EarlyKeys
    <3> QED BY <3>2, <3>3, <3>4, <3>5, <3>6
  <2>6. \A e \in EarlyKeys(d) : KeyBirth(d, e) = 8 => e \in keys
    BY EarlyOf
  <2> HIDE DEF columns, news, olds, keys
  <2> QED BY <2>2, <2>3, <2>4, <2>5, <2>6 DEF Dated
<1> HIDE DEF columns, news, olds, keys, up, down, loop, a, b, c, create, drop
<1>7. ASSUME NEW s PROVE Effect(d, create \o <<a, b(s), c>> \o up, (news \cup (columns \ s)) \cup keys, {})
  <2> DEFINE m == <<a, b(s), c>>
             cs == columns \ s
  <2>1. Effect(d, m, cs, {})
    BY <1>3
  <2> HIDE DEF m, cs
  <2>2. Effect(d, create \o m, news \cup cs, {})
    BY <1>2, <2>1, EffectUp
  <2>3. Effect(d, create \o m \o up, (news \cup cs) \cup keys, {})
    BY <1>1, <2>2, EffectUp
  <2> QED BY <2>3 DEF m, cs
<1>8. Effect(d, down \o FlattenSeq(loop) \o drop, {}, Y)
  <2> DEFINE m == FlattenSeq(loop)
  <2>1. Effect(d, m, {}, columns)
    BY <1>4
  <2> HIDE DEF m
  <2>2. Effect(d, down \o m, {}, keys \cup columns)
    BY <1>1, <2>1, EffectDown
  <2>3. Effect(d, down \o m \o drop, {}, Y)
    BY <1>2, <2>2, EffectDown
  <2> QED BY <2>3 DEF m
<1>9. ASSUME NEW s
      PROVE  /\ \E x : /\ Sum(d, Revision(8, d, s).up, x, {})
                       /\ Orderly(Revision(8, d, s).up)
                       /\ x \subseteq X /\ X \subseteq x \cup s
             /\ Effect(d, Revision(8, d, s).down, {}, Y)
  <2> DEFINE x == (news \cup (columns \ s)) \cup keys
             rise == create \o <<a, b(s), c>> \o up
             fall == down \o FlattenSeq(loop) \o drop
  <2>1. x \subseteq X /\ X \subseteq x \cup s
    OBVIOUS
  <2>2. Effect(d, rise, x, {}) /\ Effect(d, fall, {}, Y)
    BY <1>7, <1>8
  <2>r. Revision(8, d, s) = [up |-> rise, down |-> fall]
    BY <1>5
  <2> HIDE DEF x, rise, fall, X, Y
  <2>3. Revision(8, d, s).up = rise /\ Revision(8, d, s).down = fall
    BY <2>r
  <2>4. Sum(d, rise, x, {}) /\ Orderly(rise)
    BY <2>2, CalmIsOrderly DEF Effect
  <2> QED BY <2>1, <2>2, <2>3, <2>4
<1> HIDE DEF X, Y
<1> QED BY <1>6, <1>9 DEF Reversible, Reverses

\* Every revision but that of the parity of foreign keys.
LEMMA Reversibles ==
  ASSUME NEW d, NEW n \in 1 .. Latest, n # 16 PROVE Reversible(d, n)
<1>1. n \in {1, 2, 3, 4, 5, 6, 7, 8, 9, 10, 11, 12, 13, 14, 15, 17, 18, 19}
  BY DEF Latest
<1> QED BY <1>1, ReversibleBaseline, ReversibleSmall, ReversibleTrails, ReversibleTrust,
           ReversibleTenancy, ReversibleProofs, ReversibleMandates, ReversibleSigning,
           ReversibleAgentKeys, ReversibleStatus, ReversibleLate

\* The keys the parity revision adds to a schema, and those its downgrade drops.
Lacks(s) == {fk \in Range(RequiredFks) : Missing(s, fk)}
Found(s) == {fk \in Range(RequiredFks) :
               OwnKey(fk) \in s \/ \E e \in KeysOn(s, fk[1], fk[2]) : e[5] = << >>}

LEMMA ParityUp ==
  ASSUME NEW d, NEW s
  PROVE  /\ Effect(d, AddMissingFks(d, s), {OwnKey(fk) : fk \in Lacks(s)}, {})
         /\ Head(AddMissingFks(d, s)).orphans = Dangling(Lacks(s))
<1> DEFINE n == 12
           key(i) == OwnKey(RequiredFks[i])
           A == [i \in 1 .. n |-> IF Missing(s, RequiredFks[i]) THEN {key(i)} ELSE {}]
           B == [i \in 1 .. n |-> {}]
           loop == [i \in DOMAIN RequiredFks |->
                      IF Missing(s, RequiredFks[i]) THEN Batch(d, RequiredFks[i][1], {key(i)}, {}) ELSE << >>]
           refuse == RefuseOrphans(Dangling(Lacks(s)))
           X == {OwnKey(fk) : fk \in Lacks(s)}
<1>1. DOMAIN RequiredFks = 1 .. n /\ n \in Nat
  BY DEF RequiredFks
<1>2. loop = [i \in 1 .. n |-> loop[i]]
  BY <1>1
<1>3. ASSUME NEW i \in 1 .. n PROVE Effect(d, loop[i], A[i], B[i])
  BY <1>1, EffectBatch, EffectNone
<1>4. /\ \A e : e \in {} <=> \E i \in 1 .. n : e \in B[i]
      /\ \A e : e \in X <=> \E i \in 1 .. n : e \in A[i]
  BY <1>1 DEF Range, Lacks
<1>5. AddMissingFks(d, s) = <<refuse>> \o FlattenSeq(loop)
  BY DEF AddMissingFks, ForEach, Lacks
<1>6. Effect(d, <<refuse>>, {}, {}) /\ refuse.orphans = Dangling(Lacks(s))
  BY EffectKinds, StatementKinds
<1> DEFINE flat == FlattenSeq(loop)
<1>7. Effect(d, flat, X, {})
  <2> HIDE DEF loop, A, B, X, n
  <2> QED BY <1>1, <1>2, <1>3, <1>4, EffectFlatten
<1> HIDE DEF flat, refuse, X
<1>8. Effect(d, <<refuse>> \o flat, X, {})
  <2>1. {} \cup X = X
    OBVIOUS
  <2>2. Effect(d, <<refuse>> \o flat, {} \cup X, {})
    BY <1>6, <1>7, EffectUp
  <2> QED BY <2>1, <2>2
<1>9. Head(<<refuse>> \o flat) = refuse
  <2>1. flat \in Seq(Range(flat))
    BY <1>7 DEF Effect, Sum
  <2>2. flat \in Seq(Range(flat) \cup {refuse}) /\ <<refuse>> \in Seq(Range(flat) \cup {refuse})
    BY <2>1
  <2> QED BY <2>2
<1> QED BY <1>5, <1>6, <1>8, <1>9 DEF flat, X

\* On SQLite each rebuild first makes a scratch table, which drops nothing.
Rebuilds(d, left) == d # "postgresql" => \A step \in Range(left) : step.mode # "rows" => step.drops = {}

LEMMA ParityDown ==
  ASSUME NEW d, NEW s
  PROVE  /\ Effect(d, DropOwnFks(d, s), {}, {OwnKey(fk) : fk \in Found(s)})
         /\ Rebuilds(d, DropOwnFks(d, s))
<1> DEFINE n == 12
           fks == Reverse(RequiredFks)
           finds(fk) == OwnKey(fk) \in s \/ \E e \in KeysOn(s, fk[1], fk[2]) : e[5] = << >>
           A == [i \in 1 .. n |-> {}]
           B == [i \in 1 .. n |-> IF finds(fks[i]) THEN {OwnKey(fks[i])} ELSE {}]
           loop == [i \in DOMAIN fks |->
                      IF finds(fks[i]) THEN Batch(d, fks[i][1], {}, {OwnKey(fks[i])}) ELSE << >>]
           Y == {OwnKey(fk) : fk \in Found(s)}
<1>1. n \in Nat /\ DOMAIN fks = 1 .. n /\ \A fk : fk \in Range(RequiredFks) <=> \E i \in 1 .. n : fks[i] = fk
  <2>1. Len(RequiredFks) = n /\ DOMAIN RequiredFks = 1 .. n /\ n \in Nat
    BY DEF RequiredFks
  <2> HIDE DEF n
  <2>2. DOMAIN fks = 1 .. n /\ \A i \in 1 .. n : fks[i] = RequiredFks[(n - i) + 1]
    BY <2>1 DEF Reverse
  <2>3. \A i \in 1 .. n : (n - i) + 1 \in 1 .. n /\ (n - ((n - i) + 1)) + 1 = i
    BY <2>1
  <2> HIDE DEF fks
  <2>4. ASSUME NEW fk, fk \in Range(RequiredFks) PROVE \E i \in 1 .. n : fks[i] = fk
    <3>1. PICK j \in 1 .. n : RequiredFks[j] = fk
      BY <2>1, <2>4 DEF Range
    <3> QED BY <2>2, <2>3, <3>1
  <2>5. ASSUME NEW i \in 1 .. n PROVE fks[i] \in Range(RequiredFks)
    BY <2>1, <2>2, <2>3 DEF Range
  <2> QED BY <2>1, <2>2, <2>4, <2>5
<1>2. DropOwnFks(d, s) = FlattenSeq(loop)
  BY DEF DropOwnFks, ForEach
<1> HIDE DEF fks, finds
<1>3. loop = [i \in 1 .. n |-> loop[i]]
  BY <1>1
<1>4. ASSUME NEW i \in 1 .. n PROVE Effect(d, loop[i], A[i], B[i])
  BY <1>1, EffectBatch, EffectNone
<1>5. /\ \A e : e \in {} <=> \E i \in 1 .. n : e \in A[i]
      /\ \A e : e \in Y <=> \E i \in 1 .. n : e \in B[i]
  <2>1. \A fk : fk \in Found(s) <=> fk \in Range(RequiredFks) /\ finds(fk)
    BY DEF Found, finds
  <2> HIDE DEF n
  <2> QED BY <1>1, <2>1
<1>6. Effect(d, FlattenSeq(loop), {}, Y)
  <2> HIDE DEF loop, A, B, Y, n
  <2> QED BY <1>1, <1>3, <1>4, <1>5, EffectFlatten
<1>7. Rebuilds(d, FlattenSeq(loop))
  <2> DEFINE S == {step \in UNION {Range(loop[i]) : i \in 1 .. n} :
                     d # "postgresql" => (step.mode # "rows" => step.drops = {})}
             flat == FlattenSeq(loop)
  <2>1. ASSUME NEW i \in 1 .. n PROVE loop[i] \in Seq(S)
    <3>1. loop[i] \in Seq(Range(loop[i]))
      BY <1>4 DEF Effect, Sum
    <3>2. ASSUME NEW step \in Range(loop[i]), d # "postgresql", step.mode # "rows" PROVE step.drops = {}
      <4> DEFINE t == fks[i][1]
                 a == [Add({Scratch(t)}) EXCEPT !.needs = {OwnKey(fks[i])}]
                 b == [Rewrite("nothing") EXCEPT !.adds = {}, !.drops = {OwnKey(fks[i])} \cup {Scratch(t)}]
      <4>1. loop[i] = << >> \/ loop[i] = <<a, b>>
        BY <1>1, <3>2 DEF Batch
      <4>2. a.drops = {} /\ b.mode = "rows"
        BY DEF Add, Rewrite, Plain
      <4> HIDE DEF a, b, loop
      <4>3. Range(<<a, b>>) = {a, b} /\ Range(<< >>) = {}
        BY RangeLists DEF Range
      <4> QED BY <3>2, <4>1, <4>2, <4>3
    <3>3. Range(loop[i]) \subseteq S
      BY <3>2
    <3> HIDE DEF S, loop
    <3> QED BY <3>1, <3>3
  <2> HIDE DEF S, loop, n
  <2>2. loop \in [1 .. n -> Seq(S)]
    BY <1>3, <2>1
  <2>3. flat \in Seq(S)
    BY <1>1, <2>2, FlattenIn
  <2> HIDE DEF flat
  <2>4. \A step \in Range(flat) : step \in S
    <3>1. flat \in [1 .. Len(flat) -> S]
      BY <2>3
    <3> QED BY <3>1 DEF Range
  <2>5. Rebuilds(d, flat)
    BY <2>4 DEF S, Rebuilds
  <2> QED BY <2>5 DEF flat
<1> QED BY <1>2, <1>6, <1>7

LEMMA ParityStatements ==
  ASSUME NEW d, NEW s
  PROVE  Revision(16, d, s).up = AddMissingFks(d, s) /\ Revision(16, d, s).down = DropOwnFks(d, s)
  BY DEF Revision, FkParity

-----------------------------------------------------------------------------
(* The schemas of the versions.                                            *)

\* The recursive definition has a solution, so it unfolds.
LEMMA FreshUnfolds ==
  /\ \A d \in Dialects : Fresh[0][d] = {}
  /\ \A n \in 1 .. Latest, d \in Dialects :
       Fresh[n][d] = Upgraded(Fresh[n - 1][d], Statements(d, Fresh[n - 1][d], n - 1, n))
<1> DEFINE From(f, n) ==
             [d \in Dialects |->
                IF n = 0 THEN {}
                ELSE LET s == f[n - 1][d] IN Upgraded(s, Statements(d, s, n - 1, n))]
           Is(f) == f = [n \in 0 .. Latest |-> From(f, n)]
           Defined(k) == \E f : DOMAIN f = 0 .. k /\ \A i \in 0 .. k : f[i] = From(f, i)
           T == {k \in Nat : Defined(k)}
<1>1. Fresh = CHOOSE f : Is(f)
  BY DEF Fresh
<1>2. /\ \A f, g : From(f, 0) = From(g, 0)
      /\ \A f, g, n : n # 0 /\ f[n - 1] = g[n - 1] => From(f, n) = From(g, n)
  OBVIOUS
<1>3. \A f, d : d \in Dialects =>
        /\ From(f, 0)[d] = {}
        /\ \A n : n # 0 => From(f, n)[d] = Upgraded(f[n - 1][d], Statements(d, f[n - 1][d], n - 1, n))
  OBVIOUS
<1> HIDE DEF From
<1>4. 0 \in T
  <2> DEFINE none == [i \in 0 .. 0 |-> i]
             f == [i \in 0 .. 0 |-> From(none, i)]
  <2>1. DOMAIN f = 0 .. 0 /\ \A i \in 0 .. 0 : i = 0 /\ f[i] = From(none, i)
    OBVIOUS
  <2> HIDE DEF f
  <2>2. \A i \in 0 .. 0 : f[i] = From(f, i)
    BY <1>2, <2>1
  <2> QED BY <2>1, <2>2
<1>5. ASSUME NEW k \in T PROVE k + 1 \in T
  <2>1. PICK f : DOMAIN f = 0 .. k /\ \A i \in 0 .. k : f[i] = From(f, i)
    OBVIOUS
  <2> DEFINE g == [i \in 0 .. k + 1 |-> IF i <= k THEN f[i] ELSE From(f, k + 1)]
  <2>2. DOMAIN g = 0 .. k + 1 /\ \A i \in 0 .. k : g[i] = f[i]
    OBVIOUS
  <2>3. g[k + 1] = From(f, k + 1)
    OBVIOUS
  <2> HIDE DEF g
  <2>4. ASSUME NEW i \in 0 .. k + 1 PROVE g[i] = From(g, i)
    <3>1. CASE i = 0
      <4>1. g[0] = f[0] /\ f[0] = From(f, 0)
        BY <2>1, <2>2
      <4> QED BY <1>2, <3>1, <4>1
    <3>2. CASE i # 0
      <4>1. i - 1 \in 0 .. k /\ g[i - 1] = f[i - 1]
        BY <2>2, <3>2
      <4>2. From(g, i) = From(f, i)
        BY <1>2, <3>2, <4>1
      <4>3. g[i] = From(f, i)
        <5>1. CASE i = k + 1
          BY <2>3, <5>1
        <5>2. CASE i # k + 1
          <6>1. i \in 0 .. k
            BY <5>2
          <6> QED BY <2>1, <2>2, <6>1
        <5> QED BY <5>1, <5>2
      <4> QED BY <4>2, <4>3
    <3> QED BY <3>1, <3>2
  <2> QED BY <2>2, <2>4
<1> HIDE DEF T
<1>6. Latest \in T
  BY <1>4, <1>5, Induct DEF T, Latest
<1>7. PICK f : DOMAIN f = 0 .. Latest /\ \A i \in 0 .. Latest : f[i] = From(f, i)
  BY <1>6 DEF T
<1>8. \E g : Is(g)
  <2> DEFINE g == [n \in 0 .. Latest |-> From(f, n)]
  <2>1. DOMAIN g = 0 .. Latest /\ \A n \in 0 .. Latest : g[n] = From(f, n) /\ g[n] = f[n]
    BY <1>7
  <2> HIDE DEF g
  <2>2. \A n \in 0 .. Latest : From(g, n) = From(f, n)
    <3> SUFFICES ASSUME NEW n \in 0 .. Latest PROVE From(g, n) = From(f, n)
      OBVIOUS
    <3>1. n # 0 => n - 1 \in 0 .. Latest
      BY DEF Latest
    <3>2. CASE n = 0
      BY <1>2, <3>2
    <3>3. CASE n # 0
      <4>1. g[n - 1] = f[n - 1]
        BY <2>1, <3>1, <3>3
      <4> QED BY <1>2, <3>3, <4>1
    <3> QED BY <3>2, <3>3
  <2>3. g = [n \in 0 .. Latest |-> From(g, n)]
    BY <2>1, <2>2 DEF g
  <2> QED BY <2>3
<1>9. Is(Fresh)
  BY <1>1, <1>8
<1>10. \A n \in 0 .. Latest : Fresh[n] = From(Fresh, n)
  BY <1>9
<1>11. 0 \in 0 .. Latest /\ \A n \in 1 .. Latest : n # 0 /\ n \in 0 .. Latest
  BY DEF Latest
<1> HIDE DEF Is
<1>12. ASSUME NEW d \in Dialects PROVE Fresh[0][d] = {}
  BY <1>3, <1>10, <1>11
<1>13. ASSUME NEW n \in 1 .. Latest, NEW d \in Dialects
       PROVE  Fresh[n][d] = Upgraded(Fresh[n - 1][d], Statements(d, Fresh[n - 1][d], n - 1, n))
  <2>1. Fresh[n] = From(Fresh, n) /\ n # 0
    BY <1>10, <1>11
  <2> QED BY <1>3, <2>1
<1> QED BY <1>12, <1>13

LEMMA StatementsOf ==
  ASSUME NEW d, NEW s, NEW n \in 1 .. Latest
  PROVE  /\ \A goal \in 0 .. Latest : n <= goal => Statements(d, s, n - 1, goal) = Revision(n, d, s).up
         /\ \A goal \in 0 .. Latest : goal < n => Statements(d, s, n, goal) = Revision(n, d, s).down
<1>1. n - 1 \in 0 .. Latest /\ (n - 1) + 1 = n /\ Latest = 19
  BY DEF Latest
<1>2. \A goal \in 0 .. Latest : n <= goal => n - 1 < goal
  BY DEF Latest
<1>3. \A goal \in 0 .. Latest : goal < n => n > goal /\ ~(n < goal)
  BY DEF Latest
<1> QED BY <1>1, <1>2, <1>3 DEF Statements

LEMMA FreshNext ==
  ASSUME NEW d \in Dialects, NEW n \in 1 .. Latest
  PROVE  /\ n # 16 => \E X, Y : Reverses(d, n, X, Y) /\ Fresh[n][d] = Fresh[n - 1][d] \cup X
         /\ n = 16 => Fresh[16][d] = Fresh[15][d] \cup {OwnKey(fk) : fk \in Lacks(Fresh[15][d])}
<1> DEFINE s == Fresh[n - 1][d]
           up == Revision(n, d, s).up
<1>1. Fresh[n][d] = s \cup {e \in Adds(up) : e[1] # "scratch"}
  <2>1. Statements(d, s, n - 1, n) = up
    <3>1. n \in 0 .. Latest /\ n <= n
      BY DEF Latest
    <3> QED BY <3>1, StatementsOf
  <2> QED BY <2>1, FreshUnfolds DEF Upgraded
<1> HIDE DEF up, s
<1>2. ASSUME NEW X, NEW x, Sum(d, up, x, {}), x \subseteq X, X \subseteq x \cup s,
             \A e \in X : e[1] # "scratch"
      PROVE  Fresh[n][d] = s \cup X
  <2>1. x \subseteq Adds(up) /\ \A e \in Adds(up) : e \in x \/ e[1] = "scratch"
    BY <1>2 DEF Sum, Scrap
  <2>2. \A e : e \in Fresh[n][d] <=> e \in s \cup X
    BY <1>1, <1>2, <2>1
  <2> QED BY <1>1, <2>2
<1>3. ASSUME n # 16 PROVE \E X, Y : Reverses(d, n, X, Y) /\ Fresh[n][d] = s \cup X
  <2>1. PICK X, Y : Reverses(d, n, X, Y)
    BY <1>3, Reversibles DEF Reversible
  <2>2. PICK x : Sum(d, up, x, {}) /\ x \subseteq X /\ X \subseteq x \cup s
    BY <2>1 DEF Reverses, up
  <2>3. \A e \in X : e[1] # "scratch"
    BY <2>1 DEF Reverses, Dated
  <2>4. Fresh[n][d] = s \cup X
    BY <1>2, <2>2, <2>3
  <2> QED BY <2>1, <2>4
<1>4. ASSUME n = 16 PROVE Fresh[n][d] = s \cup {OwnKey(fk) : fk \in Lacks(s)}
  <2> DEFINE X == {OwnKey(fk) : fk \in Lacks(s)}
  <2>1. Effect(d, AddMissingFks(d, s), X, {}) /\ up = AddMissingFks(d, s)
    BY <1>4, ParityUp, ParityStatements DEF up
  <2>2. \A e \in X : e[1] # "scratch"
    BY Keys DEF OwnKey
  <2> HIDE DEF X
  <2>3. Sum(d, up, X, {}) /\ X \subseteq X /\ X \subseteq X \cup s
    BY <2>1 DEF Effect
  <2>4. Fresh[n][d] = s \cup X
    BY <1>2, <2>2, <2>3
  <2> QED BY <2>4 DEF X
<1>5. n = 16 => n - 1 = 15
  OBVIOUS
<1> QED BY <1>3, <1>4, <1>5 DEF s

\* Objects no revision after the n-th makes.
Old(d, n, e) == Birth(d, e) <= n /\ TableBirth(e[2]) <= n /\ e[1] # "scratch"

LEMMA FreshGrows ==
  ASSUME NEW d \in Dialects, NEW n \in 1 .. Latest
  PROVE  Fresh[n - 1][d] \subseteq Fresh[n][d]
<1>1. n = 16 => n - 1 = 15
  OBVIOUS
<1> QED BY <1>1, FreshNext

LEMMA Birthdays == \A d, e : Birth(d, e) \in Nat
<1> SUFFICES ASSUME NEW d, NEW e PROVE Birth(d, e) \in Nat
  OBVIOUS
<1>1. KeyBirth(d, e) \in Nat /\ TableBirth(e[2]) \in Nat
  BY KeyBirths, TableBirths
<1>2. ColumnBirth(e[2], e[3]) \in Nat
  BY DEF ColumnBirth
<1> QED BY <1>1, <1>2 DEF Birth

LEMMA FreshFacts ==
  ASSUME NEW d \in Dialects, NEW n \in 0 .. Latest
  PROVE  /\ \A e \in Fresh[n][d] : Old(d, n, e)
         /\ n >= 1 => Table("payment_intents") \in Fresh[n][d] /\ Table("agents") \in Fresh[n][d]
         /\ n <= 15 =>
              /\ \A e \in Fresh[n][d] : e[1] = "key" => e \in EarlyKeys(d)
              /\ \A e \in EarlyKeys(d) : KeyBirth(d, e) <= n => e \in Fresh[n][d]
<1> DEFINE Facts(k) ==
             /\ \A e \in Fresh[k][d] : Old(d, k, e)
             /\ k >= 1 => Table("payment_intents") \in Fresh[k][d] /\ Table("agents") \in Fresh[k][d]
             /\ k <= 15 =>
                  /\ \A e \in Fresh[k][d] : e[1] = "key" => e \in EarlyKeys(d)
                  /\ \A e \in EarlyKeys(d) : KeyBirth(d, e) <= k => e \in Fresh[k][d]
           T == {k \in Nat : k <= Latest => Facts(k)}
<1>1. 0 \in T
  <2>1. \A e \in EarlyKeys(d) : ~(KeyBirth(d, e) <= 0)
    BY KeyBirths
  <2> QED BY <2>1, FreshUnfolds
<1>2. ASSUME NEW k \in T PROVE k + 1 \in T
  <2> SUFFICES ASSUME k + 1 <= Latest PROVE Facts(k + 1)
    OBVIOUS
  <2> DEFINE m == k + 1
  <2>1. m \in 1 .. Latest /\ m - 1 = k /\ k <= Latest /\ k \in Nat /\ m = k + 1
    BY DEF Latest
  <2>2. Facts(k)
    BY <2>1
  <2> HIDE DEF m
  <2>3. \A e \in Fresh[k][d] : Old(d, m, e)
    BY <2>1, <2>2, Birthdays, TableBirths DEF Old
  <2>4. ASSUME m = 16 PROVE Facts(m)
    <3>1. Fresh[m][d] = Fresh[k][d] \cup {OwnKey(fk) : fk \in Lacks(Fresh[k][d])}
      <4>1. k = 15
        BY <2>1, <2>4
      <4> QED BY <2>1, <2>4, <4>1, FreshNext
    <3>2. \A fk : Old(d, 16, OwnKey(fk))
      <4>1. \A fk : OwnKey(fk)[1] = "key" /\ Birth(d, OwnKey(fk)) = KeyBirth(d, OwnKey(fk))
        BY Keys DEF OwnKey
      <4> QED BY <4>1, KeyBirths, TableBirths DEF Old
    <3>3. k >= 1 /\ ~(m <= 15)
      BY <2>1, <2>4
    <3> QED BY <2>2, <2>3, <2>4, <3>1, <3>2, <3>3
  <2>5. ASSUME m # 16 PROVE Facts(m)
    <3>1. PICK X, Y : Reverses(d, m, X, Y) /\ Fresh[m][d] = Fresh[k][d] \cup X
      BY <2>1, <2>5, FreshNext
    <3>2. Dated(d, m, X, Y)
      BY <3>1 DEF Reverses
    <3>3. \A e \in X : Old(d, m, e)
      BY <3>2 DEF Dated, Old
    <3>4. ASSUME m <= 15
          PROVE  /\ \A e \in Fresh[m][d] : e[1] = "key" => e \in EarlyKeys(d)
                 /\ \A e \in EarlyKeys(d) : KeyBirth(d, e) <= m => e \in Fresh[m][d]
      <4>1. k <= 15 /\ \A i \in Nat : i <= m => i <= k \/ i = m
        BY <2>1, <3>4
      <4>2. \A e \in EarlyKeys(d) : KeyBirth(d, e) \in Nat
        BY KeyBirths
      <4> QED BY <2>2, <3>1, <3>2, <4>1, <4>2 DEF Dated
    <3>5. Table("payment_intents") \in Fresh[m][d] /\ Table("agents") \in Fresh[m][d]
      <4>1. m = 1 \/ k >= 1
        BY <2>1
      <4> QED BY <2>2, <3>1, <3>2, <4>1 DEF Dated
    <3> QED BY <2>3, <3>1, <3>3, <3>4, <3>5
  <2> QED BY <2>4, <2>5 DEF m
<1> HIDE DEF T
<1>3. T = Nat
  BY <1>1, <1>2, Induct DEF T
<1>4. n \in T /\ n <= Latest
  BY <1>3 DEF Latest
<1> QED BY <1>4 DEF T

-----------------------------------------------------------------------------
(* The invariant of the committed schema.                                  *)

\* Whether an object is gone after the statements left, and the schema they lead to.
Gone(left, e) == e \in Takes(left) \/ (Table(e[2]) \in Takes(left) /\ e[1] # "scratch")
Result(left, s) == {e \in s : ~Gone(left, e)} \cup Adds(left)

\* The version the statements left lead to.
Heading(version, goal) ==
  IF version < goal THEN version + 1 ELSE IF version > goal THEN version - 1 ELSE version

\* The schema is that of a version of a PostgreSQL database, up to what no downgrade takes.
Same(s, version) == Reverted(s, version) = Reverted(Fresh[version]["postgresql"], version)

Holds(s, fk) == Attachable(s, fk) => Enforced(s, fk)
Whole(s) == \A fk \in Range(RequiredFks) : Holds(s, fk)

OwnKeys == {OwnKey(fk) : fk \in Range(RequiredFks)}
Known(d, s) == \A e \in s : e[1] = "key" => e \in EarlyKeys(d) \cup OwnKeys

\* The downgrade of the parity revision is under way.
Unparity(version, goal) == version = 16 /\ goal < 16

\* What is known of the statements left between two versions.
Course(d, left, version, goal) ==
  /\ version <= goal => \A e \in Takes(left) : Scrap(d, e)
  /\ version >= goal => \A e \in Adds(left) : Scrap(d, e)
  /\ Orderly(left) /\ (version >= goal => Calm(left))
  /\ version = goal => left = << >>
  /\ version >= 16 /\ ~Unparity(version, goal) =>
       \A e \in Adds(left) \cup Takes(left) : e[1] = "column" \/ Scrap(d, e)
  /\ version = 15 /\ goal > 15 => \A e \in Adds(left) : e[1] = "key" \/ Scrap(d, e)
  /\ Unparity(version, goal) => Rebuilds(d, left)
  /\ d # "postgresql" => Known(d, Adds(left))

PostgresInv ==
  dialect = "postgresql" =>
    /\ Same(disk.schema, disk.version)
    /\ run.on =>
         /\ Same(Result(run.left, work.schema), Heading(work.version, run.goal))
         /\ ~Calm(run.left) => Same(work.schema, work.version)

SqliteInv ==
  dialect = "sqlite" =>
    /\ disk.version = work.version
    /\ Known(dialect, disk.schema) /\ Known(dialect, work.schema)
    /\ "down" \notin cut =>
         /\ ~run.on => Fresh[disk.version][dialect] \subseteq disk.schema
         /\ run.on =>
              /\ Fresh[Heading(work.version, run.goal)][dialect] \subseteq Result(run.left, work.schema)
              /\ work.version < run.goal =>
                   /\ Fresh[work.version][dialect] \subseteq disk.schema
                   /\ Fresh[work.version][dialect] \subseteq work.schema

ParityInv ==
  /\ disk.version >= 16 => Whole(disk.schema)
  /\ run.on =>
       /\ work.version = 15 /\ run.goal > 15 => Whole(Result(run.left, work.schema))
       /\ work.version >= 16 =>
            \/ Whole(work.schema)
            \/ Unparity(work.version, run.goal) /\ (dialect = "postgresql" \/ run.open)

\* The columns a dangling row can be found in, and the keys that would forbid it.
Loose == {<<"payment_intents", "agent_id">>, <<"provider_transactions", "authorization_id">>}
Free(w) ==
  \A o \in w.rows.orphans :
    /\ <<o[1], o[2]>> \in Loose /\ o[3] \in Ids /\ o = <<o[1], o[2], o[3]>>
    /\ KeysOn(w.schema, o[1], o[2]) = {}

OrphanInv ==
  /\ Free(disk) /\ Free(work)
  /\ dialect = "sqlite" /\ run.on =>
       \A o \in work.rows.orphans :
         KeysOn(Adds(run.left), o[1], o[2]) # {} => o \in Head(run.left).orphans

SchemaInv ==
  /\ run.on => Course(dialect, run.left, work.version, run.goal)
  /\ PostgresInv /\ SqliteInv /\ ParityInv /\ OrphanInv

-----------------------------------------------------------------------------
(* The keys of PostgreSQL.                                                 *)

Relevant(e, version) ==
  e[1] \in {"table", "column", "native", "key", "scratch"} /\ ~(version = 15 /\ e = AgentKey)

LEMMA SameIff ==
  ASSUME NEW s, NEW v
  PROVE  Same(s, v) <=> \A e : Relevant(e, v) => (e \in s <=> e \in Fresh[v]["postgresql"])
<1>1. \A r : \A e : e \in Reverted(r, v) <=> e \in r /\ Relevant(e, v)
  BY DEF Reverted, Relevant
<1>2. ASSUME Same(s, v), NEW e, Relevant(e, v) PROVE e \in s <=> e \in Fresh[v]["postgresql"]
  BY <1>1, <1>2 DEF Same
<1>3. ASSUME \A e : Relevant(e, v) => (e \in s <=> e \in Fresh[v]["postgresql"]) PROVE Same(s, v)
  <2>1. \A e : e \in Reverted(s, v) <=> e \in Reverted(Fresh[v]["postgresql"], v)
    BY <1>1, <1>3
  <2>2. Reverted(s, v) \subseteq s /\ Reverted(Fresh[v]["postgresql"], v) \subseteq Fresh[v]["postgresql"]
    BY DEF Reverted
  <2> HIDE DEF Reverted
  <2>3. Reverted(s, v) = Reverted(Fresh[v]["postgresql"], v)
    BY <2>1 DEF Reverted
  <2> QED BY <2>3 DEF Same
<1> QED BY <1>2, <1>3

AgentFk == <<"payment_intents", "agent_id", "agents">>

LEMMA RequiredList ==
  \A fk \in Range(RequiredFks) :
    \/ fk = AgentFk
    \/ fk = <<"payment_intents", "mandate_id", "user_payment_mandates">>
    \/ fk = <<"mfa_challenges", "intent_id", "payment_intents">>
    \/ fk = <<"bounded_authorizations", "intent_id", "payment_intents">>
    \/ fk = <<"bounded_authorizations", "agent_id", "agents">>
    \/ fk = <<"bounded_authorizations", "mandate_id", "user_payment_mandates">>
    \/ fk = <<"provider_transactions", "authorization_id", "bounded_authorizations">>
    \/ fk = <<"provider_transactions", "intent_id", "payment_intents">>
    \/ fk = <<"provider_transactions", "agent_id", "agents">>
    \/ fk = <<"user_payment_mandates", "agent_id", "agents">>
    \/ fk = <<"payment_instrument_bindings", "mandate_id", "user_payment_mandates">>
    \/ fk = <<"request_proofs", "agent_id", "agents">>
<1>1. \A i \in DOMAIN RequiredFks :
        /\ i \in 1 .. 12
        /\ i = 1 => RequiredFks[i] = AgentFk
        /\ i = 2 => RequiredFks[i] = <<"payment_intents", "mandate_id", "user_payment_mandates">>
        /\ i = 3 => RequiredFks[i] = <<"mfa_challenges", "intent_id", "payment_intents">>
        /\ i = 4 => RequiredFks[i] = <<"bounded_authorizations", "intent_id", "payment_intents">>
        /\ i = 5 => RequiredFks[i] = <<"bounded_authorizations", "agent_id", "agents">>
        /\ i = 6 => RequiredFks[i] = <<"bounded_authorizations", "mandate_id", "user_payment_mandates">>
        /\ i = 7 => RequiredFks[i] = <<"provider_transactions", "authorization_id", "bounded_authorizations">>
        /\ i = 8 => RequiredFks[i] = <<"provider_transactions", "intent_id", "payment_intents">>
        /\ i = 9 => RequiredFks[i] = <<"provider_transactions", "agent_id", "agents">>
        /\ i = 10 => RequiredFks[i] = <<"user_payment_mandates", "agent_id", "agents">>
        /\ i = 11 => RequiredFks[i] = <<"payment_instrument_bindings", "mandate_id", "user_payment_mandates">>
        /\ i = 12 => RequiredFks[i] = <<"request_proofs", "agent_id", "agents">>
  BY DEF RequiredFks, AgentFk
<1>2. \A i \in 1 .. 12 : i \in {1, 2, 3, 4, 5, 6, 7, 8, 9, 10, 11, 12}
  OBVIOUS
<1> SUFFICES ASSUME NEW i \in DOMAIN RequiredFks, NEW fk, fk = RequiredFks[i]
             PROVE  \/ fk = AgentFk
                    \/ fk = <<"payment_intents", "mandate_id", "user_payment_mandates">>
                    \/ fk = <<"mfa_challenges", "intent_id", "payment_intents">>
                    \/ fk = <<"bounded_authorizations", "intent_id", "payment_intents">>
                    \/ fk = <<"bounded_authorizations", "agent_id", "agents">>
                    \/ fk = <<"bounded_authorizations", "mandate_id", "user_payment_mandates">>
                    \/ fk = <<"provider_transactions", "authorization_id", "bounded_authorizations">>
                    \/ fk = <<"provider_transactions", "intent_id", "payment_intents">>
                    \/ fk = <<"provider_transactions", "agent_id", "agents">>
                    \/ fk = <<"user_payment_mandates", "agent_id", "agents">>
                    \/ fk = <<"payment_instrument_bindings", "mandate_id", "user_payment_mandates">>
                    \/ fk = <<"request_proofs", "agent_id", "agents">>
  BY DEF Range
<1> HIDE DEF AgentFk
<1> QED BY <1>1, <1>2

\* Each reference the models declare has a key of its own on PostgreSQL.
LEMMA Referenced ==
  ASSUME NEW fk \in Range(RequiredFks)
  PROVE  \E e \in EarlyKeys("postgresql") :
           /\ e[1] = "key" /\ e[2] = fk[1] /\ e[3] = fk[2] /\ e[4] = fk[3]
           /\ fk # AgentFk => e # AgentKey
<1> DEFINE pg == "postgresql"
           Has(t, c, ref) == \E e \in EarlyKeys(pg) : e[1] = "key" /\ e[2] = t /\ e[3] = c /\ e[4] = ref
<1>1. ASSUME NEW t, NEW c, NEW ref, NEW name, Key(t, c, ref, name) \in EarlyKeys(pg) PROVE Has(t, c, ref)
  <2> DEFINE e == Key(t, c, ref, name)
  <2>1. e[1] = "key" /\ e[2] = t /\ e[3] = c /\ e[4] = ref
    BY Keys
  <2>2. e \in EarlyKeys(pg)
    BY <1>1
  <2> HIDE DEF e
  <2> QED BY <2>1, <2>2
<1>2. ASSUME NEW r \in Range(References) PROVE Has(r[1], r[2], r[3])
  <2>1. Key(r[1], r[2], r[3], <<"fk_0008", r[1], r[2]>>) \in EarlyKeys(pg)
    BY DEF EarlyKeys, MultitenancyKeys
  <2> QED BY <1>1, <2>1
<1>3. Has("payment_intents", "mandate_id", "user_payment_mandates")
      /\ Has("bounded_authorizations", "mandate_id", "user_payment_mandates")
  <2>1. /\ MandateKey("payment_intents") \in EarlyKeys(pg)
        /\ MandateKey("bounded_authorizations") \in EarlyKeys(pg)
    BY DEF EarlyKeys
  <2> QED BY <1>1, <2>1 DEF MandateKey
<1>4. Has("user_payment_mandates", "agent_id", "agents")
  <2>1. Key("user_payment_mandates", "agent_id", "agents", Inline(pg, "user_payment_mandates", "agent_id"))
          \in EarlyKeys(pg)
    BY DEF EarlyKeys
  <2> QED BY <1>1, <2>1
<1>5. Has("payment_instrument_bindings", "mandate_id", "user_payment_mandates")
  <2>1. Key("payment_instrument_bindings", "mandate_id", "user_payment_mandates",
            Inline(pg, "payment_instrument_bindings", "mandate_id")) \in EarlyKeys(pg)
    BY DEF EarlyKeys
  <2> QED BY <1>1, <2>1
<1>6. Has("request_proofs", "agent_id", "agents")
  <2>1. Key("request_proofs", "agent_id", "agents", <<"fk_request_proofs_agent">>) \in EarlyKeys(pg)
    BY DEF EarlyKeys
  <2> QED BY <1>1, <2>1
<1>7. Has("payment_intents", "agent_id", "agents")
  <2>1. AgentKey \in EarlyKeys(pg)
    BY DEF EarlyKeys
  <2> QED BY <1>1, <2>1 DEF AgentKey
<1>8. /\ Has("bounded_authorizations", "agent_id", "agents")
      /\ Has("bounded_authorizations", "intent_id", "payment_intents")
      /\ Has("provider_transactions", "authorization_id", "bounded_authorizations")
      /\ Has("provider_transactions", "agent_id", "agents")
      /\ Has("provider_transactions", "intent_id", "payment_intents")
      /\ Has("mfa_challenges", "intent_id", "payment_intents")
  <2>1. /\ DOMAIN References = 1 .. 6
        /\ References[1] = <<"bounded_authorizations", "agent_id", "agents">>
        /\ References[2] = <<"bounded_authorizations", "intent_id", "payment_intents">>
        /\ References[3] = <<"provider_transactions", "authorization_id", "bounded_authorizations">>
        /\ References[4] = <<"provider_transactions", "agent_id", "agents">>
        /\ References[5] = <<"provider_transactions", "intent_id", "payment_intents">>
        /\ References[6] = <<"mfa_challenges", "intent_id", "payment_intents">>
    BY DEF References
  <2>2. \A i \in 1 .. 6 : Has(References[i][1], References[i][2], References[i][3])
    BY <1>2, <2>1 DEF Range
  <2>3. /\ Has(References[1][1], References[1][2], References[1][3])
        /\ Has(References[2][1], References[2][2], References[2][3])
        /\ Has(References[3][1], References[3][2], References[3][3])
        /\ Has(References[4][1], References[4][2], References[4][3])
        /\ Has(References[5][1], References[5][2], References[5][3])
        /\ Has(References[6][1], References[6][2], References[6][3])
    BY <2>2
  <2> HIDE DEF Has
  <2> QED BY <2>1, <2>3
<1> HIDE DEF Has
<1>9. Has(fk[1], fk[2], fk[3]) /\ (fk # AgentFk => fk[1] # "payment_intents" \/ fk[2] # "agent_id")
  BY <1>3, <1>4, <1>5, <1>6, <1>7, <1>8, RequiredList DEF AgentFk
<1>10. AgentKey[2] = "payment_intents" /\ AgentKey[3] = "agent_id"
  BY Keys DEF AgentKey
<1> QED BY <1>9, <1>10 DEF Has

LEMMA OwnKeyParts ==
  ASSUME NEW fk
  PROVE  /\ OwnKey(fk)[1] = "key" /\ OwnKey(fk)[2] = fk[1] /\ OwnKey(fk)[3] = fk[2]
         /\ OwnKey(fk)[4] = fk[3] /\ OwnKey(fk)[5] = FkName(fk[1], fk[2], fk[3])
         /\ \A d : Birth(d, OwnKey(fk)) = KeyBirth(d, OwnKey(fk))
         /\ \A d : KeyBirth(d, OwnKey(fk)) >= 15 /\ (d # "postgresql" => KeyBirth(d, OwnKey(fk)) = 16)
         /\ \A d : KeyBirth(d, OwnKey(fk)) = 15 => OwnKey(fk) = AgentKey
<1> DEFINE k == OwnKey(fk)
<1>1. /\ k[1] = "key" /\ k[2] = fk[1] /\ k[3] = fk[2] /\ k[4] = fk[3] /\ k[5] = FkName(fk[1], fk[2], fk[3])
      /\ \A d : Birth(d, k) = KeyBirth(d, k)
  BY Keys DEF OwnKey
<1> HIDE DEF k
<1>2. \A d : KeyBirth(d, k) = IF d = "postgresql" /\ k = AgentKey THEN 15 ELSE 16
  BY <1>1 DEF KeyBirth
<1> QED BY <1>1, <1>2 DEF k

\* Of the early keys, none is the parity revision's own but the agent key, and only
\* that one is on its column; on PostgreSQL each has a name.
LEMMA EarlyShapes ==
  /\ \A d, fk : OwnKey(fk) \in EarlyKeys(d) => OwnKey(fk) = AgentKey
  /\ \A e \in EarlyKeys("postgresql") :
       /\ e[5] # << >>
       /\ e[2] = "payment_intents" /\ e[3] = "agent_id" => e = AgentKey
  /\ \A e \in EarlyKeys("sqlite") : <<e[2], e[3]>> \notin Loose
<1>1. ASSUME NEW d, NEW fk, OwnKey(fk) \in EarlyKeys(d) PROVE OwnKey(fk) = AgentKey
  <2>1. KeyBirth(d, OwnKey(fk)) \in {8, 9, 10, 15} /\ KeyBirth(d, OwnKey(fk)) >= 15
    BY <1>1, EarlyOf, OwnKeyParts
  <2>2. KeyBirth(d, OwnKey(fk)) = 15
    BY <2>1
  <2> QED BY <2>2, OwnKeyParts
<1>2. ASSUME NEW t
      PROVE  MandateKey(t)[2] = t /\ MandateKey(t)[3] = "mandate_id" /\ MandateKey(t)[5] # << >>
  <2>1. MandateKey(t)[5] = <<"fk", t, "mandate_id">>
    BY Keys DEF MandateKey
  <2> QED BY <2>1, Keys DEF MandateKey
<1>3. ASSUME NEW e \in MultitenancyKeys
      PROVE  e[2] # "payment_intents" /\ e[5] # << >>
  <2>1. PICK r \in Range(References) : e = Key(r[1], r[2], r[3], <<"fk_0008", r[1], r[2]>>)
    BY DEF MultitenancyKeys
  <2>2. \A i \in DOMAIN References : References[i][1] # "payment_intents"
    BY DEF References
  <2>3. r[1] # "payment_intents"
    BY <2>2 DEF Range
  <2>4. /\ Key(r[1], r[2], r[3], <<"fk_0008", r[1], r[2]>>)[2] = r[1]
        /\ Key(r[1], r[2], r[3], <<"fk_0008", r[1], r[2]>>)[5] = <<"fk_0008", r[1], r[2]>>
    BY Keys
  <2>5. e[2] = r[1] /\ e[5] = <<"fk_0008", r[1], r[2]>>
    BY <2>1, <2>4
  <2>6. <<"fk_0008", r[1], r[2]>> # << >>
    OBVIOUS
  <2> QED BY <2>3, <2>5, <2>6
<1>4. ASSUME NEW d, NEW t, NEW c, NEW ref
      PROVE  /\ Key(t, c, ref, Inline(d, t, c))[2] = t /\ Key(t, c, ref, Inline(d, t, c))[3] = c
             /\ d = "postgresql" => Key(t, c, ref, Inline(d, t, c))[5] # << >>
  <2>1. Key(t, c, ref, Inline(d, t, c))[5] = Inline(d, t, c)
    BY Keys
  <2>2. d = "postgresql" => Inline(d, t, c) # << >>
    BY DEF Inline
  <2> QED BY <2>1, <2>2, Keys
<1>5. /\ AgentKey[5] # << >>
      /\ Key("request_proofs", "agent_id", "agents", <<"fk_request_proofs_agent">>)[5] # << >>
      /\ Key("request_proofs", "agent_id", "agents", <<"fk_request_proofs_agent">>)[2] = "request_proofs"
  <2>1. /\ AgentKey[5] = <<"fk", "payment_intents", "agent_id", "agents">>
        /\ Key("request_proofs", "agent_id", "agents", <<"fk_request_proofs_agent">>)[5] = <<"fk_request_proofs_agent">>
    BY Keys DEF AgentKey, FkName
  <2> QED BY <2>1, Keys
<1>6. \A e \in EarlyKeys("postgresql") :
        /\ e[5] # << >>
        /\ e[2] = "payment_intents" /\ e[3] = "agent_id" => e = AgentKey
  BY <1>2, <1>3, <1>4, <1>5 DEF EarlyKeys
<1>7. \A e \in EarlyKeys("sqlite") : <<e[2], e[3]>> \notin Loose
  <2>1. \A e \in EarlyKeys("sqlite") :
          \/ e[3] = "mandate_id"
          \/ e[2] = "user_payment_mandates"
    BY <1>2, <1>4 DEF EarlyKeys
  <2> QED BY <2>1 DEF Loose
<1> QED BY <1>1, <1>6, <1>7

\* A key PostgreSQL has at the version before the parity revision, and what that adds.
LEMMA ParityUpPostgres ==
  ASSUME NEW s, Same(s, 15)
  PROVE  /\ Fresh[16]["postgresql"] = Fresh[15]["postgresql"]
         /\ {OwnKey(fk) : fk \in Lacks(s)} \subseteq {AgentKey}
         /\ AgentKey \in s \cup {OwnKey(fk) : fk \in Lacks(s)}
         /\ AgentKey \in Fresh[15]["postgresql"]
<1> DEFINE pg == "postgresql"
           F == Fresh[15][pg]
<1>1. pg \in Dialects /\ 15 \in 0 .. Latest /\ 16 \in 1 .. Latest
  BY DEF Dialects, Latest
<1>2. /\ \A e \in F : e[1] = "key" => e \in EarlyKeys(pg)
      /\ \A e \in EarlyKeys(pg) : e \in F
      /\ Table("payment_intents") \in F /\ Table("agents") \in F
  <2>1. \A e \in EarlyKeys(pg) : KeyBirth(pg, e) <= 15
    BY EarlyOf
  <2> QED BY <1>1, <2>1, FreshFacts
<1>3. \A e : Relevant(e, 15) => (e \in s <=> e \in F)
  BY SameIff
<1> HIDE DEF F
<1>4. \A fk \in Range(RequiredFks) : Enforced(F, fk) /\ (fk # AgentFk => Enforced(s, fk))
  <2> SUFFICES ASSUME NEW fk \in Range(RequiredFks)
               PROVE  Enforced(F, fk) /\ (fk # AgentFk => Enforced(s, fk))
    OBVIOUS
  <2>1. PICK e \in EarlyKeys(pg) : /\ e[1] = "key" /\ e[2] = fk[1] /\ e[3] = fk[2] /\ e[4] = fk[3]
                                   /\ fk # AgentFk => e # AgentKey
    BY Referenced
  <2>2. e \in F /\ (fk # AgentFk => e \in s)
    BY <1>2, <1>3, <2>1 DEF Relevant
  <2> QED BY <2>1, <2>2 DEF Enforced, KeysOn
<1>5. Lacks(F) = {} /\ \A fk \in Lacks(s) : fk = AgentFk
  BY <1>4 DEF Lacks, Missing
<1>6. Fresh[16][pg] = F
  <2>1. Fresh[16][pg] = F \cup {OwnKey(fk) : fk \in Lacks(F)}
    BY <1>1, FreshNext DEF F
  <2> QED BY <1>5, <2>1
<1>7. OwnKey(AgentFk) = AgentKey
  BY DEF OwnKey, AgentFk, AgentKey
<1>8. AgentKey \in F
  <2>1. AgentKey \in EarlyKeys(pg)
    BY DEF EarlyKeys
  <2> QED BY <1>2, <2>1
<1>9. AgentKey \notin s => AgentFk \in Lacks(s)
  <2> SUFFICES ASSUME AgentKey \notin s PROVE AgentFk \in Lacks(s)
    OBVIOUS
  <2>1. Attachable(s, AgentFk)
    <3>1. Relevant(Table("payment_intents"), 15) /\ Relevant(Table("agents"), 15)
      BY Keys DEF Relevant, Table, AgentKey
    <3> QED BY <1>2, <1>3, <3>1 DEF Attachable, AgentFk
  <2>2. ~Enforced(s, AgentFk)
    <3> SUFFICES ASSUME NEW e \in s, e[1] = "key", e[2] = "payment_intents", e[3] = "agent_id"
                 PROVE  FALSE
      BY DEF Enforced, KeysOn, AgentFk
    <3>1. Relevant(e, 15)
      BY DEF Relevant
    <3> QED BY <1>2, <1>3, <3>1, EarlyShapes
  <2>3. AgentFk \in Range(RequiredFks)
    <3>1. 1 \in DOMAIN RequiredFks /\ RequiredFks[1] = AgentFk
      BY DEF RequiredFks, AgentFk
    <3> QED BY <3>1 DEF Range
  <2> QED BY <2>1, <2>2, <2>3 DEF Lacks, Missing
<1>10. {OwnKey(fk) : fk \in Lacks(s)} \subseteq {AgentKey}
  BY <1>5, <1>7
<1>11. AgentKey \in s \cup {OwnKey(fk) : fk \in Lacks(s)}
  BY <1>7, <1>9
<1> QED BY <1>6, <1>8, <1>10, <1>11 DEF F

\* What comes of a schema of PostgreSQL, a revision up.
LEMMA UpPostgres ==
  ASSUME NEW n \in 1 .. Latest, NEW s, Same(s, n - 1)
  PROVE  Same(Result(Revision(n, "postgresql", s).up, s), n)
<1> DEFINE pg == "postgresql"
           up == Revision(n, pg, s).up
<1>1. pg \in Dialects
  BY DEF Dialects
<1> SUFFICES ASSUME NEW e, Relevant(e, n) PROVE e \in Result(up, s) <=> e \in Fresh[n][pg]
  BY SameIff
<1>2. \A b : Relevant(b, n - 1) => (b \in s <=> b \in Fresh[n - 1][pg])
  BY SameIff
<1>3. ASSUME NEW x, Sum(pg, up, x, {})
      PROVE  e \in Result(up, s) <=> e \in s \cup x
  <2>1. Adds(up) = x /\ Takes(up) = {}
    BY <1>3 DEF Sum, Scrap
  <2> QED BY <2>1 DEF Result, Gone
<1>4. CASE n # 16
  <2>1. PICK X, Y : Reverses(pg, n, X, Y) /\ Fresh[n][pg] = Fresh[n - 1][pg] \cup X
    BY <1>1, <1>4, FreshNext
  <2>2. PICK x : Sum(pg, up, x, {}) /\ x \subseteq X /\ X \subseteq x \cup s
    BY <2>1 DEF Reverses
  <2>3. Relevant(e, n - 1)
    BY <1>4 DEF Relevant
  <2> HIDE DEF up
  <2> QED BY <1>2, <1>3, <2>1, <2>2, <2>3
<1>5. CASE n = 16
  <2> DEFINE x == {OwnKey(fk) : fk \in Lacks(s)}
  <2>1. Sum(pg, up, x, {})
    BY <1>5, ParityUp, ParityStatements DEF Effect
  <2>2. n - 1 = 15
    BY <1>5
  <2>3. /\ Fresh[n][pg] = Fresh[n - 1][pg] /\ x \subseteq {AgentKey} /\ AgentKey \in s \cup x
        /\ AgentKey \in Fresh[n - 1][pg]
    BY <1>5, <2>2, ParityUpPostgres
  <2> HIDE DEF x, up
  <2>4. e # AgentKey => Relevant(e, n - 1)
    BY DEF Relevant
  <2> QED BY <1>2, <1>3, <2>1, <2>3, <2>4
<1> QED BY <1>4, <1>5

LEMMA DownPostgres ==
  ASSUME NEW n \in 1 .. Latest, NEW s, Same(s, n)
  PROVE  Same(Result(Revision(n, "postgresql", s).down, s), n - 1)
<1> DEFINE pg == "postgresql"
           down == Revision(n, pg, s).down
<1>1. pg \in Dialects /\ n - 1 \in 0 .. Latest
  BY DEF Dialects, Latest
<1> SUFFICES ASSUME NEW e, Relevant(e, n - 1) PROVE e \in Result(down, s) <=> e \in Fresh[n - 1][pg]
  BY SameIff
<1>2. \A b : Relevant(b, n) => (b \in s <=> b \in Fresh[n][pg])
  BY SameIff
<1>3. ASSUME NEW y, Effect(pg, down, {}, y)
      PROVE  e \in Result(down, s) <=> e \in s /\ e \notin y /\ ~(Table(e[2]) \in y /\ e[1] # "scratch")
  <2>1. Adds(down) = {} /\ Takes(down) = y
    BY <1>3 DEF Effect, Sum, Scrap
  <2> QED BY <2>1 DEF Result, Gone
<1>4. e \in Fresh[n - 1][pg] => Old(pg, n - 1, e)
  BY <1>1, FreshFacts
<1>5. CASE n # 16
  <2>1. PICK X, Y : Reverses(pg, n, X, Y) /\ Fresh[n][pg] = Fresh[n - 1][pg] \cup X
    BY <1>1, <1>5, FreshNext
  <2>2. PICK y : /\ Effect(pg, down, {}, y) /\ y \subseteq Y
                 /\ \A b \in Y : b \in y \/ (b[1] = "key" /\ b \notin s)
    BY <2>1 DEF Reverses
  <2>3. Dated(pg, n, X, Y)
    BY <2>1 DEF Reverses
  <2>4. e = AgentKey /\ n = 15 => e \in X
    <3>1. AgentKey \in EarlyKeys(pg)
      BY DEF EarlyKeys
    <3> QED BY <2>3, <3>1, EarlyBirths DEF Dated
  <2>5. e \in X \/ Relevant(e, n)
    BY <2>4 DEF Relevant
  <2>6. /\ Birth(pg, Table(e[2])) = TableBirth(e[2]) /\ Table(e[2])[1] = "table"
    BY Births
  <2> HIDE DEF down
  <2>7. ASSUME e \in Fresh[n - 1][pg] PROVE e \in s /\ e \notin y /\ Table(e[2]) \notin y
    <3>1. Birth(pg, e) <= n - 1 /\ TableBirth(e[2]) <= n - 1
      BY <1>4, <2>7 DEF Old
    <3>2. e \notin Y /\ Table(e[2]) \notin Y
      BY <2>3, <2>6, <3>1, Birthdays, TableBirths DEF Dated
    <3>3. ~(e = AgentKey /\ n = 15)
      <4>1. e = AgentKey => Birth(pg, e) = 15
        BY EarlyBirths, Keys DEF AgentKey
      <4> QED BY <3>1, <4>1
    <3>4. Relevant(e, n)
      BY <3>3 DEF Relevant
    <3> QED BY <1>2, <2>1, <2>2, <2>7, <3>2, <3>4
  <2>8. ASSUME e \in s, e \notin y, ~(Table(e[2]) \in y /\ e[1] # "scratch")
        PROVE  e \in Fresh[n - 1][pg]
    <3>1. e \notin X
      <4> SUFFICES ASSUME e \in X PROVE FALSE
        OBVIOUS
      <4>1. e[1] # "scratch" /\ e[1] \notin {"type", "label"}
        BY <2>3 DEF Dated, Relevant
      <4>2. e \in Y \/ Table(e[2]) \in Y
        BY <2>3, <4>1 DEF Dated
      <4>3. e \notin Y
        BY <2>2, <2>8
      <4>4. Table(e[2]) \notin Y
        BY <2>2, <2>6, <2>8, <4>1
      <4> QED BY <4>2, <4>3, <4>4
    <3> QED BY <1>2, <2>1, <2>5, <2>8, <3>1
  <2> QED BY <1>3, <2>2, <2>7, <2>8
<1>6. CASE n = 16
  <2> DEFINE y == {OwnKey(fk) : fk \in Found(s)}
  <2>1. Effect(pg, down, {}, y)
    BY <1>6, ParityDown, ParityStatements
  <2>2. n - 1 = 15 /\ 15 \in 0 .. Latest
    BY <1>6 DEF Latest
  <2>3. Fresh[16][pg] = Fresh[15][pg]
    <3>1. Same(Fresh[15][pg], 15)
      BY DEF Same
    <3> QED BY <3>1, ParityUpPostgres
  <2>4. \A b \in s : b[1] = "key" => b \in EarlyKeys(pg)
    <3> SUFFICES ASSUME NEW b \in s, b[1] = "key" PROVE b \in EarlyKeys(pg)
      OBVIOUS
    <3>1. Relevant(b, n)
      BY <1>6 DEF Relevant
    <3>2. b \in Fresh[15][pg]
      BY <1>2, <1>6, <2>3, <3>1
    <3> QED BY <1>1, <2>2, <3>2, FreshFacts
  <2>5. \A b \in y : b = AgentKey /\ b[1] = "key"
    <3> SUFFICES ASSUME NEW fk \in Found(s) PROVE OwnKey(fk) = AgentKey /\ OwnKey(fk)[1] = "key"
      OBVIOUS
    <3>1. OwnKey(fk)[1] = "key"
      BY OwnKeyParts
    <3>2. OwnKey(fk) \in s \/ \E b \in s : b[1] = "key" /\ b[5] = << >>
      BY DEF Found, KeysOn
    <3>3. OwnKey(fk) \in EarlyKeys(pg)
      BY <2>4, <3>1, <3>2, EarlyShapes
    <3> QED BY <3>1, <3>3, EarlyShapes
  <2>6. Table(e[2])[1] = "table"
    BY Births
  <2>7. e # AgentKey /\ Relevant(e, n)
    BY <1>6, <2>2 DEF Relevant
  <2> HIDE DEF y, down
  <2> QED BY <1>2, <1>3, <1>6, <2>1, <2>2, <2>3, <2>5, <2>6, <2>7
<1> QED BY <1>5, <1>6

\* What comes of a schema of SQLite that has what its version needs.
LEMMA UpSqlite ==
  ASSUME NEW n \in 1 .. Latest, NEW s, Known("sqlite", s), Fresh[n - 1]["sqlite"] \subseteq s
  PROVE  Fresh[n]["sqlite"] \subseteq Result(Revision(n, "sqlite", s).up, s)
<1> DEFINE d == "sqlite"
           up == Revision(n, d, s).up
<1>1. d \in Dialects /\ d # "postgresql" /\ n \in 0 .. Latest
  BY DEF Dialects, Latest
<1> SUFFICES ASSUME NEW e \in Fresh[n][d] PROVE e \in Result(up, s)
  OBVIOUS
<1>2. ASSUME NEW x, Sum(d, up, x, {}), e \in s \cup x
      PROVE  e \in Result(up, s)
  <2>1. x \subseteq Adds(up) /\ \A b \in Takes(up) : b[1] = "scratch"
    BY <1>2 DEF Sum, Scrap
  <2>2. e[1] # "scratch" /\ Table(e[2])[1] = "table"
    BY <1>1, <1>2, FreshFacts, Births DEF Old
  <2> HIDE DEF up
  <2>3. ~Gone(up, e)
    BY <2>1, <2>2 DEF Gone
  <2> QED BY <1>2, <2>1, <2>3 DEF Result
<1>3. CASE n # 16
  <2>1. PICK X, Y : Reverses(d, n, X, Y) /\ Fresh[n][d] = Fresh[n - 1][d] \cup X
    BY <1>1, <1>3, FreshNext
  <2>2. PICK x : Sum(d, up, x, {}) /\ x \subseteq X /\ X \subseteq x \cup s
    BY <2>1 DEF Reverses
  <2> HIDE DEF up
  <2>3. e \in s \cup x
    BY <2>1, <2>2
  <2> QED BY <1>2, <2>2, <2>3
<1>4. CASE n = 16
  <2> DEFINE x == {OwnKey(fk) : fk \in Lacks(s)}
             F == Fresh[15][d]
  <2>1. Sum(d, up, x, {})
    BY <1>4, ParityUp, ParityStatements DEF Effect
  <2>2. n - 1 = 15 /\ 15 \in 0 .. Latest
    BY <1>4 DEF Latest
  <2>3. F \subseteq s /\ Fresh[n][d] = F \cup {OwnKey(fk) : fk \in Lacks(F)}
    BY <1>1, <1>4, <2>2, FreshNext
  <2>4. \A k \in EarlyKeys(d) : k \in F
    <3>1. \A k \in EarlyKeys(d) : KeyBirth(d, k) <= 15
      BY EarlyOf
    <3> QED BY <1>1, <2>2, <3>1, FreshFacts
  <2> HIDE DEF F
  <2>5. ASSUME NEW fk \in Lacks(F) PROVE OwnKey(fk) \in s \cup x
    <3> SUFFICES ASSUME fk \notin Lacks(s) PROVE OwnKey(fk) \in s
      OBVIOUS
    <3>1. fk \in Range(RequiredFks) /\ Attachable(F, fk) /\ ~Enforced(F, fk)
      BY DEF Lacks, Missing
    <3>2. Attachable(s, fk)
      BY <2>3, <3>1 DEF Attachable
    <3>3. Enforced(s, fk)
      BY <3>1, <3>2 DEF Lacks, Missing
    <3>4. PICK k \in s : k[1] = "key" /\ k[2] = fk[1] /\ k[3] = fk[2] /\ k[4] = fk[3]
      BY <3>3 DEF Enforced, KeysOn
    <3>5. k \notin EarlyKeys(d)
      BY <2>4, <3>1, <3>4 DEF Enforced, KeysOn
    <3>6. PICK own \in Range(RequiredFks) : k = OwnKey(own)
      BY <3>4, <3>5 DEF Known, OwnKeys
    <3>7. own[1] = fk[1] /\ own[2] = fk[2] /\ own[3] = fk[3]
      BY <3>4, <3>6, OwnKeyParts
    <3>8. OwnKey(own) = OwnKey(fk)
      BY <3>7 DEF OwnKey
    <3> QED BY <3>6, <3>8
  <2> HIDE DEF x, up
  <2>6. e \in s \cup x
    BY <2>3, <2>5
  <2> QED BY <1>2, <2>1, <2>6
<1> QED BY <1>3, <1>4

LEMMA DownSqlite ==
  ASSUME NEW n \in 1 .. Latest, NEW s, Fresh[n]["sqlite"] \subseteq s
  PROVE  Fresh[n - 1]["sqlite"] \subseteq Result(Revision(n, "sqlite", s).down, s)
<1> DEFINE d == "sqlite"
           down == Revision(n, d, s).down
<1>1. d \in Dialects /\ n - 1 \in 0 .. Latest
  BY DEF Dialects, Latest
<1> SUFFICES ASSUME NEW e \in Fresh[n - 1][d] PROVE e \in Result(down, s)
  OBVIOUS
<1>2. ASSUME NEW y, Effect(d, down, {}, y), \A b \in y : Birth(d, b) >= n
      PROVE  e \in Result(down, s)
  <2>1. \A b \in Takes(down) : Birth(d, b) >= n \/ b[1] = "scratch"
    BY <1>2 DEF Effect, Sum, Scrap
  <2>2. Birth(d, e) <= n - 1 /\ TableBirth(e[2]) <= n - 1 /\ e[1] # "scratch"
    BY <1>1, <1>2, FreshFacts DEF Old
  <2>3. Table(e[2])[1] = "table" /\ Birth(d, Table(e[2])) = TableBirth(e[2])
    BY Births
  <2> HIDE DEF down
  <2>4. ~Gone(down, e)
    BY <2>1, <2>2, <2>3, Birthdays, TableBirths DEF Gone
  <2>5. e \in s
    BY <1>1, <1>2, FreshGrows
  <2> QED BY <2>4, <2>5 DEF Result
<1>3. CASE n # 16
  <2>1. PICK X, Y : Reverses(d, n, X, Y)
    BY <1>3, Reversibles DEF Reversible
  <2>2. PICK y : Effect(d, down, {}, y) /\ y \subseteq Y
    BY <2>1 DEF Reverses
  <2>3. \A b \in y : Birth(d, b) >= n
    BY <2>1, <2>2 DEF Reverses, Dated
  <2> HIDE DEF down
  <2> QED BY <1>2, <2>2, <2>3
<1>4. CASE n = 16
  <2> DEFINE y == {OwnKey(fk) : fk \in Found(s)}
  <2>1. Effect(d, down, {}, y)
    BY <1>4, ParityDown, ParityStatements
  <2>2. \A b \in y : Birth(d, b) >= n
    BY <1>4, OwnKeyParts
  <2> HIDE DEF down, y
  <2> QED BY <1>2, <2>1, <2>2
<1> QED BY <1>3, <1>4

-----------------------------------------------------------------------------
(* The statements of a run.                                                *)

LEMMA NothingLeft ==
  /\ Range(<< >>) = {} /\ Adds(<< >>) = {} /\ Takes(<< >>) = {}
  /\ \A s : Result(<< >>, s) = s
<1>1. Range(<< >>) = {}
  BY DEF Range
<1>2. Adds(<< >>) = {} /\ Takes(<< >>) = {}
  BY <1>1 DEF Adds, Takes
<1> QED BY <1>1, <1>2 DEF Result, Gone

LEMMA CourseStarts ==
  ASSUME NEW d \in Dialects, NEW s, NEW version \in 0 .. Latest, NEW goal \in 0 .. Latest
  PROVE  Course(d, Statements(d, s, version, goal), version, goal)
<1>l. Latest = 19
  BY DEF Latest
<1>1. CASE version < goal
  <2> DEFINE n == version + 1
             up == Revision(n, d, s).up
  <2>1. n \in 1 .. Latest /\ n <= goal /\ version = n - 1
    BY <1>1, <1>l
  <2>2. Statements(d, s, version, goal) = up
    BY <2>1, StatementsOf
  <2>3. ~(version >= goal) /\ version # goal /\ version <= goal /\ ~Unparity(version, goal)
    BY <1>1, <1>l DEF Unparity
  <2> HIDE DEF n
  <2>4. CASE n # 16
    <3>1. PICK X, Y : Reverses(d, n, X, Y)
      BY <2>1, <2>4, Reversibles DEF Reversible
    <3>2. PICK x : Sum(d, up, x, {}) /\ Orderly(up) /\ x \subseteq X
      BY <3>1 DEF Reverses
    <3>3. Dated(d, n, X, Y)
      BY <3>1 DEF Reverses
    <3> HIDE DEF up
    <3>4. \A e \in Takes(up) : Scrap(d, e)
      BY <3>2 DEF Sum
    <3>5. \A e \in Adds(up) : e \in X \/ Scrap(d, e)
      BY <3>2 DEF Sum
    <3>6. version >= 16 => \A e \in Adds(up) \cup Takes(up) : e[1] = "column" \/ Scrap(d, e)
      BY <2>1, <3>3, <3>4, <3>5 DEF Dated
    <3>7. version # 15
      BY <2>1, <2>4
    <3>8. d # "postgresql" => Known(d, Adds(up))
      BY <3>3, <3>5 DEF Known, Dated, Scrap
    <3> QED BY <2>2, <2>3, <3>2, <3>4, <3>6, <3>7, <3>8 DEF Course
  <2>5. CASE n = 16
    <3> DEFINE x == {OwnKey(fk) : fk \in Lacks(s)}
    <3>1. Effect(d, up, x, {})
      BY <2>5, ParityUp, ParityStatements
    <3>2. \A e \in x : e[1] = "key" /\ e \in OwnKeys
      BY OwnKeyParts DEF Lacks, OwnKeys
    <3> HIDE DEF up, x
    <3>3. Orderly(up) /\ (\A e \in Takes(up) : Scrap(d, e)) /\ \A e \in Adds(up) : e \in x \/ Scrap(d, e)
      BY <3>1, CalmIsOrderly DEF Effect, Sum
    <3>4. version = 15
      BY <2>1, <2>5
    <3>5. Known(d, Adds(up))
      BY <3>2, <3>3 DEF Known, Scrap
    <3> QED BY <2>2, <2>3, <3>2, <3>3, <3>4, <3>5 DEF Course
  <2> QED BY <2>4, <2>5
<1>2. CASE version > goal
  <2> DEFINE n == version
             down == Revision(n, d, s).down
  <2>1. n \in 1 .. Latest /\ goal < n
    BY <1>2, <1>l
  <2>2. Statements(d, s, version, goal) = down
    BY <2>1, StatementsOf
  <2>3. ~(version <= goal) /\ version # goal /\ ~(version = 15 /\ goal > 15)
    BY <1>2, <1>l
  <2> HIDE DEF n
  <2>4. ASSUME NEW y, Effect(d, down, {}, y)
        PROVE  /\ \A e \in Adds(down) : Scrap(d, e)
               /\ Orderly(down) /\ Calm(down)
               /\ d # "postgresql" => Known(d, Adds(down))
               /\ \A e \in Takes(down) : e \in y \/ Scrap(d, e)
    <3> HIDE DEF down
    <3>1. /\ Calm(down) /\ \A e \in Adds(down) : Scrap(d, e)
          /\ \A e \in Takes(down) : e \in y \/ Scrap(d, e)
      BY <2>4 DEF Effect, Sum
    <3>2. d # "postgresql" => Known(d, Adds(down))
      BY <3>1 DEF Known, Scrap
    <3> QED BY <3>1, <3>2, CalmIsOrderly
  <2>5. CASE version # 16
    <3>1. PICK X, Y : Reverses(d, version, X, Y)
      BY <2>1, <2>5, Reversibles DEF Reversible, n
    <3>2. PICK y : Effect(d, down, {}, y) /\ y \subseteq Y
      BY <3>1 DEF Reverses, n
    <3>3. Dated(d, version, X, Y)
      BY <3>1 DEF Reverses
    <3>4. ~Unparity(version, goal)
      BY <2>5 DEF Unparity
    <3> HIDE DEF down
    <3>5. version >= 16 => \A e \in Adds(down) \cup Takes(down) : e[1] = "column" \/ Scrap(d, e)
      BY <1>l, <2>4, <2>5, <3>2, <3>3 DEF Dated
    <3> QED BY <2>2, <2>3, <2>4, <3>2, <3>4, <3>5 DEF Course
  <2>6. CASE version = 16
    <3>1. Effect(d, down, {}, {OwnKey(fk) : fk \in Found(s)}) /\ Rebuilds(d, down)
      BY <2>6, ParityDown, ParityStatements DEF n
    <3>2. Unparity(version, goal)
      BY <1>2, <2>6 DEF Unparity
    <3> HIDE DEF down
    <3> QED BY <2>2, <2>3, <2>4, <2>6, <3>1, <3>2 DEF Course
  <2> QED BY <2>5, <2>6
<1>3. CASE version = goal
  <2>1. Statements(d, s, version, goal) = << >>
    BY <1>3 DEF Statements
  <2>2. /\ Calm(<< >>) /\ Orderly(<< >>) /\ Known(d, {})
    BY NothingLeft, CalmIsOrderly DEF Calm, Known
  <2>3. ~Unparity(version, goal)
    BY <1>3 DEF Unparity
  <2> QED BY <1>3, <2>1, <2>2, <2>3, NothingLeft DEF Course
<1> QED BY <1>1, <1>2, <1>3

\* The parity revision leaves no reference between two tables without a key.
LEMMA WholeStart ==
  ASSUME NEW d \in Dialects, NEW s, NEW goal \in 0 .. Latest, goal > 15
  PROVE  Whole(Result(Statements(d, s, 15, goal), s))
<1> DEFINE up == Statements(d, s, 15, goal)
           x == {OwnKey(fk) : fk \in Lacks(s)}
<1>1. up = AddMissingFks(d, s)
  <2>1. 16 \in 1 .. Latest /\ 16 - 1 = 15 /\ 16 <= goal
    BY DEF Latest
  <2>2. Statements(d, s, 15, goal) = Revision(16, d, s).up
    BY <2>1, StatementsOf
  <2> QED BY <2>2, ParityStatements
<1>2. x \subseteq Adds(up) /\ (\A e \in Adds(up) : e \in x \/ Scrap(d, e)) /\ \A e \in Takes(up) : Scrap(d, e)
  BY <1>1, ParityUp DEF Effect, Sum
<1>3. \A e \in x : e[1] = "key"
  BY OwnKeyParts
<1> SUFFICES ASSUME NEW fk \in Range(RequiredFks), Attachable(Result(up, s), fk)
             PROVE  Enforced(Result(up, s), fk)
  BY DEF Whole, Holds
<1> HIDE DEF up
<1>4. \A t : Table(t)[1] = "table" /\ Table(t)[2] = t
  BY DEF Table
<1>5. Attachable(s, fk)
  <2>1. \A t : Table(t) \in Result(up, s) => Table(t) \in s
    BY <1>2, <1>3, <1>4 DEF Result, Scrap
  <2> QED BY <2>1 DEF Attachable
<1>6. CASE Enforced(s, fk)
  <2>1. PICK e \in KeysOn(s, fk[1], fk[2]) : e[4] = fk[3]
    BY <1>6 DEF Enforced
  <2>2. e \in s /\ e[1] = "key"
    BY <2>1 DEF KeysOn
  <2>3. e \in Result(up, s)
    BY <1>2, <1>4, <2>2 DEF Result, Gone, Scrap
  <2> QED BY <2>1, <2>3 DEF Enforced, KeysOn
<1>7. CASE ~Enforced(s, fk)
  <2>1. OwnKey(fk) \in x
    BY <1>5, <1>7 DEF Lacks, Missing
  <2>2. OwnKey(fk) \in Result(up, s)
    BY <1>2, <2>1 DEF Result
  <2> HIDE DEF x
  <2> QED BY <2>2, OwnKeyParts DEF Enforced, KeysOn
<1> QED BY <1>6, <1>7

\* On SQLite a key that would forbid a dangling row is added after a look for it.
LEMMA OrphanStart ==
  ASSUME NEW s, NEW version \in 0 .. Latest, NEW goal \in 0 .. Latest,
         NEW o, <<o[1], o[2]>> \in Loose, o[3] \in Ids, o = <<o[1], o[2], o[3]>>,
         KeysOn(Adds(Statements("sqlite", s, version, goal)), o[1], o[2]) # {}
  PROVE  o \in Head(Statements("sqlite", s, version, goal)).orphans
<1> DEFINE d == "sqlite"
           left == Statements(d, s, version, goal)
<1>1. d \in Dialects /\ Latest = 19 /\ d # "postgresql"
  BY DEF Dialects, Latest
<1>2. PICK e \in Adds(left) : e[1] = "key" /\ e[2] = o[1] /\ e[3] = o[2]
  BY DEF KeysOn
<1>3. Course(d, left, version, goal)
  BY <1>1, CourseStarts
<1>4. version < goal
  <2> HIDE DEF left
  <2> QED BY <1>2, <1>3 DEF Course, Scrap
<1> DEFINE n == version + 1
<1>5. n \in 1 .. Latest /\ n <= goal /\ version = n - 1
  BY <1>1, <1>4
<1>6. left = Revision(n, d, s).up
  BY <1>5, StatementsOf
<1> HIDE DEF n
<1>7. CASE n # 16
  <2>1. PICK X, Y : Reverses(d, n, X, Y)
    BY <1>1, <1>5, <1>7, Reversibles DEF Reversible
  <2>2. PICK x : Sum(d, left, x, {}) /\ x \subseteq X
    BY <1>6, <2>1 DEF Reverses
  <2>3. Dated(d, n, X, Y)
    BY <2>1 DEF Reverses
  <2> HIDE DEF left
  <2>4. e \in X
    BY <1>2, <2>2 DEF Sum, Scrap
  <2>5. e \in EarlyKeys(d)
    BY <1>2, <2>3, <2>4 DEF Dated
  <2> QED BY <1>2, <2>5, EarlyShapes
<1>8. CASE n = 16
  <2> DEFINE x == {OwnKey(fk) : fk \in Lacks(s)}
  <2>1. Effect(d, left, x, {}) /\ Head(left).orphans = Dangling(Lacks(s))
    BY <1>6, <1>8, ParityUp, ParityStatements
  <2>2. e \in x
    <3> HIDE DEF left, x
    <3> QED BY <1>2, <2>1 DEF Effect, Sum, Scrap
  <2>3. PICK fk \in Lacks(s) : e = OwnKey(fk)
    BY <2>2
  <2>4. fk[1] = o[1] /\ fk[2] = o[2]
    BY <1>2, <2>3, OwnKeyParts
  <2>5. <<fk[1], fk[2], o[3]>> \in Dangling(Lacks(s))
    BY DEF Dangling
  <2> QED BY <2>1, <2>4, <2>5
<1> QED BY <1>7, <1>8

-----------------------------------------------------------------------------
(* A statement.                                                            *)

\* What the first statement does, and what the others do.
LEMMA FirstStatement ==
  ASSUME NEW left, left \in Seq(Range(left)), left # << >>
  PROVE  /\ Head(left) \in Range(left)
         /\ Range(Tail(left)) \subseteq Range(left)
         /\ Adds(left) = Head(left).adds \cup Adds(Tail(left))
         /\ Takes(left) = Head(left).drops \cup Takes(Tail(left))
         /\ Orderly(left) => Orderly(Tail(left))
         /\ Orderly(left) /\ (~Calm(Tail(left)) \/ Head(left).mode = "commit") =>
              /\ Head(left).drops = {}
              /\ \A e \in Head(left).adds : e[1] \in {"type", "label"}
<1> DEFINE rest == Tail(left)
           step == Head(left)
<1>1. Len(left) \in Nat \ {0} /\ DOMAIN left = 1 .. Len(left)
  BY EmptySeq
<1>2. /\ step = left[1] /\ Len(rest) = Len(left) - 1 /\ DOMAIN rest = 1 .. Len(rest)
      /\ \A i \in 1 .. Len(rest) : rest[i] = left[i + 1]
  BY HeadTailProperties
<1>3. \A i \in 1 .. Len(rest) : i + 1 \in 1 .. Len(left)
  BY <1>1, <1>2
<1>4. \A i \in 1 .. Len(left) : i = 1 \/ (i - 1 \in 1 .. Len(rest) /\ (i - 1) + 1 = i)
  BY <1>1, <1>2
<1>5. 1 \in 1 .. Len(left)
  BY <1>1
<1> HIDE DEF rest, step
<1>6. step \in Range(left)
  BY <1>1, <1>2, <1>5 DEF Range
<1>7. Range(rest) \subseteq Range(left)
  BY <1>1, <1>2, <1>3 DEF Range
<1>8. \A b \in Range(left) : b = step \/ b \in Range(rest)
  <2> SUFFICES ASSUME NEW i \in 1 .. Len(left) PROVE left[i] = step \/ left[i] \in Range(rest)
    BY <1>1 DEF Range
  <2>1. i # 1 => left[i] = rest[i - 1] /\ i - 1 \in DOMAIN rest
    BY <1>2, <1>4
  <2> QED BY <1>2, <2>1 DEF Range
<1>9. Adds(left) = step.adds \cup Adds(rest) /\ Takes(left) = step.drops \cup Takes(rest)
  BY <1>6, <1>7, <1>8 DEF Adds, Takes
<1>10. ASSUME Orderly(left)
       PROVE  /\ Orderly(rest)
              /\ ~Calm(rest) \/ step.mode = "commit" =>
                   step.drops = {} /\ \A e \in step.adds : e[1] \in {"type", "label"}
  <2>1. Orderly(rest)
    <3> SUFFICES ASSUME NEW i \in 1 .. Len(rest), NEW j \in 1 .. Len(rest), j <= i, rest[i].mode = "commit"
                 PROVE  rest[j].drops = {} /\ \A e \in rest[j].adds : e[1] \in {"type", "label"}
      BY <1>2 DEF Orderly
    <3>1. i + 1 \in DOMAIN left /\ j + 1 \in DOMAIN left /\ j + 1 <= i + 1
      BY <1>1, <1>2, <1>3
    <3>2. left[i + 1].mode = "commit" /\ rest[j] = left[j + 1]
      BY <1>2
    <3> QED BY <1>10, <3>1, <3>2 DEF Orderly
  <2>2. ASSUME ~Calm(rest) \/ step.mode = "commit"
        PROVE  \E i \in DOMAIN left : left[i].mode = "commit" /\ 1 <= i
    <3>1. CASE step.mode = "commit"
      BY <1>1, <1>2, <1>5, <3>1
    <3>2. CASE ~Calm(rest)
      <4>1. PICK b \in Range(rest) : b.mode = "commit"
        BY <3>2 DEF Calm
      <4>2. b \in Range(left)
        BY <1>7, <4>1
      <4>3. PICK i \in 1 .. Len(left) : left[i] = b
        BY <1>1, <4>2 DEF Range
      <4>4. 1 <= i
        BY <1>1
      <4> QED BY <1>1, <4>1, <4>3, <4>4
    <3> QED BY <2>2, <3>1, <3>2
  <2> QED BY <1>1, <1>2, <1>5, <1>10, <2>1, <2>2 DEF Orderly
<1> QED BY <1>6, <1>7, <1>9, <1>10 DEF rest, step

\* What is left after the first statement is on the same course.
LEMMA CourseGoesOn ==
  ASSUME NEW d, NEW left, NEW version, NEW goal,
         left \in Seq(Range(left)), left # << >>, Course(d, left, version, goal)
  PROVE  Course(d, Tail(left), version, goal)
<1>1. /\ Range(Tail(left)) \subseteq Range(left) /\ Orderly(Tail(left))
      /\ Adds(Tail(left)) \subseteq Adds(left) /\ Takes(Tail(left)) \subseteq Takes(left)
  BY FirstStatement DEF Course
<1> DEFINE rest == Tail(left)
<1> HIDE DEF rest
<1>2. Calm(left) => Calm(rest)
  BY <1>1 DEF Calm, rest
<1>3. Rebuilds(d, left) => Rebuilds(d, rest)
  BY <1>1 DEF Rebuilds, rest
<1>4. Known(d, Adds(left)) => Known(d, Adds(rest))
  BY <1>1 DEF Known, rest
<1>5. Orderly(rest) /\ Adds(rest) \subseteq Adds(left) /\ Takes(rest) \subseteq Takes(left)
  BY <1>1 DEF rest
<1>6. version # goal
  BY DEF Course
<1> QED BY <1>2, <1>3, <1>4, <1>5, <1>6 DEF Course, rest

\* What a statement makes of a view.
LEMMA RunParts ==
  ASSUME NEW d, NEW w, View(d, w), NEW step
  PROVE  LET new == Run(step, w)
         IN  /\ new.version = w.version
             /\ \A e : e \in new.schema <=>
                  e \in step.adds \/ (e \in w.schema /\ e \notin step.drops
                                      /\ ~(Table(e[2]) \in step.drops /\ e[1] # "scratch"))
             /\ new.rows.orphans \subseteq w.rows.orphans
<1> DEFINE mid == Relabelled(step.write, w.rows)
           kept == Kept(mid, step)
           new == Run(step, w)
<1>1. /\ new.version = w.version /\ new.schema = (w.schema \ Dropped(step, w.schema)) \cup step.adds
      /\ new.rows = kept
  BY DEF Run, View
<1>2. mid.orphans = w.rows.orphans
  BY DEF Relabelled, View
<1> HIDE DEF mid
<1>3. kept.orphans \subseteq mid.orphans
  BY DEF Kept
<1> HIDE DEF kept, new
<1>4. \A e : e \in Dropped(step, w.schema) <=>
        e \in w.schema /\ (e \in step.drops \/ (Table(e[2]) \in step.drops /\ e[1] # "scratch"))
  BY DEF Dropped
<1> QED BY <1>1, <1>2, <1>3, <1>4 DEF new

\* A statement moves nothing of the result from what is left to what is there, or back.
LEMMA ResultStays ==
  ASSUME NEW d \in Dialects, NEW w, View(d, w), NEW left, NEW goal, goal \in 0 .. Latest,
         left \in Seq(Range(left)), left # << >>, Course(d, left, w.version, goal),
         NEW e, ~Scrap(d, e)
  PROVE  e \in Result(Tail(left), Run(Head(left), w).schema) <=> e \in Result(left, w.schema)
<1> DEFINE step == Head(left)
           rest == Tail(left)
           new == Run(step, w)
<1>1. /\ Adds(left) = step.adds \cup Adds(rest) /\ Takes(left) = step.drops \cup Takes(rest)
  BY FirstStatement
<1>2. \A b : b \in new.schema <=>
        b \in step.adds \/ (b \in w.schema /\ b \notin step.drops
                            /\ ~(Table(b[2]) \in step.drops /\ b[1] # "scratch"))
  BY RunParts
<1>3. w.version \in 0 .. Latest
  BY DEF View
<1>4. Table(e[2])[1] = "table"
  BY DEF Table
<1> HIDE DEF step, rest, new
<1>5. e \in Result(rest, new.schema) <=> e \in Result(left, w.schema)
  <2>1. CASE w.version < goal
    <3>1. \A b \in Takes(left) : b[1] = "scratch" /\ d # "postgresql"
      <4>1. w.version <= goal
        BY <1>3, <2>1
      <4> QED BY <4>1 DEF Course, Scrap
    <3>2. ~Gone(rest, e) /\ ~Gone(left, e)
      BY <1>1, <1>4, <3>1 DEF Gone, Scrap
    <3>3. e \in new.schema <=> e \in step.adds \/ e \in w.schema
      BY <1>1, <1>2, <1>4, <3>1 DEF Scrap
    <3> QED BY <1>1, <3>2, <3>3 DEF Result
  <2>2. CASE w.version >= goal
    <3>1. e \notin Adds(left)
      BY <2>2 DEF Course
    <3> QED BY <1>1, <1>2, <3>1 DEF Result, Gone
  <2> QED BY <1>3, <2>1, <2>2
<1> QED BY <1>5 DEF step, rest, new

\* Where a run sets out from a version for the next.
LEMMA Departs ==
  ASSUME NEW d \in Dialects, NEW s, NEW version \in 0 .. Latest, NEW goal \in 0 .. Latest
  PROVE  LET left == Statements(d, s, version, goal)
         IN  /\ Course(d, left, version, goal)
             /\ d = "postgresql" /\ Same(s, version) => Same(Result(left, s), Heading(version, goal))
             /\ d = "sqlite" /\ Known(d, s) /\ Fresh[version][d] \subseteq s =>
                  Fresh[Heading(version, goal)][d] \subseteq Result(left, s)
             /\ version = 15 /\ goal > 15 => Whole(Result(left, s))
<1> DEFINE left == Statements(d, s, version, goal)
<1>l. Latest = 19
  BY DEF Latest
<1>1. Course(d, left, version, goal)
  BY CourseStarts
<1>2. version = 15 /\ goal > 15 => Whole(Result(left, s))
  BY WholeStart
<1>3. CASE version < goal
  <2> DEFINE n == version + 1
  <2>1. n \in 1 .. Latest /\ n <= goal /\ version = n - 1
    BY <1>l, <1>3
  <2>2. left = Revision(n, d, s).up /\ Heading(version, goal) = n
    BY <1>3, <2>1, StatementsOf DEF Heading
  <2> HIDE DEF n, left
  <2> QED BY <1>1, <1>2, <2>1, <2>2, UpPostgres, UpSqlite DEF left
<1>4. CASE version > goal
  <2>1. version \in 1 .. Latest /\ goal < version
    BY <1>l, <1>4
  <2>2. left = Revision(version, d, s).down /\ Heading(version, goal) = version - 1
    BY <2>1, StatementsOf DEF Heading
  <2> HIDE DEF left
  <2> QED BY <1>1, <1>2, <2>1, <2>2, DownPostgres, DownSqlite DEF left
<1>5. CASE version = goal
  <2>1. left = << >> /\ Heading(version, goal) = version
    BY <1>5 DEF Statements, Heading
  <2>2. Result(left, s) = s
    BY <2>1, NothingLeft
  <2> HIDE DEF left
  <2> QED BY <1>1, <1>2, <2>1, <2>2 DEF left
<1> QED BY <1>3, <1>4, <1>5

\* A step that touches columns and scratch tables only leaves references as they are.
LEMMA WholeKept ==
  ASSUME NEW d, NEW s, NEW t, Whole(s),
         \A e : e[1] \in {"table", "key"} => (e \in s <=> e \in t)
  PROVE  Whole(t)
<1> SUFFICES ASSUME NEW fk \in Range(RequiredFks), Attachable(t, fk) PROVE Enforced(t, fk)
  BY DEF Whole, Holds
<1>1. Attachable(s, fk)
  BY DEF Attachable, Table
<1>2. PICK e \in s : e[1] = "key" /\ e[2] = fk[1] /\ e[3] = fk[2] /\ e[4] = fk[3]
  BY <1>1 DEF Whole, Holds, Enforced, KeysOn
<1> QED BY <1>2 DEF Enforced, KeysOn

-----------------------------------------------------------------------------
(* The steps.                                                              *)

LEMMA SchemaInit == ASSUME Init PROVE SchemaInv
<1>1. /\ ~run.on /\ disk = Empty /\ work = Empty /\ cut = {} /\ dialect \in Dialects
      /\ disk.version = 0 /\ disk.schema = {} /\ disk.rows.orphans = {}
  BY DEF Init, Idle, Empty, NoRows
<1>2. Fresh[0]["postgresql"] = {} /\ Fresh[0]["sqlite"] = {}
  BY FreshUnfolds DEF Dialects
<1>3. PostgresInv
  BY <1>1, <1>2 DEF PostgresInv, Same
<1>4. SqliteInv
  BY <1>1, <1>2 DEF SqliteInv, Known
<1>5. ParityInv /\ OrphanInv
  BY <1>1 DEF ParityInv, OrphanInv, Free
<1> QED BY <1>1, <1>3, <1>4, <1>5 DEF SchemaInv

LEMMA SchemaStarts ==
  ASSUME HistoryInv, SchemaInv, ~run.on, NEW goal \in 0 .. Latest,
         UNCHANGED <<dialect, disk, work, cut, crashes>>,
         run' = [on |-> TRUE, goal |-> goal, open |-> FALSE,
                 left |-> Statements(dialect, disk.schema, disk.version, goal)]
  PROVE  SchemaInv'
<1> DEFINE left == Statements(dialect, disk.schema, disk.version, goal)
<1>1. work = disk /\ disk.version \in 0 .. Latest /\ dialect \in Dialects
  BY DEF HistoryInv, RunOK, View
<1>2. /\ Course(dialect, left, disk.version, goal)
      /\ dialect = "postgresql" /\ Same(disk.schema, disk.version) =>
           Same(Result(left, disk.schema), Heading(disk.version, goal))
      /\ dialect = "sqlite" /\ Known(dialect, disk.schema) /\ Fresh[disk.version][dialect] \subseteq disk.schema =>
           Fresh[Heading(disk.version, goal)][dialect] \subseteq Result(left, disk.schema)
      /\ disk.version = 15 /\ goal > 15 => Whole(Result(left, disk.schema))
  BY <1>1, Departs
<1>3. ASSUME dialect = "sqlite", NEW o \in disk.rows.orphans, KeysOn(Adds(left), o[1], o[2]) # {}
      PROVE  o \in Head(left).orphans
  <2>1. <<o[1], o[2]>> \in Loose /\ o[3] \in Ids /\ o = <<o[1], o[2], o[3]>>
    BY DEF SchemaInv, OrphanInv, Free
  <2> QED BY <1>1, <1>3, <2>1, OrphanStart
<1>4. run'.on /\ run'.goal = goal /\ run'.left = left /\ run'.open = FALSE
  OBVIOUS
<1> HIDE DEF left
<1>5. PostgresInv'
  BY <1>1, <1>2, <1>4 DEF SchemaInv, PostgresInv
<1>6. SqliteInv'
  BY <1>1, <1>2, <1>4 DEF SchemaInv, SqliteInv
<1>7. ParityInv'
  BY <1>1, <1>2, <1>4 DEF SchemaInv, ParityInv
<1>8. OrphanInv'
  BY <1>1, <1>3, <1>4 DEF SchemaInv, OrphanInv, Free
<1> QED BY <1>1, <1>2, <1>4, <1>5, <1>6, <1>7, <1>8 DEF SchemaInv

LEMMA SchemaRecords == ASSUME HistoryInv, SchemaInv, Record PROVE SchemaInv'
<1> DEFINE s == work.schema
           version == IF work.version < run.goal THEN work.version + 1 ELSE work.version - 1
           left == Statements(dialect, s, version, run.goal)
<1>1. /\ run.on /\ run.left = << >> /\ work.version # run.goal
      /\ work' = [work EXCEPT !.version = version]
      /\ disk' = IF dialect = "sqlite" THEN work' ELSE disk
      /\ run' = [run EXCEPT !.open = FALSE,
                            !.left = Statements(dialect, work'.schema, work'.version, run.goal)]
      /\ UNCHANGED <<dialect, cut, disturbances, crashes>>
  BY DEF Record
<1>2. /\ View(dialect, work) /\ run.goal \in 0 .. Latest /\ dialect \in Dialects
      /\ DOMAIN run = {"on", "goal", "open", "left"}
  BY <1>1 DEF HistoryInv, RunOK
<1>3. Latest = 19 /\ work.version \in 0 .. Latest
  BY <1>2 DEF View, Latest
<1>4. version \in 0 .. Latest /\ version = Heading(work.version, run.goal)
  <2>1. work.version # run.goal /\ run.goal \in 0 .. 19 /\ work.version \in 0 .. 19
    BY <1>1, <1>2, <1>3
  <2>2. CASE work.version < run.goal
    BY <1>3, <2>1, <2>2 DEF Heading
  <2>3. CASE work.version > run.goal
    BY <1>3, <2>1, <2>3 DEF Heading
  <2> QED BY <2>1, <2>2, <2>3
<1>5. work'.version = version /\ work'.schema = s /\ work'.rows = work.rows
  BY <1>1, <1>2 DEF View
<1>6. run'.on /\ run'.goal = run.goal /\ run'.left = left /\ run'.open = FALSE
  BY <1>1, <1>2, <1>5
<1>7. /\ Course(dialect, left, version, run.goal)
      /\ dialect = "postgresql" /\ Same(s, version) => Same(Result(left, s), Heading(version, run.goal))
      /\ dialect = "sqlite" /\ Known(dialect, s) /\ Fresh[version][dialect] \subseteq s =>
           Fresh[Heading(version, run.goal)][dialect] \subseteq Result(left, s)
      /\ version = 15 /\ run.goal > 15 => Whole(Result(left, s))
  BY <1>2, <1>4, Departs
<1>8. Result(run.left, s) = s
  BY <1>1, NothingLeft
<1>9. version >= 16 => Whole(s)
  <2> SUFFICES ASSUME version >= 16 PROVE Whole(s)
    OBVIOUS
  <2>1. (work.version = 15 /\ run.goal > 15) \/ work.version >= 16
    BY <1>1, <1>2, <1>3
  <2>2. ~Unparity(work.version, run.goal)
    BY <1>2, <1>3 DEF Unparity
  <2> QED BY <1>1, <1>8, <2>1, <2>2 DEF SchemaInv, ParityInv
<1>10. ASSUME dialect = "sqlite", NEW o \in work.rows.orphans, KeysOn(Adds(left), o[1], o[2]) # {}
       PROVE  o \in Head(left).orphans
  <2>1. <<o[1], o[2]>> \in Loose /\ o[3] \in Ids /\ o = <<o[1], o[2], o[3]>>
    BY DEF SchemaInv, OrphanInv, Free
  <2> QED BY <1>2, <1>4, <1>10, <2>1, OrphanStart
<1> HIDE DEF left, version, s
<1>11. PostgresInv'
  <2> SUFFICES ASSUME dialect = "postgresql" PROVE PostgresInv'
    BY <1>1 DEF PostgresInv
  <2>1. Same(s, version) /\ Same(disk.schema, disk.version) /\ disk' = disk
    BY <1>1, <1>4, <1>8 DEF SchemaInv, PostgresInv, s
  <2> QED BY <1>5, <1>6, <1>7, <2>1 DEF PostgresInv
<1>12. SqliteInv'
  <2> SUFFICES ASSUME dialect = "sqlite" PROVE SqliteInv'
    BY <1>1 DEF SqliteInv
  <2>1. disk' = work' /\ Known(dialect, s) /\ cut' = cut /\ dialect' = dialect
    BY <1>1 DEF SchemaInv, SqliteInv, s
  <2>2. "down" \notin cut => Fresh[version][dialect] \subseteq s
    BY <1>1, <1>4, <1>8 DEF SchemaInv, SqliteInv, s
  <2> QED BY <1>5, <1>6, <1>7, <2>1, <2>2 DEF SqliteInv
<1>13. ParityInv'
  <2>1. disk' = disk \/ disk' = work'
    BY <1>1
  <2> QED BY <1>5, <1>6, <1>7, <1>9, <2>1 DEF SchemaInv, ParityInv
<1>14. OrphanInv'
  <2>1. disk' = disk \/ disk' = work'
    BY <1>1
  <2>2. Free(disk) /\ Free(work)
    BY DEF SchemaInv, OrphanInv
  <2>3. Free(work)'
    BY <1>5, <2>2 DEF Free, s
  <2>4. Free(disk)'
    BY <2>1, <2>2, <2>3 DEF Free
  <2> QED BY <1>1, <1>5, <1>6, <1>10, <2>3, <2>4 DEF OrphanInv
<1> QED BY <1>1, <1>5, <1>6, <1>7, <1>11, <1>12, <1>13, <1>14 DEF SchemaInv

LEMMA SchemaExecutes == ASSUME HistoryInv, SchemaInv, Execute PROVE SchemaInv'
<1>1. PICK step : step = Head(run.left)
  OBVIOUS
<1>2. PICK rest : rest = Tail(run.left)
  OBVIOUS
<1>3. PICK v : v = work.version
  OBVIOUS
<1>4. PICK s : s = work.schema
  OBVIOUS
<1>5. PICK t : t = work'.schema
  OBVIOUS
<1>6. /\ run.on /\ run.left # << >> /\ Succeeds(dialect, step, work)
      /\ work' = Run(step, work) /\ disk' = IF Durable(step) THEN work' ELSE disk
      /\ run' = [run EXCEPT !.left = rest, !.open = @ \/ step.mode = "rows"]
      /\ UNCHANGED <<dialect, cut, disturbances, crashes>>
  BY <1>1, <1>2 DEF Execute
<1>7. /\ View(dialect, work) /\ run.goal \in 0 .. Latest /\ dialect \in Dialects
      /\ DOMAIN run = {"on", "goal", "open", "left"} /\ run.left \in Seq(Range(run.left))
  BY <1>6 DEF HistoryInv, RunOK, Plan
<1>8. v \in 0 .. Latest /\ Latest = 19
  BY <1>3, <1>7 DEF View, Latest
<1>9. run'.on = run.on /\ run'.goal = run.goal /\ run'.left = rest /\ run'.open = (run.open \/ step.mode = "rows")
  BY <1>6, <1>7
<1>10. /\ step \in Range(run.left) /\ Range(rest) \subseteq Range(run.left)
       /\ Adds(run.left) = step.adds \cup Adds(rest) /\ Takes(run.left) = step.drops \cup Takes(rest)
       /\ ~Calm(rest) \/ step.mode = "commit" =>
            step.drops = {} /\ \A e \in step.adds : e[1] \in {"type", "label"}
  BY <1>1, <1>2, <1>6, <1>7, FirstStatement DEF SchemaInv, Course
<1>11. Course(dialect, run.left, v, run.goal) /\ Course(dialect, rest, v, run.goal)
  BY <1>2, <1>3, <1>6, <1>7, CourseGoesOn DEF SchemaInv
<1>12. /\ work'.version = v
       /\ \A e : e \in t <=> e \in step.adds \/ (e \in s /\ e \notin step.drops
                                                  /\ ~(Table(e[2]) \in step.drops /\ e[1] # "scratch"))
       /\ work'.rows.orphans \subseteq work.rows.orphans
  BY <1>3, <1>4, <1>5, <1>6, <1>7, RunParts
<1>13. \A e : ~Scrap(dialect, e) => (e \in Result(rest, t) <=> e \in Result(run.left, s))
  BY <1>1, <1>2, <1>3, <1>4, <1>5, <1>6, <1>7, <1>11, ResultStays
<1>14. disk' = disk \/ (disk' = work' /\ Durable(step))
  BY <1>6
<1>15. \A e : Table(e[2])[1] = "table"
  BY DEF Table
<1>16. v >= run.goal => Calm(run.left) /\ step.mode # "commit"
  BY <1>10, <1>11 DEF Course, Calm
<1>17. PostgresInv'
  <2> SUFFICES ASSUME dialect = "postgresql" PROVE PostgresInv'
    BY <1>6 DEF PostgresInv
  <2>1. Durable(step) => step.mode = "commit"
    BY DEF Durable
  <2>2. ASSUME ~Calm(rest) \/ step.mode = "commit" PROVE Same(t, v)
    <3>1. ~Calm(run.left)
      BY <1>10, <2>2 DEF Calm
    <3>2. Same(s, v)
      BY <1>3, <1>4, <1>6, <3>1 DEF SchemaInv, PostgresInv
    <3>3. \A e : Relevant(e, v) => (e \in s <=> e \in t)
      BY <1>10, <1>12, <2>2 DEF Relevant
    <3> QED BY <3>2, <3>3, SameIff
  <2>3. Same(Result(rest, t), Heading(v, run.goal))
    <3>1. \A e : e \in Result(rest, t) <=> e \in Result(run.left, s)
      BY <1>13 DEF Scrap
    <3>2. Same(Result(run.left, s), Heading(v, run.goal))
      BY <1>3, <1>4, <1>6 DEF SchemaInv, PostgresInv
    <3> QED BY <3>1, <3>2, SameIff
  <2>4. Same(disk'.schema, disk'.version)
    <3>1. Same(disk.schema, disk.version)
      BY DEF SchemaInv, PostgresInv
    <3> QED BY <1>5, <1>12, <1>14, <2>1, <2>2, <3>1
  <2> QED BY <1>5, <1>9, <1>12, <2>2, <2>3, <2>4 DEF PostgresInv
<1>18. SqliteInv'
  <2> SUFFICES ASSUME dialect = "sqlite" PROVE SqliteInv'
    BY <1>6 DEF SqliteInv
  <2>1. /\ disk.version = v /\ Known(dialect, disk.schema) /\ Known(dialect, s)
        /\ "down" \notin cut =>
             /\ Fresh[Heading(v, run.goal)][dialect] \subseteq Result(run.left, s)
             /\ v < run.goal => Fresh[v][dialect] \subseteq disk.schema /\ Fresh[v][dialect] \subseteq s
    BY <1>3, <1>4, <1>6 DEF SchemaInv, SqliteInv
  <2>2. Known(dialect, t)
    <3>1. Known(dialect, Adds(run.left))
      BY <1>11 DEF Course
    <3> QED BY <1>10, <1>12, <2>1, <3>1 DEF Known
  <2>3. \A i \in 0 .. Latest : \A e \in Fresh[i][dialect] : e[1] # "scratch"
    BY <1>7, FreshFacts DEF Old
  <2>4. "down" \notin cut => Fresh[Heading(v, run.goal)][dialect] \subseteq Result(rest, t)
    <3>1. Heading(v, run.goal) \in 0 .. Latest
      BY <1>7, <1>8 DEF Heading
    <3> QED BY <1>13, <2>1, <2>3, <3>1 DEF Scrap
  <2>5. "down" \notin cut /\ v < run.goal => Fresh[v][dialect] \subseteq t
    <3> SUFFICES ASSUME "down" \notin cut, v < run.goal, NEW e \in Fresh[v][dialect] PROVE e \in t
      OBVIOUS
    <3>1. e \in s /\ e[1] # "scratch"
      BY <1>8, <2>1, <2>3
    <3>2. \A b \in step.drops : b[1] = "scratch"
      <4>1. v <= run.goal
        BY <1>7, <1>8
      <4> QED BY <1>10, <1>11, <4>1 DEF Course, Scrap
    <3> QED BY <1>12, <1>15, <3>1, <3>2
  <2>6. /\ disk'.version = v /\ Known(dialect, disk'.schema)
        /\ "down" \notin cut /\ v < run.goal => Fresh[v][dialect] \subseteq disk'.schema
    BY <1>5, <1>12, <1>14, <2>1, <2>2, <2>5
  <2> QED BY <1>5, <1>6, <1>9, <1>12, <2>2, <2>4, <2>5, <2>6 DEF SqliteInv
<1>19. ParityInv'
  <2>1. v = 15 /\ run.goal > 15 => Whole(Result(rest, t))
    <3>1. v = 15 /\ run.goal > 15 => Whole(Result(run.left, s))
      BY <1>3, <1>4, <1>6 DEF SchemaInv, ParityInv
    <3>2. \A e : e[1] \in {"table", "key"} => (e \in Result(run.left, s) <=> e \in Result(rest, t))
      BY <1>13 DEF Scrap
    <3> QED BY <3>1, <3>2, WholeKept
  <2>2. ASSUME v >= 16, \A e \in step.adds \cup step.drops : e[1] \notin {"table", "key"}, Whole(s)
        PROVE  Whole(t)
    <3>1. \A e : e[1] \in {"table", "key"} => (e \in s <=> e \in t)
      BY <1>12, <1>15, <2>2
    <3> QED BY <2>2, <3>1, WholeKept
  <2>3. v >= 16 => Whole(s) \/ (Unparity(v, run.goal) /\ (dialect = "postgresql" \/ run.open))
    BY <1>3, <1>4, <1>6 DEF SchemaInv, ParityInv
  <2>4. ASSUME v >= 16, ~Unparity(v, run.goal) PROVE Whole(t)
    <3>1. \A e \in step.adds \cup step.drops : e[1] \notin {"table", "key"}
      BY <1>10, <1>11, <2>4 DEF Course, Scrap
    <3> QED BY <2>2, <2>3, <2>4, <3>1
  <2>5. ASSUME v >= 16, Unparity(v, run.goal), dialect # "postgresql", ~run.open, step.mode # "rows"
        PROVE  Whole(t)
    <3>1. step.drops = {}
      BY <1>10, <1>11, <2>5 DEF Course, Rebuilds
    <3>2. \A e \in step.adds : e[1] = "scratch"
      <4>1. v >= run.goal
        BY <1>7, <2>5 DEF Unparity
      <4> QED BY <1>10, <1>11, <4>1 DEF Course, Scrap
    <3> QED BY <2>2, <2>3, <2>5, <3>1, <3>2
  <2>6. v >= 16 => Whole(t) \/ (Unparity(v, run.goal) /\ (dialect = "postgresql" \/ run'.open))
    BY <1>9, <2>4, <2>5
  <2>7. disk'.version >= 16 => Whole(disk'.schema)
    <3>1. disk.version >= 16 => Whole(disk.schema)
      BY DEF SchemaInv, ParityInv
    <3>2. ASSUME Durable(step), v >= 16 PROVE Whole(t)
      <4> SUFFICES ASSUME Unparity(v, run.goal) PROVE Whole(t)
        BY <2>4, <3>2
      <4>1. step.mode # "commit"
        <5>1. v >= run.goal
          BY <1>7, <3>2 DEF Unparity
        <5> QED BY <1>16, <5>1
      <4>2. dialect = "sqlite" /\ ~run.open /\ step.mode = "schema"
        BY <3>2, <4>1 DEF Durable
      <4> QED BY <2>5, <3>2, <4>2
    <3> QED BY <1>5, <1>12, <1>14, <3>1, <3>2
  <2> QED BY <1>5, <1>6, <1>9, <1>12, <2>1, <2>6, <2>7 DEF ParityInv
<1>20. OrphanInv'
  <2>1. Free(disk) /\ Free(work)
    BY DEF SchemaInv, OrphanInv
  <2>2. ASSUME NEW o \in work.rows.orphans, dialect = "sqlite" PROVE KeysOn(Adds(run.left), o[1], o[2]) = {}
    <3>1. step.orphans \cap work.rows.orphans = {}
      BY <1>6 DEF Succeeds
    <3> QED BY <1>1, <1>6, <2>2, <3>1 DEF SchemaInv, OrphanInv
  <2>3. ASSUME NEW o \in work.rows.orphans PROVE KeysOn(step.adds, o[1], o[2]) = {}
    <3>1. CASE dialect = "postgresql"
      <4>1. \A e \in step.adds : e[1] = "key" => <<o[1], o[2]>> # <<e[2], e[3]>>
        BY <1>6, <3>1 DEF Succeeds, Accepts
      <4> QED BY <4>1 DEF KeysOn
    <3>2. CASE dialect = "sqlite"
      BY <1>10, <2>2, <3>2 DEF KeysOn
    <3> QED BY <1>7, <3>1, <3>2 DEF Dialects
  <2>4. Free(work)'
    <3> SUFFICES ASSUME NEW o \in work'.rows.orphans
                 PROVE  /\ <<o[1], o[2]>> \in Loose /\ o[3] \in Ids /\ o = <<o[1], o[2], o[3]>>
                        /\ KeysOn(t, o[1], o[2]) = {}
      BY <1>5 DEF Free
    <3>1. o \in work.rows.orphans
      BY <1>12
    <3>2. /\ <<o[1], o[2]>> \in Loose /\ o[3] \in Ids /\ o = <<o[1], o[2], o[3]>>
          /\ KeysOn(s, o[1], o[2]) = {}
      BY <1>4, <2>1, <3>1 DEF Free
    <3>3. KeysOn(step.adds, o[1], o[2]) = {}
      BY <2>3, <3>1
    <3>4. KeysOn(t, o[1], o[2]) = {}
      BY <1>12, <3>2, <3>3 DEF KeysOn
    <3> QED BY <3>2, <3>4
  <2>5. Free(disk)'
    BY <1>14, <2>1, <2>4 DEF Free
  <2>6. ASSUME dialect = "sqlite", NEW o \in work'.rows.orphans PROVE KeysOn(Adds(rest), o[1], o[2]) = {}
    <3>1. KeysOn(Adds(run.left), o[1], o[2]) = {}
      BY <1>12, <2>2, <2>6
    <3> QED BY <1>10, <3>1 DEF KeysOn
  <2> QED BY <1>6, <1>9, <2>4, <2>5, <2>6 DEF OrphanInv
<1> QED BY <1>6, <1>9, <1>11, <1>12, <1>17, <1>18, <1>19, <1>20 DEF SchemaInv

LEMMA SchemaFinishes == ASSUME HistoryInv, SchemaInv, Finish PROVE SchemaInv'
<1>1. /\ run.on /\ run.left = << >> /\ work.version = run.goal
      /\ disk' = work /\ work' = work /\ run' = Idle /\ dialect' = dialect /\ cut' = cut
  BY DEF Finish
<1>2. ~run'.on
  BY <1>1 DEF Idle
<1>3. run.goal \in 0 .. Latest /\ Result(run.left, work.schema) = work.schema
  BY <1>1, NothingLeft DEF HistoryInv, RunOK
<1>4. Heading(work.version, run.goal) = work.version /\ ~Unparity(work.version, run.goal)
  BY <1>1, <1>3 DEF Heading, Unparity, Latest
<1>5. PostgresInv'
  BY <1>1, <1>2, <1>3, <1>4 DEF SchemaInv, PostgresInv
<1>6. SqliteInv'
  BY <1>1, <1>2, <1>3, <1>4 DEF SchemaInv, SqliteInv
<1>7. ParityInv'
  BY <1>1, <1>2, <1>4 DEF SchemaInv, ParityInv
<1>8. OrphanInv'
  BY <1>1, <1>2 DEF SchemaInv, OrphanInv, Free
<1> QED BY <1>2, <1>5, <1>6, <1>7, <1>8 DEF SchemaInv

LEMMA SchemaStops == ASSUME HistoryInv, SchemaInv, run.on, Stop PROVE SchemaInv'
<1>1. /\ disk' = disk /\ work' = disk /\ run' = Idle /\ dialect' = dialect
      /\ cut \subseteq cut' /\ ("down" \notin cut' => work.version < run.goal)
  BY DEF Stop
<1>2. ~run'.on
  BY <1>1 DEF Idle
<1>3. PostgresInv'
  BY <1>1, <1>2 DEF SchemaInv, PostgresInv
<1>4. SqliteInv'
  BY <1>1, <1>2 DEF SchemaInv, SqliteInv
<1>5. ParityInv' /\ OrphanInv'
  BY <1>1, <1>2 DEF SchemaInv, ParityInv, OrphanInv, Free
<1> QED BY <1>2, <1>3, <1>4, <1>5 DEF SchemaInv

\* A write between two runs leaves the schema, and puts a dangling row where no key is.
LEMMA SchemaWrites ==
  ASSUME HistoryInv, SchemaInv,
         WriteTransaction \/ WriteMandate \/ WriteEvent \/ WriteOrphan \/ Resolve
  PROVE  SchemaInv'
<1> DEFINE Sound(rows) == \A o \in rows.orphans :
             /\ <<o[1], o[2]>> \in Loose /\ o[3] \in Ids /\ o = <<o[1], o[2], o[3]>>
             /\ KeysOn(disk.schema, o[1], o[2]) = {}
<1>1. View(dialect, disk) /\ DOMAIN disk.rows = {"txn", "mandate", "digest", "marked", "stripped", "orphans"}
  BY DEF HistoryInv, View
<1>2. Sound(disk.rows)
  BY DEF SchemaInv, OrphanInv, Free
<1>3. ASSUME NEW rows, Write(rows), Sound(rows) PROVE SchemaInv'
  <2>1. /\ ~run.on /\ work = disk /\ disk' = [disk EXCEPT !.rows = rows] /\ work' = disk'
        /\ run' = run /\ dialect' = dialect /\ cut' = cut
    BY <1>3 DEF Write, HistoryInv, RunOK
  <2>2. disk'.version = disk.version /\ disk'.schema = disk.schema /\ disk'.rows = rows
    BY <1>1, <2>1 DEF View
  <2>3. PostgresInv' /\ SqliteInv' /\ ParityInv'
    BY <2>1, <2>2 DEF SchemaInv, PostgresInv, SqliteInv, ParityInv
  <2>4. OrphanInv'
    BY <1>3, <2>1, <2>2 DEF OrphanInv, Free
  <2> QED BY <2>1, <2>3, <2>4 DEF SchemaInv
<1>4. \A x : /\ [disk.rows EXCEPT !.txn = x].orphans = disk.rows.orphans
             /\ [disk.rows EXCEPT !.mandate = x].orphans = disk.rows.orphans
             /\ [disk.rows EXCEPT !.orphans = x].orphans = x
  BY <1>1
<1>5. CASE WriteTransaction
  <2>1. PICK state : Write([disk.rows EXCEPT !.txn = state])
    BY <1>5 DEF WriteTransaction
  <2> QED BY <1>2, <1>3, <1>4, <2>1
<1>6. CASE WriteMandate
  <2>1. PICK status : Write([disk.rows EXCEPT !.mandate = status])
    BY <1>6 DEF WriteMandate
  <2> QED BY <1>2, <1>3, <1>4, <2>1
<1>7. CASE WriteEvent
  <2>1. PICK digest, marked : Write([disk.rows EXCEPT !.digest = digest, !.marked = marked])
    BY <1>7 DEF WriteEvent
  <2> DEFINE rows == [disk.rows EXCEPT !.digest = digest, !.marked = marked]
  <2>2. rows.orphans = disk.rows.orphans /\ Write(rows)
    BY <1>1, <2>1
  <2> HIDE DEF rows
  <2> QED BY <1>2, <1>3, <2>2
<1>8. CASE WriteOrphan
  <2>1. PICK o \in {<<"payment_intents", "agent_id", "unauthenticated">>,
                    <<"provider_transactions", "authorization_id", "deleted">>} :
          /\ KeysOn(disk.schema, o[1], o[2]) = {}
          /\ Write([disk.rows EXCEPT !.orphans = @ \cup {o}])
    BY <1>8 DEF WriteOrphan
  <2>2. <<o[1], o[2]>> \in Loose /\ o[3] \in Ids /\ o = <<o[1], o[2], o[3]>>
    BY DEF Loose, Ids
  <2> DEFINE rows == [disk.rows EXCEPT !.orphans = @ \cup {o}]
  <2>3. rows.orphans = disk.rows.orphans \cup {o} /\ Write(rows)
    BY <1>4, <2>1
  <2> HIDE DEF rows
  <2>4. Sound(rows)
    BY <1>2, <2>1, <2>2, <2>3
  <2> QED BY <1>3, <2>3, <2>4
<1>9. CASE Resolve
  <2>1. Write([disk.rows EXCEPT !.orphans = {}])
    BY <1>9 DEF Resolve
  <2> QED BY <1>3, <1>4, <2>1
<1> QED BY <1>5, <1>6, <1>7, <1>8, <1>9

LEMMA SchemaStep == ASSUME HistoryInv, SchemaInv, [Next]_vars PROVE SchemaInv'
<1>1. CASE UNCHANGED vars
  <2>1. /\ dialect' = dialect /\ disk' = disk /\ work' = work /\ run' = run /\ cut' = cut
    BY <1>1 DEF vars
  <2> QED BY <2>1 DEF SchemaInv, PostgresInv, SqliteInv, ParityInv, OrphanInv, Free
<1>2. CASE UpgradeHead
  <2>1. Latest \in 0 .. Latest
    BY DEF Latest
  <2> QED BY <1>2, <2>1, SchemaStarts DEF UpgradeHead
<1>3. ASSUME NEW goal \in Targets, Command(goal) PROVE SchemaInv'
  <2>1. goal \in 0 .. Latest
    BY TargetsAssumption DEF Latest
  <2> QED BY <1>3, <2>1, SchemaStarts DEF Command
<1>4. CASE Fail \/ Crash
  BY <1>4, SchemaStops DEF Fail, Crash
<1> QED BY <1>1, <1>2, <1>3, <1>4, SchemaExecutes, SchemaRecords, SchemaFinishes, SchemaWrites DEF Next

LEMMA SchemaHolds == ASSUME HistoryInv, SchemaInv PROVE SchemaSound
<1>1. SchemaOfVersion
  <2>1. CASE dialect = "postgresql"
    BY <2>1 DEF SchemaInv, PostgresInv, Same, SchemaOfVersion
  <2>2. CASE dialect = "sqlite"
    BY <2>2 DEF SchemaInv, SqliteInv, SchemaOfVersion
  <2> QED BY <2>1, <2>2 DEF HistoryInv, Dialects
<1>2. ReferencesHold
  <2> SUFFICES ASSUME disk.version >= 16, NEW fk \in Range(RequiredFks), Attachable(disk.schema, fk)
               PROVE  /\ Enforced(disk.schema, fk)
                      /\ \A o \in disk.rows.orphans : <<o[1], o[2]>> # <<fk[1], fk[2]>>
    BY DEF ReferencesHold
  <2>1. Enforced(disk.schema, fk)
    BY DEF SchemaInv, ParityInv, Whole, Holds
  <2>2. ASSUME NEW o \in disk.rows.orphans PROVE <<o[1], o[2]>> # <<fk[1], fk[2]>>
    <3>1. KeysOn(disk.schema, o[1], o[2]) = {}
      BY DEF SchemaInv, OrphanInv, Free
    <3>2. KeysOn(disk.schema, fk[1], fk[2]) # {}
      BY <2>1 DEF Enforced
    <3> QED BY <3>1, <3>2
  <2> QED BY <2>1, <2>2
<1> QED BY <1>1, <1>2 DEF SchemaSound

-----------------------------------------------------------------------------
(* That the statements of a run succeed, one after the other.              *)

\* The schema a statement leaves, and what its success says of the rows.
After(step, s) == (s \ Dropped(step, s)) \cup step.adds
Mark(step) == {o \in step.orphans : Len(o) = 3} \cup {<<step.write>>}
Passed(left) == UNION {Mark(step) : step \in Range(left)}
Before(left, i) == UNION {Mark(left[j]) : j \in 1 .. i - 1}

\* What a statement needs of the schema, and what must be known of the rows (c).
Able(d, step, s, c) ==
  /\ step.needs \cup step.drops \subseteq s
  /\ step.adds \cap s = {}
  /\ \A e \in step.adds : Host(e) \in s \cup step.adds
  /\ d = "postgresql" =>
       /\ \A e \in step.adds : e[1] = "key" =>
            /\ Table(e[4]) \in s \cup step.adds
            /\ <<e[2], e[3]>> \in Loose => \A id \in Ids : <<e[2], e[3], id>> \in c
       /\ step.drops # {} =>
            \A e \in s : e[1] = "key" /\ Table(e[4]) \in step.drops => Table(e[2]) \in step.drops
       /\ step.write = "cast" => <<"upper">> \in c

\* The schemas f a list of statements passes through.
Path(d, left, s, c, t, f) ==
  /\ f[1] = s /\ f[Len(left) + 1] = t
  /\ \A i \in 1 .. Len(left) :
       Able(d, left[i], f[i], c \cup Before(left, i)) /\ f[i + 1] = After(left[i], f[i])

Leads(d, left, s, c, t) == left \in Seq(Range(left)) /\ \E f : Path(d, left, s, c, t, f)

LEMMA DanglingMarks == \A refs : \A o \in Dangling(refs) : Len(o) = 3
<1> \A a, b, c : Len(<<a, b, c>>) = 3
  OBVIOUS
<1> QED BY DEF Dangling

LEMMA AbleMore ==
  ASSUME NEW d, NEW step, NEW s, NEW c, NEW b, Able(d, step, s, c), c \subseteq b
  PROVE  Able(d, step, s, b)
BY DEF Able

LEMMA LeadsNone ==
  ASSUME NEW d, NEW s, NEW c
  PROVE  Leads(d, << >>, s, c, s) /\ \A t : Leads(d, << >>, s, c, t) => t = s
<1>1. Len(<< >>) = 0 /\ 1 .. 0 = {} /\ << >> \in Seq(Range(<< >>))
  OBVIOUS
<1>2. ASSUME NEW t, NEW f, Path(d, << >>, s, c, t, f) PROVE t = s
  BY <1>1, <1>2 DEF Path
<1>3. Path(d, << >>, s, c, s, [i \in {1} |-> s])
  BY <1>1 DEF Path
<1> QED BY <1>1, <1>2, <1>3 DEF Leads

LEMMA LeadsOne ==
  ASSUME NEW d, NEW step, NEW s, NEW c, NEW t, Able(d, step, s, c), t = After(step, s)
  PROVE  Leads(d, <<step>>, s, c, t)
<1> DEFINE left == <<step>>
           f == [i \in {1, 2} |-> IF i = 1 THEN s ELSE t]
<1>1. Len(left) = 1 /\ left[1] = step /\ left \in Seq({step}) /\ 1 .. 1 = {1} /\ 1 + 1 = 2
  OBVIOUS
<1>2. left \in Seq(Range(left))
  BY <1>1, SelfSeq
<1>3. f[1] = s /\ f[2] = t
  OBVIOUS
<1> HIDE DEF left, f
<1>4. Able(d, step, s, c \cup Before(left, 1))
  BY AbleMore
<1>5. Path(d, left, s, c, t, f)
  BY <1>1, <1>3, <1>4 DEF Path
<1> QED BY <1>2, <1>5 DEF Leads, left

LEMMA LeadsMore ==
  ASSUME NEW d, NEW left, NEW s, NEW c, NEW t, NEW b, Leads(d, left, s, c, t), c \subseteq b
  PROVE  Leads(d, left, s, b, t)
<1>1. PICK f : Path(d, left, s, c, t, f)
  BY DEF Leads
<1>2. ASSUME NEW i \in 1 .. Len(left) PROVE Able(d, left[i], f[i], b \cup Before(left, i))
  <2>1. Able(d, left[i], f[i], c \cup Before(left, i))
    BY <1>1 DEF Path
  <2> QED BY <2>1, AbleMore
<1>3. Path(d, left, s, b, t, f)
  BY <1>1, <1>2 DEF Path
<1> QED BY <1>3 DEF Leads

LEMMA LeadsJoin ==
  ASSUME NEW d, NEW a, NEW b, NEW s, NEW t, NEW u, NEW c, NEW k,
         Leads(d, a, s, c, t), Leads(d, b, t, k, u), k \subseteq c \cup Passed(a)
  PROVE  Leads(d, a \o b, s, c, u)
<1> DEFINE S == Range(a) \cup Range(b)
           left == a \o b
           n == Len(a)
           m == Len(b)
<1>1. a \in Seq(S) /\ b \in Seq(S)
  <2>1. a \in Seq(Range(a)) /\ b \in Seq(Range(b))
    BY DEF Leads
  <2>2. Range(a) \subseteq S /\ Range(b) \subseteq S
    OBVIOUS
  <2> HIDE DEF S
  <2> QED BY <2>1, <2>2
<1>2. PICK f : Path(d, a, s, c, t, f)
  BY DEF Leads
<1>3. PICK g : Path(d, b, t, k, u, g)
  BY DEF Leads
<1> HIDE DEF S
<1>4. /\ left \in Seq(S) /\ Len(left) = n + m
      /\ \A i \in 1 .. n + m : left[i] = IF i <= n THEN a[i] ELSE b[i - n]
  BY <1>1, ConcatProperties
<1>5. n \in Nat /\ m \in Nat /\ DOMAIN a = 1 .. n
  BY <1>1
<1> HIDE DEF left, n, m
<1> DEFINE h == [i \in 1 .. n + m + 1 |-> IF i <= n THEN f[i] ELSE g[i - n]]
<1>6. \A i \in 1 .. n + 1 : h[i] = f[i]
  <2>1. f[n + 1] = t /\ g[1] = t /\ (n + 1) - n = 1
    BY <1>2, <1>3, <1>5 DEF Path, n
  <2> QED BY <1>5, <2>1
<1>7. \A i \in 1 .. m + 1 : h[n + i] = g[i]
  <2> SUFFICES ASSUME NEW i \in 1 .. m + 1 PROVE h[n + i] = g[i]
    OBVIOUS
  <2>1. n + i \in 1 .. n + m + 1 /\ ~(n + i <= n) /\ (n + i) - n = i
    BY <1>5
  <2> QED BY <2>1
<1> HIDE DEF h
<1>8. ASSUME NEW i \in 1 .. n
      PROVE  Able(d, left[i], h[i], c \cup Before(left, i)) /\ h[i + 1] = After(left[i], h[i])
  <2>1. left[i] = a[i] /\ h[i] = f[i] /\ h[i + 1] = f[i + 1] /\ \A j \in 1 .. i - 1 : left[j] = a[j]
    <3>1. i \in 1 .. n + m /\ i <= n /\ i \in 1 .. n + 1 /\ i + 1 \in 1 .. n + 1
      BY <1>5
    <3>2. \A j \in 1 .. i - 1 : j \in 1 .. n + m /\ j <= n
      BY <1>5
    <3> QED BY <1>4, <1>6, <3>1, <3>2
  <2>2. Before(left, i) = Before(a, i)
    BY <2>1 DEF Before
  <2>3. Able(d, a[i], f[i], c \cup Before(a, i)) /\ f[i + 1] = After(a[i], f[i])
    BY <1>2 DEF Path, n
  <2> QED BY <2>1, <2>2, <2>3
<1>9. ASSUME NEW i \in 1 .. m
      PROVE  /\ Able(d, left[n + i], h[n + i], c \cup Before(left, n + i))
             /\ h[(n + i) + 1] = After(left[n + i], h[n + i])
  <2>1. left[n + i] = b[i]
    <3>1. n + i \in 1 .. n + m /\ ~(n + i <= n) /\ (n + i) - n = i
      BY <1>5
    <3> QED BY <1>4, <3>1
  <2>2. h[n + i] = g[i] /\ h[(n + i) + 1] = g[i + 1]
    <3>1. i \in 1 .. m + 1 /\ i + 1 \in 1 .. m + 1 /\ (n + i) + 1 = n + (i + 1)
      BY <1>5
    <3> QED BY <1>7, <3>1
  <2>3. Able(d, b[i], g[i], k \cup Before(b, i)) /\ g[i + 1] = After(b[i], g[i])
    BY <1>3 DEF Path, m
  <2>4. Passed(a) \subseteq Before(left, n + i)
    <3> SUFFICES ASSUME NEW j \in 1 .. n PROVE Mark(a[j]) \subseteq Before(left, n + i)
      BY <1>5 DEF Passed, Range
    <3>1. j \in 1 .. (n + i) - 1 /\ left[j] = a[j]
      BY <1>4, <1>5
    <3> QED BY <3>1 DEF Before
  <2>5. Before(b, i) \subseteq Before(left, n + i)
    <3> SUFFICES ASSUME NEW j \in 1 .. i - 1 PROVE Mark(b[j]) \subseteq Before(left, n + i)
      BY DEF Before
    <3>1. n + j \in 1 .. (n + i) - 1 /\ n + j \in 1 .. n + m /\ ~(n + j <= n) /\ (n + j) - n = j
      BY <1>5
    <3>2. left[n + j] = b[j]
      BY <1>4, <3>1
    <3> QED BY <3>1, <3>2 DEF Before
  <2>6. k \cup Before(b, i) \subseteq c \cup Before(left, n + i)
    BY <2>4, <2>5
  <2> QED BY <2>1, <2>2, <2>3, <2>6, AbleMore
<1>10. Path(d, left, s, c, u, h)
  <2>1. h[1] = s
    BY <1>2, <1>5, <1>6 DEF Path
  <2>2. h[(n + m) + 1] = u
    <3>1. m + 1 \in 1 .. m + 1 /\ (n + m) + 1 = n + (m + 1)
      BY <1>5
    <3> QED BY <1>3, <1>7, <3>1 DEF Path, m
  <2>3. ASSUME NEW i \in 1 .. n + m
        PROVE  Able(d, left[i], h[i], c \cup Before(left, i)) /\ h[i + 1] = After(left[i], h[i])
    <3>1. CASE i <= n
      BY <1>5, <1>8, <3>1
    <3>2. CASE ~(i <= n)
      <4>1. i - n \in 1 .. m /\ n + (i - n) = i
        BY <1>5, <3>2
      <4> QED BY <1>9, <4>1
    <3> QED BY <3>1, <3>2
  <2> QED BY <1>4, <2>1, <2>2, <2>3 DEF Path
<1>11. left \in Seq(Range(left))
  BY <1>4, SelfSeq
<1> QED BY <1>10, <1>11 DEF Leads, left

\* The first statement succeeds, and the rest goes on from what it leaves.
LEMMA LeadsHead ==
  ASSUME NEW d, NEW left, NEW s, NEW c, NEW t, Leads(d, left, s, c, t), left # << >>
  PROVE  /\ Able(d, Head(left), s, c)
         /\ Leads(d, Tail(left), After(Head(left), s), c \cup Mark(Head(left)), t)
<1> DEFINE S == Range(left)
           rest == Tail(left)
           n == Len(left)
<1>1. left \in Seq(S)
  BY DEF Leads
<1> HIDE DEF S
<1>2. /\ n \in Nat /\ n >= 1 /\ Head(left) = left[1] /\ rest \in Seq(S) /\ Len(rest) = n - 1
      /\ \A i \in 1 .. n - 1 : rest[i] = left[i + 1]
  BY <1>1
<1>3. PICK f : Path(d, left, s, c, t, f)
  BY DEF Leads
<1> HIDE DEF rest, n
<1>4. Able(d, left[1], s, c) /\ f[2] = After(left[1], s)
  <2>1. 1 \in 1 .. n /\ 1 + 1 = 2 /\ f[1] = s
    BY <1>2, <1>3 DEF Path
  <2>2. Before(left, 1) = {}
    BY DEF Before
  <2>3. Able(d, left[1], f[1], c \cup Before(left, 1)) /\ f[1 + 1] = After(left[1], f[1])
    BY <1>3, <2>1 DEF Path, n
  <2> QED BY <2>1, <2>2, <2>3
<1> DEFINE g == [i \in 1 .. n |-> f[i + 1]]
           b == c \cup Mark(left[1])
<1>5. \A i \in 1 .. n : g[i] = f[i + 1]
  OBVIOUS
<1> HIDE DEF g
<1>6. ASSUME NEW i \in 1 .. n - 1
      PROVE  Able(d, rest[i], g[i], b \cup Before(rest, i)) /\ g[i + 1] = After(rest[i], g[i])
  <2>1. i + 1 \in 1 .. n /\ i \in 1 .. n /\ rest[i] = left[i + 1]
    BY <1>2
  <2>2. Able(d, left[i + 1], f[i + 1], c \cup Before(left, i + 1)) /\ f[(i + 1) + 1] = After(left[i + 1], f[i + 1])
    BY <1>3, <2>1 DEF Path, n
  <2>3. Before(left, i + 1) \subseteq Mark(left[1]) \cup Before(rest, i)
    <3> SUFFICES ASSUME NEW j \in 1 .. (i + 1) - 1
                 PROVE  Mark(left[j]) \subseteq Mark(left[1]) \cup Before(rest, i)
      BY DEF Before
    <3>1. CASE j = 1
      BY <3>1
    <3>2. CASE j # 1
      <4>1. j - 1 \in 1 .. i - 1 /\ rest[j - 1] = left[j]
        BY <1>2, <3>2
      <4> QED BY <4>1 DEF Before
    <3> QED BY <3>1, <3>2
  <2>4. c \cup Before(left, i + 1) \subseteq b \cup Before(rest, i)
    BY <2>3
  <2> HIDE DEF b
  <2> QED BY <1>5, <2>1, <2>2, <2>4, AbleMore
<1>7. Path(d, rest, f[2], b, t, g)
  <2>1. g[1] = f[2] /\ g[(n - 1) + 1] = f[n + 1]
    BY <1>2, <1>5
  <2>2. f[n + 1] = t
    BY <1>3 DEF Path, n
  <2> QED BY <1>2, <1>6, <2>1, <2>2 DEF Path
<1>8. rest \in Seq(Range(rest))
  BY <1>2, SelfSeq
<1> QED BY <1>2, <1>4, <1>7, <1>8 DEF Leads, rest

\* A loop, whose passes find the schemas h.
LEMMA LeadsLoop ==
  ASSUME NEW d, NEW n \in Nat, NEW ss, ss = [i \in 1 .. n |-> ss[i]], NEW h, NEW c,
         \A i \in 1 .. n : Leads(d, ss[i], h[i], c, h[i + 1])
  PROVE  Leads(d, FlattenSeq(ss), h[1], c, h[n + 1])
<1> DEFINE S == UNION {Range(ss[i]) : i \in 1 .. n}
<1>1. ASSUME NEW i \in 1 .. n PROVE ss[i] \in Seq(S)
  <2>1. ss[i] \in Seq(Range(ss[i])) /\ Range(ss[i]) \subseteq S
    BY DEF Leads
  <2> HIDE DEF S
  <2> QED BY <2>1
<1> HIDE DEF S
<1>2. ss \in [1 .. n -> Seq(S)]
  BY <1>1
<1>3. CASE n = 0
  <2>1. ss = << >> /\ DOMAIN ss = {} /\ Len(ss) = 0
    BY <1>3
  <2>2. FlattenSeq(ss) = << >>
    BY <2>1 DEF FlattenSeq
  <2> QED BY <1>3, <2>2, LeadsNone
<1>4. CASE n # 0
  <2>1. PICK flat : Flattens(S, n, ss, flat) /\ FlattenSeq(ss) = flat[n]
    BY <1>2, <1>4, FlattenSteps
  <2>2. flat[1] = ss[1] /\ \A k \in 1 .. n - 1 : flat[k + 1] = flat[k] \o ss[k + 1]
    BY <2>1 DEF Flattens
  <2> DEFINE Reaches(k) == Leads(d, flat[k], h[1], c, h[k + 1])
             U == {k \in Nat : k + 1 <= n => Reaches(k + 1)}
  <2>3. 0 \in U
    <3>1. Leads(d, ss[1], h[1], c, h[1 + 1])
      BY <1>4
    <3> QED BY <2>2, <3>1
  <2>4. ASSUME NEW k \in U PROVE k + 1 \in U
    <3> SUFFICES ASSUME k + 2 <= n PROVE Reaches(k + 2)
      OBVIOUS
    <3>1. k + 1 \in 1 .. n - 1 /\ (k + 1) + 1 = k + 2 /\ k + 2 \in 1 .. n
      OBVIOUS
    <3>2. flat[k + 2] = flat[k + 1] \o ss[k + 2]
      BY <2>2, <3>1
    <3>3. Leads(d, flat[k + 1], h[1], c, h[k + 2])
      BY <2>4, <3>1
    <3>4. Leads(d, ss[k + 2], h[k + 2], c, h[(k + 2) + 1])
      BY <3>1
    <3>5. c \subseteq c \cup Passed(flat[k + 1])
      OBVIOUS
    <3> QED BY <3>2, <3>3, <3>4, <3>5, LeadsJoin
  <2> HIDE DEF U
  <2>5. n - 1 \in U
    <3>1. U = Nat
      BY <2>3, <2>4, Induct DEF U
    <3> QED BY <1>4, <3>1
  <2>6. Reaches(n)
    BY <1>4, <2>5 DEF U
  <2> QED BY <2>1, <2>6
<1> QED BY <1>3, <1>4

\* The schema a list leads to: what it adds is there and what it takes is not.
LEMMA LeadsResult ==
  ASSUME NEW d, NEW left, NEW s, NEW c, NEW t, Leads(d, left, s, c, t)
  PROVE  /\ t \subseteq s \cup Adds(left)
         /\ \A e \in s \cup Adds(left) : Gone(left, e) \/ e \in t
         /\ \A e : Gone(left, e) /\ e \notin Adds(left) => e \notin t
<1> DEFINE n == Len(left)
           Out(step, e) == e \in step.drops \/ (Table(e[2]) \in step.drops /\ e[1] # "scratch")
<1>1. PICK f : Path(d, left, s, c, t, f)
  BY DEF Leads
<1>2. n \in Nat /\ DOMAIN left = 1 .. n
  BY DEF Leads
<1> DEFINE All(k) == f[k + 1] \subseteq s \cup Adds(left)
           Kept_(k) == \A e : ~Gone(left, e) /\ (e \in s \/ \E j \in 1 .. k : e \in left[j].adds) => e \in f[k + 1]
           Out_(k) == \A e : e \notin Adds(left) /\ (\E j \in 1 .. k : Out(left[j], e)) => e \notin f[k + 1]
           U == {k \in Nat : k <= n => All(k) /\ Kept_(k) /\ Out_(k)}
<1> HIDE DEF n
<1>3. 0 \in U
  <2>1. f[0 + 1] = s
    BY <1>1 DEF Path
  <2> QED BY <2>1
<1>4. ASSUME NEW k \in U PROVE k + 1 \in U
  <2> SUFFICES ASSUME k + 1 <= n PROVE All(k + 1) /\ Kept_(k + 1) /\ Out_(k + 1)
    OBVIOUS
  <2>1. k + 1 \in 1 .. n /\ k <= n
    BY <1>2
  <2>2. All(k) /\ Kept_(k) /\ Out_(k)
    BY <1>4, <2>1
  <2> DEFINE step == left[k + 1]
             x == f[k + 1]
             y == f[(k + 1) + 1]
  <2>3. y = After(step, x)
    BY <1>1, <2>1 DEF Path, n
  <2>4. step \in Range(left)
    BY <1>2, <2>1 DEF Range
  <2>5. step.adds \subseteq Adds(left) /\ step.drops \subseteq Takes(left)
    BY <2>4 DEF Adds, Takes
  <2>6. \A j \in 1 .. k + 1 : j \in 1 .. k \/ j = k + 1
    OBVIOUS
  <2> HIDE DEF step, x, y, U
  <2>7. \A e : e \in y <=> e \in step.adds \/ (e \in x /\ ~Out(step, e))
    BY <2>3 DEF After, Dropped
  <2>8. All(k + 1)
    BY <2>2, <2>5, <2>7 DEF x, y
  <2>9. Kept_(k + 1)
    <3> SUFFICES ASSUME NEW e, ~Gone(left, e), e \in s \/ \E j \in 1 .. k + 1 : e \in left[j].adds
                 PROVE  e \in y
      BY DEF y
    <3>1. ~Out(step, e)
      BY <2>5 DEF Gone
    <3>2. e \in x \/ e \in step.adds
      BY <2>2, <2>6 DEF x, step
    <3> QED BY <2>7, <3>1, <3>2
  <2>10. Out_(k + 1)
    <3> SUFFICES ASSUME NEW e, e \notin Adds(left), NEW j \in 1 .. k + 1, Out(left[j], e)
                 PROVE  e \notin y
      BY DEF y
    <3>1. e \notin step.adds
      BY <2>5
    <3>2. e \notin x \/ Out(step, e)
      BY <2>2, <2>6 DEF x, step
    <3> QED BY <2>7, <3>1, <3>2
  <2> QED BY <2>8, <2>9, <2>10
<1> HIDE DEF U
<1>5. n \in U
  <2>1. U = Nat
    BY <1>3, <1>4, Induct DEF U
  <2> QED BY <1>2, <2>1
<1>6. f[n + 1] = t
  BY <1>1 DEF Path, n
<1>7. All(n) /\ Kept_(n) /\ Out_(n)
  BY <1>2, <1>5 DEF U
<1>8. \A e : e \in Adds(left) <=> \E j \in 1 .. n : e \in left[j].adds
  BY <1>2 DEF Adds, Range
<1>9. \A e : Gone(left, e) => \E j \in 1 .. n : Out(left[j], e)
  BY <1>2 DEF Gone, Takes, Range
<1> QED BY <1>6, <1>7, <1>8, <1>9

\* What can be added to a schema.
Fits(d, adds, s, c) ==
  /\ adds \cap s = {}
  /\ \A e \in adds : Host(e) \in s \cup adds
  /\ d = "postgresql" =>
       \A e \in adds : e[1] = "key" =>
         /\ Table(e[4]) \in s \cup adds
         /\ <<e[2], e[3]>> \in Loose => \A id \in Ids : <<e[2], e[3], id>> \in c

\* What can be dropped from one without taking anything else along.
Part(e) == e[1] \in {"column", "native", "key"}
Parts(drops, s) == drops \subseteq s /\ \A e \in drops : Part(e)

LEMMA TableKinds ==
  /\ \A t : Table(t)[1] = "table" /\ Table(t)[2] = t
  /\ \A a, b : Table(a) = Table(b) => a = b
  /\ \A t, c : /\ Column(t, c)[1] = "column" /\ Column(t, c)[2] = t /\ Column(t, c)[3] = c
               /\ Host(Column(t, c)) = Table(t)
  /\ \A t : Scratch(t)[1] = "scratch" /\ Scratch(t)[2] = t /\ Host(Scratch(t)) = Table(t)
  /\ \A t : Host(Table(t)) = Table(t)
  BY DEF Table, Column, Scratch, Host

LEMMA StepFields ==
  /\ \A objects : /\ Add(objects).needs = {} /\ Add(objects).write = "nothing"
                  /\ Drop(objects).needs = {} /\ Drop(objects).write = "nothing"
  /\ \A how : Rewrite(how).needs = {} /\ Rewrite(how).write = how
  /\ \A os : RefuseOrphans(os).needs = {} /\ RefuseOrphans(os).write = "nothing"
  /\ \A labels, s : AddLabels(labels, s).needs = {} /\ AddLabels(labels, s).write = "nothing"
  /\ Commit.needs = {} /\ Commit.write = "nothing"
  BY DEF Add, Drop, Rewrite, RefuseOrphans, AddLabels, Commit, Plain

\* A statement that only adds, one that drops parts, and one that drops a table.
LEMMA AbleAdd ==
  ASSUME NEW d, NEW step, NEW s, NEW c, step.needs = {}, step.drops = {}, Fits(d, step.adds, s, c),
         step.write = "cast" => <<"upper">> \in c
  PROVE  Able(d, step, s, c) /\ After(step, s) = s \cup step.adds
<1>1. After(step, s) = s \cup step.adds
  BY DEF After, Dropped
<1> QED BY <1>1 DEF Able, Fits

LEMMA AbleDrop ==
  ASSUME NEW d, NEW step, NEW s, step.needs \subseteq s, step.adds = {}, step.write # "cast",
         Parts(step.drops, s)
  PROVE  Able(d, step, s, {}) /\ After(step, s) = s \ step.drops
<1>1. \A t : Table(t) \notin step.drops
  BY TableKinds DEF Parts, Part
<1>2. Dropped(step, s) = {e \in s : e \in step.drops}
  BY <1>1 DEF Dropped
<1>3. After(step, s) = s \ step.drops
  BY <1>2 DEF After
<1> QED BY <1>1, <1>3 DEF Able, Parts

LEMMA LeadsAdd ==
  ASSUME NEW d, NEW adds, NEW s, NEW c, Fits(d, adds, s, c)
  PROVE  Leads(d, <<Add(adds)>>, s, c, s \cup adds)
<1> DEFINE step == Add(adds)
<1>1. step.needs = {} /\ step.drops = {} /\ step.adds = adds /\ step.write # "cast"
  BY StatementKinds, StepFields
<1> HIDE DEF step
<1>2. Able(d, step, s, c) /\ After(step, s) = s \cup adds
  BY <1>1, AbleAdd
<1> QED BY <1>2, LeadsOne DEF step

LEMMA LeadsQuiet ==
  ASSUME NEW d, NEW step, NEW s, step.needs = {}, step.drops = {}, step.adds = {}, step.write # "cast"
  PROVE  Leads(d, <<step>>, s, {}, s)
<1>1. Fits(d, step.adds, s, {})
  BY DEF Fits
<1>2. Able(d, step, s, {}) /\ After(step, s) = s \cup step.adds
  BY <1>1, AbleAdd
<1>3. s \cup step.adds = s
  OBVIOUS
<1> QED BY <1>2, <1>3, LeadsOne

LEMMA LeadsDrop ==
  ASSUME NEW d, NEW drops, NEW s, Parts(drops, s)
  PROVE  Leads(d, <<Drop(drops)>>, s, {}, s \ drops)
<1> DEFINE step == Drop(drops)
<1>1. step.needs = {} /\ step.drops = drops /\ step.adds = {} /\ step.write # "cast"
  BY StatementKinds, StepFields
<1> HIDE DEF step
<1>2. Able(d, step, s, {}) /\ After(step, s) = s \ drops
  BY <1>1, AbleDrop
<1> QED BY <1>2, LeadsOne DEF step

\* A schema without a table, and what it has to be without for a table to be dropped.
Without(s, t) == {e \in s : e[2] # t \/ e[1] = "scratch"}
Unreferenced(d, s, t) == d = "postgresql" => \A e \in s : e[1] = "key" /\ e[4] = t => e[2] = t

LEMMA LeadsDropTable ==
  ASSUME NEW d, NEW t, NEW s, Table(t) \in s, Unreferenced(d, s, t)
  PROVE  Leads(d, <<Drop({Table(t)})>>, s, {}, Without(s, t))
<1> DEFINE step == Drop({Table(t)})
<1>1. step.needs = {} /\ step.drops = {Table(t)} /\ step.adds = {} /\ step.write # "cast"
  BY StatementKinds, StepFields
<1> HIDE DEF step
<1>2. Able(d, step, s, {})
  BY <1>1, TableKinds DEF Able, Unreferenced
<1>3. \A e : e \in After(step, s) <=> e \in Without(s, t)
  BY <1>1, TableKinds DEF After, Dropped, Without
<1>4. After(step, s) = Without(s, t)
  BY <1>3
<1> QED BY <1>2, <1>4, LeadsOne DEF step

LEMMA PairJoins == ASSUME NEW a, NEW b PROVE <<a>> \o <<b>> = <<a, b>>
<1> DEFINE S == {a, b}
<1>1. a \in S /\ b \in S
  OBVIOUS
<1> HIDE DEF S
<1> DEFINE x == <<a>>
           y == <<b>>
           c == x \o y
           e == <<a, b>>
<1>2. x \in Seq(S) /\ y \in Seq(S) /\ Len(x) = 1 /\ Len(y) = 1 /\ x[1] = a /\ y[1] = b
  BY <1>1
<1>3. e \in Seq(S) /\ Len(e) = 2 /\ e[1] = a /\ e[2] = b
  BY <1>1
<1> HIDE DEF x, y, e
<1>4. c \in Seq(S) /\ Len(c) = 2 /\ c[1] = a /\ c[2] = b
  <2>1. /\ c \in Seq(S) /\ Len(c) = Len(x) + Len(y)
        /\ \A i \in 1 .. Len(x) + Len(y) : c[i] = IF i <= Len(x) THEN x[i] ELSE y[i - Len(x)]
    BY <1>2, ConcatProperties
  <2>2. 1 \in 1 .. 1 + 1 /\ 2 \in 1 .. 1 + 1 /\ 1 <= 1 /\ ~(2 <= 1) /\ 2 - 1 = 1 /\ 1 + 1 = 2
    OBVIOUS
  <2> HIDE DEF c
  <2> QED BY <1>2, <2>1, <2>2
<1> HIDE DEF c
<1>5. c = e
  <2>1. \A i \in 1 .. 2 : i = 1 \/ i = 2
    OBVIOUS
  <2>2. \A i \in 1 .. Len(c) : c[i] = e[i]
    BY <1>3, <1>4, <2>1
  <2> QED BY <1>3, <1>4, <2>2, SeqEqual
<1> QED BY <1>5 DEF c, e, x, y

\* The rebuild of a table.
LEMMA LeadsBatch ==
  ASSUME NEW d, NEW t, NEW adds, NEW drops, NEW s, NEW c, Fits(d, adds, s, c), Parts(drops, s),
         \A e \in adds : Part(e), Table(t) \in s, d # "postgresql" => Scratch(t) \notin s
  PROVE  Leads(d, Batch(d, t, adds, drops), s, c, (s \ drops) \cup adds)
<1>1. \A x : Table(x) \notin drops
  BY TableKinds DEF Parts, Part
<1>2. CASE d = "postgresql"
  <2> DEFINE a == [Add(adds) EXCEPT !.drops = drops]
  <2>1. a.needs = {} /\ a.adds = adds /\ a.drops = drops /\ a.write # "cast"
    BY DEF Add, Plain
  <2>2. Batch(d, t, adds, drops) = <<a>>
    BY <1>2 DEF Batch
  <2> HIDE DEF a
  <2>3. Able(d, a, s, c)
    BY <1>1, <2>1 DEF Able, Fits, Parts
  <2>4. Dropped(a, s) = {e \in s : e \in drops}
    BY <1>1, <2>1 DEF Dropped
  <2>5. After(a, s) = (s \ drops) \cup adds
    BY <2>1, <2>4 DEF After
  <2> QED BY <2>2, <2>3, <2>5, LeadsOne
<1>3. CASE d # "postgresql"
  <2> DEFINE a == [Add({Scratch(t)}) EXCEPT !.needs = drops]
             b == [Rewrite("nothing") EXCEPT !.adds = adds, !.drops = drops \cup {Scratch(t)}]
             u == s \cup {Scratch(t)}
  <2>1. /\ a.needs = drops /\ a.adds = {Scratch(t)} /\ a.drops = {} /\ a.write # "cast"
        /\ b.needs = {} /\ b.adds = adds /\ b.drops = drops \cup {Scratch(t)} /\ b.write # "cast"
    BY DEF Add, Rewrite, Plain
  <2>2. Batch(d, t, adds, drops) = <<a, b>>
    BY <1>3 DEF Batch
  <2> HIDE DEF a, b
  <2>3. Able(d, a, s, c) /\ After(a, s) = u
    <3>1. Able(d, a, s, c)
      BY <1>3, <2>1, TableKinds DEF Able, Parts
    <3>2. After(a, s) = u
      BY <2>1 DEF After, Dropped
    <3> QED BY <3>1, <3>2
  <2>4. Able(d, b, u, c)
    <3>1. \A e \in adds : e # Scratch(t)
      BY TableKinds DEF Part
    <3> QED BY <1>3, <2>1, <3>1 DEF Able, Fits, Parts
  <2>5. After(b, u) = (s \ drops) \cup adds
    <3>1. \A x : Table(x) \notin b.drops
      BY <1>1, <2>1, TableKinds
    <3>2. Dropped(b, u) = {e \in u : e \in drops \cup {Scratch(t)}}
      BY <2>1, <3>1 DEF Dropped
    <3>3. \A e : e \in After(b, u) <=> e \in (s \ drops) \cup adds
      BY <1>3, <2>1, <3>2 DEF After
    <3> QED BY <3>3
  <2>6. Leads(d, <<a>>, s, c, u) /\ Leads(d, <<b>>, u, c, (s \ drops) \cup adds)
    BY <2>3, <2>4, <2>5, LeadsOne
  <2>7. Leads(d, <<a>> \o <<b>>, s, c, (s \ drops) \cup adds)
    <3>1. c \subseteq c \cup Passed(<<a>>)
      OBVIOUS
    <3> HIDE DEF u
    <3> QED BY <2>6, <3>1, LeadsJoin
  <2>8. <<a>> \o <<b>> = <<a, b>>
    BY PairJoins
  <2> QED BY <2>2, <2>7, <2>8
<1> QED BY <1>2, <1>3

\* A list of statements that add sets of objects A, and one of statements that drop them.
Disjoint(n, A) == \A i, j \in 1 .. n : i # j => A[i] \cap A[j] = {}
All(n, A) == UNION {A[i] : i \in 1 .. n}
Adding(d, n, ss, A, s, c) ==
  ss = [i \in 1 .. n |-> ss[i]] /\ \A i \in 1 .. n : ss[i] = Add(A[i]) /\ Fits(d, A[i], s, c)
Dropping(n, ss, A, s) ==
  ss = [i \in 1 .. n |-> ss[i]] /\ \A i \in 1 .. n : ss[i] = Drop(A[i]) /\ Parts(A[i], s)

LEMMA LeadsAdds ==
  ASSUME NEW d, NEW n \in Nat, NEW ss, NEW A, NEW s, NEW c, Adding(d, n, ss, A, s, c), Disjoint(n, A)
  PROVE  Leads(d, ss, s, c, s \cup All(n, A))
<1>0. /\ ss = [i \in 1 .. n |-> ss[i]] /\ \A i \in 1 .. n : ss[i] = Add(A[i]) /\ Fits(d, A[i], s, c)
      /\ \A i, j \in 1 .. n : i # j => A[i] \cap A[j] = {}
  BY DEF Adding, Disjoint
<1> DEFINE f == [i \in 1 .. n + 1 |-> s \cup UNION {A[j] : j \in 1 .. i - 1}]
           t == s \cup UNION {A[i] : i \in 1 .. n}
<1>1. Len(ss) = n /\ ss \in Seq(Range(ss))
  <2>1. Sum(d, ss, UNION {ss[i].adds : i \in 1 .. n}, UNION {ss[i].drops : i \in 1 .. n})
    BY <1>0, SumList
  <2>2. DOMAIN ss = 1 .. n
    BY <1>0
  <2> QED BY <2>1, <2>2 DEF Sum
<1>2. f[1] = s /\ f[n + 1] = t
  <2>1. f[1] = s \cup UNION {A[j] : j \in 1 .. 1 - 1} /\ 1 .. 1 - 1 = {}
    OBVIOUS
  <2>2. UNION {A[j] : j \in 1 .. 1 - 1} = {}
    BY <2>1
  <2>3. f[n + 1] = s \cup UNION {A[j] : j \in 1 .. (n + 1) - 1} /\ (n + 1) - 1 = n
    OBVIOUS
  <2> HIDE DEF f
  <2> QED BY <2>1, <2>2, <2>3
<1>3. ASSUME NEW i \in 1 .. n
      PROVE  Able(d, ss[i], f[i], c \cup Before(ss, i)) /\ f[i + 1] = After(ss[i], f[i])
  <2>1. i \in 1 .. n + 1 /\ i + 1 \in 1 .. n + 1 /\ (i + 1) - 1 = i /\ \A j \in 1 .. i - 1 : j \in 1 .. n /\ j # i
    OBVIOUS
  <2>2. f[i] = s \cup UNION {A[j] : j \in 1 .. i - 1} /\ f[i + 1] = s \cup UNION {A[j] : j \in 1 .. i}
    BY <2>1
  <2> DEFINE step == ss[i]
             u == f[i]
             v == f[i + 1]
  <2>3. step.needs = {} /\ step.drops = {} /\ step.adds = A[i] /\ step.write # "cast"
    BY <1>0, StatementKinds, StepFields
  <2>4. \A e : e \in u <=> e \in s \/ \E j \in 1 .. i - 1 : e \in A[j]
    BY <2>2
  <2>5. \A e : e \in v <=> e \in u \/ e \in A[i]
    <3>1. \A j : j \in 1 .. i <=> j \in 1 .. i - 1 \/ j = i
      OBVIOUS
    <3> HIDE DEF f
    <3> QED BY <2>2, <3>1
  <2>6. A[i] \cap u = {}
    BY <1>0, <2>1, <2>4 DEF Fits
  <2> HIDE DEF step, u, v, f
  <2>7. Fits(d, A[i], u, c \cup Before(ss, i))
    <3>1. Fits(d, A[i], s, c)
      BY <1>0
    <3>2. \A e \in s : e \in u
      BY <2>4
    <3> QED BY <2>6, <3>1, <3>2 DEF Fits
  <2>8. Able(d, step, u, c \cup Before(ss, i)) /\ After(step, u) = u \cup A[i]
    BY <2>3, <2>7, AbleAdd
  <2>9. v = u \cup A[i]
    <3>1. u \subseteq v
      BY <2>5
    <3>2. \A e : e \in v <=> e \in u \cup A[i]
      BY <2>5
    <3>3. v = s \cup UNION {A[j] : j \in 1 .. i}
      BY <2>2 DEF v
    <3> QED BY <3>2, <3>3
  <2> QED BY <2>8, <2>9 DEF step, u, v
<1> HIDE DEF f, t
<1>4. Path(d, ss, s, c, t, f)
  BY <1>1, <1>2, <1>3 DEF Path
<1> QED BY <1>1, <1>4 DEF Leads, t, All

LEMMA LeadsDrops ==
  ASSUME NEW d, NEW n \in Nat, NEW ss, NEW A, NEW s, Dropping(n, ss, A, s), Disjoint(n, A)
  PROVE  Leads(d, ss, s, {}, s \ All(n, A))
<1>0. /\ ss = [i \in 1 .. n |-> ss[i]] /\ \A i \in 1 .. n : ss[i] = Drop(A[i]) /\ Parts(A[i], s)
      /\ \A i, j \in 1 .. n : i # j => A[i] \cap A[j] = {}
  BY DEF Dropping, Disjoint
<1> DEFINE f == [i \in 1 .. n + 1 |-> s \ UNION {A[j] : j \in 1 .. i - 1}]
           t == s \ UNION {A[i] : i \in 1 .. n}
<1>1. Len(ss) = n /\ ss \in Seq(Range(ss))
  <2>1. Sum(d, ss, UNION {ss[i].adds : i \in 1 .. n}, UNION {ss[i].drops : i \in 1 .. n})
    BY <1>0, SumList
  <2>2. DOMAIN ss = 1 .. n
    BY <1>0
  <2> QED BY <2>1, <2>2 DEF Sum
<1>2. f[1] = s /\ f[n + 1] = t
  <2>1. f[1] = s \ UNION {A[j] : j \in 1 .. 1 - 1} /\ 1 .. 1 - 1 = {}
    OBVIOUS
  <2>2. UNION {A[j] : j \in 1 .. 1 - 1} = {}
    BY <2>1
  <2>3. f[n + 1] = s \ UNION {A[j] : j \in 1 .. (n + 1) - 1} /\ (n + 1) - 1 = n
    OBVIOUS
  <2> HIDE DEF f
  <2> QED BY <2>1, <2>2, <2>3
<1>3. ASSUME NEW i \in 1 .. n
      PROVE  Able(d, ss[i], f[i], {} \cup Before(ss, i)) /\ f[i + 1] = After(ss[i], f[i])
  <2>1. i \in 1 .. n + 1 /\ i + 1 \in 1 .. n + 1 /\ (i + 1) - 1 = i /\ \A j \in 1 .. i - 1 : j \in 1 .. n /\ j # i
    OBVIOUS
  <2>2. f[i] = s \ UNION {A[j] : j \in 1 .. i - 1} /\ f[i + 1] = s \ UNION {A[j] : j \in 1 .. i}
    BY <2>1
  <2> DEFINE step == ss[i]
             u == f[i]
             v == f[i + 1]
  <2>3. step.needs = {} /\ step.drops = A[i] /\ step.adds = {} /\ step.write # "cast"
    BY <1>0, StatementKinds, StepFields
  <2>4. \A e : e \in u <=> e \in s /\ ~\E j \in 1 .. i - 1 : e \in A[j]
    BY <2>2
  <2>5. \A e : e \in v <=> e \in u /\ e \notin A[i]
    <3>1. \A j : j \in 1 .. i <=> j \in 1 .. i - 1 \/ j = i
      OBVIOUS
    <3> HIDE DEF f
    <3> QED BY <2>2, <3>1
  <2>6. Parts(A[i], u)
    BY <1>0, <2>1, <2>4 DEF Parts
  <2> HIDE DEF step, u, v, f
  <2>7. Able(d, step, u, {}) /\ After(step, u) = u \ A[i]
    BY <2>3, <2>6, AbleDrop
  <2>8. Able(d, step, u, {} \cup Before(ss, i))
    BY <2>7, AbleMore
  <2>9. v = u \ A[i]
    <3>1. \A e : e \in v <=> e \in u \ A[i]
      BY <2>5
    <3>2. v = s \ UNION {A[j] : j \in 1 .. i}
      BY <2>2 DEF v
    <3> QED BY <3>1, <3>2
  <2> QED BY <2>7, <2>8, <2>9 DEF step, u, v
<1> HIDE DEF f, t
<1>4. Path(d, ss, s, {}, t, f)
  BY <1>1, <1>2, <1>3 DEF Path
<1> QED BY <1>1, <1>4 DEF Leads, t, All

\* Columns of a table, each once.
Columns(t, cs) == {Column(t, x) : x \in Range(cs)}
Once(cs) == \A i, j \in DOMAIN cs : i # j => cs[i] # cs[j]

LEMMA LeadsColumns ==
  ASSUME NEW d, NEW n \in Nat, NEW t, NEW cs, DOMAIN cs = 1 .. n, Once(cs), NEW s
  PROVE  /\ Table(t) \in s /\ Columns(t, cs) \cap s = {} =>
              Leads(d, AddColumns(t, cs), s, {}, s \cup Columns(t, cs))
         /\ Columns(t, cs) \subseteq s => Leads(d, DropColumns(t, cs), s, {}, s \ Columns(t, cs))
<1> DEFINE A == [i \in 1 .. n |-> {Column(t, cs[i])}]
           up == AddColumns(t, cs)
           down == DropColumns(t, cs)
<1>1. \A a, b : Column(t, a) = Column(t, b) => a = b
  BY DEF Column
<1>2. Disjoint(n, A)
  BY <1>1 DEF Once, Disjoint
<1>3. \A i \in 1 .. n : Column(t, cs[i]) \in Columns(t, cs)
  BY DEF Columns, Range
<1>4. All(n, A) = Columns(t, cs)
  BY DEF Columns, Range, All
<1>5. up = [i \in 1 .. n |-> up[i]] /\ \A i \in 1 .. n : up[i] = Add(A[i])
  BY DEF AddColumns
<1>6. down = [i \in 1 .. n |-> down[i]] /\ \A i \in 1 .. n : down[i] = Drop(A[i])
  BY DEF DropColumns
<1>7. \A i \in 1 .. n : A[i] = {Column(t, cs[i])}
  OBVIOUS
<1> HIDE DEF A, up, down
<1>8. ASSUME Table(t) \in s, Columns(t, cs) \cap s = {} PROVE Leads(d, up, s, {}, s \cup Columns(t, cs))
  <2>1. \A i \in 1 .. n : Fits(d, A[i], s, {})
    BY <1>3, <1>7, <1>8, TableKinds DEF Fits
  <2>2. Adding(d, n, up, A, s, {})
    BY <1>5, <2>1 DEF Adding
  <2>3. Leads(d, up, s, {}, s \cup All(n, A))
    BY <1>2, <2>2, LeadsAdds
  <2> QED BY <1>4, <2>3
<1>9. ASSUME Columns(t, cs) \subseteq s PROVE Leads(d, down, s, {}, s \ Columns(t, cs))
  <2>1. \A i \in 1 .. n : Parts(A[i], s)
    BY <1>3, <1>7, <1>9, TableKinds DEF Parts, Part
  <2>2. Dropping(n, down, A, s)
    BY <1>6, <2>1 DEF Dropping
  <2>3. Leads(d, down, s, {}, s \ All(n, A))
    BY <1>2, <2>2, LeadsDrops
  <2> QED BY <1>4, <2>3
<1> QED BY <1>8, <1>9 DEF up, down

LEMMA ColumnLists ==
  /\ \A t, a : Columns(t, <<a>>) = {Column(t, a)}
  /\ \A t, a, b : Columns(t, <<a, b>>) = {Column(t, a), Column(t, b)}
  /\ \A t, a, b, c : Columns(t, <<a, b, c>>) = {Column(t, a), Column(t, b), Column(t, c)}
  /\ \A t, a, b, c, e : Columns(t, <<a, b, c, e>>) = {Column(t, a), Column(t, b), Column(t, c), Column(t, e)}
<1>1. ASSUME NEW t, NEW a PROVE Columns(t, <<a>>) = {Column(t, a)}
  <2> DEFINE r == Range(<<a>>)
  <2>1. r = {a} /\ Columns(t, <<a>>) = {Column(t, x) : x \in r}
    BY RangeLists DEF Columns
  <2> HIDE DEF r
  <2> QED BY <2>1
<1>2. ASSUME NEW t, NEW a, NEW b PROVE Columns(t, <<a, b>>) = {Column(t, a), Column(t, b)}
  <2> DEFINE r == Range(<<a, b>>)
  <2>1. r = {a, b} /\ Columns(t, <<a, b>>) = {Column(t, x) : x \in r}
    BY RangeLists DEF Columns
  <2> HIDE DEF r
  <2> QED BY <2>1
<1>3. ASSUME NEW t, NEW a, NEW b, NEW c
      PROVE  Columns(t, <<a, b, c>>) = {Column(t, a), Column(t, b), Column(t, c)}
  <2> DEFINE r == Range(<<a, b, c>>)
  <2>1. r = {a, b, c} /\ Columns(t, <<a, b, c>>) = {Column(t, x) : x \in r}
    BY RangeLists DEF Columns
  <2> HIDE DEF r
  <2> QED BY <2>1
<1>4. ASSUME NEW t, NEW a, NEW b, NEW c, NEW e
      PROVE  Columns(t, <<a, b, c, e>>) = {Column(t, a), Column(t, b), Column(t, c), Column(t, e)}
  <2> DEFINE r == Range(<<a, b, c, e>>)
  <2>1. r = {a, b, c, e} /\ Columns(t, <<a, b, c, e>>) = {Column(t, x) : x \in r}
    BY RangeLists DEF Columns
  <2> HIDE DEF r
  <2> QED BY <2>1
<1> QED BY <1>1, <1>2, <1>3, <1>4

\* What the n-th revision makes that a later one, or its downgrade, needs.
Makes(d, n) ==
  CASE n = 1 -> {Table(t) : t \in Range(BaselineTables)}
                \cup (IF d = "postgresql" THEN {Type("parentstatus")} ELSE {})
    [] n = 2 -> {Column("payment_intents", "review_expires_at")}
    [] n = 3 -> {Column("provider_transactions", "reconciled_at")}
    [] n = 4 -> {Table("audit_events")}
    [] n = 5 -> {Column("agents", "protocol_version")}
    [] n = 6 -> Columns("parent_authorities", <<"trust_tier", "kyb_provider_ref">>)
                \cup Columns("agents", <<"old_public_key_pem">>)
                \cup Columns("credentials", <<"superseded_by", "rotates_at">>)
                \cup Columns("agents", <<"key_sunset_at">>)
    [] n = 7 -> {Table("rate_buckets")}
    [] n = 8 -> {Table("organizations"), Table("provider_accounts")}
                \cup {Column(t, "org_id") : t \in Range(AddOrgColumnTables)}
                \cup (IF d = "postgresql" THEN MultitenancyKeys ELSE {})
    [] n = 9 -> {Table("request_proofs")}
                \cup (IF d = "postgresql"
                      THEN {Key("request_proofs", "agent_id", "agents", <<"fk_request_proofs_agent">>)} ELSE {})
    [] n = 10 -> {Table("user_payment_mandates"), Table("payment_instrument_bindings"),
                  Column("payment_intents", "mandate_id"), Column("payment_intents", "merchant_category"),
                  MandateKey("payment_intents"),
                  Column("bounded_authorizations", "mandate_id"), MandateKey("bounded_authorizations")}
    [] n = 11 -> Columns("user_payment_mandates",
                   <<"signing_key_id", "signature_b64", "user_public_key_pem", "signed_at">>)
                 \cup Columns("payment_intents",
                        <<"llm_run_id", "llm_model", "llm_tool_call_id", "llm_tool_name">>)
                 \cup Columns("user_payment_mandates",
                        <<"max_per_hour", "max_per_merchant_per_day", "max_category_per_day">>)
    [] n = 12 -> {Column("payment_intents", "llm_attributed")}
    [] n = 14 -> IF d = "postgresql" THEN {Native("user_payment_mandates", "status")} ELSE {}
    [] n = 17 -> Columns("provider_transactions",
                   <<"provider_environment", "provider_key_id_prefix", "provider_api_base">>)
    [] n = 18 -> {HashVersion}
    [] OTHER -> {}

\* A schema the statements of the revisions next to a version succeed on.
Ready(d, n, s) ==
  /\ \A m \in 1 .. n : Makes(d, m) \subseteq s
  /\ \A e \in s : e[1] \in {"table", "column", "native", "key", "scratch"} => Old(d, n, e)
  /\ n = 0 => s = {}
  /\ d = "postgresql" => \A e \in s : e[1] = "key" => e \in EarlyKeys(d)

Clean(s) == \A e \in s : e[1] # "scratch"
Works(d, left, s, made) == \E t : Leads(d, left, s, {}, t) /\ made \subseteq t /\ Clean(t)
Climbs(d, n) == \A s : Ready(d, n - 1, s) => Works(d, Revision(n, d, s).up, s, Makes(d, n))
Descends(d, n) == \A s : Ready(d, n, s) => Works(d, Revision(n, d, s).down, s, {})

LEMMA ReadyClean == ASSUME NEW d, NEW n, NEW s, Ready(d, n, s) PROVE Clean(s)
  BY DEF Ready, Clean, Old

\* The tables a version has.
LEMMA BaselineMade ==
  ASSUME NEW d
  PROVE  \A t \in {"auth_nonces", "bounded_authorizations", "mfa_challenges", "parent_authorities",
                   "payment_intents", "provider_transactions", "revocation_records", "agents",
                   "delegation_records", "credentials"} :
           t \in Range(BaselineTables) /\ Table(t) \in Makes(d, 1)
<1>1. /\ DOMAIN BaselineTables = 1 .. 10
      /\ BaselineTables[1] = "auth_nonces" /\ BaselineTables[2] = "bounded_authorizations"
      /\ BaselineTables[3] = "mfa_challenges" /\ BaselineTables[4] = "parent_authorities"
      /\ BaselineTables[5] = "payment_intents" /\ BaselineTables[6] = "provider_transactions"
      /\ BaselineTables[7] = "revocation_records" /\ BaselineTables[8] = "agents"
      /\ BaselineTables[9] = "delegation_records" /\ BaselineTables[10] = "credentials"
  BY DEF BaselineTables
<1>2. \A t \in Range(BaselineTables) : Table(t) \in Makes(d, 1)
  BY DEF Makes
<1>3. \A i \in 1 .. 10 : BaselineTables[i] \in Range(BaselineTables)
  BY <1>1 DEF Range
<1> QED BY <1>1, <1>2, <1>3

LEMMA ReadyTables ==
  ASSUME NEW d, NEW n \in Nat, NEW s, Ready(d, n, s)
  PROVE  /\ n >= 1 => \A t \in {"auth_nonces", "bounded_authorizations", "mfa_challenges",
                                "parent_authorities", "payment_intents", "provider_transactions",
                                "revocation_records", "agents", "delegation_records", "credentials"} :
                        Table(t) \in s
         /\ n >= 4 => Table("audit_events") \in s
         /\ n >= 7 => Table("rate_buckets") \in s
         /\ n >= 8 => Table("organizations") \in s /\ Table("provider_accounts") \in s
         /\ n >= 9 => Table("request_proofs") \in s
         /\ n >= 10 => Table("user_payment_mandates") \in s /\ Table("payment_instrument_bindings") \in s
<1>1. \A m \in 1 .. n : Makes(d, m) \subseteq s
  BY DEF Ready
<1>2. n >= 1 => Makes(d, 1) \subseteq s
  BY <1>1
<1>3. /\ n >= 4 => Makes(d, 4) \subseteq s
      /\ n >= 7 => Makes(d, 7) \subseteq s
      /\ n >= 8 => Makes(d, 8) \subseteq s
      /\ n >= 9 => Makes(d, 9) \subseteq s
      /\ n >= 10 => Makes(d, 10) \subseteq s
  BY <1>1
<1>4. /\ Table("audit_events") \in Makes(d, 4) /\ Table("rate_buckets") \in Makes(d, 7)
      /\ Table("organizations") \in Makes(d, 8) /\ Table("provider_accounts") \in Makes(d, 8)
      /\ Table("request_proofs") \in Makes(d, 9)
      /\ Table("user_payment_mandates") \in Makes(d, 10) /\ Table("payment_instrument_bindings") \in Makes(d, 10)
  BY DEF Makes
<1> QED BY <1>2, <1>3, <1>4, BaselineMade

\* What a later revision makes is not there yet.
LEMMA NotYet ==
  ASSUME NEW d, NEW n \in Nat, NEW s, Ready(d, n, s)
  PROVE  /\ \A t, c : ColumnBirth(t, c) > n \/ TableBirth(t) > n => Column(t, c) \notin s
         /\ \A t : TableBirth(t) > n => Table(t) \notin s
         /\ \A t : Scratch(t) \notin s
         /\ \A e : e[1] = "key" /\ KeyBirth(d, e) > n => e \notin s
<1>1. \A e \in s : e[1] \in {"table", "column", "native", "key", "scratch"} =>
        Birth(d, e) <= n /\ TableBirth(e[2]) <= n /\ e[1] # "scratch"
  BY DEF Ready, Old
<1>2. \A e : e[1] = "key" => Birth(d, e) = KeyBirth(d, e)
  BY DEF Birth
<1>3. \A t, c : ColumnBirth(t, c) \in Nat
  BY DEF ColumnBirth
<1> QED BY <1>1, <1>2, <1>3, Births, TableBirths, KeyBirths, TableKinds

LEMMA CleanParts ==
  /\ \A s, t, cs : Clean(s) => Clean(s \cup Columns(t, cs)) /\ Clean(s \ Columns(t, cs))
  /\ \A s, x : Clean(s) => Clean(s \ x)
  /\ \A s, x : Clean(s) /\ Clean(x) => Clean(s \cup x)
  BY TableKinds DEF Clean, Columns

\* A column added to a table of before.
LEMMA ColumnWorks ==
  ASSUME NEW d, NEW n \in 1 .. Latest, NEW t, NEW c, ColumnBirth(t, c) = n,
         \A s : Ready(d, n - 1, s) => Table(t) \in s,
         \A s : Revision(n, d, s) = [up |-> AddColumns(t, <<c>>), down |-> DropColumns(t, <<c>>)],
         Makes(d, n) = {Column(t, c)}
  PROVE  Climbs(d, n) /\ Descends(d, n)
<1> DEFINE cs == <<c>>
<1>1. DOMAIN cs = 1 .. 1 /\ 1 \in Nat /\ Once(cs)
  BY DEF Once
<1>2. Columns(t, cs) = {Column(t, c)}
  BY ColumnLists
<1>3. \A s : Revision(n, d, s).up = AddColumns(t, cs) /\ Revision(n, d, s).down = DropColumns(t, cs)
  OBVIOUS
<1>4. n - 1 \in Nat /\ n > n - 1 /\ n \in 1 .. n
  OBVIOUS
<1> HIDE DEF cs
<1>5. ASSUME NEW s, Ready(d, n - 1, s) PROVE Works(d, AddColumns(t, cs), s, Makes(d, n))
  <2>1. Column(t, c) \notin s /\ Table(t) \in s /\ Clean(s)
    BY <1>4, <1>5, NotYet, ReadyClean
  <2>2. Columns(t, cs) \cap s = {}
    BY <1>2, <2>1
  <2>3. Leads(d, AddColumns(t, cs), s, {}, s \cup Columns(t, cs))
    BY <1>1, <2>1, <2>2, LeadsColumns
  <2>4. Makes(d, n) \subseteq s \cup Columns(t, cs) /\ Clean(s \cup Columns(t, cs))
    BY <1>2, <2>1, CleanParts
  <2> QED BY <2>3, <2>4 DEF Works
<1>6. ASSUME NEW s, Ready(d, n, s) PROVE Works(d, DropColumns(t, cs), s, {})
  <2>1. Makes(d, n) \subseteq s /\ Clean(s)
    BY <1>4, <1>6, ReadyClean DEF Ready
  <2>2. Columns(t, cs) \subseteq s
    BY <1>2, <2>1
  <2>3. Leads(d, DropColumns(t, cs), s, {}, s \ Columns(t, cs))
    BY <1>1, <2>2, LeadsColumns
  <2>4. Clean(s \ Columns(t, cs)) /\ {} \subseteq s \ Columns(t, cs)
    BY <2>1, CleanParts
  <2> QED BY <2>3, <2>4 DEF Works
<1> QED BY <1>3, <1>5, <1>6 DEF Climbs, Descends

LEMMA SmallWork == \* 2, 3, 5, 12
  ASSUME NEW d
  PROVE  \A n \in {2, 3, 5, 12} : Climbs(d, n) /\ Descends(d, n)
<1>1. /\ ColumnBirth("payment_intents", "review_expires_at") = 2
      /\ ColumnBirth("provider_transactions", "reconciled_at") = 3
      /\ ColumnBirth("agents", "protocol_version") = 5
      /\ ColumnBirth("payment_intents", "llm_attributed") = 12
  BY DEF ColumnBirth
<1>2. \A n \in {2, 3, 5, 12} : \A s : Ready(d, n - 1, s) =>
        \A t \in {"payment_intents", "provider_transactions", "agents"} : Table(t) \in s
  <2>1. \A n \in {2, 3, 5, 12} : n - 1 \in Nat /\ n - 1 >= 1
    OBVIOUS
  <2> QED BY <2>1, ReadyTables
<1>3. /\ Makes(d, 2) = {Column("payment_intents", "review_expires_at")}
      /\ Makes(d, 3) = {Column("provider_transactions", "reconciled_at")}
      /\ Makes(d, 5) = {Column("agents", "protocol_version")}
      /\ Makes(d, 12) = {Column("payment_intents", "llm_attributed")}
  BY DEF Makes
<1>4. \A s : Revision(2, d, s) = [up |-> AddColumns("payment_intents", <<"review_expires_at">>),
                                  down |-> DropColumns("payment_intents", <<"review_expires_at">>)]
  BY DEF Revision, ReviewExpiry
<1>5. \A s : Revision(3, d, s) = [up |-> AddColumns("provider_transactions", <<"reconciled_at">>),
                                  down |-> DropColumns("provider_transactions", <<"reconciled_at">>)]
  BY DEF Revision, ReconciledAt
<1>6. \A s : Revision(5, d, s) = [up |-> AddColumns("agents", <<"protocol_version">>),
                                  down |-> DropColumns("agents", <<"protocol_version">>)]
  BY DEF Revision, AgentProtocol
<1>7. \A s : Revision(12, d, s) = [up |-> AddColumns("payment_intents", <<"llm_attributed">>),
                                   down |-> DropColumns("payment_intents", <<"llm_attributed">>)]
  BY DEF Revision, LlmAttributed
<1>8. 2 \in 1 .. Latest /\ 3 \in 1 .. Latest /\ 5 \in 1 .. Latest /\ 12 \in 1 .. Latest
  BY DEF Latest
<1>9. Climbs(d, 2) /\ Descends(d, 2)
  BY <1>1, <1>2, <1>3, <1>4, <1>8, ColumnWorks
<1>10. Climbs(d, 3) /\ Descends(d, 3)
  BY <1>1, <1>2, <1>3, <1>5, <1>8, ColumnWorks
<1>11. Climbs(d, 5) /\ Descends(d, 5)
  BY <1>1, <1>2, <1>3, <1>6, <1>8, ColumnWorks
<1>12. Climbs(d, 12) /\ Descends(d, 12)
  BY <1>1, <1>2, <1>3, <1>7, <1>8, ColumnWorks
<1> QED BY <1>9, <1>10, <1>11, <1>12

LEMMA LeadsThen ==
  ASSUME NEW d, NEW a, NEW b, NEW s, NEW t, NEW u, NEW c, Leads(d, a, s, {}, t), Leads(d, b, t, c, u),
         c \subseteq Passed(a)
  PROVE  Leads(d, a \o b, s, {}, u)
<1>1. c \subseteq {} \cup Passed(a)
  OBVIOUS
<1> QED BY <1>1, LeadsJoin

LEMMA LeadsOn ==
  ASSUME NEW d, NEW a, NEW b, NEW s, NEW t, NEW u, Leads(d, a, s, {}, t), Leads(d, b, t, {}, u)
  PROVE  Leads(d, a \o b, s, {}, u)
<1>1. {} \subseteq Passed(a)
  OBVIOUS
<1> QED BY <1>1, LeadsThen

LEMMA ColumnParts ==
  /\ \A t, c, u, b : Column(t, c) = Column(u, b) => t = u /\ c = b
  /\ \A t, cs, e : e \in Columns(t, cs) => e[1] = "column" /\ e[2] = t /\ \E c \in Range(cs) : e = Column(t, c)
  /\ \A a : Once(<<a>>)
  /\ \A a, b : a # b => Once(<<a, b>>)
  /\ \A a, b, c : a # b /\ a # c /\ b # c => Once(<<a, b, c>>)
  /\ \A a, b, c, e : a # b /\ a # c /\ a # e /\ b # c /\ b # e /\ c # e => Once(<<a, b, c, e>>)
<1>1. \A t, c, u, b : Column(t, c) = Column(u, b) => t = u /\ c = b
  BY DEF Column
<1>2. \A t, cs, e : e \in Columns(t, cs) => e[1] = "column" /\ e[2] = t /\ \E c \in Range(cs) : e = Column(t, c)
  BY TableKinds DEF Columns
<1>3. ASSUME NEW a PROVE Once(<<a>>)
  BY DEF Once
<1>4. ASSUME NEW a, NEW b, a # b PROVE Once(<<a, b>>)
  BY <1>4 DEF Once
<1>5. ASSUME NEW a, NEW b, NEW c, a # b /\ a # c /\ b # c PROVE Once(<<a, b, c>>)
  BY <1>5 DEF Once
<1>6. ASSUME NEW a, NEW b, NEW c, NEW e, a # b /\ a # c /\ a # e /\ b # c /\ b # e /\ c # e
      PROVE  Once(<<a, b, c, e>>)
  BY <1>6 DEF Once
<1> QED BY <1>1, <1>2, <1>3, <1>4, <1>5, <1>6

\* Lists of one to four columns.
LEMMA ColumnsLead ==
  ASSUME NEW d, NEW t, NEW cs, Once(cs), DOMAIN cs \in {1 .. 1, 1 .. 2, 1 .. 3, 1 .. 4}, NEW s
  PROVE  /\ Table(t) \in s /\ Columns(t, cs) \cap s = {} =>
              Leads(d, AddColumns(t, cs), s, {}, s \cup Columns(t, cs))
         /\ Columns(t, cs) \subseteq s => Leads(d, DropColumns(t, cs), s, {}, s \ Columns(t, cs))
<1>1. PICK n \in Nat : DOMAIN cs = 1 .. n
  OBVIOUS
<1> QED BY <1>1, LeadsColumns

\* Keys refer to four tables, and few of them to the mandates.
LEMMA EarlyRefs ==
  \A d : \A e \in EarlyKeys(d) :
    /\ e[4] \in {"agents", "payment_intents", "bounded_authorizations", "user_payment_mandates"}
    /\ e[4] = "user_payment_mandates" =>
         \/ e = MandateKey("payment_intents") \/ e = MandateKey("bounded_authorizations")
         \/ e[2] = "payment_instrument_bindings"
<1> SUFFICES ASSUME NEW d, NEW e \in EarlyKeys(d)
             PROVE  /\ e[4] \in {"agents", "payment_intents", "bounded_authorizations", "user_payment_mandates"}
                    /\ e[4] = "user_payment_mandates" =>
                         \/ e = MandateKey("payment_intents") \/ e = MandateKey("bounded_authorizations")
                         \/ e[2] = "payment_instrument_bindings"
  OBVIOUS
<1>1. ASSUME e \in MultitenancyKeys
      PROVE  e[4] \in {"agents", "payment_intents", "bounded_authorizations"}
  <2>1. PICK r \in Range(References) : e = Key(r[1], r[2], r[3], <<"fk_0008", r[1], r[2]>>)
    BY <1>1 DEF MultitenancyKeys
  <2>2. \A i \in DOMAIN References : References[i][3] \in {"agents", "payment_intents", "bounded_authorizations"}
    BY DEF References
  <2>3. r[3] \in {"agents", "payment_intents", "bounded_authorizations"}
    BY <2>2 DEF Range
  <2>4. Key(r[1], r[2], r[3], <<"fk_0008", r[1], r[2]>>)[4] = r[3]
    BY Keys
  <2> QED BY <2>1, <2>3, <2>4
<1>2. \A t : MandateKey(t)[4] = "user_payment_mandates"
  BY Keys DEF MandateKey
<1>3. AgentKey[4] = "agents"
  BY Keys DEF AgentKey
<1> QED BY <1>1, <1>2, <1>3, Keys DEF EarlyKeys

LEMMA TableStatements ==
  /\ \A a : CreateTables(<<a>>) = <<Add({Table(a)})>> /\ DropTables(<<a>>) = <<Drop({Table(a)})>>
  /\ \A a, b : /\ CreateTables(<<a, b>>) = <<Add({Table(a)}), Add({Table(b)})>>
               /\ DropTables(<<a, b>>) = <<Drop({Table(a)}), Drop({Table(b)})>>
  BY DEF CreateTables, DropTables

LEMMA CleanWithout == \A s, t : Clean(s) => Clean(Without(s, t))
  BY DEF Clean, Without

LEMMA TrailsWork == \* 4, 7
  ASSUME NEW d PROVE \A n \in {4, 7} : Climbs(d, n) /\ Descends(d, n)
<1>1. ASSUME NEW n \in {4, 7}, NEW t \in {"audit_events", "rate_buckets"}, TableBirth(t) = n,
             \A s : Revision(n, d, s) = [up |-> << Add({Table(t), Column(t, "org_id")}) >>,
                                         down |-> DropTables(<<t>>)],
             Makes(d, n) = {Table(t)}
      PROVE  Climbs(d, n) /\ Descends(d, n)
  <2> DEFINE new == {Table(t), Column(t, "org_id")}
  <2>1. \A s : /\ Revision(n, d, s).up = <<Add(new)>>
               /\ Revision(n, d, s).down = <<Drop({Table(t)})>>
    BY <1>1, TableStatements
  <2>2. n - 1 \in Nat /\ n > n - 1 /\ n \in 1 .. n
    OBVIOUS
  <2>3. ASSUME NEW s, Ready(d, n - 1, s) PROVE Works(d, <<Add(new)>>, s, Makes(d, n))
    <3>1. Table(t) \notin s /\ Column(t, "org_id") \notin s /\ Clean(s)
      BY <1>1, <2>2, <2>3, NotYet, ReadyClean
    <3>2. Fits(d, new, s, {})
      BY <3>1, TableKinds DEF Fits
    <3>3. Leads(d, <<Add(new)>>, s, {}, s \cup new)
      BY <3>2, LeadsAdd
    <3>4. Clean(s \cup new) /\ Makes(d, n) \subseteq s \cup new
      BY <1>1, <3>1, TableKinds DEF Clean
    <3> QED BY <3>3, <3>4 DEF Works
  <2>4. ASSUME NEW s, Ready(d, n, s) PROVE Works(d, <<Drop({Table(t)})>>, s, {})
    <3>1. Table(t) \in s /\ Clean(s)
      BY <1>1, <2>2, <2>4, ReadyClean DEF Ready
    <3>2. Unreferenced(d, s, t)
      BY <2>4, EarlyRefs DEF Ready, Unreferenced
    <3>3. Leads(d, <<Drop({Table(t)})>>, s, {}, Without(s, t))
      BY <3>1, <3>2, LeadsDropTable
    <3>4. Clean(Without(s, t)) /\ {} \subseteq Without(s, t)
      BY <3>1, CleanWithout
    <3> QED BY <3>3, <3>4 DEF Works
  <2> HIDE DEF new
  <2> QED BY <2>1, <2>3, <2>4 DEF Climbs, Descends
<1>2. TableBirth("audit_events") = 4 /\ TableBirth("rate_buckets") = 7
  BY DEF TableBirth
<1>3. /\ Makes(d, 4) = {Table("audit_events")} /\ Makes(d, 7) = {Table("rate_buckets")}
  BY DEF Makes
<1>4. \A s : Revision(4, d, s) = [up |-> << Add({Table("audit_events"), Column("audit_events", "org_id")}) >>,
                                  down |-> DropTables(<<"audit_events">>)]
  BY DEF Revision, AuditEvents
<1>5. \A s : Revision(7, d, s) = [up |-> << Add({Table("rate_buckets"), Column("rate_buckets", "org_id")}) >>,
                                  down |-> DropTables(<<"rate_buckets">>)]
  BY DEF Revision, RateBuckets
<1>6. Climbs(d, 4) /\ Descends(d, 4)
  BY <1>1, <1>2, <1>3, <1>4
<1>7. Climbs(d, 7) /\ Descends(d, 7)
  BY <1>1, <1>2, <1>3, <1>5
<1> QED BY <1>6, <1>7

LEMMA TrustWork == \* 6
  ASSUME NEW d PROVE Climbs(d, 6) /\ Descends(d, 6)
<1> DEFINE pa == "parent_authorities"
           trust == <<"trust_tier", "kyb_provider_ref">>
           tsurt == <<"kyb_provider_ref", "trust_tier">>
           old == <<"old_public_key_pem">>
           dlo == <<"key_sunset_at", "old_public_key_pem">>
           rot == <<"superseded_by", "rotates_at">>
           tor == <<"rotates_at", "superseded_by">>
           set == <<"key_sunset_at">>
           fill == <<Rewrite("nothing")>>
           batch == Batch(d, pa, {}, {})
           up == AddColumns(pa, trust) \o fill \o batch \o AddColumns("agents", old)
                 \o AddColumns("credentials", rot) \o AddColumns("agents", set)
           down == DropColumns("credentials", tor) \o DropColumns("agents", dlo) \o DropColumns(pa, tsurt)
           A == Columns(pa, trust)
           B == Columns("agents", old)
           C == Columns("credentials", rot)
           E == Columns("agents", set)
           S(s) == s \cup A
           T(s) == S(s) \cup B
           U(s) == T(s) \cup C
           V(s) == U(s) \cup E
<1>1. \A s : Revision(6, d, s).up = up /\ Revision(6, d, s).down = down
  <2>1. \A s : Revision(6, d, s) = TrustRotation(d)
    BY DEF Revision
  <2>2. TrustRotation(d).up = up
    BY DEF TrustRotation
  <2>3. TrustRotation(d).down = down
    BY DEF TrustRotation
  <2> HIDE DEF up, down
  <2> QED BY <2>1, <2>2, <2>3
<1>2. Makes(d, 6) = A \cup B \cup C \cup E
  BY DEF Makes
<1>3. /\ Once(trust) /\ Once(tsurt) /\ Once(old) /\ Once(dlo) /\ Once(rot) /\ Once(tor) /\ Once(set)
  BY ColumnParts
<1>4. /\ DOMAIN trust = 1 .. 2 /\ DOMAIN tsurt = 1 .. 2 /\ DOMAIN old = 1 .. 1 /\ DOMAIN dlo = 1 .. 2
      /\ DOMAIN rot = 1 .. 2 /\ DOMAIN tor = 1 .. 2 /\ DOMAIN set = 1 .. 1
  BY ListDomains
<1>5. /\ A = {Column(pa, "trust_tier"), Column(pa, "kyb_provider_ref")}
      /\ B = {Column("agents", "old_public_key_pem")} /\ E = {Column("agents", "key_sunset_at")}
      /\ C = {Column("credentials", "superseded_by"), Column("credentials", "rotates_at")}
      /\ Columns(pa, tsurt) = {Column(pa, "kyb_provider_ref"), Column(pa, "trust_tier")}
      /\ Columns("agents", dlo) = {Column("agents", "key_sunset_at"), Column("agents", "old_public_key_pem")}
      /\ Columns("credentials", tor) = {Column("credentials", "rotates_at"), Column("credentials", "superseded_by")}
  BY ColumnLists
<1>6. A \cap B = {} /\ (A \cup B) \cap C = {} /\ (A \cup B \cup C) \cap E = {}
  BY <1>5, ColumnParts
<1> HIDE DEF trust, tsurt, old, dlo, rot, tor, set, fill, batch
<1>7. ASSUME NEW s, Ready(d, 5, s) PROVE Works(d, up, s, Makes(d, 6))
  <2>1. 5 \in Nat /\ 5 >= 1
    OBVIOUS
  <2>2. Table(pa) \in s /\ Table("agents") \in s /\ Table("credentials") \in s /\ Clean(s)
        /\ Scratch(pa) \notin s
    BY <1>7, <2>1, ReadyTables, ReadyClean, NotYet
  <2>3. \A t : \A c \in {"trust_tier", "kyb_provider_ref", "old_public_key_pem", "key_sunset_at",
                         "superseded_by", "rotates_at"} : ColumnBirth(t, c) > 5
    BY DEF ColumnBirth
  <2>4. (A \cup B \cup C \cup E) \cap s = {}
    BY <1>5, <1>7, <2>1, <2>3, NotYet
  <2>5. Leads(d, AddColumns(pa, trust), s, {}, S(s))
    BY <1>3, <1>4, <2>2, <2>4, ColumnsLead
  <2>6. Leads(d, fill, S(s), {}, S(s))
    <3>1. /\ Rewrite("nothing").needs = {} /\ Rewrite("nothing").drops = {}
          /\ Rewrite("nothing").adds = {} /\ Rewrite("nothing").write # "cast"
      BY StatementKinds, StepFields
    <3> QED BY <3>1, LeadsQuiet DEF fill
  <2>7. Leads(d, batch, S(s), {}, S(s))
    <3>1. Fits(d, {}, S(s), {}) /\ Parts({}, S(s)) /\ Table(pa) \in S(s) /\ Scratch(pa) \notin S(s)
      BY <1>5, <2>2, TableKinds DEF Fits, Parts
    <3>2. (S(s) \ {}) \cup {} = S(s)
      OBVIOUS
    <3> HIDE DEF S
    <3>3. Leads(d, batch, S(s), {}, (S(s) \ {}) \cup {})
      BY <3>1, LeadsBatch DEF batch
    <3> QED BY <3>2, <3>3
  <2>8. Leads(d, AddColumns("agents", old), S(s), {}, T(s))
    <3>1. Table("agents") \in S(s) /\ B \cap S(s) = {}
      BY <1>6, <2>2, <2>4
    <3> QED BY <1>3, <1>4, <3>1, ColumnsLead
  <2>9. Leads(d, AddColumns("credentials", rot), T(s), {}, U(s))
    <3>1. Table("credentials") \in T(s) /\ C \cap T(s) = {}
      BY <1>6, <2>2, <2>4
    <3> QED BY <1>3, <1>4, <3>1, ColumnsLead
  <2>10. Leads(d, AddColumns("agents", set), U(s), {}, V(s))
    <3>1. Table("agents") \in U(s) /\ E \cap U(s) = {}
      BY <1>6, <2>2, <2>4
    <3> QED BY <1>3, <1>4, <3>1, ColumnsLead
  <2>11. Makes(d, 6) \subseteq V(s) /\ Clean(V(s))
    BY <1>2, <2>2, CleanParts
  <2> HIDE DEF S, T, U, V
  <2>12. Leads(d, AddColumns(pa, trust) \o fill \o batch, s, {}, S(s))
    BY <2>5, <2>6, <2>7, LeadsOn
  <2>13. Leads(d, up, s, {}, V(s))
    BY <2>8, <2>9, <2>10, <2>12, LeadsOn
  <2> QED BY <2>11, <2>13 DEF Works
<1>8. ASSUME NEW s, Ready(d, 6, s) PROVE Works(d, down, s, {})
  <2> DEFINE v == s \ Columns("credentials", tor)
             w == v \ Columns("agents", dlo)
             x == w \ Columns(pa, tsurt)
  <2>1. Makes(d, 6) \subseteq s
    <3>1. 6 \in 1 .. 6
      OBVIOUS
    <3> QED BY <1>8, <3>1 DEF Ready
  <2>2. Clean(s)
    BY <1>8, ReadyClean
  <2>3. Leads(d, DropColumns("credentials", tor), s, {}, v)
    <3>1. Columns("credentials", tor) \subseteq s
      BY <1>2, <1>5, <2>1
    <3> QED BY <1>3, <1>4, <3>1, ColumnsLead
  <2>4. Leads(d, DropColumns("agents", dlo), v, {}, w)
    <3>1. Columns("agents", dlo) \subseteq v
      BY <1>2, <1>5, <2>1, ColumnParts
    <3> QED BY <1>3, <1>4, <3>1, ColumnsLead
  <2>5. Leads(d, DropColumns(pa, tsurt), w, {}, x)
    <3>1. Columns(pa, tsurt) \subseteq w
      BY <1>2, <1>5, <2>1, ColumnParts
    <3> QED BY <1>3, <1>4, <3>1, ColumnsLead
  <2>6. Clean(x) /\ {} \subseteq x
    BY <2>2, CleanParts
  <2> HIDE DEF v, w, x
  <2>7. Leads(d, down, s, {}, x)
    BY <2>3, <2>4, <2>5, LeadsOn
  <2> QED BY <2>6, <2>7 DEF Works
<1>9. 6 - 1 = 5
  OBVIOUS
<1> HIDE DEF up, down
<1> QED BY <1>1, <1>7, <1>8, <1>9 DEF Climbs, Descends

LEMMA SigningWork == \* 11
  ASSUME NEW d PROVE Climbs(d, 11) /\ Descends(d, 11)
<1> DEFINE um == "user_payment_mandates"
           pi == "payment_intents"
           sig == <<"signing_key_id", "signature_b64", "user_public_key_pem", "signed_at">>
           gis == <<"signature_b64", "user_public_key_pem", "signed_at", "signing_key_id">>
           llm == <<"llm_run_id", "llm_model", "llm_tool_call_id", "llm_tool_name">>
           mll == <<"llm_tool_name", "llm_tool_call_id", "llm_model", "llm_run_id">>
           max == <<"max_per_hour", "max_per_merchant_per_day", "max_category_per_day">>
           xam == <<"max_category_per_day", "max_per_merchant_per_day", "max_per_hour">>
           up == AddColumns(um, sig) \o AddColumns(pi, llm) \o AddColumns(um, max)
           down == DropColumns(um, xam) \o DropColumns(pi, mll) \o DropColumns(um, gis)
           A == Columns(um, sig)
           B == Columns(pi, llm)
           C == Columns(um, max)
           S(s) == s \cup A
           T(s) == S(s) \cup B
           U(s) == T(s) \cup C
<1>1. \A s : Revision(11, d, s).up = up /\ Revision(11, d, s).down = down
  <2>1. \A s : Revision(11, d, s) = SigningAndAudit
    BY DEF Revision
  <2>2. SigningAndAudit.up = up
    BY DEF SigningAndAudit
  <2>3. SigningAndAudit.down = down
    BY DEF SigningAndAudit
  <2> HIDE DEF up, down
  <2> QED BY <2>1, <2>2, <2>3
<1>2. Makes(d, 11) = A \cup B \cup C
  BY DEF Makes
<1>3. /\ Once(sig) /\ Once(gis) /\ Once(llm) /\ Once(mll) /\ Once(max) /\ Once(xam)
  BY ColumnParts
<1>4. /\ DOMAIN sig = 1 .. 4 /\ DOMAIN gis = 1 .. 4 /\ DOMAIN llm = 1 .. 4 /\ DOMAIN mll = 1 .. 4
      /\ DOMAIN max = 1 .. 3 /\ DOMAIN xam = 1 .. 3
  BY ListDomains
<1>5. /\ A = {Column(um, "signing_key_id"), Column(um, "signature_b64"), Column(um, "user_public_key_pem"),
              Column(um, "signed_at")}
      /\ B = {Column(pi, "llm_run_id"), Column(pi, "llm_model"), Column(pi, "llm_tool_call_id"),
              Column(pi, "llm_tool_name")}
      /\ C = {Column(um, "max_per_hour"), Column(um, "max_per_merchant_per_day"),
              Column(um, "max_category_per_day")}
      /\ Columns(um, gis) = A /\ Columns(pi, mll) = B /\ Columns(um, xam) = C
  <2>1. /\ A = {Column(um, "signing_key_id"), Column(um, "signature_b64"), Column(um, "user_public_key_pem"),
                Column(um, "signed_at")}
        /\ B = {Column(pi, "llm_run_id"), Column(pi, "llm_model"), Column(pi, "llm_tool_call_id"),
                Column(pi, "llm_tool_name")}
        /\ C = {Column(um, "max_per_hour"), Column(um, "max_per_merchant_per_day"),
                Column(um, "max_category_per_day")}
        /\ Columns(um, gis) = {Column(um, "signature_b64"), Column(um, "user_public_key_pem"),
                               Column(um, "signed_at"), Column(um, "signing_key_id")}
        /\ Columns(pi, mll) = {Column(pi, "llm_tool_name"), Column(pi, "llm_tool_call_id"),
                               Column(pi, "llm_model"), Column(pi, "llm_run_id")}
        /\ Columns(um, xam) = {Column(um, "max_category_per_day"), Column(um, "max_per_merchant_per_day"),
                               Column(um, "max_per_hour")}
    BY ColumnLists
  <2> HIDE DEF A, B, C
  <2> QED BY <2>1
<1>6. A \cap B = {} /\ (A \cup B) \cap C = {}
  BY <1>5, ColumnParts
<1> HIDE DEF sig, gis, llm, mll, max, xam
<1>7. ASSUME NEW s, Ready(d, 10, s) PROVE Works(d, up, s, Makes(d, 11))
  <2>1. 10 \in Nat /\ 10 >= 1 /\ 10 >= 10
    OBVIOUS
  <2>2. Table(um) \in s /\ Table(pi) \in s /\ Clean(s)
    BY <1>7, <2>1, ReadyTables, ReadyClean
  <2>3. \A t : \A c \in {"signing_key_id", "signature_b64", "user_public_key_pem", "signed_at", "llm_run_id",
                         "llm_model", "llm_tool_call_id", "llm_tool_name", "max_per_hour",
                         "max_per_merchant_per_day", "max_category_per_day"} : ColumnBirth(t, c) > 10
    BY DEF ColumnBirth
  <2>4. (A \cup B \cup C) \cap s = {}
    BY <1>5, <1>7, <2>1, <2>3, NotYet
  <2>5. Leads(d, AddColumns(um, sig), s, {}, S(s))
    BY <1>3, <1>4, <2>2, <2>4, ColumnsLead
  <2>6. Leads(d, AddColumns(pi, llm), S(s), {}, T(s))
    <3>1. Table(pi) \in S(s) /\ B \cap S(s) = {}
      BY <1>6, <2>2, <2>4
    <3> QED BY <1>3, <1>4, <3>1, ColumnsLead
  <2>7. Leads(d, AddColumns(um, max), T(s), {}, U(s))
    <3>1. Table(um) \in T(s) /\ C \cap T(s) = {}
      BY <1>6, <2>2, <2>4
    <3> QED BY <1>3, <1>4, <3>1, ColumnsLead
  <2>8. Makes(d, 11) \subseteq U(s) /\ Clean(U(s))
    BY <1>2, <2>2, CleanParts
  <2> HIDE DEF S, T, U
  <2>9. Leads(d, up, s, {}, U(s))
    BY <2>5, <2>6, <2>7, LeadsOn
  <2> QED BY <2>8, <2>9 DEF Works
<1>8. ASSUME NEW s, Ready(d, 11, s) PROVE Works(d, down, s, {})
  <2> DEFINE v == s \ C
             w == v \ B
             x == w \ A
  <2>1. Makes(d, 11) \subseteq s
    <3>1. 11 \in 1 .. 11
      OBVIOUS
    <3> QED BY <1>8, <3>1 DEF Ready
  <2>2. Clean(s)
    BY <1>8, ReadyClean
  <2>3. Leads(d, DropColumns(um, xam), s, {}, v)
    BY <1>2, <1>3, <1>4, <1>5, <2>1, ColumnsLead
  <2>4. Leads(d, DropColumns(pi, mll), v, {}, w)
    <3>1. B \subseteq v
      BY <1>2, <1>6, <2>1
    <3> QED BY <1>3, <1>4, <1>5, <3>1, ColumnsLead
  <2>5. Leads(d, DropColumns(um, gis), w, {}, x)
    <3>1. A \subseteq w
      BY <1>2, <1>6, <2>1
    <3> QED BY <1>3, <1>4, <1>5, <3>1, ColumnsLead
  <2>6. Clean(x) /\ {} \subseteq x
    BY <2>2, CleanParts
  <2> HIDE DEF v, w, x
  <2>7. Leads(d, down, s, {}, x)
    BY <2>3, <2>4, <2>5, LeadsOn
  <2> QED BY <2>6, <2>7 DEF Works
<1>9. 11 - 1 = 10
  OBVIOUS
<1> HIDE DEF up, down
<1> QED BY <1>1, <1>7, <1>8, <1>9 DEF Climbs, Descends

LEMMA ProvenanceWork == \* 17
  ASSUME NEW d PROVE Climbs(d, 17) /\ Descends(d, 17)
<1> DEFINE pt == "provider_transactions"
           cs == <<"provider_environment", "provider_key_id_prefix", "provider_api_base">>
           X == Columns(pt, cs)
           up == AddColumns(pt, cs)
           down == Batch(d, pt, {}, X)
<1>1. \A s : Revision(17, d, s).up = up /\ Revision(17, d, s).down = down
  <2>1. \A s : Revision(17, d, s) = Provenance(d)
    BY DEF Revision
  <2>2. Provenance(d).up = up /\ Provenance(d).down = down
    BY DEF Provenance, Columns
  <2> HIDE DEF up, down
  <2> QED BY <2>1, <2>2
<1>2. Makes(d, 17) = X /\ Once(cs) /\ DOMAIN cs = 1 .. 3
  BY ColumnParts, ListDomains DEF Makes
<1>3. X = {Column(pt, "provider_environment"), Column(pt, "provider_key_id_prefix"),
           Column(pt, "provider_api_base")}
  BY ColumnLists
<1> HIDE DEF cs
<1>4. ASSUME NEW s, Ready(d, 16, s) PROVE Works(d, up, s, Makes(d, 17))
  <2>1. 16 \in Nat /\ 16 >= 1
    OBVIOUS
  <2>2. Table(pt) \in s /\ Clean(s)
    BY <1>4, <2>1, ReadyTables, ReadyClean
  <2>3. \A c \in {"provider_environment", "provider_key_id_prefix", "provider_api_base"} :
          ColumnBirth(pt, c) > 16
    BY DEF ColumnBirth
  <2>4. X \cap s = {}
    BY <1>3, <1>4, <2>1, <2>3, NotYet
  <2>5. Leads(d, up, s, {}, s \cup X)
    BY <1>2, <2>2, <2>4, ColumnsLead
  <2>6. Makes(d, 17) \subseteq s \cup X /\ Clean(s \cup X)
    BY <1>2, <2>2, CleanParts
  <2> HIDE DEF up
  <2> QED BY <2>5, <2>6 DEF Works
<1>5. ASSUME NEW s, Ready(d, 17, s) PROVE Works(d, down, s, {})
  <2>1. 17 \in Nat /\ 17 >= 1 /\ 17 \in 1 .. 17
    OBVIOUS
  <2>2. Makes(d, 17) \subseteq s /\ Clean(s) /\ Table(pt) \in s /\ Scratch(pt) \notin s
    <3>1. Makes(d, 17) \subseteq s
      BY <1>5, <2>1 DEF Ready
    <3>2. Clean(s) /\ Table(pt) \in s
      BY <1>5, <2>1, ReadyTables, ReadyClean
    <3>3. Scratch(pt) \notin s
      BY <1>5, <2>1, NotYet
    <3> QED BY <3>1, <3>2, <3>3
  <2>3. Fits(d, {}, s, {}) /\ Parts(X, s)
    BY <1>2, <1>3, <2>2, TableKinds DEF Fits, Parts, Part
  <2>4. Leads(d, down, s, {}, (s \ X) \cup {})
    <3> HIDE DEF X
    <3> QED BY <2>2, <2>3, LeadsBatch
  <2>5. Clean((s \ X) \cup {}) /\ {} \subseteq (s \ X) \cup {}
    BY <2>2 DEF Clean
  <2> HIDE DEF down
  <2> QED BY <2>4, <2>5 DEF Works
<1>6. 17 - 1 = 16
  OBVIOUS
<1> HIDE DEF up, down
<1> QED BY <1>1, <1>4, <1>5, <1>6 DEF Climbs, Descends

LEMMA HashWork == \* 18
  ASSUME NEW d PROVE Climbs(d, 18) /\ Descends(d, 18)
<1> DEFINE ae == "audit_events"
           X == {HashVersion}
           up == <<Add(X)>>
           down == Batch(d, ae, {}, X)
<1>1. \A s : Revision(18, d, s).up = up /\ Revision(18, d, s).down = down
  <2>1. \A s : Revision(18, d, s) = AuditHashVersion(d)
    BY DEF Revision
  <2>2. AuditHashVersion(d).up = up /\ AuditHashVersion(d).down = down
    BY DEF AuditHashVersion
  <2> HIDE DEF up, down
  <2> QED BY <2>1, <2>2
<1>2. Makes(d, 18) = X /\ HashVersion[1] = "column" /\ Host(HashVersion) = Table(ae)
  BY TableKinds DEF Makes, HashVersion
<1>3. ASSUME NEW s, Ready(d, 17, s) PROVE Works(d, up, s, Makes(d, 18))
  <2>1. 17 \in Nat /\ 17 >= 4
    OBVIOUS
  <2>2. Table(ae) \in s /\ Clean(s)
    BY <1>3, <2>1, ReadyTables, ReadyClean
  <2>3. ColumnBirth(ae, "hash_version") > 17
    BY DEF ColumnBirth
  <2>4. HashVersion \notin s
    BY <1>3, <2>1, <2>3, NotYet DEF HashVersion
  <2>5. Fits(d, X, s, {})
    BY <1>2, <2>2, <2>4 DEF Fits
  <2>6. Leads(d, up, s, {}, s \cup X)
    BY <2>5, LeadsAdd
  <2>7. Makes(d, 18) \subseteq s \cup X /\ Clean(s \cup X)
    BY <1>2, <2>2 DEF Clean
  <2> HIDE DEF up
  <2> QED BY <2>6, <2>7 DEF Works
<1>4. ASSUME NEW s, Ready(d, 18, s) PROVE Works(d, down, s, {})
  <2>1. 18 \in Nat /\ 18 >= 4 /\ 18 \in 1 .. 18
    OBVIOUS
  <2>2. Makes(d, 18) \subseteq s /\ Clean(s) /\ Table(ae) \in s /\ Scratch(ae) \notin s
    <3>1. Makes(d, 18) \subseteq s
      BY <1>4, <2>1 DEF Ready
    <3>2. Clean(s) /\ Table(ae) \in s
      BY <1>4, <2>1, ReadyTables, ReadyClean
    <3>3. Scratch(ae) \notin s
      BY <1>4, <2>1, NotYet
    <3> QED BY <3>1, <3>2, <3>3
  <2>3. Fits(d, {}, s, {}) /\ Parts(X, s)
    BY <1>2, <2>2 DEF Fits, Parts, Part
  <2>4. Leads(d, down, s, {}, (s \ X) \cup {})
    <3> HIDE DEF X
    <3> QED BY <2>2, <2>3, LeadsBatch
  <2>5. Clean((s \ X) \cup {}) /\ {} \subseteq (s \ X) \cup {}
    BY <2>2 DEF Clean
  <2> HIDE DEF down
  <2> QED BY <2>4, <2>5 DEF Works
<1>5. 18 - 1 = 17
  OBVIOUS
<1> HIDE DEF up, down
<1> QED BY <1>1, <1>3, <1>4, <1>5 DEF Climbs, Descends

LEMMA VocabularyWork == \* 19
  ASSUME NEW d PROVE Climbs(d, 19) /\ Descends(d, 19)
<1>1. \A s : Revision(19, d, s) = [up |-> <<Rewrite("retire")>>, down |-> <<Rewrite("restore")>>]
  BY DEF Revision, StateVocabulary
<1>2. ASSUME NEW s, NEW n, NEW how \in {"retire", "restore"}, Ready(d, n, s)
      PROVE  Works(d, <<Rewrite(how)>>, s, {})
  <2>1. /\ Rewrite(how).needs = {} /\ Rewrite(how).drops = {} /\ Rewrite(how).adds = {}
        /\ Rewrite(how).write # "cast"
    BY StatementKinds, StepFields
  <2>2. Leads(d, <<Rewrite(how)>>, s, {}, s)
    BY <2>1, LeadsQuiet
  <2>3. Clean(s) /\ {} \subseteq s
    BY <1>2, ReadyClean
  <2> QED BY <2>2, <2>3 DEF Works
<1>3. Makes(d, 19) = {}
  BY DEF Makes
<1> QED BY <1>1, <1>2, <1>3 DEF Climbs, Descends

LEMMA FourJoin == ASSUME NEW a, NEW b, NEW x, NEW y PROVE <<a, b>> \o <<x, y>> = <<a, b, x, y>>
<1> DEFINE S == {a, b, x, y}
<1>1. a \in S /\ b \in S /\ x \in S /\ y \in S
  OBVIOUS
<1> HIDE DEF S
<1> DEFINE p == <<a, b>>
           q == <<x, y>>
           c == p \o q
           e == <<a, b, x, y>>
<1>2. p \in Seq(S) /\ q \in Seq(S) /\ Len(p) = 2 /\ Len(q) = 2 /\ p[1] = a /\ p[2] = b /\ q[1] = x /\ q[2] = y
  BY <1>1
<1>3. e \in Seq(S) /\ Len(e) = 4 /\ e[1] = a /\ e[2] = b /\ e[3] = x /\ e[4] = y
  BY <1>1
<1> HIDE DEF p, q, e
<1>4. c \in Seq(S) /\ Len(c) = 4 /\ c[1] = a /\ c[2] = b /\ c[3] = x /\ c[4] = y
  <2>1. /\ c \in Seq(S) /\ Len(c) = Len(p) + Len(q)
        /\ \A i \in 1 .. Len(p) + Len(q) : c[i] = IF i <= Len(p) THEN p[i] ELSE q[i - Len(p)]
    BY <1>2, ConcatProperties
  <2>2. /\ 1 \in 1 .. 2 + 2 /\ 2 \in 1 .. 2 + 2 /\ 3 \in 1 .. 2 + 2 /\ 4 \in 1 .. 2 + 2 /\ 2 + 2 = 4
        /\ 1 <= 2 /\ 2 <= 2 /\ ~(3 <= 2) /\ ~(4 <= 2) /\ 3 - 2 = 1 /\ 4 - 2 = 2
    OBVIOUS
  <2> HIDE DEF c
  <2> QED BY <1>2, <2>1, <2>2
<1> HIDE DEF c
<1>5. c = e
  <2>1. \A i \in 1 .. 4 : i = 1 \/ i = 2 \/ i = 3 \/ i = 4
    OBVIOUS
  <2>2. \A i \in 1 .. Len(c) : c[i] = e[i]
    BY <1>3, <1>4, <2>1
  <2> QED BY <1>3, <1>4, <2>2, SeqEqual
<1> QED BY <1>5 DEF c, e, p, q

LEMMA LeadsPair ==
  ASSUME NEW d, NEW a, NEW b, NEW s, NEW t, NEW u, NEW c, Leads(d, <<a>>, s, {}, t),
         Leads(d, <<b>>, t, c, u), c \subseteq Mark(a)
  PROVE  Leads(d, <<a, b>>, s, {}, u)
<1>1. Passed(<<a>>) = Mark(a)
  <2>1. Range(<<a>>) = {a}
    BY RangeLists
  <2> QED BY <2>1 DEF Passed
<1>2. Leads(d, <<a>> \o <<b>>, s, {}, u)
  BY <1>1, LeadsThen
<1> QED BY <1>2, PairJoins

LEMMA WorksNone == ASSUME NEW d, NEW n, NEW s, Ready(d, n, s) PROVE Works(d, << >>, s, {})
  BY LeadsNone, ReadyClean DEF Works

LEMMA SuspendedWork == \* 13
  ASSUME NEW d PROVE Climbs(d, 13) /\ Descends(d, 13)
<1>1. Makes(d, 13) = {}
  BY DEF Makes
<1>2. \A s : Revision(13, d, s) = ParentSuspended(d, s)
  BY DEF Revision
<1>3. \A s : ParentSuspended(d, s).down = << >>
  BY DEF ParentSuspended
<1>4. CASE d # "postgresql"
  <2>1. \A s : ParentSuspended(d, s).up = << >>
    BY <1>4 DEF ParentSuspended
  <2> QED BY <1>1, <1>2, <1>3, <2>1, WorksNone DEF Climbs, Descends
<1>5. CASE d = "postgresql"
  <2> DEFINE labels == {Label("parentstatus", "SUSPENDED")}
             a(s) == AddLabels(labels, s)
  <2>1. \A s : ParentSuspended(d, s).up = <<Commit, a(s)>>
    BY <1>5 DEF ParentSuspended
  <2>2. \A e \in labels : Host(e) = Type("parentstatus") /\ e[1] = "label"
    BY DEF Label, Host
  <2> HIDE DEF labels
  <2>3. ASSUME NEW s, Ready(d, 12, s) PROVE Works(d, <<Commit, a(s)>>, s, {})
    <3>1. Type("parentstatus") \in s
      <4>1. 1 \in 1 .. 12 /\ Type("parentstatus") \in Makes(d, 1)
        BY <1>5 DEF Makes
      <4> QED BY <2>3, <4>1 DEF Ready
    <3>2. Leads(d, <<Commit>>, s, {}, s)
      <4>1. Commit.needs = {} /\ Commit.drops = {} /\ Commit.adds = {} /\ Commit.write # "cast"
        BY StatementKinds, StepFields
      <4> QED BY <4>1, LeadsQuiet
    <3>3. Leads(d, <<a(s)>>, s, {}, s \cup (labels \ s))
      <4>1. a(s).needs = {} /\ a(s).drops = {} /\ a(s).adds = labels \ s /\ a(s).write # "cast"
        BY StatementKinds, StepFields
      <4>2. Fits(d, a(s).adds, s, {})
        BY <2>2, <3>1, <4>1 DEF Fits
      <4>3. Able(d, a(s), s, {}) /\ After(a(s), s) = s \cup (labels \ s)
        BY <4>1, <4>2, AbleAdd
      <4> QED BY <4>3, LeadsOne
    <3>4. Leads(d, <<Commit, a(s)>>, s, {}, s \cup (labels \ s))
      <4>1. {} \subseteq Mark(Commit)
        OBVIOUS
      <4> QED BY <3>2, <3>3, <4>1, LeadsPair
    <3>5. Clean(s \cup (labels \ s)) /\ {} \subseteq s \cup (labels \ s)
      <4>1. Clean(s)
        BY <2>3, ReadyClean
      <4> QED BY <2>2, <4>1 DEF Clean
    <3> HIDE DEF a
    <3> QED BY <3>4, <3>5 DEF Works
  <2>4. 13 - 1 = 12
    OBVIOUS
  <2> HIDE DEF a
  <2> QED BY <1>1, <1>2, <1>3, <2>1, <2>3, <2>4, WorksNone DEF Climbs, Descends
<1> QED BY <1>4, <1>5

LEMMA StatusWork == \* 14
  ASSUME NEW d PROVE Climbs(d, 14) /\ Descends(d, 14)
<1>1. \A s : Revision(14, d, s) = MandateStatusEnum(d, s)
  BY DEF Revision
<1>2. CASE d # "postgresql"
  <2>1. \A s : MandateStatusEnum(d, s).up = << >> /\ MandateStatusEnum(d, s).down = << >>
    BY <1>2 DEF MandateStatusEnum
  <2>2. Makes(d, 14) = {}
    BY <1>2 DEF Makes
  <2> QED BY <1>1, <2>1, <2>2, WorksNone DEF Climbs, Descends
<1>3. CASE d = "postgresql"
  <2> DEFINE um == "user_payment_mandates"
             status == Native(um, "status")
             types(s) == {Type("mandatestatus")} \ s
             a(s) == Add(types(s))
             upper == Rewrite("upper")
             cast == [Add({status}) EXCEPT !.write = "cast"]
             up(s) == <<a(s), Commit, upper, cast>>
             down == <<Drop({status})>>
  <2>1. \A s : MandateStatusEnum(d, s).up = up(s) /\ MandateStatusEnum(d, s).down = down
    BY <1>3 DEF MandateStatusEnum
  <2>2. Makes(d, 14) = {status}
    BY <1>3 DEF Makes
  <2>3. status[1] = "native" /\ status[2] = um /\ Host(status) = Table(um)
    BY DEF Native, Host
  <2>4. Type("mandatestatus")[1] = "type" /\ Host(Type("mandatestatus")) = Type("mandatestatus")
    BY DEF Type, Host
  <2>5. cast.needs = {} /\ cast.drops = {} /\ cast.adds = {status} /\ cast.write = "cast"
    BY DEF Add, Plain
  <2>6. upper.needs = {} /\ upper.drops = {} /\ upper.adds = {} /\ upper.write = "upper"
    BY StatementKinds, StepFields
  <2> HIDE DEF status, upper, cast
  <2>7. ASSUME NEW s, Ready(d, 13, s) PROVE Works(d, up(s), s, {status})
    <3> DEFINE t == s \cup types(s)
               u == t \cup {status}
    <3>1. 13 \in Nat /\ 13 >= 10
      OBVIOUS
    <3>2. Table(um) \in s /\ Clean(s)
      BY <2>7, <3>1, ReadyTables, ReadyClean
    <3>3. status \notin s
      <4>1. Birth(d, status) = 14
        BY <2>3 DEF Birth
      <4>2. status[1] = "native"
        BY <2>3
      <4>3. status \in s => Old(d, 13, status)
        BY <2>7, <4>2 DEF Ready
      <4>4. ~(14 <= 13)
        OBVIOUS
      <4> QED BY <4>1, <4>3, <4>4 DEF Old
    <3>4. Leads(d, <<a(s)>>, s, {}, t)
      <4>1. Fits(d, types(s), s, {})
        BY <2>4 DEF Fits
      <4> HIDE DEF types
      <4> QED BY <4>1, LeadsAdd
    <3>5. Leads(d, <<Commit>>, t, {}, t)
      <4>1. Commit.needs = {} /\ Commit.drops = {} /\ Commit.adds = {} /\ Commit.write # "cast"
        BY StatementKinds, StepFields
      <4> QED BY <4>1, LeadsQuiet
    <3>6. Leads(d, <<upper>>, t, {}, t)
      BY <2>6, LeadsQuiet
    <3>7. Leads(d, <<cast>>, t, {<<"upper">>}, u)
      <4>1. status \notin t /\ Table(um) \in t
        BY <2>3, <2>4, <3>2, <3>3
      <4>2. Fits(d, cast.adds, t, {<<"upper">>})
        BY <2>3, <2>5, <4>1 DEF Fits
      <4>3. Able(d, cast, t, {<<"upper">>}) /\ After(cast, t) = u
        BY <2>5, <4>2, AbleAdd
      <4> QED BY <4>3, LeadsOne
    <3>8. Clean(u) /\ {status} \subseteq u
      BY <2>3, <2>4, <3>2 DEF Clean
    <3> HIDE DEF t, u
    <3>9. Leads(d, <<a(s), Commit>>, s, {}, t)
      <4>1. {} \subseteq Mark(a(s))
        OBVIOUS
      <4> HIDE DEF a
      <4> QED BY <3>4, <3>5, <4>1, LeadsPair
    <3>10. Leads(d, <<upper, cast>>, t, {}, u)
      <4>1. {<<"upper">>} \subseteq Mark(upper)
        BY <2>6 DEF Mark
      <4> QED BY <3>6, <3>7, <4>1, LeadsPair
    <3>11. Leads(d, up(s), s, {}, u)
      <4>1. Leads(d, <<a(s), Commit>> \o <<upper, cast>>, s, {}, u)
        BY <3>9, <3>10, LeadsOn
      <4> HIDE DEF a
      <4> QED BY <4>1, FourJoin
    <3> HIDE DEF up
    <3> QED BY <3>8, <3>11 DEF Works
  <2>8. ASSUME NEW s, Ready(d, 14, s) PROVE Works(d, down, s, {})
    <3>1. status \in s
      <4>1. 14 \in 1 .. 14
        OBVIOUS
      <4> QED BY <2>2, <2>8, <4>1 DEF Ready
    <3>2. Leads(d, down, s, {}, s \ {status})
      <4>1. Parts({status}, s)
        BY <2>3, <3>1 DEF Parts, Part
      <4> QED BY <4>1, LeadsDrop
    <3>3. Clean(s \ {status}) /\ {} \subseteq s \ {status}
      BY <2>8, ReadyClean, CleanParts
    <3> HIDE DEF down
    <3> QED BY <3>2, <3>3 DEF Works
  <2>9. 14 - 1 = 13
    OBVIOUS
  <2> HIDE DEF up, down
  <2> QED BY <1>1, <2>1, <2>2, <2>7, <2>8, <2>9 DEF Climbs, Descends
<1> QED BY <1>2, <1>3

LEMMA AgentKeyWork == \* 15
  ASSUME NEW d PROVE Climbs(d, 15) /\ Descends(d, 15)
<1>1. \A s : Revision(15, d, s) = IntentAgentKey(d, s)
  BY DEF Revision
<1>2. Makes(d, 15) = {}
  BY DEF Makes
<1>3. CASE d # "postgresql"
  <2>1. \A s : IntentAgentKey(d, s).up = << >> /\ IntentAgentKey(d, s).down = << >>
    BY <1>3 DEF IntentAgentKey
  <2> QED BY <1>1, <1>2, <2>1, WorksNone DEF Climbs, Descends
<1>4. CASE d = "postgresql"
  <2> DEFINE rows == Dangling({<<"payment_intents", "agent_id">>})
             refuse == RefuseOrphans(rows)
             add == Add({AgentKey})
             down(s) == <<Drop({AgentKey} \cap s)>>
  <2>1. \A s : IntentAgentKey(d, s).up = <<refuse, add>> /\ IntentAgentKey(d, s).down = down(s)
    BY <1>4 DEF IntentAgentKey
  <2>2. /\ AgentKey[1] = "key" /\ AgentKey[2] = "payment_intents" /\ AgentKey[3] = "agent_id"
        /\ AgentKey[4] = "agents" /\ KeyBirth(d, AgentKey) = 15
    BY <1>4, Keys, EarlyBirths DEF AgentKey
  <2>3. Host(AgentKey) = Table("payment_intents")
    BY <2>2 DEF Host
  <2>4. \A id \in Ids : <<"payment_intents", "agent_id", id>> \in rows
    BY DEF Dangling
  <2>5. /\ refuse.needs = {} /\ refuse.drops = {} /\ refuse.adds = {} /\ refuse.write = "nothing"
        /\ refuse.orphans = rows
    BY StatementKinds, StepFields
  <2> HIDE DEF rows, refuse
  <2>6. ASSUME NEW s, Ready(d, 14, s) PROVE Works(d, <<refuse, add>>, s, {})
    <3> DEFINE t == s \cup {AgentKey}
    <3>1. 14 \in Nat /\ 14 >= 1 /\ 15 > 14
      OBVIOUS
    <3>2. Table("payment_intents") \in s /\ Table("agents") \in s /\ Clean(s)
      BY <2>6, <3>1, ReadyTables, ReadyClean
    <3>3. AgentKey \notin s
      BY <2>2, <2>6, <3>1, NotYet
    <3>4. Leads(d, <<refuse>>, s, {}, s)
      BY <2>5, LeadsQuiet
    <3>5. Fits(d, {AgentKey}, s, rows)
      BY <2>2, <2>3, <2>4, <3>2, <3>3 DEF Fits
    <3>6. Leads(d, <<add>>, s, rows, t)
      BY <3>5, LeadsAdd
    <3>7. rows \subseteq Mark(refuse)
      BY <2>5, DanglingMarks DEF Mark, rows
    <3>8. Clean(t) /\ {} \subseteq t
      BY <2>2, <3>2 DEF Clean
    <3> HIDE DEF t, add
    <3>9. Leads(d, <<refuse, add>>, s, {}, t)
      BY <3>4, <3>6, <3>7, LeadsPair
    <3> QED BY <3>8, <3>9 DEF Works
  <2>7. ASSUME NEW s, Ready(d, 15, s) PROVE Works(d, down(s), s, {})
    <3> DEFINE gone == {AgentKey} \cap s
    <3>1. Parts(gone, s)
      BY <2>2 DEF Parts, Part
    <3> HIDE DEF gone
    <3>2. Leads(d, <<Drop(gone)>>, s, {}, s \ gone)
      BY <3>1, LeadsDrop
    <3>3. Clean(s \ gone) /\ {} \subseteq s \ gone
      BY <2>7, ReadyClean, CleanParts
    <3> QED BY <3>2, <3>3 DEF Works, gone
  <2>8. 15 - 1 = 14
    OBVIOUS
  <2> HIDE DEF add, down
  <2> QED BY <1>1, <1>2, <2>1, <2>6, <2>7, <2>8 DEF Climbs, Descends
<1> QED BY <1>3, <1>4

LEMMA LooseOnly ==
  \A t, c : <<t, c>> \in Loose <=> \/ t = "payment_intents" /\ c = "agent_id"
                                   \/ t = "provider_transactions" /\ c = "authorization_id"
  BY DEF Loose

LEMMA ProofsWork == \* 9
  ASSUME NEW d PROVE Climbs(d, 9) /\ Descends(d, 9)
<1> DEFINE rp == "request_proofs"
           key == Key(rp, "agent_id", "agents", <<"fk_request_proofs_agent">>)
           keys == IF d = "postgresql" THEN {key} ELSE {}
           make == CreateTables(<<rp>>)
           drop == DropTables(<<rp>>)
           tie == IF d = "postgresql" THEN <<Add({key})>> ELSE << >>
           untie == IF d = "postgresql" THEN <<Drop({key})>> ELSE << >>
<1>1. \A s : Revision(9, d, s).up = make \o tie /\ Revision(9, d, s).down = untie \o drop
  <2>1. \A s : Revision(9, d, s) = RequestProofs(d)
    BY DEF Revision
  <2>2. RequestProofs(d).up = make \o tie /\ RequestProofs(d).down = untie \o drop
    BY DEF RequestProofs
  <2> HIDE DEF make, drop, tie, untie
  <2> QED BY <2>1, <2>2
<1>2. make = <<Add({Table(rp)})>> /\ drop = <<Drop({Table(rp)})>>
  BY TableStatements
<1>3. Makes(d, 9) = {Table(rp)} \cup keys
  BY DEF Makes
<1>4. key[1] = "key" /\ key[2] = rp /\ key[3] = "agent_id" /\ key[4] = "agents" /\ KeyBirth(d, key) = 9
  BY Keys, EarlyBirths
<1>5. Host(key) = Table(rp) /\ <<rp, "agent_id">> \notin Loose
  BY <1>4, LooseOnly DEF Host
<1> HIDE DEF key, make, drop
<1>6. ASSUME NEW s, Ready(d, 8, s) PROVE Works(d, make \o tie, s, Makes(d, 9))
  <2> DEFINE t == s \cup {Table(rp)}
             u == t \cup keys
  <2>1. 8 \in Nat /\ 8 >= 1 /\ 9 > 8
    OBVIOUS
  <2>2. Table("agents") \in s /\ Clean(s)
    BY <1>6, <2>1, ReadyTables, ReadyClean
  <2>3. Table(rp) \notin s /\ key \notin s
    <3>1. TableBirth(rp) > 8
      BY DEF TableBirth
    <3> QED BY <1>4, <1>6, <2>1, <3>1, NotYet
  <2>4. Leads(d, make, s, {}, t)
    <3>1. Fits(d, {Table(rp)}, s, {})
      BY <2>3, TableKinds DEF Fits
    <3> QED BY <1>2, <3>1, LeadsAdd
  <2>5. Leads(d, tie, t, {}, u)
    <3>1. CASE d = "postgresql"
      <4>1. key \notin t
        BY <1>4, <2>3, TableKinds
      <4>2. Fits(d, {key}, t, {})
        BY <1>4, <1>5, <2>2, <4>1 DEF Fits
      <4> HIDE DEF t
      <4>3. Leads(d, <<Add({key})>>, t, {}, t \cup {key})
        BY <4>2, LeadsAdd
      <4> QED BY <3>1, <4>3
    <3>2. CASE d # "postgresql"
      <4>1. u = t
        BY <3>2
      <4> HIDE DEF t, u
      <4> QED BY <3>2, <4>1, LeadsNone
    <3> QED BY <3>1, <3>2
  <2>6. Clean(u) /\ Makes(d, 9) \subseteq u
    BY <1>3, <1>4, <2>2, TableKinds DEF Clean
  <2> HIDE DEF t, u
  <2>7. Leads(d, make \o tie, s, {}, u)
    BY <2>4, <2>5, LeadsOn
  <2> QED BY <2>6, <2>7 DEF Works
<1>7. ASSUME NEW s, Ready(d, 9, s) PROVE Works(d, untie \o drop, s, {})
  <2> DEFINE t == s \ keys
             u == Without(t, rp)
  <2>1. 9 \in Nat /\ 9 >= 9 /\ 9 \in 1 .. 9
    OBVIOUS
  <2>2. Makes(d, 9) \subseteq s /\ Clean(s)
    <3>1. Makes(d, 9) \subseteq s
      BY <1>7, <2>1 DEF Ready
    <3> QED BY <1>7, <3>1, ReadyClean
  <2>3. Leads(d, untie, s, {}, t)
    <3>1. CASE d = "postgresql"
      <4>1. Parts({key}, s)
        BY <1>3, <1>4, <2>2, <3>1 DEF Parts, Part
      <4>2. Leads(d, <<Drop({key})>>, s, {}, s \ {key})
        BY <4>1, LeadsDrop
      <4> QED BY <3>1, <4>2
    <3>2. CASE d # "postgresql"
      <4>1. t = s
        BY <3>2
      <4> HIDE DEF t
      <4> QED BY <3>2, <4>1, LeadsNone
    <3> QED BY <3>1, <3>2
  <2>4. Leads(d, drop, t, {}, u)
    <3>1. Table(rp) \in t
      BY <1>3, <1>4, <2>2, TableKinds
    <3>2. Unreferenced(d, t, rp)
      BY <1>7, EarlyRefs DEF Ready, Unreferenced
    <3> HIDE DEF t
    <3> QED BY <1>2, <3>1, <3>2, LeadsDropTable
  <2>5. Clean(u) /\ {} \subseteq u
    BY <2>2, CleanWithout, CleanParts
  <2> HIDE DEF t, u
  <2>6. Leads(d, untie \o drop, s, {}, u)
    BY <2>3, <2>4, LeadsOn
  <2> QED BY <2>5, <2>6 DEF Works
<1>8. 9 - 1 = 8
  OBVIOUS
<1> HIDE DEF tie, untie
<1> QED BY <1>1, <1>6, <1>7, <1>8 DEF Climbs, Descends

LEMMA MandatesWork == \* 10
  ASSUME NEW d PROVE Climbs(d, 10) /\ Descends(d, 10)
<1> DEFINE um == "user_payment_mandates"
           ib == "payment_instrument_bindings"
           pi == "payment_intents"
           ba == "bounded_authorizations"
           kum == Key(um, "agent_id", "agents", Inline(d, um, "agent_id"))
           kib == Key(ib, "mandate_id", um, Inline(d, ib, "mandate_id"))
           kpi == MandateKey(pi)
           kba == MandateKey(ba)
           mid == Column(pi, "mandate_id")
           cat == Column(pi, "merchant_category")
           aid == Column(ba, "mandate_id")
           intents == {mid, cat, kpi}
           authorizations == {aid, kba}
           one == Add({Table(um), kum})
           two == Add({Table(ib), kib})
           up == <<one, two>> \o Batch(d, pi, intents, {}) \o Batch(d, ba, authorizations, {})
           drop == DropTables(<<ib, um>>)
           down == Batch(d, ba, {}, authorizations) \o Batch(d, pi, {}, intents) \o drop
<1>1. \A s : Revision(10, d, s).up = up /\ Revision(10, d, s).down = down
  <2>1. \A s : Revision(10, d, s) = UserPaymentMandates(d)
    BY DEF Revision
  <2>2. UserPaymentMandates(d).up = up
    BY DEF UserPaymentMandates
  <2>3. UserPaymentMandates(d).down = down
    BY DEF UserPaymentMandates
  <2> HIDE DEF up, down
  <2> QED BY <2>1, <2>2, <2>3
<1>2. drop = <<Drop({Table(ib)}), Drop({Table(um)})>>
  BY TableStatements
<1>3. Makes(d, 10) = {Table(um), Table(ib), mid, cat, kpi, aid, kba}
  BY DEF Makes
<1>4. /\ kum[1] = "key" /\ kum[2] = um /\ kum[3] = "agent_id" /\ kum[4] = "agents" /\ KeyBirth(d, kum) = 10
      /\ kib[1] = "key" /\ kib[2] = ib /\ kib[3] = "mandate_id" /\ kib[4] = um /\ KeyBirth(d, kib) = 10
      /\ kpi[1] = "key" /\ kpi[2] = pi /\ kpi[3] = "mandate_id" /\ kpi[4] = um /\ KeyBirth(d, kpi) = 10
      /\ kba[1] = "key" /\ kba[2] = ba /\ kba[3] = "mandate_id" /\ kba[4] = um /\ KeyBirth(d, kba) = 10
  <2>1. /\ KeyBirth(d, kum) = 10 /\ KeyBirth(d, kib) = 10 /\ KeyBirth(d, kpi) = 10 /\ KeyBirth(d, kba) = 10
    BY EarlyBirths
  <2> QED BY <2>1, Keys DEF MandateKey
<1>5. /\ mid[1] = "column" /\ mid[2] = pi /\ Host(mid) = Table(pi)
      /\ cat[1] = "column" /\ cat[2] = pi /\ Host(cat) = Table(pi) /\ mid # cat
      /\ aid[1] = "column" /\ aid[2] = ba /\ Host(aid) = Table(ba)
  BY TableKinds, ColumnParts
<1>6. /\ <<um, "agent_id">> \notin Loose /\ <<ib, "mandate_id">> \notin Loose
      /\ <<pi, "mandate_id">> \notin Loose /\ <<ba, "mandate_id">> \notin Loose
  BY LooseOnly
<1> HIDE DEF kum, kib, kpi, kba, mid, cat, aid
<1>7. Host(kum) = Table(um) /\ Host(kib) = Table(ib) /\ Host(kpi) = Table(pi) /\ Host(kba) = Table(ba)
  BY <1>4 DEF Host
<1> HIDE DEF drop
<1>8. ASSUME NEW s, Ready(d, 9, s) PROVE Works(d, up, s, Makes(d, 10))
  <2> DEFINE t == s \cup {Table(um), kum}
             u == t \cup {Table(ib), kib}
             v == (u \ {}) \cup intents
             w == (v \ {}) \cup authorizations
  <2>1. 9 \in Nat /\ 9 >= 1 /\ 10 > 9
    OBVIOUS
  <2>2. /\ Table("agents") \in s /\ Table(pi) \in s /\ Table(ba) \in s /\ Clean(s)
        /\ Scratch(pi) \notin s /\ Scratch(ba) \notin s
    <3>1. Table("agents") \in s /\ Table(pi) \in s /\ Table(ba) \in s /\ Clean(s)
      BY <1>8, <2>1, ReadyTables, ReadyClean
    <3>2. Scratch(pi) \notin s /\ Scratch(ba) \notin s
      BY <1>8, <2>1, NotYet
    <3> QED BY <3>1, <3>2
  <2>3. Table(um) \notin s /\ Table(ib) \notin s /\ mid \notin s /\ cat \notin s /\ aid \notin s
    <3>1. TableBirth(um) > 9 /\ TableBirth(ib) > 9
      BY DEF TableBirth
    <3>2. ColumnBirth(pi, "mandate_id") > 9 /\ ColumnBirth(pi, "merchant_category") > 9
          /\ ColumnBirth(ba, "mandate_id") > 9
      BY DEF ColumnBirth
    <3> QED BY <1>8, <2>1, <3>1, <3>2, NotYet DEF mid, cat, aid
  <2>4. kum \notin s /\ kib \notin s /\ kpi \notin s /\ kba \notin s
    <3>1. \A e : e[1] = "key" /\ KeyBirth(d, e) = 10 => e \notin s
      <4>1. \A e : e[1] = "key" /\ KeyBirth(d, e) > 9 => e \notin s
        BY <1>8, <2>1, NotYet
      <4> QED BY <2>1, <4>1
    <3> QED BY <1>4, <3>1
  <2>5. Leads(d, <<one>>, s, {}, t)
    <3>1. Fits(d, {Table(um), kum}, s, {})
      BY <1>4, <1>6, <1>7, <2>2, <2>3, <2>4, TableKinds DEF Fits
    <3> QED BY <3>1, LeadsAdd
  <2>6. Leads(d, <<two>>, t, {}, u)
    <3>1. Table(ib) \notin t /\ kib \notin t
      BY <1>4, <2>3, <2>4, TableKinds
    <3>2. Fits(d, {Table(ib), kib}, t, {})
      BY <1>4, <1>6, <1>7, <3>1, TableKinds DEF Fits
    <3> HIDE DEF t
    <3> QED BY <3>2, LeadsAdd
  <2>7. Leads(d, Batch(d, pi, intents, {}), u, {}, v)
    <3>1. mid \notin u /\ cat \notin u /\ kpi \notin u /\ Table(pi) \in u /\ Table(um) \in u /\ Scratch(pi) \notin u
      BY <1>4, <1>5, <2>2, <2>3, <2>4, TableKinds
    <3>2. Fits(d, intents, u, {})
      BY <1>4, <1>5, <1>6, <1>7, <3>1 DEF Fits
    <3>3. Parts({}, u) /\ \A e \in intents : Part(e)
      BY <1>4, <1>5 DEF Parts, Part
    <3> HIDE DEF u, intents
    <3> QED BY <3>1, <3>2, <3>3, LeadsBatch
  <2>8. Leads(d, Batch(d, ba, authorizations, {}), v, {}, w)
    <3>1. aid \notin v /\ kba \notin v /\ Table(ba) \in v /\ Table(um) \in v /\ Scratch(ba) \notin v
      BY <1>4, <1>5, <2>2, <2>3, <2>4, TableKinds
    <3>2. Fits(d, authorizations, v, {})
      BY <1>4, <1>5, <1>6, <1>7, <3>1 DEF Fits
    <3>3. Parts({}, v) /\ \A e \in authorizations : Part(e)
      BY <1>4, <1>5 DEF Parts, Part
    <3> HIDE DEF v, authorizations
    <3> QED BY <3>1, <3>2, <3>3, LeadsBatch
  <2>9. Clean(w) /\ Makes(d, 10) \subseteq w
    BY <1>3, <1>4, <1>5, <2>2, TableKinds DEF Clean
  <2> HIDE DEF t, u, v, w, one, two, intents, authorizations
  <2>10. Leads(d, <<one, two>>, s, {}, u)
    <3>1. {} \subseteq Mark(one)
      OBVIOUS
    <3> QED BY <2>5, <2>6, <3>1, LeadsPair
  <2>11. Leads(d, up, s, {}, w)
    BY <2>7, <2>8, <2>10, LeadsOn
  <2> QED BY <2>9, <2>11 DEF Works
<1>9. ASSUME NEW s, Ready(d, 10, s) PROVE Works(d, down, s, {})
  <2> DEFINE t == (s \ authorizations) \cup {}
             u == (t \ intents) \cup {}
             v == Without(u, ib)
             w == Without(v, um)
  <2>1. 10 \in Nat /\ 10 >= 1 /\ 10 \in 1 .. 10
    OBVIOUS
  <2>2. Makes(d, 10) \subseteq s
    BY <1>9, <2>1 DEF Ready
  <2>3. Table(pi) \in s /\ Table(ba) \in s /\ Clean(s) /\ Scratch(pi) \notin s /\ Scratch(ba) \notin s
    <3>1. Table(pi) \in s /\ Table(ba) \in s /\ Clean(s)
      BY <1>9, <2>1, ReadyTables, ReadyClean
    <3>2. Scratch(pi) \notin s /\ Scratch(ba) \notin s
      BY <1>9, <2>1, NotYet
    <3> QED BY <3>1, <3>2
  <2>4. Leads(d, Batch(d, ba, {}, authorizations), s, {}, t)
    <3>1. Fits(d, {}, s, {}) /\ Parts(authorizations, s)
      BY <1>3, <1>4, <1>5, <2>2 DEF Fits, Parts, Part
    <3> HIDE DEF authorizations
    <3> QED BY <2>3, <3>1, LeadsBatch
  <2>5. Leads(d, Batch(d, pi, {}, intents), t, {}, u)
    <3>1. Table(pi) \in t /\ Scratch(pi) \notin t
      BY <1>4, <1>5, <2>3, TableKinds
    <3>2. Fits(d, {}, t, {}) /\ Parts(intents, t)
      BY <1>3, <1>4, <1>5, <2>2 DEF Fits, Parts, Part
    <3> HIDE DEF intents, t
    <3> QED BY <3>1, <3>2, LeadsBatch
  <2>6. Leads(d, <<Drop({Table(ib)})>>, u, {}, v)
    <3>1. Table(ib) \in u
      BY <1>3, <1>4, <1>5, <2>2, TableKinds
    <3>2. Unreferenced(d, u, ib)
      BY <1>9, EarlyRefs DEF Ready, Unreferenced
    <3> HIDE DEF u
    <3> QED BY <3>1, <3>2, LeadsDropTable
  <2>7. Leads(d, <<Drop({Table(um)})>>, v, {}, w)
    <3>1. Table(um) \in v
      <4>1. Table(um) \in u
        BY <1>3, <1>4, <1>5, <2>2, TableKinds
      <4> HIDE DEF u
      <4> QED BY <4>1, TableKinds DEF Without
    <3>2. ASSUME d = "postgresql", NEW e \in v, e[1] = "key", e[4] = um PROVE e[2] = um
      <4>1. e \in s /\ e \notin intents /\ e \notin authorizations /\ e[2] # ib
        BY <3>2 DEF Without
      <4>2. e \in EarlyKeys(d)
        BY <1>9, <3>2, <4>1 DEF Ready
      <4>3. e # kpi /\ e # kba
        BY <4>1
      <4> QED BY <3>2, <4>1, <4>2, <4>3, EarlyRefs DEF kpi, kba
    <3>3. Unreferenced(d, v, um)
      BY <3>2 DEF Unreferenced
    <3> HIDE DEF v
    <3> QED BY <3>1, <3>3, LeadsDropTable
  <2>8. Clean(w) /\ {} \subseteq w
    <3>1. Clean(u)
      BY <2>3 DEF Clean
    <3> HIDE DEF u
    <3> QED BY <3>1, CleanWithout
  <2> HIDE DEF t, u, v, w, intents, authorizations
  <2>9. Leads(d, drop, u, {}, w)
    <3>1. {} \subseteq Mark(Drop({Table(ib)}))
      OBVIOUS
    <3>2. Leads(d, <<Drop({Table(ib)}), Drop({Table(um)})>>, u, {}, w)
      BY <2>6, <2>7, <3>1, LeadsPair
    <3> QED BY <1>2, <3>2
  <2>10. Leads(d, down, s, {}, w)
    BY <2>4, <2>5, <2>9, LeadsOn
  <2> QED BY <2>8, <2>10 DEF Works
<1>10. 10 - 1 = 9
  OBVIOUS
<1> HIDE DEF up, down
<1> QED BY <1>1, <1>8, <1>9, <1>10 DEF Climbs, Descends

LEMMA ThreeJoin == ASSUME NEW a, NEW b, NEW x PROVE <<a, b>> \o <<x>> = <<a, b, x>>
<1> DEFINE S == {a, b, x}
<1>1. a \in S /\ b \in S /\ x \in S
  OBVIOUS
<1> HIDE DEF S
<1> DEFINE p == <<a, b>>
           q == <<x>>
           c == p \o q
           e == <<a, b, x>>
<1>2. p \in Seq(S) /\ q \in Seq(S) /\ Len(p) = 2 /\ Len(q) = 1 /\ p[1] = a /\ p[2] = b /\ q[1] = x
  BY <1>1
<1>3. e \in Seq(S) /\ Len(e) = 3 /\ e[1] = a /\ e[2] = b /\ e[3] = x
  BY <1>1
<1> HIDE DEF p, q, e
<1>4. c \in Seq(S) /\ Len(c) = 3 /\ c[1] = a /\ c[2] = b /\ c[3] = x
  <2>1. /\ c \in Seq(S) /\ Len(c) = Len(p) + Len(q)
        /\ \A i \in 1 .. Len(p) + Len(q) : c[i] = IF i <= Len(p) THEN p[i] ELSE q[i - Len(p)]
    BY <1>2, ConcatProperties
  <2>2. /\ 1 \in 1 .. 2 + 1 /\ 2 \in 1 .. 2 + 1 /\ 3 \in 1 .. 2 + 1 /\ 2 + 1 = 3
        /\ 1 <= 2 /\ 2 <= 2 /\ ~(3 <= 2) /\ 3 - 2 = 1
    OBVIOUS
  <2> HIDE DEF c
  <2> QED BY <1>2, <2>1, <2>2
<1> HIDE DEF c
<1>5. c = e
  <2>1. \A i \in 1 .. 3 : i = 1 \/ i = 2 \/ i = 3
    OBVIOUS
  <2>2. \A i \in 1 .. Len(c) : c[i] = e[i]
    BY <1>3, <1>4, <2>1
  <2> QED BY <1>3, <1>4, <2>2, SeqEqual
<1> QED BY <1>5 DEF c, e, p, q

\* A loop that rebuilds tables, or passes over one.
Rebuild(d, list, t, adds, drops) ==
  list = Batch(d, t, adds, drops) \/ (list = << >> /\ adds = {} /\ drops = {})
Extending(d, n, ss, T, A, s, c) ==
  /\ ss = [i \in 1 .. n |-> ss[i]]
  /\ \A i \in 1 .. n :
       /\ Rebuild(d, ss[i], T[i], A[i], {})
       /\ ss[i] # << >> => Table(T[i]) \in s
       /\ Fits(d, A[i], s, c) /\ \A e \in A[i] : Part(e)
Stripping(d, n, ss, T, A, s) ==
  /\ ss = [i \in 1 .. n |-> ss[i]]
  /\ \A i \in 1 .. n :
       Rebuild(d, ss[i], T[i], {}, A[i]) /\ (ss[i] # << >> => Table(T[i]) \in s) /\ Parts(A[i], s)

LEMMA LeadsExtend ==
  ASSUME NEW d, NEW n \in Nat, NEW ss, NEW T, NEW A, NEW s, NEW c, Extending(d, n, ss, T, A, s, c),
         Disjoint(n, A), Clean(s)
  PROVE  Leads(d, FlattenSeq(ss), s, c, s \cup All(n, A))
<1>0. /\ ss = [i \in 1 .. n |-> ss[i]]
      /\ \A i \in 1 .. n :
           /\ Rebuild(d, ss[i], T[i], A[i], {})
           /\ ss[i] # << >> => Table(T[i]) \in s
           /\ Fits(d, A[i], s, c) /\ \A e \in A[i] : Part(e)
      /\ \A i, j \in 1 .. n : i # j => A[i] \cap A[j] = {}
  BY DEF Extending, Disjoint
<1> DEFINE h == [i \in 1 .. n + 1 |-> s \cup UNION {A[j] : j \in 1 .. i - 1}]
           t == s \cup UNION {A[i] : i \in 1 .. n}
<1>1. h[1] = s /\ h[n + 1] = t
  <2>1. h[1] = s \cup UNION {A[j] : j \in 1 .. 1 - 1} /\ 1 .. 1 - 1 = {}
    OBVIOUS
  <2>2. UNION {A[j] : j \in 1 .. 1 - 1} = {}
    BY <2>1
  <2>3. h[n + 1] = s \cup UNION {A[j] : j \in 1 .. (n + 1) - 1} /\ (n + 1) - 1 = n
    OBVIOUS
  <2> HIDE DEF h
  <2> QED BY <2>1, <2>2, <2>3
<1>2. ASSUME NEW i \in 1 .. n PROVE Leads(d, ss[i], h[i], c, h[i + 1])
  <2>1. i \in 1 .. n + 1 /\ i + 1 \in 1 .. n + 1 /\ (i + 1) - 1 = i /\ \A j \in 1 .. i - 1 : j \in 1 .. n /\ j # i
    OBVIOUS
  <2>2. h[i] = s \cup UNION {A[j] : j \in 1 .. i - 1} /\ h[i + 1] = s \cup UNION {A[j] : j \in 1 .. i}
    BY <2>1
  <2> DEFINE list == ss[i]
             u == h[i]
             v == h[i + 1]
             x == A[i]
             y == T[i]
  <2>3. \A e : e \in u <=> e \in s \/ \E j \in 1 .. i - 1 : e \in A[j]
    BY <2>2
  <2>4. v = u \cup x
    <3>1. \A j : j \in 1 .. i <=> j \in 1 .. i - 1 \/ j = i
      OBVIOUS
    <3>2. \A e : e \in v <=> e \in u \/ e \in x
      <4> HIDE DEF h
      <4> QED BY <2>2, <3>1
    <3>3. v = s \cup UNION {A[j] : j \in 1 .. i}
      BY <2>2
    <3> HIDE DEF v, u, x
    <3> QED BY <3>2, <3>3
  <2>5. x \cap u = {}
    BY <1>0, <2>1, <2>3 DEF Fits
  <2>6. Rebuild(d, list, y, x, {}) /\ (list # << >> => Table(y) \in s) /\ Fits(d, x, s, c) /\ \A e \in x : Part(e)
    BY <1>0
  <2>7. Scratch(y) \notin u
    <3>1. \A j \in 1 .. n : \A e \in A[j] : Part(e)
      BY <1>0
    <3>2. ~Part(Scratch(y)) /\ Scratch(y) \notin s
      BY TableKinds DEF Part, Clean
    <3> QED BY <2>1, <2>3, <3>1, <3>2
  <2>8. s \subseteq u
    BY <2>3
  <2> HIDE DEF list, u, v, x, y, h
  <2>9. Leads(d, list, u, c, v)
    <3>1. CASE list = Batch(d, y, x, {}) /\ list # << >>
      <4>1. Fits(d, x, u, c)
        BY <2>5, <2>6, <2>8 DEF Fits
      <4>2. Parts({}, u) /\ Table(y) \in u
        BY <2>6, <2>8, <3>1 DEF Parts
      <4>3. Leads(d, Batch(d, y, x, {}), u, c, (u \ {}) \cup x)
        BY <2>6, <2>7, <4>1, <4>2, LeadsBatch
      <4>4. (u \ {}) \cup x = v
        BY <2>4
      <4> QED BY <3>1, <4>3, <4>4
    <3>2. CASE list = << >>
      <4>1. x = {}
        <5>1. CASE Batch(d, y, x, {}) = << >>
          BY <5>1 DEF Batch
        <5> QED BY <2>6, <3>2, <5>1 DEF Rebuild
      <4>2. v = u
        BY <2>4, <4>1
      <4> QED BY <3>2, <4>2, LeadsNone
    <3> QED BY <2>6, <3>1, <3>2 DEF Rebuild
  <2> QED BY <2>9 DEF list, u, v
<1> HIDE DEF h, t
<1>3. Leads(d, FlattenSeq(ss), h[1], c, h[n + 1])
  BY <1>0, <1>2, LeadsLoop
<1> QED BY <1>1, <1>3 DEF t, All

LEMMA LeadsStrip ==
  ASSUME NEW d, NEW n \in Nat, NEW ss, NEW T, NEW A, NEW s, Stripping(d, n, ss, T, A, s),
         Disjoint(n, A), Clean(s)
  PROVE  Leads(d, FlattenSeq(ss), s, {}, s \ All(n, A))
<1>0. /\ ss = [i \in 1 .. n |-> ss[i]]
      /\ \A i \in 1 .. n :
           Rebuild(d, ss[i], T[i], {}, A[i]) /\ (ss[i] # << >> => Table(T[i]) \in s) /\ Parts(A[i], s)
      /\ \A i, j \in 1 .. n : i # j => A[i] \cap A[j] = {}
  BY DEF Stripping, Disjoint
<1> DEFINE h == [i \in 1 .. n + 1 |-> s \ UNION {A[j] : j \in 1 .. i - 1}]
           t == s \ UNION {A[i] : i \in 1 .. n}
<1>1. h[1] = s /\ h[n + 1] = t
  <2>1. h[1] = s \ UNION {A[j] : j \in 1 .. 1 - 1} /\ 1 .. 1 - 1 = {}
    OBVIOUS
  <2>2. UNION {A[j] : j \in 1 .. 1 - 1} = {}
    BY <2>1
  <2>3. h[n + 1] = s \ UNION {A[j] : j \in 1 .. (n + 1) - 1} /\ (n + 1) - 1 = n
    OBVIOUS
  <2> HIDE DEF h
  <2> QED BY <2>1, <2>2, <2>3
<1>2. ASSUME NEW i \in 1 .. n PROVE Leads(d, ss[i], h[i], {}, h[i + 1])
  <2>1. i \in 1 .. n + 1 /\ i + 1 \in 1 .. n + 1 /\ (i + 1) - 1 = i /\ \A j \in 1 .. i - 1 : j \in 1 .. n /\ j # i
    OBVIOUS
  <2>2. h[i] = s \ UNION {A[j] : j \in 1 .. i - 1} /\ h[i + 1] = s \ UNION {A[j] : j \in 1 .. i}
    BY <2>1
  <2> DEFINE list == ss[i]
             u == h[i]
             v == h[i + 1]
             x == A[i]
             y == T[i]
  <2>3. \A e : e \in u <=> e \in s /\ ~\E j \in 1 .. i - 1 : e \in A[j]
    BY <2>2
  <2>4. v = u \ x
    <3>1. \A j : j \in 1 .. i <=> j \in 1 .. i - 1 \/ j = i
      OBVIOUS
    <3>2. \A e : e \in v <=> e \in u /\ e \notin x
      <4> HIDE DEF h
      <4> QED BY <2>2, <3>1
    <3>3. v = s \ UNION {A[j] : j \in 1 .. i}
      BY <2>2
    <3> HIDE DEF v, u, x
    <3> QED BY <3>2, <3>3
  <2>5. Rebuild(d, list, y, {}, x) /\ (list # << >> => Table(y) \in s) /\ Parts(x, s)
    BY <1>0
  <2>6. Parts(x, u)
    BY <1>0, <2>1, <2>3 DEF Parts
  <2>7. Scratch(y) \notin u
    <3>1. Scratch(y) \notin s
      BY TableKinds DEF Clean
    <3> QED BY <2>3, <3>1
  <2>8. Table(y) \in s => Table(y) \in u
    <3>1. \A j \in 1 .. n : Table(y) \notin A[j]
      BY <1>0, TableKinds DEF Parts, Part
    <3> QED BY <2>1, <2>3, <3>1
  <2> HIDE DEF list, u, v, x, y, h
  <2>9. Leads(d, list, u, {}, v)
    <3>1. CASE list = Batch(d, y, {}, x) /\ list # << >>
      <4>1. Fits(d, {}, u, {}) /\ Table(y) \in u
        BY <2>5, <2>8, <3>1 DEF Fits
      <4>2. Leads(d, Batch(d, y, {}, x), u, {}, (u \ x) \cup {})
        BY <2>6, <2>7, <4>1, LeadsBatch
      <4>3. (u \ x) \cup {} = v
        BY <2>4
      <4> QED BY <3>1, <4>2, <4>3
    <3>2. CASE list = << >>
      <4>1. x = {}
        <5>1. CASE Batch(d, y, {}, x) = << >>
          BY <5>1 DEF Batch
        <5> QED BY <2>5, <3>2, <5>1 DEF Rebuild
      <4>2. v = u
        BY <2>4, <4>1
      <4> QED BY <3>2, <4>2, LeadsNone
    <3> QED BY <2>5, <3>1, <3>2 DEF Rebuild
  <2> QED BY <2>9 DEF list, u, v
<1> HIDE DEF h, t
<1>3. Leads(d, FlattenSeq(ss), h[1], {}, h[n + 1])
  BY <1>0, <1>2, LeadsLoop
<1> QED BY <1>1, <1>3 DEF t, All

\* What the multitenancy revision adds columns to, and its keys.
LEMMA OrgTables ==
  /\ DOMAIN AddOrgColumnTables = 1 .. 10
  /\ \A i, j \in 1 .. 10 : i # j => AddOrgColumnTables[i] # AddOrgColumnTables[j]
  /\ \A t \in Range(AddOrgColumnTables) :
       t \in {"parent_authorities", "delegation_records", "revocation_records", "agents",
              "credentials", "auth_nonces", "payment_intents", "mfa_challenges",
              "bounded_authorizations", "provider_transactions"}
<1>1. DOMAIN AddOrgColumnTables = 1 .. 10
  BY DEF AddOrgColumnTables
<1>2. /\ AddOrgColumnTables[1] = "parent_authorities" /\ AddOrgColumnTables[2] = "delegation_records"
      /\ AddOrgColumnTables[3] = "revocation_records" /\ AddOrgColumnTables[4] = "agents"
      /\ AddOrgColumnTables[5] = "credentials" /\ AddOrgColumnTables[6] = "auth_nonces"
      /\ AddOrgColumnTables[7] = "payment_intents" /\ AddOrgColumnTables[8] = "mfa_challenges"
      /\ AddOrgColumnTables[9] = "bounded_authorizations"
      /\ AddOrgColumnTables[10] = "provider_transactions"
  BY DEF AddOrgColumnTables
<1>3. \A i \in 1 .. 10 : i \in {1, 2, 3, 4, 5, 6, 7, 8, 9, 10}
  OBVIOUS
<1>4. \A i, j \in 1 .. 10 : i # j => AddOrgColumnTables[i] # AddOrgColumnTables[j]
  BY <1>2, <1>3
<1>5. \A i \in 1 .. 10 : AddOrgColumnTables[i] \in
        {"parent_authorities", "delegation_records", "revocation_records", "agents",
         "credentials", "auth_nonces", "payment_intents", "mfa_challenges",
         "bounded_authorizations", "provider_transactions"}
  BY <1>2, <1>3
<1> QED BY <1>1, <1>4, <1>5 DEF Range

LEMMA TenancyKeys ==
  \A e \in MultitenancyKeys :
    /\ e[1] = "key" /\ Host(e) = Table(e[2]) /\ KeyBirth("postgresql", e) = 8
    /\ e[2] \in {"bounded_authorizations", "provider_transactions", "mfa_challenges"}
    /\ e[4] \in {"agents", "payment_intents", "bounded_authorizations"}
    /\ \A id \in Ids : <<e[2], e[3], id>> \in OrphanChecks
<1> SUFFICES ASSUME NEW e \in MultitenancyKeys
             PROVE  /\ e[1] = "key" /\ Host(e) = Table(e[2]) /\ KeyBirth("postgresql", e) = 8
                    /\ e[2] \in {"bounded_authorizations", "provider_transactions", "mfa_challenges"}
                    /\ e[4] \in {"agents", "payment_intents", "bounded_authorizations"}
                    /\ \A id \in Ids : <<e[2], e[3], id>> \in OrphanChecks
  OBVIOUS
<1>1. PICK r \in Range(References) : e = Key(r[1], r[2], r[3], <<"fk_0008", r[1], r[2]>>)
  BY DEF MultitenancyKeys
<1>2. e[1] = "key" /\ e[2] = r[1] /\ e[3] = r[2] /\ e[4] = r[3]
  BY <1>1, Keys
<1>3. KeyBirth("postgresql", e) = 8
  BY <1>1, EarlyBirths
<1>4. \A i \in DOMAIN References :
        /\ References[i][1] \in {"bounded_authorizations", "provider_transactions", "mfa_challenges"}
        /\ References[i][3] \in {"agents", "payment_intents", "bounded_authorizations"}
  BY DEF References
<1>5. \A id \in Ids : <<r[1], r[2], id>> \in OrphanChecks
  BY DEF OrphanChecks, Dangling
<1> QED BY <1>2, <1>3, <1>4, <1>5 DEF Range, Host

LEMMA TenancyWork == \* 8
  ASSUME NEW d PROVE Climbs(d, 8) /\ Descends(d, 8)
<1> DEFINE org == "organizations"
           pa == "provider_accounts"
           columns == {Column(t, "org_id") : t \in Range(AddOrgColumnTables)}
           keys == IF d = "postgresql" THEN MultitenancyKeys ELSE {}
           tie == IF d = "postgresql" THEN <<Add(MultitenancyKeys)>> ELSE << >>
           untie == IF d = "postgresql" THEN <<Drop(MultitenancyKeys)>> ELSE << >>
           loop == [i \in DOMAIN AddOrgColumnTables |->
                      Batch(d, AddOrgColumnTables[i], {}, {Column(AddOrgColumnTables[i], "org_id")})]
           a == Rewrite("nothing")
           b(s) == Add(columns \ s)
           c == RefuseOrphans(OrphanChecks)
           create == CreateTables(<<org, pa>>)
           drop == DropTables(<<pa, org>>)
           up(s) == create \o <<a, b(s), c>> \o tie
           down == untie \o FlattenSeq(loop) \o drop
<1>1. \A s : Revision(8, d, s).up = up(s) /\ Revision(8, d, s).down = down
  <2>1. \A s : Revision(8, d, s) = Multitenancy(d, s)
    BY DEF Revision
  <2>2. \A s : Multitenancy(d, s).up = up(s)
    BY DEF Multitenancy
  <2>3. \A s : Multitenancy(d, s).down = down
    BY DEF Multitenancy, ForEach
  <2> HIDE DEF up, down
  <2> QED BY <2>1, <2>2, <2>3
<1>2. /\ create = <<Add({Table(org)}), Add({Table(pa)})>>
      /\ drop = <<Drop({Table(pa)}), Drop({Table(org)})>>
  BY TableStatements
<1>3. Makes(d, 8) = {Table(org), Table(pa)} \cup columns \cup keys
  BY DEF Makes
<1>4. \A t \in Range(AddOrgColumnTables) : ColumnBirth(t, "org_id") = 8
  <2>1. \A t \in {"parent_authorities", "delegation_records", "revocation_records", "agents",
                  "credentials", "auth_nonces", "payment_intents", "mfa_challenges",
                  "bounded_authorizations", "provider_transactions"} : ColumnBirth(t, "org_id") = 8
    BY DEF ColumnBirth
  <2> QED BY <2>1, OrgTables
<1>5. \A e \in columns : e[1] = "column" /\ \E t \in Range(AddOrgColumnTables) : e = Column(t, "org_id")
  BY TableKinds
<1>6. \A e \in keys : d = "postgresql" /\ e \in MultitenancyKeys
  OBVIOUS
<1> HIDE DEF columns, create, drop
<1>7. ASSUME NEW s, Ready(d, 7, s) PROVE Works(d, up(s), s, Makes(d, 8))
  <2> DEFINE t == s \cup {Table(org)}
             u == t \cup {Table(pa)}
             new == columns \ s
             v == u \cup new
             w == v \cup keys
  <2>1. 7 \in Nat /\ 7 >= 1 /\ 8 > 7
    OBVIOUS
  <2>2. Clean(s) /\ \A x \in Range(AddOrgColumnTables) : Table(x) \in s
    BY <1>7, <2>1, ReadyTables, ReadyClean, OrgTables
  <2>3. Table(org) \notin s /\ Table(pa) \notin s
    <3>1. TableBirth(org) > 7 /\ TableBirth(pa) > 7
      BY DEF TableBirth
    <3> QED BY <1>7, <2>1, <3>1, NotYet
  <2>4. \A e \in keys : e \notin s
    <3>1. \A e : e[1] = "key" /\ KeyBirth(d, e) > 7 => e \notin s
      BY <1>7, <2>1, NotYet
    <3>2. \A e \in keys : e[1] = "key" /\ KeyBirth(d, e) = 8
      BY <1>6, TenancyKeys
    <3> HIDE DEF keys
    <3> QED BY <2>1, <3>1, <3>2
  <2>5. Leads(d, create, s, {}, u)
    <3>1. Leads(d, <<Add({Table(org)})>>, s, {}, t)
      <4>1. Fits(d, {Table(org)}, s, {})
        BY <2>3, TableKinds DEF Fits
      <4> QED BY <4>1, LeadsAdd
    <3>2. Leads(d, <<Add({Table(pa)})>>, t, {}, u)
      <4>1. Table(pa) \notin t
        BY <2>3, TableKinds
      <4>2. Fits(d, {Table(pa)}, t, {})
        BY <4>1, TableKinds DEF Fits
      <4> HIDE DEF t
      <4> QED BY <4>2, LeadsAdd
    <3>3. {} \subseteq Mark(Add({Table(org)}))
      OBVIOUS
    <3> HIDE DEF t, u
    <3> QED BY <1>2, <3>1, <3>2, <3>3, LeadsPair
  <2>6. Leads(d, <<a, b(s), c>>, u, {}, v)
    <3> DEFINE m == b(s)
    <3>1. Leads(d, <<a>>, u, {}, u)
      <4>1. a.needs = {} /\ a.drops = {} /\ a.adds = {} /\ a.write # "cast"
        BY StatementKinds, StepFields
      <4> HIDE DEF a, u
      <4> QED BY <4>1, LeadsQuiet
    <3>2. Leads(d, <<m>>, u, {}, v)
      <4>1. \A e \in new : e \notin u
        BY <1>5, TableKinds
      <4>2. \A e \in new : e[1] = "column" /\ Host(e) \in u
        BY <1>5, <2>2, TableKinds
      <4> HIDE DEF new, u
      <4>3. Fits(d, new, u, {})
        BY <4>1, <4>2 DEF Fits
      <4>4. Leads(d, <<Add(new)>>, u, {}, u \cup new)
        BY <4>3, LeadsAdd
      <4> QED BY <4>4 DEF new
    <3>3. Leads(d, <<c>>, v, {}, v)
      <4>1. c.needs = {} /\ c.drops = {} /\ c.adds = {} /\ c.write # "cast"
        BY StatementKinds, StepFields
      <4> HIDE DEF c, v
      <4> QED BY <4>1, LeadsQuiet
    <3> HIDE DEF a, m, c, u, v
    <3>4. Leads(d, <<a, m>>, u, {}, v)
      <4>1. {} \subseteq Mark(a)
        OBVIOUS
      <4> QED BY <3>1, <3>2, <4>1, LeadsPair
    <3>5. Leads(d, <<a, m>> \o <<c>>, u, {}, v)
      BY <3>3, <3>4, LeadsOn
    <3>6. <<a, m>> \o <<c>> = <<a, m, c>>
      BY ThreeJoin
    <3>7. Leads(d, <<a, m, c>>, u, {}, v)
      BY <3>5, <3>6
    <3> QED BY <3>7 DEF m
  <2>7. Leads(d, tie, v, OrphanChecks, w)
    <3>1. CASE d = "postgresql"
      <4>1. \A e \in MultitenancyKeys : e \notin v
        <5>1. \A e \in MultitenancyKeys : e \notin s /\ e[1] = "key"
          BY <2>4, <3>1, TenancyKeys
        <5>2. \A e \in v : e \in s \/ e[1] \in {"table", "column"}
          BY <1>5, TableKinds
        <5> HIDE DEF v
        <5> QED BY <5>1, <5>2
      <4>2. \A e \in MultitenancyKeys : Table(e[2]) \in v /\ Table(e[4]) \in v
        <5>1. /\ Table("agents") \in s /\ Table("payment_intents") \in s
              /\ Table("bounded_authorizations") \in s /\ Table("provider_transactions") \in s
              /\ Table("mfa_challenges") \in s
          BY <1>7, <2>1, ReadyTables
        <5>2. \A e \in MultitenancyKeys : Table(e[2]) \in s /\ Table(e[4]) \in s
          BY <5>1, TenancyKeys
        <5> QED BY <5>2
      <4> HIDE DEF v
      <4>3. Fits(d, MultitenancyKeys, v, OrphanChecks)
        BY <4>1, <4>2, TenancyKeys DEF Fits
      <4>4. Leads(d, <<Add(MultitenancyKeys)>>, v, OrphanChecks, v \cup MultitenancyKeys)
        BY <4>3, LeadsAdd
      <4> QED BY <3>1, <4>4
    <3>2. CASE d # "postgresql"
      <4>1. w = v
        BY <3>2
      <4> HIDE DEF v, w
      <4> QED BY <3>2, <4>1, LeadsNone
    <3> QED BY <3>1, <3>2
  <2>8. Clean(w) /\ Makes(d, 8) \subseteq w
    <3>1. \A e \in w : e \in s \/ e[1] \in {"table", "column", "key"}
      BY <1>5, <1>6, TenancyKeys, TableKinds
    <3>2. Makes(d, 8) \subseteq w
      BY <1>3
    <3> HIDE DEF w
    <3> QED BY <2>2, <3>1, <3>2 DEF Clean
  <2> DEFINE mid == <<a, b(s), c>>
  <2>9. OrphanChecks \subseteq Passed(mid)
    <3>1. c \in Range(mid)
      BY RangeLists
    <3>2. OrphanChecks \subseteq Mark(c)
      <4>1. \A o \in OrphanChecks : Len(o) = 3
        <5>1. \A a_, b_, c_ : Len(<<a_, b_, c_>>) = 3
          OBVIOUS
        <5> QED BY <5>1, DanglingMarks DEF OrphanChecks
      <4> QED BY <4>1, StatementKinds DEF Mark
    <3> HIDE DEF mid, c
    <3> QED BY <3>1, <3>2 DEF Passed
  <2> HIDE DEF t, u, v, w, a, b, c, tie, mid
  <2>10. Leads(d, mid, u, {}, v)
    BY <2>6 DEF mid
  <2>11. Leads(d, create \o mid, s, {}, v)
    BY <2>5, <2>10, LeadsOn
  <2>12. Passed(mid) \subseteq Passed(create \o mid)
    <3> DEFINE S == Range(create) \cup Range(mid)
    <3>1. create \in Seq(Range(create)) /\ mid \in Seq(Range(mid))
      BY <2>5, <2>10 DEF Leads
    <3>2. Range(create) \subseteq S /\ Range(mid) \subseteq S
      OBVIOUS
    <3> HIDE DEF S
    <3>3. create \in Seq(S) /\ mid \in Seq(S)
      BY <3>1, <3>2
    <3>4. Range(create \o mid) = Range(create) \cup Range(mid)
      BY <3>3, RangeJoin
    <3> QED BY <3>4 DEF Passed
  <2>13. Leads(d, create \o mid \o tie, s, {}, w)
    <3>1. OrphanChecks \subseteq Passed(create \o mid)
      BY <2>9, <2>12
    <3> QED BY <2>7, <2>11, <3>1, LeadsThen
  <2>14. Leads(d, up(s), s, {}, w)
    BY <2>13 DEF mid
  <2> HIDE DEF up
  <2> QED BY <2>8, <2>14 DEF Works
<1>8. ASSUME NEW s, Ready(d, 8, s) PROVE Works(d, down, s, {})
  <2> DEFINE t == s \ keys
             n == 10
             A == [i \in 1 .. n |-> {Column(AddOrgColumnTables[i], "org_id")}]
             u == t \ All(n, A)
             v == Without(u, pa)
             w == Without(v, org)
  <2>1. 8 \in Nat /\ 8 >= 1 /\ 8 \in 1 .. 8
    OBVIOUS
  <2>2. Makes(d, 8) \subseteq s
    BY <1>8, <2>1 DEF Ready
  <2>3. Clean(s) /\ \A x \in Range(AddOrgColumnTables) : Table(x) \in s
    BY <1>8, <2>1, ReadyTables, ReadyClean, OrgTables
  <2>4. \A e \in keys : e[1] = "key"
    BY <1>6, TenancyKeys
  <2>5. Leads(d, untie, s, {}, t)
    <3>1. CASE d = "postgresql"
      <4>1. Parts(MultitenancyKeys, s)
        BY <1>3, <2>2, <2>4, <3>1 DEF Parts, Part
      <4>2. Leads(d, <<Drop(MultitenancyKeys)>>, s, {}, s \ MultitenancyKeys)
        BY <4>1, LeadsDrop
      <4> QED BY <3>1, <4>2
    <3>2. CASE d # "postgresql"
      <4>1. t = s
        BY <3>2
      <4> HIDE DEF t
      <4> QED BY <3>2, <4>1, LeadsNone
    <3> QED BY <3>1, <3>2
  <2>6. Clean(t) /\ columns \subseteq t /\ \A x : Table(x) \in s => Table(x) \in t
    <3>1. columns \subseteq s
      BY <1>3, <2>2
    <3> HIDE DEF keys
    <3> QED BY <1>5, <2>3, <2>4, <3>1, TableKinds DEF Clean
  <2>7. \A i \in 1 .. n : /\ A[i] = {Column(AddOrgColumnTables[i], "org_id")}
                          /\ A[i] \subseteq columns /\ AddOrgColumnTables[i] \in Range(AddOrgColumnTables)
    BY OrgTables DEF columns, Range
  <2>8. /\ loop = [i \in 1 .. n |-> loop[i]]
        /\ \A i \in 1 .. n : Rebuild(d, loop[i], AddOrgColumnTables[i], {}, A[i])
    BY <2>7, OrgTables DEF Rebuild
  <2> HIDE DEF A, t, loop
  <2>9. Leads(d, FlattenSeq(loop), t, {}, u)
    <3>1. Stripping(d, n, loop, AddOrgColumnTables, A, t)
      <4>1. \A i \in 1 .. n : Parts(A[i], t)
        BY <1>5, <2>6, <2>7 DEF Parts, Part
      <4>2. \A i \in 1 .. n : Table(AddOrgColumnTables[i]) \in t
        BY <2>3, <2>6, <2>7
      <4> HIDE DEF n
      <4> QED BY <2>8, <4>1, <4>2 DEF Stripping
    <3>2. Disjoint(n, A)
      BY <2>7, OrgTables, ColumnParts DEF Disjoint
    <3>3. n \in Nat
      OBVIOUS
    <3> HIDE DEF n, u
    <3> QED BY <2>6, <3>1, <3>2, <3>3, LeadsStrip DEF u
  <2>10. Clean(u) /\ u \subseteq s /\ \A x : Table(x) \in s => Table(x) \in u
    <3>1. All(n, A) \subseteq columns
      BY <2>7 DEF All
    <3>2. \A x : Table(x) \notin columns
      BY <1>5, TableKinds
    <3>3. t \subseteq s
      BY DEF t
    <3> HIDE DEF n
    <3> QED BY <2>6, <3>1, <3>2, <3>3 DEF Clean
  <2>11. Table(pa) \in s /\ Table(org) \in s
    BY <1>3, <2>2
  <2>12. \A x : x \subseteq s => Unreferenced(d, x, pa) /\ Unreferenced(d, x, org)
    BY <1>8, EarlyRefs DEF Ready, Unreferenced
  <2> HIDE DEF u
  <2>13. Leads(d, <<Drop({Table(pa)})>>, u, {}, v)
    BY <2>10, <2>11, <2>12, LeadsDropTable
  <2>14. Leads(d, <<Drop({Table(org)})>>, v, {}, w)
    <3>1. Table(org) \in v /\ v \subseteq s
      BY <2>10, <2>11, TableKinds DEF Without
    <3> HIDE DEF v
    <3> QED BY <2>12, <3>1, LeadsDropTable
  <2>15. Clean(w) /\ {} \subseteq w
    BY <2>10, CleanWithout
  <2> HIDE DEF v, w, untie
  <2>16. Leads(d, drop, u, {}, w)
    <3>1. {} \subseteq Mark(Drop({Table(pa)}))
      OBVIOUS
    <3> QED BY <1>2, <2>13, <2>14, <3>1, LeadsPair
  <2>17. Leads(d, down, s, {}, w)
    BY <2>5, <2>9, <2>16, LeadsOn
  <2> QED BY <2>15, <2>17 DEF Works
<1>9. 8 - 1 = 7
  OBVIOUS
<1> HIDE DEF up, down
<1> QED BY <1>1, <1>7, <1>8, <1>9 DEF Climbs, Descends

LEMMA BaselineList ==
  \A i, j \in 1 .. 10 : i # j => BaselineTables[i] # BaselineTables[j]
<1>1. /\ BaselineTables[1] = "auth_nonces" /\ BaselineTables[2] = "bounded_authorizations"
      /\ BaselineTables[3] = "mfa_challenges" /\ BaselineTables[4] = "parent_authorities"
      /\ BaselineTables[5] = "payment_intents" /\ BaselineTables[6] = "provider_transactions"
      /\ BaselineTables[7] = "revocation_records" /\ BaselineTables[8] = "agents"
      /\ BaselineTables[9] = "delegation_records" /\ BaselineTables[10] = "credentials"
  BY DEF BaselineTables
<1>2. \A i \in 1 .. 10 : i \in {1, 2, 3, 4, 5, 6, 7, 8, 9, 10}
  OBVIOUS
<1> QED BY <1>1, <1>2

LEMMA BaselineWork == \* 1
  ASSUME NEW d PROVE Climbs(d, 1)
<1> DEFINE n == 10
           enums(t) == EnumsOf(d, t)
           A == [i \in 1 .. n |-> {Table(BaselineTables[i])} \cup enums(BaselineTables[i])]
           up == Baseline(d)
           t == {} \cup All(n, A)
<1>1. \A s : Revision(1, d, s).up = up
  <2>1. \A s : Revision(1, d, s) = [up |-> Baseline(d), down |-> DropBaseline]
    BY DEF Revision
  <2> QED BY <2>1
<1>2. DOMAIN BaselineTables = 1 .. n /\ n \in Nat
  BY DEF BaselineTables
<1>3. up = [i \in 1 .. n |-> up[i]] /\ \A i \in 1 .. n : up[i] = Add(A[i])
  BY <1>2 DEF Baseline
<1>4. \A x : \A e \in enums(x) :
        \/ e = Type("parentstatus") /\ x = "parent_authorities"
        \/ e = Type("governancedecision") /\ x = "payment_intents"
        \/ e = Type("agentstatus") /\ x = "agents"
  BY DEF EnumsOf
<1>5. \A name : Type(name)[1] = "type" /\ Type(name)[2] = name /\ Host(Type(name)) = Type(name)
  BY DEF Type, Host
<1>6. \A x, y : \A e \in enums(x) : e \in enums(y) => x = y
  <2>1. \A a, b : Type(a) = Type(b) => a = b
    BY DEF Type
  <2>2. \A x : \A e \in enums(x) :
          \/ e[2] = "parentstatus" /\ x = "parent_authorities"
          \/ e[2] = "governancedecision" /\ x = "payment_intents"
          \/ e[2] = "agentstatus" /\ x = "agents"
    BY <1>4, <1>5
  <2> HIDE DEF enums
  <2> QED BY <2>2
<1>7. \A x : \A e \in enums(x) : e[1] = "type" /\ Host(e) = e
  BY <1>4, <1>5
<1>8. d = "postgresql" => Type("parentstatus") \in enums("parent_authorities")
  BY DEF EnumsOf
<1>9. \A i \in 1 .. n : A[i] = {Table(BaselineTables[i])} \cup enums(BaselineTables[i])
  OBVIOUS
<1> HIDE DEF enums, A, up
<1>10. Disjoint(n, A)
  <2> SUFFICES ASSUME NEW i \in 1 .. n, NEW j \in 1 .. n, i # j PROVE A[i] \cap A[j] = {}
    BY DEF Disjoint
  <2>1. BaselineTables[i] # BaselineTables[j]
    BY BaselineList
  <2> HIDE DEF n
  <2> QED BY <1>6, <1>7, <1>9, <2>1, TableKinds
<1>11. \A i \in 1 .. n : Fits(d, A[i], {}, {})
  <2> SUFFICES ASSUME NEW i \in 1 .. n PROVE Fits(d, A[i], {}, {})
    OBVIOUS
  <2>1. \A e \in A[i] : e[1] \in {"table", "type"} /\ Host(e) = e
    BY <1>7, <1>9, TableKinds
  <2> QED BY <2>1 DEF Fits
<1>12. Leads(d, up, {}, {}, t)
  <2>1. Adding(d, n, up, A, {}, {})
    BY <1>3, <1>11 DEF Adding
  <2> HIDE DEF n
  <2> QED BY <1>2, <1>10, <2>1, LeadsAdds
<1>13. Makes(d, 1) \subseteq t
  <2>1. \A i \in 1 .. n : A[i] \subseteq t
    BY DEF All
  <2>2. {Table(x) : x \in Range(BaselineTables)} \subseteq t
    BY <1>2, <1>9, <2>1 DEF Range
  <2>3. d = "postgresql" => Type("parentstatus") \in t
    <3>1. BaselineTables[4] = "parent_authorities" /\ 4 \in 1 .. n
      BY DEF BaselineTables
    <3> QED BY <1>8, <1>9, <2>1, <3>1
  <2>4. Makes(d, 1) = {Table(x) : x \in Range(BaselineTables)}
                      \cup (IF d = "postgresql" THEN {Type("parentstatus")} ELSE {})
    BY DEF Makes
  <2> HIDE DEF t
  <2> QED BY <2>2, <2>3, <2>4
<1>14. Clean(t)
  <2>1. \A i \in 1 .. n : \A e \in A[i] : e[1] # "scratch"
    BY <1>7, <1>9, TableKinds
  <2> QED BY <2>1 DEF Clean, All
<1>15. 1 - 1 = 0 /\ \A s : Ready(d, 0, s) => s = {}
  BY DEF Ready
<1> HIDE DEF t
<1> QED BY <1>1, <1>12, <1>13, <1>14, <1>15 DEF Climbs, Works

\* No two of the foreign keys the models declare are on the same column.
LEMMA RequiredApart ==
  /\ DOMAIN RequiredFks = 1 .. 12 /\ Len(RequiredFks) = 12
  /\ \A i, j \in 1 .. 12 : i # j => OwnKey(RequiredFks[i]) # OwnKey(RequiredFks[j])
<1>1. DOMAIN RequiredFks = 1 .. 12 /\ Len(RequiredFks) = 12
  BY DEF RequiredFks
<1> DEFINE t == [i \in 1 .. 12 |-> RequiredFks[i][1]]
           c == [i \in 1 .. 12 |-> RequiredFks[i][2]]
<1>2. /\ t[1] = "payment_intents" /\ c[1] = "agent_id"
      /\ t[2] = "payment_intents" /\ c[2] = "mandate_id"
      /\ t[3] = "mfa_challenges" /\ c[3] = "intent_id"
      /\ t[4] = "bounded_authorizations" /\ c[4] = "intent_id"
      /\ t[5] = "bounded_authorizations" /\ c[5] = "agent_id"
      /\ t[6] = "bounded_authorizations" /\ c[6] = "mandate_id"
      /\ t[7] = "provider_transactions" /\ c[7] = "authorization_id"
      /\ t[8] = "provider_transactions" /\ c[8] = "intent_id"
      /\ t[9] = "provider_transactions" /\ c[9] = "agent_id"
      /\ t[10] = "user_payment_mandates" /\ c[10] = "agent_id"
      /\ t[11] = "payment_instrument_bindings" /\ c[11] = "mandate_id"
      /\ t[12] = "request_proofs" /\ c[12] = "agent_id"
  BY DEF RequiredFks
<1>3. \A i \in 1 .. 12 : OwnKey(RequiredFks[i])[2] = t[i] /\ OwnKey(RequiredFks[i])[3] = c[i]
  BY OwnKeyParts
<1>4. \A i \in 1 .. 12 : i \in {1, 2, 3, 4, 5, 6, 7, 8, 9, 10, 11, 12}
  OBVIOUS
<1> HIDE DEF t, c
<1>5. \A i, j \in 1 .. 12 : i # j => t[i] # t[j] \/ c[i] # c[j]
  BY <1>2, <1>4
<1> QED BY <1>1, <1>3, <1>5

LEMMA ParityClimbs == \* 16
  ASSUME NEW d PROVE Climbs(d, 16)
<1> SUFFICES ASSUME NEW s, Ready(d, 15, s) PROVE Works(d, AddMissingFks(d, s), s, {})
  <2>1. Makes(d, 16) = {} /\ 16 - 1 = 15
    BY DEF Makes
  <2> QED BY <2>1, ParityStatements DEF Climbs
<1> DEFINE n == 12
           key(i) == OwnKey(RequiredFks[i])
           T == [i \in 1 .. n |-> RequiredFks[i][1]]
           A == [i \in 1 .. n |-> IF Missing(s, RequiredFks[i]) THEN {key(i)} ELSE {}]
           loop == [i \in DOMAIN RequiredFks |->
                      IF Missing(s, RequiredFks[i]) THEN Batch(d, RequiredFks[i][1], {key(i)}, {}) ELSE << >>]
           c == Dangling(Lacks(s))
           refuse == RefuseOrphans(c)
           t == s \cup All(n, A)
<1>1. n \in Nat /\ loop = [i \in 1 .. n |-> loop[i]]
  BY RequiredApart
<1>2. AddMissingFks(d, s) = <<refuse>> \o FlattenSeq(loop)
  BY DEF AddMissingFks, ForEach, Lacks
<1>3. Clean(s)
  BY ReadyClean
<1>4. ASSUME NEW i \in 1 .. n
      PROVE  /\ Rebuild(d, loop[i], T[i], A[i], {})
             /\ loop[i] # << >> => Table(T[i]) \in s
             /\ Fits(d, A[i], s, c) /\ \A e \in A[i] : Part(e) /\ e = key(i)
  <2> DEFINE fk == RequiredFks[i]
             e == OwnKey(fk)
  <2>1. fk \in Range(RequiredFks)
    BY RequiredApart DEF Range
  <2>2. CASE Missing(s, fk)
    <3>1. A[i] = {e} /\ loop[i] = Batch(d, T[i], {e}, {}) /\ T[i] = fk[1]
      BY <2>2, RequiredApart
    <3>2. Table(fk[1]) \in s /\ Table(fk[3]) \in s /\ ~Enforced(s, fk)
      BY <2>2 DEF Missing, Attachable
    <3>3. e[1] = "key" /\ e[2] = fk[1] /\ e[3] = fk[2] /\ e[4] = fk[3]
      BY OwnKeyParts
    <3>4. \A id \in Ids : <<fk[1], fk[2], id>> \in c
      BY <2>1, <2>2 DEF Dangling, Lacks
    <3> HIDE DEF e, fk, c, T, A, loop
    <3>5. e \notin s
      BY <3>2, <3>3 DEF Enforced, KeysOn
    <3>6. Fits(d, {e}, s, c)
      BY <3>2, <3>3, <3>4, <3>5 DEF Fits, Host
    <3>7. Part(e)
      BY <3>3 DEF Part
    <3> QED BY <3>1, <3>2, <3>6, <3>7 DEF Rebuild, e, fk
  <2>3. CASE ~Missing(s, fk)
    <3>1. A[i] = {} /\ loop[i] = << >>
      BY <2>3, RequiredApart
    <3> HIDE DEF A, loop
    <3> QED BY <3>1 DEF Rebuild, Fits
  <2> QED BY <2>2, <2>3
<1> HIDE DEF T, A, loop, c
<1>5. Disjoint(n, A)
  BY <1>4, RequiredApart DEF Disjoint
<1>6. Leads(d, FlattenSeq(loop), s, c, t)
  <2>1. Extending(d, n, loop, T, A, s, c)
    <3> HIDE DEF n
    <3> QED BY <1>1, <1>4 DEF Extending
  <2> HIDE DEF n
  <2> QED BY <1>1, <1>3, <1>5, <2>1, LeadsExtend
<1>7. Leads(d, <<refuse>>, s, {}, s)
  <2>1. refuse.needs = {} /\ refuse.drops = {} /\ refuse.adds = {} /\ refuse.write # "cast"
    BY StatementKinds, StepFields
  <2> HIDE DEF refuse
  <2> QED BY <2>1, LeadsQuiet
<1>8. c \subseteq Passed(<<refuse>>)
  <2>1. Range(<<refuse>>) = {refuse} /\ refuse.orphans = c
    BY RangeLists, StatementKinds
  <2> HIDE DEF refuse
  <2> QED BY <2>1, DanglingMarks DEF Passed, Mark, c
<1>9. Clean(t)
  <2>1. \A i \in 1 .. n : \A e \in A[i] : e[1] # "scratch"
    BY <1>4 DEF Part
  <2> QED BY <1>3, <2>1 DEF Clean, All
<1> HIDE DEF refuse, t
<1>10. Leads(d, <<refuse>> \o FlattenSeq(loop), s, {}, t)
  BY <1>6, <1>7, <1>8, LeadsThen
<1> QED BY <1>2, <1>9, <1>10 DEF Works

LEMMA ParityDescends == \* 16, on PostgreSQL
  Descends("postgresql", 16)
<1> DEFINE d == "postgresql"
<1> SUFFICES ASSUME NEW s, Ready(d, 16, s) PROVE Works(d, DropOwnFks(d, s), s, {})
  BY ParityStatements DEF Descends
<1> DEFINE n == 12
           fks == Reverse(RequiredFks)
           finds(fk) == OwnKey(fk) \in s \/ \E e \in KeysOn(s, fk[1], fk[2]) : e[5] = << >>
           T == [i \in 1 .. n |-> fks[i][1]]
           A == [i \in 1 .. n |-> IF finds(fks[i]) THEN {OwnKey(fks[i])} ELSE {}]
           loop == [i \in DOMAIN fks |->
                      IF finds(fks[i]) THEN Batch(d, fks[i][1], {}, {OwnKey(fks[i])}) ELSE << >>]
           t == s \ All(n, A)
<1>1. DropOwnFks(d, s) = FlattenSeq(loop)
  BY DEF DropOwnFks, ForEach
<1>2. /\ n \in Nat /\ DOMAIN fks = 1 .. n
      /\ \A i, j \in 1 .. n : i # j => OwnKey(fks[i]) # OwnKey(fks[j])
      /\ \A i \in 1 .. n : fks[i] \in Range(RequiredFks)
  <2>1. DOMAIN fks = 1 .. n /\ \A i \in 1 .. n : fks[i] = RequiredFks[(n - i) + 1]
    BY RequiredApart DEF Reverse
  <2>2. \A i \in 1 .. n : (n - i) + 1 \in 1 .. n
    OBVIOUS
  <2>3. \A i, j \in 1 .. n : i # j => (n - i) + 1 # (n - j) + 1
    OBVIOUS
  <2> HIDE DEF fks
  <2> QED BY <2>1, <2>2, <2>3, RequiredApart DEF Range
<1> HIDE DEF fks
<1>3. \A fk : finds(fk) => OwnKey(fk) \in s
  BY EarlyShapes DEF Ready, KeysOn
<1>4. Clean(s)
  BY ReadyClean
<1>5. loop = [i \in 1 .. n |-> loop[i]]
  BY <1>2
<1>6. ASSUME NEW i \in 1 .. n
      PROVE  /\ Rebuild(d, loop[i], T[i], {}, A[i]) /\ (loop[i] # << >> => Table(T[i]) \in s)
             /\ Parts(A[i], s) /\ \A e \in A[i] : e = OwnKey(fks[i])
  <2> DEFINE fk == fks[i]
             e == OwnKey(fk)
  <2>1. e[1] = "key" /\ e[2] = fk[1]
    BY OwnKeyParts
  <2>2. CASE finds(fk)
    <3>1. A[i] = {e} /\ loop[i] = Batch(d, T[i], {}, {e}) /\ T[i] = fk[1] /\ e \in s
      BY <1>2, <1>3, <2>2
    <3>2. Table(fk[1]) \in s
      <4>1. fk \in Range(RequiredFks) /\ 16 \in Nat /\ 16 >= 1 /\ 16 >= 9 /\ 16 >= 10
        BY <1>2
      <4>2. /\ Table("payment_intents") \in s /\ Table("mfa_challenges") \in s
            /\ Table("bounded_authorizations") \in s /\ Table("provider_transactions") \in s
            /\ Table("user_payment_mandates") \in s /\ Table("payment_instrument_bindings") \in s
            /\ Table("request_proofs") \in s
        BY <4>1, ReadyTables
      <4>3. fk[1] \in {"payment_intents", "mfa_challenges", "bounded_authorizations", "provider_transactions",
                       "user_payment_mandates", "payment_instrument_bindings", "request_proofs"}
        <5> HIDE DEF fk
        <5> QED BY <4>1, RequiredList DEF AgentFk
      <4> HIDE DEF fk
      <4> QED BY <4>2, <4>3
    <3>3. Part(e)
      BY <2>1 DEF Part
    <3> HIDE DEF e, fk, T, A, loop
    <3> QED BY <3>1, <3>2, <3>3 DEF Rebuild, Parts, e, fk
  <2>3. CASE ~finds(fk)
    <3>1. A[i] = {} /\ loop[i] = << >>
      BY <1>2, <2>3
    <3> HIDE DEF A, loop
    <3> QED BY <3>1 DEF Rebuild, Parts
  <2> QED BY <2>2, <2>3
<1> HIDE DEF T, A, loop, finds
<1>7. Disjoint(n, A)
  BY <1>2, <1>6 DEF Disjoint
<1>8. Leads(d, FlattenSeq(loop), s, {}, t)
  <2>1. Stripping(d, n, loop, T, A, s)
    <3> HIDE DEF n
    <3> QED BY <1>5, <1>6 DEF Stripping
  <2> HIDE DEF n
  <2> QED BY <1>2, <1>4, <1>7, <2>1, LeadsStrip
<1>9. Clean(t) /\ {} \subseteq t
  BY <1>4, CleanParts
<1> HIDE DEF t
<1> QED BY <1>1, <1>8, <1>9 DEF Works

\* Every revision but the downgrade to an empty database, and that of the parity
\* revision on SQLite.
LEMMA RevisionsWork ==
  ASSUME NEW d, NEW n \in 1 .. Latest
  PROVE  Climbs(d, n) /\ (n # 1 /\ (n # 16 \/ d = "postgresql") => Descends(d, n))
<1>1. n \in {1, 2, 3, 4, 5, 6, 7, 8, 9, 10, 11, 12, 13, 14, 15, 16, 17, 18, 19}
  BY DEF Latest
<1> QED BY <1>1, BaselineWork, SmallWork, TrailsWork, TrustWork, TenancyWork, ProofsWork,
           MandatesWork, SigningWork, SuspendedWork, StatusWork, AgentKeyWork, ParityClimbs,
           ParityDescends, ProvenanceWork, HashWork, VocabularyWork

\* Nothing is added by the parity revision to the schema PostgreSQL has before it.
LEMMA FreshParity == Fresh[16]["postgresql"] = Fresh[15]["postgresql"]
<1>1. Same(Fresh[15]["postgresql"], 15)
  BY DEF Same
<1> QED BY <1>1, ParityUpPostgres

LEMMA FreshKeys ==
  ASSUME NEW n \in 0 .. Latest
  PROVE  \A e \in Fresh[n]["postgresql"] : e[1] = "key" => e \in EarlyKeys("postgresql")
<1> DEFINE pg == "postgresql"
           Early(k) == \A e \in Fresh[k][pg] : e[1] = "key" => e \in EarlyKeys(pg)
           T == {k \in Nat : k <= Latest => Early(k)}
<1>1. pg \in Dialects /\ Latest = 19
  BY DEF Dialects, Latest
<1>2. 0 \in T
  BY <1>1, FreshUnfolds
<1>3. ASSUME NEW k \in T PROVE k + 1 \in T
  <2> SUFFICES ASSUME k + 1 <= Latest PROVE Early(k + 1)
    OBVIOUS
  <2> DEFINE m == k + 1
  <2>1. m \in 1 .. Latest /\ m - 1 = k /\ k <= Latest
    BY <1>1
  <2>2. Early(k)
    BY <2>1
  <2> HIDE DEF m
  <2>3. ASSUME m = 16 PROVE Early(m)
    <3>1. k = 15
      BY <2>1, <2>3
    <3> QED BY <2>2, <2>3, <3>1, FreshParity
  <2>4. ASSUME m # 16 PROVE Early(m)
    <3>1. PICK X, Y : Reverses(pg, m, X, Y) /\ Fresh[m][pg] = Fresh[k][pg] \cup X
      BY <1>1, <2>1, <2>4, FreshNext
    <3>2. \A e \in X : e[1] = "key" => e \in EarlyKeys(pg)
      BY <3>1 DEF Reverses, Dated
    <3> QED BY <2>2, <3>1, <3>2
  <2>5. Early(m)
    BY <2>1, <2>3, <2>4
  <2> QED BY <2>5 DEF m
<1> HIDE DEF T
<1>4. T = Nat
  BY <1>2, <1>3, Induct DEF T
<1>5. n \in T /\ n <= Latest
  BY <1>1, <1>4
<1> QED BY <1>5 DEF T

\* What a fresh database of a version has.
LEMMA FreshReady ==
  ASSUME NEW d \in Dialects, NEW n \in 0 .. Latest
  PROVE  Ready(d, n, Fresh[n][d])
<1> DEFINE Made(k) == \A m \in 1 .. k : Makes(d, m) \subseteq Fresh[k][d]
           T == {k \in Nat : k <= Latest => Made(k)}
<1>l. Latest = 19
  BY DEF Latest
<1>1. ASSUME NEW k \in 0 .. Latest, Made(k) PROVE Ready(d, k, Fresh[k][d])
  <2>1. \A e \in Fresh[k][d] : Old(d, k, e)
    BY FreshFacts
  <2>2. k = 0 => Fresh[k][d] = {}
    BY FreshUnfolds
  <2>3. d = "postgresql" => \A e \in Fresh[k][d] : e[1] = "key" => e \in EarlyKeys(d)
    BY FreshKeys
  <2> QED BY <1>1, <2>1, <2>2, <2>3 DEF Ready
<1>2. 0 \in T
  OBVIOUS
<1>3. ASSUME NEW k \in T PROVE k + 1 \in T
  <2> SUFFICES ASSUME k + 1 <= Latest PROVE Made(k + 1)
    OBVIOUS
  <2> DEFINE n1 == k + 1
             s == Fresh[k][d]
             up == Revision(n1, d, s).up
  <2>1. n1 \in 1 .. Latest /\ n1 - 1 = k /\ k \in 0 .. Latest /\ n1 \in 0 .. Latest /\ n1 <= n1
    BY <1>l
  <2>2. Ready(d, k, s)
    <3>1. Made(k)
      BY <1>l, <2>1
    <3> QED BY <1>1, <2>1, <3>1
  <2> HIDE DEF n1
  <2>3. Works(d, up, s, Makes(d, n1))
    BY <2>1, <2>2, RevisionsWork DEF Climbs
  <2>4. Fresh[n1][d] = Upgraded(s, up)
    <3>1. Statements(d, s, n1 - 1, n1) = up
      BY <2>1, StatementsOf
    <3> QED BY <2>1, <3>1, FreshUnfolds
  <2> HIDE DEF up
  <2>5. PICK t : Leads(d, up, s, {}, t) /\ Makes(d, n1) \subseteq t /\ Clean(t)
    BY <2>3 DEF Works
  <2>6. t \subseteq s \cup Adds(up)
    BY <2>5, LeadsResult
  <2>7. t \subseteq Fresh[n1][d]
    BY <2>4, <2>5, <2>6 DEF Clean, Upgraded
  <2>8. s \subseteq Fresh[n1][d]
    BY <2>4 DEF Upgraded
  <2>9. \A m \in 1 .. k : Makes(d, m) \subseteq s
    BY <1>3, <1>l, <2>1
  <2>10. \A m \in 1 .. n1 : m \in 1 .. k \/ m = n1
    BY <2>1
  <2>11. Made(n1)
    BY <2>5, <2>7, <2>8, <2>9, <2>10
  <2> QED BY <2>11 DEF n1
<1> HIDE DEF T
<1>4. T = Nat
  BY <1>2, <1>3, Induct DEF T
<1>5. n \in T /\ n <= Latest
  BY <1>4, <1>l
<1> QED BY <1>1, <1>5 DEF T

\* The agent key is the one object a version needs that no other is compared by.
LEMMA MakesKinds ==
  ASSUME NEW n \in 1 .. Latest, NEW e \in Makes("postgresql", n)
  PROVE  \/ e = Type("parentstatus")
         \/ e[1] \in {"table", "column", "native", "key"} /\ e # AgentKey
<1> DEFINE pg == "postgresql"
           Apart(k) == k[1] = "key" /\ KeyBirth(pg, k) # 15
           Fine(k) == k[1] \in {"table", "column", "native"} \/ Apart(k)
<1>1. \A t, c : Fine(Table(t)) /\ Fine(Column(t, c)) /\ Fine(Native(t, c))
  BY DEF Table, Column, Native
<1>2. \A t : Fine(MandateKey(t))
  <2>1. \A t : MandateKey(t)[1] = "key"
    BY Keys DEF MandateKey
  <2>2. \A t : KeyBirth(pg, MandateKey(t)) = 10
    BY EarlyBirths
  <2> QED BY <2>1, <2>2
<1>3. \A k \in MultitenancyKeys : Fine(k)
  <2> SUFFICES ASSUME NEW k \in MultitenancyKeys PROVE Apart(k)
    OBVIOUS
  <2>1. PICK r \in Range(References) : k = Key(r[1], r[2], r[3], <<"fk_0008", r[1], r[2]>>)
    BY DEF MultitenancyKeys
  <2>2. Key(r[1], r[2], r[3], <<"fk_0008", r[1], r[2]>>)[1] = "key"
    BY Keys
  <2>3. KeyBirth(pg, Key(r[1], r[2], r[3], <<"fk_0008", r[1], r[2]>>)) = 8
    BY EarlyBirths
  <2> QED BY <2>1, <2>2, <2>3
<1>4. Fine(Key("request_proofs", "agent_id", "agents", <<"fk_request_proofs_agent">>))
  BY EarlyBirths, Keys
<1>5. Fine(HashVersion)
  BY <1>1 DEF HashVersion
<1>6. \A t, cs : \A k \in Columns(t, cs) : Fine(k)
  BY <1>1 DEF Columns
<1> HIDE DEF Fine
<1>7. e = Type("parentstatus") \/ Fine(e)
  <2>1. n \in {1, 2, 3, 4, 5, 6, 7, 8, 9, 10, 11, 12, 13, 14, 15, 16, 17, 18, 19}
    BY DEF Latest
  <2>2. CASE n \in {1, 2, 3, 4, 5, 6, 7}
    BY <1>1, <1>6, <2>2 DEF Makes
  <2>3. CASE n \in {8, 9, 10}
    BY <1>1, <1>2, <1>3, <1>4, <2>3 DEF Makes
  <2>4. CASE n \in {11, 12, 13, 14, 15, 16, 17, 18, 19}
    BY <1>1, <1>5, <1>6, <2>4 DEF Makes
  <2> QED BY <2>1, <2>2, <2>3, <2>4
<1>8. KeyBirth(pg, AgentKey) = 15 /\ AgentKey[1] = "key"
  BY EarlyBirths, Keys DEF AgentKey
<1> QED BY <1>7, <1>8 DEF Fine

\* A schema of PostgreSQL that is that of its version is ready for the next statements.
LEMMA ReadySame ==
  ASSUME NEW v \in 0 .. Latest, NEW s, Same(s, v), v = 0 => s = {},
         v >= 1 => Type("parentstatus") \in s
  PROVE  Ready("postgresql", v, s)
<1> DEFINE pg == "postgresql"
           F == Fresh[v][pg]
<1>1. pg \in Dialects /\ Latest = 19
  BY DEF Dialects, Latest
<1>2. Ready(pg, v, F)
  BY <1>1, FreshReady
<1>3. \A e : Relevant(e, v) => (e \in s <=> e \in F)
  BY SameIff
<1> HIDE DEF F
<1>4. ASSUME NEW m \in 1 .. v, NEW e \in Makes(pg, m) PROVE e \in s
  <2>1. m \in 1 .. Latest /\ v >= 1
    BY <1>1
  <2>2. e \in F
    BY <1>2 DEF Ready
  <2>3. e = Type("parentstatus") \/ Relevant(e, v)
    BY <2>1, MakesKinds DEF Relevant
  <2> QED BY <1>3, <2>1, <2>2, <2>3
<1>5. ASSUME NEW e \in s, e[1] \in {"table", "column", "native", "key", "scratch"}
      PROVE  Old(pg, v, e) /\ (e[1] = "key" => e \in EarlyKeys(pg))
  <2>1. CASE Relevant(e, v)
    BY <1>2, <1>3, <1>5, <2>1 DEF Ready
  <2>2. CASE ~Relevant(e, v)
    <3>1. v = 15 /\ e = AgentKey
      BY <1>5, <2>2 DEF Relevant
    <3>2. AgentKey \in EarlyKeys(pg)
      BY DEF EarlyKeys
    <3>3. AgentKey[1] = "key" /\ AgentKey[2] = "payment_intents" /\ Birth(pg, AgentKey) = 15
      BY EarlyBirths, Keys DEF AgentKey
    <3>4. TableBirth("payment_intents") <= 15
      BY TableBirths
    <3> QED BY <3>1, <3>2, <3>3, <3>4 DEF Old
  <2> QED BY <2>1, <2>2
<1> QED BY <1>4, <1>5 DEF Ready

\* The type the first revision makes on PostgreSQL, which no downgrade takes.
Parentstatus == Type("parentstatus")

LEMMA TypeStays ==
  ASSUME NEW s, NEW version \in 0 .. Latest, NEW goal \in 1 .. Latest
  PROVE  ~Gone(Statements("postgresql", s, version, goal), Parentstatus)
<1> DEFINE d == "postgresql"
           left == Statements(d, s, version, goal)
           e == Parentstatus
<1>1. d \in Dialects /\ Latest = 19 /\ goal \in 0 .. Latest /\ goal >= 1
  BY DEF Dialects, Latest
<1>2. Course(d, left, version, goal)
  BY <1>1, CourseStarts
<1>3. /\ e[1] = "type" /\ e[2] = "parentstatus" /\ Birth(d, e) = 0
      /\ Table("parentstatus")[1] = "table" /\ Birth(d, Table("parentstatus")) = 1
  <2>1. TableBirth("parentstatus") = 1
    BY DEF TableBirth
  <2> QED BY <2>1, Births DEF Parentstatus, Type, Birth
<1> HIDE DEF e
<1>4. ASSUME \A b \in Takes(left) : Birth(d, b) >= 2 PROVE ~Gone(left, e)
  <2> HIDE DEF left
  <2> QED BY <1>3, <1>4 DEF Gone
<1>5. CASE version <= goal
  <2> HIDE DEF left
  <2>1. \A b \in Takes(left) : FALSE
    BY <1>2, <1>5 DEF Course, Scrap
  <2> QED BY <1>4, <2>1 DEF e, left
<1>6. CASE ~(version <= goal)
  <2> DEFINE n == version
             down == Revision(n, d, s).down
  <2>1. n \in 1 .. Latest /\ goal < n /\ n >= 2
    BY <1>1, <1>6
  <2>2. left = down
    BY <1>1, <2>1, StatementsOf
  <2> HIDE DEF n
  <2>3. ASSUME NEW y, Effect(d, down, {}, y), \A b \in y : Birth(d, b) >= n
        PROVE  \A b \in Takes(left) : Birth(d, b) >= 2
    <3>1. \A b \in Takes(down) : b \in y
      <4> HIDE DEF down
      <4> QED BY <2>3 DEF Effect, Sum, Scrap
    <3>2. \A b \in y : Birth(d, b) >= 2
      BY <2>1, <2>3, Birthdays
    <3> HIDE DEF down, left
    <3> QED BY <2>2, <3>1, <3>2
  <2>4. CASE n # 16
    <3>1. PICK X, Y : Reverses(d, n, X, Y)
      BY <2>1, <2>4, Reversibles DEF Reversible
    <3>2. PICK y : Effect(d, down, {}, y) /\ y \subseteq Y
      BY <3>1 DEF Reverses
    <3>3. \A b \in y : Birth(d, b) >= n
      BY <3>1, <3>2 DEF Reverses, Dated
    <3> HIDE DEF down, left
    <3> QED BY <1>4, <2>3, <3>2, <3>3 DEF e, left
  <2>5. CASE n = 16
    <3> DEFINE y == {OwnKey(fk) : fk \in Found(s)}
    <3>1. Effect(d, down, {}, y)
      BY <2>5, ParityDown, ParityStatements
    <3>2. \A b \in y : Birth(d, b) >= 2
      <4> SUFFICES ASSUME NEW fk PROVE Birth(d, OwnKey(fk)) >= 2
        OBVIOUS
      <4>1. Birth(d, OwnKey(fk)) \in Nat /\ Birth(d, OwnKey(fk)) = KeyBirth(d, OwnKey(fk))
        BY Birthdays, OwnKeyParts
      <4>2. KeyBirth(d, OwnKey(fk)) >= 15
        BY OwnKeyParts
      <4> QED BY <4>1, <4>2
    <3> HIDE DEF y
    <3>3. \A b \in Takes(down) : b \in y
      <4> HIDE DEF down
      <4> QED BY <3>1 DEF Effect, Sum, Scrap
    <3> HIDE DEF down, left
    <3> QED BY <1>4, <2>2, <3>2, <3>3 DEF e, left
  <2> QED BY <2>4, <2>5
<1> QED BY <1>5, <1>6 DEF e, left

\* A run on PostgreSQL leads to a version.
LEMMA StartsPostgres ==
  ASSUME NEW v \in 0 .. Latest, NEW goal \in 1 .. Latest, NEW s, Same(s, v), v = 0 => s = {},
         v >= 1 => Parentstatus \in s
  PROVE  \E t : Leads("postgresql", Statements("postgresql", s, v, goal), s, {}, t) /\ Parentstatus \in t
<1> DEFINE d == "postgresql"
           left == Statements(d, s, v, goal)
<1>1. Latest = 19 /\ goal \in 0 .. Latest
  BY DEF Latest
<1>2. Ready(d, v, s)
  BY ReadySame DEF Parentstatus
<1>3. ~Gone(left, Parentstatus)
  BY TypeStays
<1>4. CASE v < goal
  <2> DEFINE n == v + 1
  <2>1. n \in 1 .. Latest /\ n <= goal /\ n - 1 = v
    BY <1>1, <1>4
  <2>2. left = Revision(n, d, s).up
    BY <1>1, <2>1, StatementsOf
  <2> HIDE DEF n, left
  <2>3. Works(d, left, s, Makes(d, n))
    BY <1>2, <2>1, <2>2, RevisionsWork DEF Climbs
  <2>4. PICK t : Leads(d, left, s, {}, t) /\ Makes(d, n) \subseteq t
    BY <2>3 DEF Works
  <2>5. Parentstatus \in t
    <3>1. CASE v = 0
      <4>1. n = 1
        BY <2>1, <3>1
      <4>2. Parentstatus \in Makes(d, 1)
        BY DEF Makes, Parentstatus
      <4> QED BY <2>4, <4>1, <4>2
    <3>2. CASE v # 0
      <4>1. Parentstatus \in s
        BY <3>2
      <4> QED BY <1>3, <2>4, <4>1, LeadsResult
    <3> QED BY <3>1, <3>2
  <2> QED BY <2>4, <2>5 DEF left
<1>5. CASE v > goal
  <2>1. v \in 1 .. Latest /\ goal < v /\ v # 1
    BY <1>1, <1>5
  <2>2. left = Revision(v, d, s).down
    BY <1>1, <2>1, StatementsOf
  <2> HIDE DEF left
  <2>3. Works(d, left, s, {})
    BY <1>2, <2>1, <2>2, RevisionsWork DEF Descends
  <2>4. PICK t : Leads(d, left, s, {}, t)
    BY <2>3 DEF Works
  <2>5. Parentstatus \in s
    BY <2>1
  <2>6. Parentstatus \in t
    BY <1>3, <2>4, <2>5, LeadsResult
  <2> QED BY <2>4, <2>6 DEF left
<1>6. CASE v = goal
  <2>1. left = << >>
    BY <1>6 DEF Statements
  <2> HIDE DEF left
  <2>2. Leads(d, left, s, {}, s) /\ Parentstatus \in s
    BY <1>6, <2>1, LeadsNone
  <2> QED BY <2>2 DEF left
<1> QED BY <1>4, <1>5, <1>6

\* The first revision commits nothing before it is done.
LEMMA BaselineCalm ==
  ASSUME NEW d, NEW s, NEW goal \in 1 .. Latest PROVE Calm(Statements(d, s, 0, goal))
<1>1. 1 \in 1 .. Latest /\ 1 - 1 = 0 /\ 1 <= goal /\ goal \in 0 .. Latest
  BY DEF Latest
<1>2. Statements(d, s, 0, goal) = Revision(1, d, s).up
  BY <1>1, StatementsOf
<1>3. Revision(1, d, s).up = Baseline(d)
  BY DEF Revision
<1>4. \A i \in DOMAIN Baseline(d) : Baseline(d)[i].mode = "schema"
  BY StatementKinds DEF Baseline
<1> QED BY <1>2, <1>3, <1>4 DEF Calm, Range

\* A run on SQLite leads from the schema of a fresh database to that of the next version.
LEMMA StartsSqlite ==
  ASSUME NEW v \in 0 .. Latest, NEW goal \in 1 .. Latest, ~Unparity(v, goal)
  PROVE  Leads("sqlite", Statements("sqlite", Fresh[v]["sqlite"], v, goal), Fresh[v]["sqlite"], {},
               Fresh[Heading(v, goal)]["sqlite"])
<1> DEFINE d == "sqlite"
           s == Fresh[v][d]
           left == Statements(d, s, v, goal)
<1>1. Latest = 19 /\ goal \in 0 .. Latest /\ d \in Dialects /\ d # "postgresql"
  BY DEF Latest, Dialects
<1>2. Ready(d, v, s)
  BY <1>1, FreshReady
<1>3. Course(d, left, v, goal)
  BY <1>1, CourseStarts
<1>4. \A e : Table(e[2])[1] = "table"
  BY DEF Table
<1>5. CASE v < goal
  <2> DEFINE n == v + 1
             F == Fresh[n][d]
  <2>1. n \in 1 .. Latest /\ n <= goal /\ n - 1 = v /\ n \in 0 .. Latest /\ Heading(v, goal) = n /\ n <= n
    BY <1>1, <1>5 DEF Heading
  <2>2. left = Revision(n, d, s).up
    BY <1>1, <2>1, StatementsOf
  <2>3. F = Upgraded(s, left)
    <3>1. Statements(d, s, n - 1, n) = Revision(n, d, s).up
      BY <2>1, StatementsOf
    <3> QED BY <1>1, <2>1, <2>2, <3>1, FreshUnfolds
  <2> HIDE DEF n
  <2>4. Works(d, left, s, Makes(d, n))
    BY <1>2, <2>1, <2>2, RevisionsWork DEF Climbs
  <2>5. PICK t : Leads(d, left, s, {}, t) /\ Clean(t)
    BY <2>4 DEF Works
  <2> HIDE DEF left
  <2>6. t \subseteq F
    BY <2>3, <2>5, LeadsResult DEF Clean, Upgraded
  <2>7. ASSUME NEW e \in F PROVE e \in t
    <3>1. e \in s \cup Adds(left)
      BY <2>3 DEF Upgraded
    <3>2. e[1] # "scratch"
      BY <1>1, <2>1, FreshFacts DEF Old
    <3>3. \A b \in Takes(left) : b[1] = "scratch"
      <4>1. v <= goal
        BY <1>5, <1>1
      <4> QED BY <1>3, <4>1 DEF Course, Scrap
    <3>4. ~Gone(left, e)
      BY <1>4, <3>2, <3>3 DEF Gone
    <3> QED BY <2>5, <3>1, <3>4, LeadsResult
  <2>8. t = F
    BY <2>6, <2>7
  <2> QED BY <2>1, <2>5, <2>8 DEF left
<1>6. CASE v > goal
  <2> DEFINE F == Fresh[v - 1][d]
  <2>1. v \in 1 .. Latest /\ goal < v /\ v # 1 /\ v # 16 /\ v - 1 \in 0 .. Latest /\ Heading(v, goal) = v - 1
    BY <1>1, <1>6 DEF Heading, Unparity
  <2>2. left = Revision(v, d, s).down
    BY <1>1, <2>1, StatementsOf
  <2>3. Works(d, left, s, {})
    <3> HIDE DEF left
    <3> QED BY <1>2, <2>1, <2>2, RevisionsWork DEF Descends
  <2>4. PICK t : Leads(d, left, s, {}, t) /\ Clean(t)
    BY <2>3 DEF Works
  <2>5. \A e \in Adds(left) : e[1] = "scratch"
    <3> HIDE DEF left
    <3>1. v >= goal
      BY <1>1, <1>6
    <3> QED BY <1>3, <3>1 DEF Course, Scrap
  <2>6. F \subseteq Result(left, s)
    BY <2>1, <2>2, DownSqlite
  <2>7. PICK X, Y : Reverses(d, v, X, Y) /\ s = F \cup X
    BY <1>1, <2>1, FreshNext
  <2>8. PICK y : /\ Effect(d, left, {}, y)
                 /\ \A e \in Y : e \in y \/ (e[1] = "key" /\ e \notin s)
    BY <2>2, <2>7 DEF Reverses
  <2>9. \A e \in X : e[1] # "scratch" /\ (e \in Y \/ Table(e[2]) \in Y)
    BY <1>1, <2>7 DEF Reverses, Dated
  <2> HIDE DEF left
  <2>10. y \subseteq Takes(left)
    BY <2>8 DEF Effect, Sum
  <2>11. ASSUME NEW e \in t PROVE e \in F
    <3>1. e \in s
      BY <2>4, <2>5, LeadsResult DEF Clean
    <3> SUFFICES ASSUME e \notin F PROVE FALSE
      OBVIOUS
    <3>2. e \in X
      BY <2>7, <3>1
    <3>3. e \in y \/ Table(e[2]) \in y
      BY <1>4, <2>8, <2>9, <3>1, <3>2
    <3>4. Gone(left, e)
      BY <2>9, <2>10, <3>2, <3>3 DEF Gone
    <3>5. e \notin Adds(left)
      BY <2>5, <2>9, <3>2
    <3> QED BY <2>4, <3>4, <3>5, LeadsResult
  <2>12. ASSUME NEW e \in F PROVE e \in t
    <3>1. e[1] # "scratch"
      BY <1>1, <2>1, FreshFacts DEF Old
    <3>2. e \in s /\ ~Gone(left, e)
      BY <2>5, <2>6, <3>1 DEF Result
    <3> QED BY <2>4, <3>2, LeadsResult
  <2>13. t = F
    BY <2>11, <2>12
  <2> QED BY <2>1, <2>4, <2>13 DEF left
<1>7. CASE v = goal
  <2>1. left = << >> /\ Heading(v, goal) = v
    BY <1>7 DEF Statements, Heading
  <2> HIDE DEF left
  <2> QED BY <2>1, LeadsNone DEF left
<1> QED BY <1>5, <1>6, <1>7

\* The key whose name the downgrade of the parity revision has on PostgreSQL only.
NamelessKey == OwnKey(<<"user_payment_mandates", "agent_id", "agents">>)
Stuck(left, s) == NamelessKey \notin s \cup Adds(left) /\ NamelessKey \in Takes(left)

\* On SQLite the downgrade of the parity revision stops at a key that has no name.
LEMMA StartsStuck ==
  ASSUME NEW goal \in 0 .. Latest, goal < 16
  PROVE  Stuck(Statements("sqlite", Fresh[16]["sqlite"], 16, goal), Fresh[16]["sqlite"])
<1> DEFINE d == "sqlite"
           s == Fresh[16][d]
           F == Fresh[15][d]
           left == Statements(d, s, 16, goal)
           fk == <<"user_payment_mandates", "agent_id", "agents">>
           k == Key("user_payment_mandates", "agent_id", "agents", << >>)
<1>1. d \in Dialects /\ d # "postgresql" /\ 15 \in 0 .. Latest /\ 16 \in 1 .. Latest /\ 16 \in 0 .. Latest
  BY DEF Dialects, Latest
<1>2. left = DropOwnFks(d, s)
  BY <1>1, StatementsOf, ParityStatements
<1>3. s = F \cup {OwnKey(f) : f \in Lacks(F)}
  BY <1>1, FreshNext
<1>4. k \in EarlyKeys(d) /\ KeyBirth(d, k) <= 15
  <2>1. k = Key("user_payment_mandates", "agent_id", "agents", Inline(d, "user_payment_mandates", "agent_id"))
    BY DEF Inline
  <2>2. k \in EarlyKeys(d)
    BY <2>1 DEF EarlyKeys
  <2> HIDE DEF k
  <2> QED BY <2>2, EarlyOf
<1>5. k \in F /\ \A e \in F : e[1] = "key" => e \in EarlyKeys(d)
  <2>1. 15 <= 15
    OBVIOUS
  <2> HIDE DEF k
  <2> QED BY <1>1, <1>4, <2>1, FreshFacts
<1>6. k[1] = "key" /\ k[2] = fk[1] /\ k[3] = fk[2] /\ k[4] = fk[3] /\ k[5] = << >>
  BY Keys
<1>7. fk \in Range(RequiredFks)
  <2>1. 10 \in DOMAIN RequiredFks /\ RequiredFks[10] = fk
    BY DEF RequiredFks
  <2> QED BY <2>1 DEF Range
<1>8. fk[1] # "payment_intents"
  OBVIOUS
<1> HIDE DEF k, fk, F
<1>9. fk \in Found(s)
  <2>1. k \in KeysOn(s, fk[1], fk[2])
    BY <1>3, <1>5, <1>6 DEF KeysOn
  <2> QED BY <1>6, <1>7, <2>1 DEF Found
<1>10. OwnKey(fk) \notin s
  <2>1. OwnKey(fk) \notin F
    <3>1. OwnKey(fk) # AgentKey
      <4>1. AgentKey[2] = "payment_intents"
        BY Keys DEF AgentKey
      <4> QED BY <1>8, <4>1, OwnKeyParts
    <3> QED BY <1>5, <3>1, EarlyShapes, OwnKeyParts
  <2>2. ASSUME NEW f \in Lacks(F) PROVE OwnKey(f) # OwnKey(fk)
    <3> SUFFICES ASSUME OwnKey(f) = OwnKey(fk) PROVE FALSE
      OBVIOUS
    <3>1. f[1] = fk[1] /\ f[2] = fk[2] /\ f[3] = fk[3]
      <4>1. /\ OwnKey(f)[2] = f[1] /\ OwnKey(f)[3] = f[2] /\ OwnKey(f)[4] = f[3]
            /\ OwnKey(fk)[2] = fk[1] /\ OwnKey(fk)[3] = fk[2] /\ OwnKey(fk)[4] = fk[3]
        BY OwnKeyParts
      <4> QED BY <4>1
    <3> QED BY <1>5, <1>6, <3>1 DEF Lacks, Missing, Enforced, KeysOn
  <2> QED BY <1>3, <2>1, <2>2
<1>11. Effect(d, left, {}, {OwnKey(f) : f \in Found(s)})
  BY <1>2, ParityDown
<1> HIDE DEF left
<1>12. OwnKey(fk) \in Takes(left)
  BY <1>9, <1>11 DEF Effect, Sum
<1>13. OwnKey(fk) \notin Adds(left)
  <2>1. OwnKey(fk)[1] = "key"
    BY OwnKeyParts
  <2> QED BY <1>11, <2>1 DEF Effect, Sum, Scrap
<1> QED BY <1>10, <1>12, <1>13 DEF Stuck, NamelessKey, fk, left

\* What has been looked for and not found: dangling rows, and mandates in the lower case.
Marked(c, rows) ==
  /\ \A o \in c : Len(o) = 3 => o \notin rows.orphans
  /\ <<"upper">> \in c => rows.mandate # "active"

\* The statements left succeed, unless one finds a dangling row, and lead to the schema t.
Leading(d, left, w, t) == \E c : Leads(d, left, w.schema, c, t) /\ Marked(c, w.rows)

\* The type of the first revision is there from then on; before it there is nothing.
Based(w) ==
  /\ w.version = 0 => w.schema = {}
  /\ w.version >= 1 => Parentstatus \in w.schema

PostgresLead ==
  dialect = "postgresql" =>
    /\ Based(disk)
    /\ work.version >= 1 => Parentstatus \in work.schema
    /\ run.on =>
         /\ work.version = 0 => Calm(run.left)
         /\ ~Gone(run.left, Parentstatus)
         /\ \E t : Leading(dialect, run.left, work, t) /\ Parentstatus \in t

SqliteLead ==
  dialect = "sqlite" /\ cut = {} =>
    /\ ~run.on => disk.schema = Fresh[disk.version][dialect]
    /\ run.on =>
         IF Unparity(work.version, run.goal) THEN Stuck(run.left, work.schema)
         ELSE Leading(dialect, run.left, work, Fresh[Heading(work.version, run.goal)][dialect])

LeadInv == (run.on => run.goal # 0) /\ PostgresLead /\ SqliteLead

-----------------------------------------------------------------------------
(* One statement.                                                          *)

LEMMA LeadingStarts ==
  ASSUME NEW d, NEW left, NEW w, NEW t, Leads(d, left, w.schema, {}, t)
  PROVE  Leading(d, left, w, t)
<1>1. Marked({}, w.rows)
  BY DEF Marked
<1> QED BY <1>1 DEF Leading

LEMMA LeadingGoesOn ==
  ASSUME NEW d, NEW left, NEW w, NEW t, View(d, w), Leading(d, left, w, t), left # << >>,
         Succeeds(d, Head(left), w), Marks(Head(left))
  PROVE  Leading(d, Tail(left), Run(Head(left), w), t)
<1> DEFINE step == Head(left)
           new == Run(step, w)
<1>1. PICK c : Leads(d, left, w.schema, c, t) /\ Marked(c, w.rows)
  BY DEF Leading
<1> DEFINE b == c \cup Mark(step)
<1>2. Leads(d, Tail(left), After(step, w.schema), b, t)
  BY <1>1, LeadsHead
<1>3. new.schema = After(step, w.schema)
  BY DEF Run, View, After
<1>4. new.rows.orphans \subseteq w.rows.orphans
  BY RunParts
<1>5. new.rows.mandate = "active" => w.rows.mandate = "active" /\ step.write # "upper"
  BY RunKeeps
<1>6. step.orphans \cap w.rows.orphans = {}
  BY DEF Succeeds
<1> HIDE DEF new, step
<1>7. \A o \in b : Len(o) = 3 => o \notin new.rows.orphans
  <2>1. \A x : Len(<<x>>) # 3
    OBVIOUS
  <2> QED BY <1>1, <1>4, <1>6, <2>1 DEF Mark, Marked
<1>8. <<"upper">> \in b => new.rows.mandate # "active"
  <2>1. Len(<<"upper">>) # 3
    OBVIOUS
  <2>2. \A x : <<x>> = <<"upper">> => x = "upper"
    OBVIOUS
  <2> QED BY <1>1, <1>5, <2>1, <2>2 DEF Mark, Marked
<1>9. Marked(b, new.rows)
  BY <1>7, <1>8 DEF Marked
<1> HIDE DEF b
<1> QED BY <1>2, <1>3, <1>9 DEF Leading, new, step

\* The first of the statements left succeeds unless it finds a dangling row.
LEMMA LeadingSucceeds ==
  ASSUME NEW d, NEW left, NEW w, NEW t, Leading(d, left, w, t), left # << >>, Free(w),
         Head(left).orphans \cap w.rows.orphans = {}
  PROVE  Succeeds(d, Head(left), w)
<1> DEFINE step == Head(left)
<1>1. PICK c : Leads(d, left, w.schema, c, t) /\ Marked(c, w.rows)
  BY DEF Leading
<1>2. Able(d, step, w.schema, c)
  BY <1>1, LeadsHead
<1> HIDE DEF step
<1>3. ASSUME d = "postgresql", NEW e \in step.adds, e[1] = "key", NEW o \in w.rows.orphans,
             <<o[1], o[2]>> = <<e[2], e[3]>>
      PROVE  FALSE
  <2>1. <<o[1], o[2]>> \in Loose /\ o[3] \in Ids /\ o = <<o[1], o[2], o[3]>>
    BY <1>3 DEF Free
  <2>2. \A id \in Ids : <<e[2], e[3], id>> \in c
    BY <1>2, <1>3, <2>1 DEF Able
  <2>3. o[1] = e[2] /\ o[2] = e[3]
    BY <1>3
  <2>4. o \in c
    BY <2>1, <2>2, <2>3
  <2>5. Len(o) = 3
    BY <2>1
  <2> QED BY <1>1, <1>3, <2>4, <2>5 DEF Marked
<1>4. Accepts(d, step, w)
  <2> SUFFICES ASSUME d = "postgresql" PROVE Accepts(d, step, w)
    BY DEF Accepts
  <2>1. \A e \in step.adds : e[1] = "key" =>
          /\ Table(e[4]) \in w.schema \cup step.adds
          /\ \A o \in w.rows.orphans : <<o[1], o[2]>> # <<e[2], e[3]>>
    BY <1>2, <1>3 DEF Able
  <2>2. step.write = "cast" => w.rows.mandate # "active"
    BY <1>1, <1>2 DEF Able, Marked
  <2> QED BY <1>2, <2>1, <2>2 DEF Accepts, Able
<1>5. step.orphans \cap w.rows.orphans = {}
  BY DEF step
<1> QED BY <1>2, <1>4, <1>5 DEF Succeeds, Able, step

-----------------------------------------------------------------------------
(* The steps.                                                              *)

LEMMA LeadInit == ASSUME Init PROVE LeadInv
<1>1. /\ ~run.on /\ disk = Empty /\ work = Empty /\ cut = {}
      /\ disk.version = 0 /\ disk.schema = {} /\ work.version = 0
  BY DEF Init, Idle, Empty
<1>2. \A d \in Dialects : Fresh[0][d] = {}
  BY FreshUnfolds
<1>3. PostgresLead
  BY <1>1 DEF PostgresLead, Based
<1>4. SqliteLead
  BY <1>1, <1>2 DEF SqliteLead, Init
<1> QED BY <1>1, <1>3, <1>4 DEF LeadInv

LEMMA LeadStarts ==
  ASSUME HistoryInv, SchemaInv, LeadInv, ~run.on, NEW goal \in 1 .. Latest,
         UNCHANGED <<dialect, disk, work, cut, crashes>>,
         run' = [on |-> TRUE, goal |-> goal, open |-> FALSE,
                 left |-> Statements(dialect, disk.schema, disk.version, goal)]
  PROVE  LeadInv'
<1> DEFINE left == Statements(dialect, disk.schema, disk.version, goal)
<1>1. work = disk /\ disk.version \in 0 .. Latest /\ Latest = 19 /\ goal # 0
  BY DEF HistoryInv, RunOK, View, Latest
<1>2. run'.on /\ run'.goal = goal /\ run'.left = left
  OBVIOUS
<1>3. ASSUME dialect = "postgresql"
      PROVE  /\ Based(disk) /\ (disk.version = 0 => Calm(left)) /\ ~Gone(left, Parentstatus)
             /\ \E t : Leads(dialect, left, disk.schema, {}, t) /\ Parentstatus \in t
  <2>1. Same(disk.schema, disk.version) /\ Based(disk)
    BY <1>3 DEF SchemaInv, PostgresInv, LeadInv, PostgresLead
  <2>2. disk.version = 0 => Calm(left)
    BY BaselineCalm
  <2>3. ~Gone(left, Parentstatus)
    BY <1>1, <1>3, TypeStays
  <2>4. \E t : Leads(dialect, left, disk.schema, {}, t) /\ Parentstatus \in t
    BY <1>1, <1>3, <2>1, StartsPostgres DEF Based
  <2> QED BY <2>1, <2>2, <2>3, <2>4
<1>4. ASSUME dialect = "sqlite", cut = {}
      PROVE  IF Unparity(disk.version, goal) THEN Stuck(left, disk.schema)
             ELSE Leads(dialect, left, disk.schema, {}, Fresh[Heading(disk.version, goal)][dialect])
  <2>1. disk.schema = Fresh[disk.version][dialect]
    BY <1>4 DEF LeadInv, SqliteLead
  <2>2. CASE Unparity(disk.version, goal)
    <3>1. disk.version = 16 /\ goal < 16 /\ goal \in 0 .. Latest
      BY <1>1, <2>2 DEF Unparity
    <3> QED BY <1>4, <2>1, <2>2, <3>1, StartsStuck
  <2>3. CASE ~Unparity(disk.version, goal)
    BY <1>1, <1>4, <2>1, <2>3, StartsSqlite
  <2> QED BY <2>2, <2>3
<1> HIDE DEF left
<1>5. PostgresLead'
  <2> SUFFICES ASSUME dialect = "postgresql" PROVE PostgresLead'
    BY DEF PostgresLead
  <2>1. PICK t : Leads(dialect, left, disk.schema, {}, t) /\ Parentstatus \in t
    BY <1>3
  <2>2. Leading(dialect, left, disk, t)
    BY <2>1, LeadingStarts
  <2> QED BY <1>1, <1>2, <1>3, <2>1, <2>2 DEF PostgresLead, Based
<1>6. SqliteLead'
  <2> SUFFICES ASSUME dialect = "sqlite", cut = {} PROVE SqliteLead'
    BY DEF SqliteLead
  <2>1. IF Unparity(disk.version, goal) THEN Stuck(left, disk.schema)
        ELSE Leading(dialect, left, disk, Fresh[Heading(disk.version, goal)][dialect])
    BY <1>4, LeadingStarts
  <2> QED BY <1>1, <1>2, <2>1 DEF SqliteLead
<1> QED BY <1>1, <1>2, <1>5, <1>6 DEF LeadInv

LEMMA LeadingNone ==
  ASSUME NEW d, NEW w, NEW t, Leading(d, << >>, w, t) PROVE t = w.schema
<1>1. PICK c : Leads(d, << >>, w.schema, c, t)
  BY DEF Leading
<1> QED BY <1>1, LeadsNone

LEMMA LeadExecutes == ASSUME HistoryInv, SchemaInv, LeadInv, Execute PROVE LeadInv'
<1>1. PICK step : step = Head(run.left)
  OBVIOUS
<1>2. PICK rest : rest = Tail(run.left)
  OBVIOUS
<1>3. /\ run.on /\ run.left # << >> /\ Succeeds(dialect, step, work)
      /\ work' = Run(step, work) /\ disk' = IF Durable(step) THEN work' ELSE disk
      /\ run' = [run EXCEPT !.left = rest, !.open = @ \/ step.mode = "rows"]
      /\ UNCHANGED <<dialect, cut, disturbances, crashes>>
  BY <1>1, <1>2 DEF Execute
<1>4. /\ View(dialect, work) /\ run.goal \in 0 .. Latest /\ dialect \in Dialects
      /\ DOMAIN run = {"on", "goal", "open", "left"} /\ run.left \in Seq(Range(run.left))
  BY <1>3 DEF HistoryInv, RunOK, Plan
<1>5. run'.on = run.on /\ run'.goal = run.goal /\ run'.left = rest
  BY <1>3, <1>4
<1>6. /\ step \in Range(run.left) /\ Range(rest) \subseteq Range(run.left)
      /\ Adds(run.left) = step.adds \cup Adds(rest) /\ Takes(run.left) = step.drops \cup Takes(rest)
  BY <1>1, <1>2, <1>3, <1>4, FirstStatement
<1>7. Marks(step)
  BY <1>3, <1>6 DEF HistoryInv, RunOK, Plan, Safe
<1>8. /\ work'.version = work.version
      /\ \A e : e \in work'.schema <=>
           e \in step.adds \/ (e \in work.schema /\ e \notin step.drops
                               /\ ~(Table(e[2]) \in step.drops /\ e[1] # "scratch"))
  BY <1>3, <1>4, RunParts
<1>9. \A t : Leading(dialect, run.left, work, t) => Leading(dialect, rest, work', t)
  BY <1>1, <1>2, <1>3, <1>4, <1>7, LeadingGoesOn
<1>10. work.version \in Nat
  BY <1>4 DEF View
<1>11. ASSUME dialect = "postgresql" PROVE PostgresLead'
  <2>1. /\ Based(disk) /\ (work.version >= 1 => Parentstatus \in work.schema)
        /\ (work.version = 0 => Calm(run.left)) /\ ~Gone(run.left, Parentstatus)
    BY <1>3, <1>11 DEF LeadInv, PostgresLead
  <2>2. PICK t : Leading(dialect, run.left, work, t) /\ Parentstatus \in t
    BY <1>3, <1>11 DEF LeadInv, PostgresLead
  <2>3. work.version = 0 => Calm(rest) /\ step.mode # "commit"
    BY <1>6, <2>1 DEF Calm
  <2>4. ~Gone(rest, Parentstatus)
    BY <1>6, <2>1 DEF Gone
  <2>5. work.version >= 1 => Parentstatus \in work'.schema
    BY <1>6, <1>8, <2>1 DEF Gone
  <2>6. Durable(step) => step.mode = "commit"
    BY <1>11 DEF Durable
  <2>7. Based(disk')
    <3>1. CASE disk' = disk
      BY <2>1, <3>1
    <3>2. CASE disk' # disk
      <4>1. disk' = work' /\ work.version # 0
        BY <1>3, <2>3, <2>6, <3>2
      <4> QED BY <1>8, <2>5, <4>1 DEF Based
    <3> QED BY <3>1, <3>2
  <2>8. Leading(dialect, rest, work', t)
    BY <1>9, <2>2
  <2>9. Based(disk)'
    BY <2>7 DEF Based
  <2> QED BY <1>3, <1>5, <1>8, <2>2, <2>3, <2>4, <2>5, <2>8, <2>9 DEF PostgresLead
<1>12. ASSUME dialect = "sqlite", cut = {} PROVE SqliteLead'
  <2>1. IF Unparity(work.version, run.goal) THEN Stuck(run.left, work.schema)
        ELSE Leading(dialect, run.left, work, Fresh[Heading(work.version, run.goal)][dialect])
    BY <1>3, <1>12 DEF LeadInv, SqliteLead
  <2>2. ASSUME Stuck(run.left, work.schema) PROVE Stuck(rest, work'.schema)
    <3>1. step.drops \subseteq work.schema
      BY <1>3 DEF Succeeds
    <3> QED BY <1>6, <1>8, <2>2, <3>1 DEF Stuck
  <2>3. IF Unparity(work.version, run.goal) THEN Stuck(rest, work'.schema)
        ELSE Leading(dialect, rest, work', Fresh[Heading(work.version, run.goal)][dialect])
    BY <1>9, <2>1, <2>2
  <2> QED BY <1>3, <1>5, <1>8, <2>3 DEF SqliteLead
<1>13. PostgresLead' /\ SqliteLead'
  <2>1. dialect' = dialect /\ cut' = cut
    BY <1>3
  <2> QED BY <1>11, <1>12, <2>1 DEF PostgresLead, SqliteLead
<1> QED BY <1>3, <1>5, <1>13 DEF LeadInv

LEMMA LeadRecords == ASSUME HistoryInv, SchemaInv, LeadInv, Record PROVE LeadInv'
<1> DEFINE s == work.schema
           version == IF work.version < run.goal THEN work.version + 1 ELSE work.version - 1
           left == Statements(dialect, s, version, run.goal)
<1>1. /\ run.on /\ run.left = << >> /\ work.version # run.goal
      /\ work' = [work EXCEPT !.version = version]
      /\ disk' = IF dialect = "sqlite" THEN work' ELSE disk
      /\ run' = [run EXCEPT !.open = FALSE,
                            !.left = Statements(dialect, work'.schema, work'.version, run.goal)]
      /\ UNCHANGED <<dialect, cut, disturbances, crashes>>
  BY DEF Record
<1>2. /\ View(dialect, work) /\ run.goal \in 0 .. Latest /\ run.goal # 0 /\ dialect \in Dialects
      /\ DOMAIN run = {"on", "goal", "open", "left"}
  BY <1>1 DEF HistoryInv, RunOK, LeadInv
<1>3. Latest = 19 /\ work.version \in 0 .. Latest /\ run.goal \in 1 .. Latest
  BY <1>2 DEF View, Latest
<1>4. version \in 1 .. Latest /\ version = Heading(work.version, run.goal)
  <2>1. work.version # run.goal /\ run.goal \in 1 .. 19 /\ work.version \in 0 .. 19
    BY <1>1, <1>3
  <2>2. CASE work.version < run.goal
    BY <1>3, <2>1, <2>2 DEF Heading
  <2>3. CASE work.version > run.goal
    BY <1>3, <2>1, <2>3 DEF Heading
  <2> QED BY <2>1, <2>2, <2>3
<1>5. work'.version = version /\ work'.schema = s /\ work'.rows = work.rows
  BY <1>1, <1>2 DEF View
<1>6. run'.on /\ run'.goal = run.goal /\ run'.left = left
  BY <1>1, <1>2, <1>5
<1>7. Result(run.left, s) = s /\ Takes(run.left) = {}
  BY <1>1, NothingLeft
<1>8. \A t : Leading(dialect, run.left, work, t) => t = s
  BY <1>1, LeadingNone
<1>9. version \in 0 .. Latest /\ version >= 1
  BY <1>4
<1> HIDE DEF version, s
<1>10. ASSUME dialect = "postgresql" PROVE PostgresLead'
  <2>1. PICK t : Leading(dialect, run.left, work, t) /\ Parentstatus \in t
    BY <1>1, <1>10 DEF LeadInv, PostgresLead
  <2>2. Parentstatus \in s
    BY <1>8, <2>1
  <2>3. Same(s, version)
    BY <1>1, <1>4, <1>7, <1>10 DEF SchemaInv, PostgresInv, s
  <2>4. ~Gone(left, Parentstatus)
    BY <1>3, <1>9, <1>10, TypeStays
  <2>5. PICK u : Leads(dialect, left, s, {}, u) /\ Parentstatus \in u
    <3>1. version # 0
      BY <1>9
    <3>2. \E u : Leads("postgresql", Statements("postgresql", s, version, run.goal), s, {}, u) /\ Parentstatus \in u
      BY <1>3, <1>9, <2>2, <2>3, <3>1, StartsPostgres
    <3> QED BY <1>10, <3>2
  <2> HIDE DEF left
  <2>6. Leading(dialect, left, work', u)
    BY <1>5, <2>5, LeadingStarts
  <2>7. Based(disk)'
    <3>1. disk' = disk /\ Based(disk)
      BY <1>1, <1>10 DEF LeadInv, PostgresLead
    <3> QED BY <3>1 DEF Based
  <2>8. version # 0
    BY <1>9
  <2> QED BY <1>1, <1>5, <1>6, <2>2, <2>4, <2>5, <2>6, <2>7, <2>8 DEF PostgresLead
<1>11. ASSUME dialect = "sqlite", cut = {} PROVE SqliteLead'
  <2>1. ~Unparity(work.version, run.goal)
    BY <1>1, <1>7, <1>11 DEF LeadInv, SqliteLead, Stuck
  <2>2. s = Fresh[version][dialect]
    BY <1>1, <1>4, <1>8, <1>11, <2>1 DEF LeadInv, SqliteLead
  <2>3. ASSUME Unparity(version, run.goal) PROVE Stuck(left, s)
    <3>1. version = 16 /\ run.goal < 16
      BY <2>3 DEF Unparity
    <3> QED BY <1>2, <1>11, <2>2, <3>1, StartsStuck
  <2>4. ASSUME ~Unparity(version, run.goal)
        PROVE  Leads(dialect, left, s, {}, Fresh[Heading(version, run.goal)][dialect])
    BY <1>3, <1>9, <1>11, <2>2, <2>4, StartsSqlite
  <2> HIDE DEF left
  <2>5. ~Unparity(version, run.goal) =>
          Leading(dialect, left, work', Fresh[Heading(version, run.goal)][dialect])
    BY <1>5, <2>4, LeadingStarts
  <2> QED BY <1>1, <1>5, <1>6, <2>3, <2>5 DEF SqliteLead
<1>12. PostgresLead' /\ SqliteLead'
  <2>1. dialect' = dialect /\ cut' = cut
    BY <1>1
  <2> QED BY <1>10, <1>11, <2>1 DEF PostgresLead, SqliteLead
<1> QED BY <1>2, <1>6, <1>12 DEF LeadInv

LEMMA LeadFinishes == ASSUME HistoryInv, SchemaInv, LeadInv, Finish PROVE LeadInv'
<1>1. /\ run.on /\ run.left = << >> /\ work.version = run.goal
      /\ disk' = work /\ work' = work /\ run' = Idle /\ dialect' = dialect /\ cut' = cut
  BY DEF Finish
<1>2. ~run'.on
  BY <1>1 DEF Idle
<1>3. run.goal \in 0 .. Latest /\ run.goal # 0 /\ Latest = 19
  BY <1>1 DEF HistoryInv, RunOK, LeadInv, Latest
<1>4. Heading(work.version, run.goal) = work.version /\ ~Unparity(work.version, run.goal)
  BY <1>1, <1>3 DEF Heading, Unparity
<1>5. \A t : Leading(dialect, run.left, work, t) => t = work.schema
  BY <1>1, LeadingNone
<1>6. PostgresLead'
  <2> SUFFICES ASSUME dialect = "postgresql" PROVE PostgresLead'
    BY <1>1 DEF PostgresLead
  <2>1. work.version >= 1 => Parentstatus \in work.schema
    BY DEF LeadInv, PostgresLead
  <2> QED BY <1>1, <1>2, <1>3, <2>1 DEF PostgresLead, Based
<1>7. SqliteLead'
  <2> SUFFICES ASSUME dialect = "sqlite", cut = {} PROVE SqliteLead'
    BY <1>1 DEF SqliteLead
  <2>1. Leading(dialect, run.left, work, Fresh[work.version][dialect])
    BY <1>1, <1>4 DEF LeadInv, SqliteLead
  <2> QED BY <1>1, <1>2, <1>5, <2>1 DEF SqliteLead
<1> QED BY <1>2, <1>6, <1>7 DEF LeadInv

LEMMA LeadStops == ASSUME LeadInv, HistoryInv, run.on, Stop PROVE LeadInv'
<1>1. disk' = disk /\ work' = disk /\ run' = Idle /\ dialect' = dialect /\ cut' # {}
  BY DEF Stop
<1>2. ~run'.on
  BY <1>1 DEF Idle
<1>3. PostgresLead'
  BY <1>1, <1>2 DEF LeadInv, PostgresLead, Based
<1>4. SqliteLead'
  BY <1>1 DEF SqliteLead
<1> QED BY <1>2, <1>3, <1>4 DEF LeadInv

LEMMA LeadWrites ==
  ASSUME HistoryInv, LeadInv,
         WriteTransaction \/ WriteMandate \/ WriteEvent \/ WriteOrphan \/ Resolve
  PROVE  LeadInv'
<1>1. PICK rows : Write(rows)
  BY DEF WriteTransaction, WriteMandate, WriteEvent, WriteOrphan, Resolve
<1>2. /\ ~run.on /\ work = disk /\ disk' = [disk EXCEPT !.rows = rows] /\ work' = disk'
      /\ run' = run /\ dialect' = dialect /\ cut' = cut
  BY <1>1 DEF Write, HistoryInv, RunOK
<1>3. disk'.version = disk.version /\ disk'.schema = disk.schema
  BY <1>2 DEF HistoryInv, View
<1> QED BY <1>2, <1>3 DEF LeadInv, PostgresLead, SqliteLead, Based

LEMMA LeadStep ==
  ASSUME 0 \notin Targets, HistoryInv, SchemaInv, LeadInv, [Next]_vars PROVE LeadInv'
<1>1. CASE UNCHANGED vars
  <2>1. dialect' = dialect /\ disk' = disk /\ work' = work /\ run' = run /\ cut' = cut
    BY <1>1 DEF vars
  <2> QED BY <2>1 DEF LeadInv, PostgresLead, SqliteLead, Based
<1>2. CASE UpgradeHead
  <2>1. Latest \in 1 .. Latest
    BY DEF Latest
  <2> QED BY <1>2, <2>1, LeadStarts DEF UpgradeHead
<1>3. ASSUME NEW goal \in Targets, Command(goal) PROVE LeadInv'
  <2>1. goal \in 1 .. Latest
    BY TargetsAssumption DEF Latest
  <2> QED BY <1>3, <2>1, LeadStarts DEF Command
<1>4. CASE Fail \/ Crash
  BY <1>4, LeadStops DEF Fail, Crash
<1> QED BY <1>1, <1>2, <1>3, <1>4, LeadExecutes, LeadRecords, LeadFinishes, LeadWrites DEF Next

LEMMA LeadHolds == ASSUME HistoryInv, SchemaInv, LeadInv PROVE OnlyOrphansAbort
<1> SUFFICES ASSUME run.on, run.left # << >>, Head(run.left).orphans \cap work.rows.orphans = {},
                    ~(dialect = "sqlite" /\ (cut # {} \/ (work.version = 16 /\ run.goal < 16)))
             PROVE  Succeeds(dialect, Head(run.left), work)
  BY DEF OnlyOrphansAbort
<1>1. \E t : Leading(dialect, run.left, work, t)
  <2>1. CASE dialect = "postgresql"
    BY <2>1 DEF LeadInv, PostgresLead
  <2>2. CASE dialect = "sqlite"
    BY <2>2 DEF LeadInv, SqliteLead, Unparity
  <2> QED BY <2>1, <2>2 DEF HistoryInv, Dialects
<1>2. Free(work)
  BY DEF SchemaInv, OrphanInv
<1> QED BY <1>1, <1>2, LeadingSucceeds

-----------------------------------------------------------------------------
(* The results.                                                            *)

\* For any runs and rows: the type invariant of Migrations (app/models.py,
\* alembic/env.py).
THEOREM MigrationsTypeCorrect == Spec => []TypeOK
<1>1. HistoryInv => TypeOK
  BY DEF HistoryInv, View, RunOK, TypeOK
<1> QED BY <1>1, HistoryInit, HistoryStep, PTL DEF Spec

\* Wherever an operator sends a database, however often, and wherever runs are
\* killed: at the last version no payment is in the retired state and, on
\* PostgreSQL, no mandate in the lower case the model cannot read; and an audit
\* event is marked with the version its digest was made with, unless a downgrade
\* removed the mark (c3d4e5f6a7b8, d3e4f5a6b7c8, b2c3d4e5f6a7).
THEOREM RowsStaySound == Spec => []RowsSound
<1>1. HistoryInv => RowsSound
  BY DEF HistoryInv, View, Retired, RowsSound, RowsReadable, EventsVerify, Latest
<1> QED BY <1>1, HistoryInit, HistoryStep, PTL DEF Spec

\* Whatever a run commits, at whatever statement: a payment keeps its state and a
\* mandate its status, up to spelling, or goes with its table (c3d4e5f6a7b8:57,
\* d3e4f5a6b7c8:17).
THEOREM MeaningIsKept == Spec => RowsKeepMeaning
<1> DEFINE Kind == {"txn", "mandate"}
           Keeps == run.on => \A f \in Kind :
                      disk'.rows[f] = "none" \/ Meaning(disk'.rows[f]) = Meaning(disk.rows[f])
<1>1. ASSUME HistoryInv, Next PROVE Keeps
  <2> SUFFICES ASSUME run.on PROVE \A f \in Kind :
                 disk'.rows[f] = "none" \/ Meaning(disk'.rows[f]) = Meaning(disk.rows[f])
    OBVIOUS
  <2>1. \/ disk' = disk \/ disk' = work
        \/ Execute /\ disk' = work'
        \/ Record /\ disk' = work'
    <3>1. CASE Execute
      <4>1. disk' = disk \/ disk' = work'
        BY <3>1 DEF Execute
      <4> QED BY <3>1, <4>1
    <3>2. CASE Record
      <4>1. disk' = disk \/ disk' = work'
        BY <3>2 DEF Record
      <4> QED BY <3>2, <4>1
    <3>3. CASE Finish
      BY <3>3 DEF Finish
    <3>4. CASE Fail \/ Crash
      BY <3>4 DEF Fail, Crash, Stop
    <3> QED BY <1>1, <3>1, <3>2, <3>3, <3>4
          DEF Next, UpgradeHead, Command, WriteTransaction, WriteMandate, WriteEvent, WriteOrphan,
              Resolve, Write
  <2>2. SameMeaning(disk'.rows.txn, disk.rows.txn) /\ SameMeaning(disk'.rows.mandate, disk.rows.mandate)
    BY <1>1, <2>1, SameMeanings, Executes, Records DEF HistoryInv, MeaningInv
  <2> QED BY <2>2 DEF SameMeaning
<1>2. HistoryInv /\ [Next]_vars => [Keeps]_vars
  BY <1>1
<1> QED BY <1>2, HistoryInit, HistoryStep, PTL DEF Spec, RowsKeepMeaning

\* Whatever runs are sent, killed, failed, or go down and up again, on either kind of
\* database: the committed schema of PostgreSQL is at every moment that of the recorded
\* version; that of SQLite has, between runs, all the version needs unless a downgrade
\* was cut short; and from the parity revision on every reference between two tables
\* that are there is enforced and no row dangles (upgrade and downgrade of every
\* revision; alembic/env.py:71; f5a6b7c8d9e0, upgrade).
THEOREM SchemaStaysSound == Spec => []SchemaSound
<1>1. Init => HistoryInv /\ SchemaInv
  BY HistoryInit, SchemaInit
<1>2. HistoryInv /\ SchemaInv /\ [Next]_vars => (HistoryInv /\ SchemaInv)'
  BY HistoryStep, SchemaStep
<1>3. HistoryInv /\ SchemaInv => SchemaSound
  BY SchemaHolds
<1> QED BY <1>1, <1>2, <1>3, PTL DEF Spec

\* As long as no run goes down to the empty database, whose enum types a downgrade
\* leaves behind: wherever else runs are sent, killed or stopped, no statement of any
\* revision clashes with what the database holds, and the one thing a run stops at is
\* a check for dangling rows; except on SQLite after a run was cut short, or in the
\* downgrade of the parity revision (b8c9d0e1f2a3:121; e4f5a6b7c8d9:54;
\* f5a6b7c8d9e0:87).
THEOREM OrphansAloneAbort == 0 \notin Targets => (Spec => []OnlyOrphansAbort)
<1> SUFFICES ASSUME 0 \notin Targets PROVE Spec => []OnlyOrphansAbort
  OBVIOUS
<1>1. Init => HistoryInv /\ SchemaInv /\ LeadInv
  BY HistoryInit, SchemaInit, LeadInit
<1>2. HistoryInv /\ SchemaInv /\ LeadInv /\ [Next]_vars => (HistoryInv /\ SchemaInv /\ LeadInv)'
  BY HistoryStep, SchemaStep, LeadStep
<1>3. HistoryInv /\ SchemaInv /\ LeadInv => OnlyOrphansAbort
  BY LeadHolds
<1> QED BY <1>1, <1>2, <1>3, PTL DEF Spec

=============================================================================

-------------------------- MODULE RecordingProofs --------------------------
(***************************************************************************)
(* What the tables say of the data a monitor sent (RecordingProperties),   *)
(* for every plan of a session, any number of sessions, starts, requests   *)
(* and entries, both backends, and scripts that stop anywhere.             *)
(***************************************************************************)
EXTENDS RecordingProperties, FiniteSetTheorems, SequenceTheorems, WellFoundedInduction, TLAPS

-----------------------------------------------------------------------------
(* Numbers.                                                                *)

\* A set of numbers that is finite and not empty has a largest.
LEMMA Largest ==
    ASSUME NEW S \in SUBSET Nat, IsFiniteSet(S), S # {}
    PROVE  \E k \in S : \A j \in S : j <= k
<1>. DEFINE Bad == {T \in FiniteSubsetsOf(Nat) : T # {} /\ ~ \E k \in T : \A j \in T : j <= k}
<1>1. SUFFICES ASSUME Bad # {} PROVE FALSE
  BY DEF FiniteSubsetsOf
<1>2. PICK T \in Bad : \A U \in Bad : <<U, T>> \notin StrictSubsetOrdering(Nat)
  <2>1. IsWellFoundedOn(StrictSubsetOrdering(Nat), FiniteSubsetsOf(Nat))
    BY FS_StrictSubsetOrderingWellFounded
  <2>2. Bad \subseteq FiniteSubsetsOf(Nat)
    OBVIOUS
  <2>. HIDE DEF Bad
  <2>. QED  BY <1>1, <2>1, <2>2, WFMin
<1>3. T \in SUBSET Nat /\ IsFiniteSet(T) /\ T # {} /\ ~ \E k \in T : \A j \in T : j <= k
  BY DEF FiniteSubsetsOf
<1>4. PICK x \in T : TRUE
  BY <1>3
<1>5. T \ {x} \in SUBSET Nat /\ IsFiniteSet(T \ {x}) /\ <<T \ {x}, T>> \in StrictSubsetOrdering(Nat)
  BY <1>3, <1>4, FS_RemoveElement DEF StrictSubsetOrdering
<1>6. T \ {x} # {}
  BY <1>3, <1>4
<1>7. PICK k \in T \ {x} : \A j \in T \ {x} : j <= k
  <2>1. T \ {x} \notin Bad
    BY <1>2, <1>5
  <2>. QED  BY <1>5, <1>6, <2>1 DEF FiniteSubsetsOf
<1>8. CASE x <= k
  BY <1>3, <1>7, <1>8
<1>9. CASE k <= x
  <2>1. \A j \in T : j <= x
    BY <1>3, <1>4, <1>7, <1>9
  <2>. QED  BY <1>3, <1>4, <2>1
<1>. QED  BY <1>3, <1>4, <1>7, <1>8, <1>9

-----------------------------------------------------------------------------
(* Counting the requests of a queue.                                       *)

LEMMA CountNone == ASSUME NEW q, NEW A PROVE Count(q, A, 0) = 0
<1>1. {i \in 1..0 : q[i].action \in A} = {}
  OBVIOUS
<1>. QED  BY <1>1, FS_EmptySet DEF Count

LEMMA CountStep ==
    ASSUME NEW q, NEW A, NEW n \in Nat
    PROVE  /\ Count(q, A, n) \in Nat
           /\ Count(q, A, n + 1) = Count(q, A, n) + (IF q[n + 1].action \in A THEN 1 ELSE 0)
<1>. DEFINE X == {i \in 1..n : q[i].action \in A}
            Y == {i \in 1..(n + 1) : q[i].action \in A}
<1>1. IsFiniteSet(X) /\ Cardinality(X) \in Nat
  <2>1. IsFiniteSet(1..n)
    BY FS_Interval
  <2>. QED  BY <2>1, FS_Subset, FS_CardinalityType
<1>2. Y = IF q[n + 1].action \in A THEN X \cup {n + 1} ELSE X
  OBVIOUS
<1>3. n + 1 \notin X
  OBVIOUS
<1>4. Cardinality(X \cup {n + 1}) = Cardinality(X) + 1
  BY <1>1, <1>3, FS_AddElement
<1>5. Count(q, A, n) = Cardinality(X) /\ Count(q, A, n + 1) = Cardinality(Y)
  BY DEF Count
<1>. HIDE DEF X, Y
<1>. QED  BY <1>1, <1>2, <1>4, <1>5

LEMMA CountFirst == ASSUME NEW q, NEW A PROVE Count(q, A, 1) = IF q[1].action \in A THEN 1 ELSE 0
<1>1. Count(q, A, 0 + 1) = Count(q, A, 0) + (IF q[0 + 1].action \in A THEN 1 ELSE 0)
  BY CountStep
<1>2. Count(q, A, 0) = 0
  BY CountNone
<1>. QED  BY <1>1, <1>2

\* The count over the first n requests depends on these only.
LEMMA CountSame ==
    ASSUME NEW p, NEW q, NEW A, NEW n \in Nat, \A i \in 1..n : p[i] = q[i]
    PROVE  Count(p, A, n) = Count(q, A, n)
<1>1. {i \in 1..n : p[i].action \in A} = {i \in 1..n : q[i].action \in A}
  OBVIOUS
<1>. QED  BY <1>1 DEF Count

\* A queue that goes on with e.
LEMMA CountLonger ==
    ASSUME NEW p, NEW q, NEW A, NEW e, NEW m \in Nat,
           \A i \in 1..m : p[i] = q[i], p[m + 1] = e
    PROVE  /\ \A n \in 0..m : Count(p, A, n) = Count(q, A, n)
           /\ Count(p, A, m + 1) = Count(q, A, m) + (IF e.action \in A THEN 1 ELSE 0)
<1>1. ASSUME NEW n \in 0..m PROVE Count(p, A, n) = Count(q, A, n)
  <2>1. n \in Nat /\ \A i \in 1..n : p[i] = q[i]
    OBVIOUS
  <2>. QED  BY <2>1, CountSame
<1>2. Count(p, A, m + 1) = Count(p, A, m) + (IF p[m + 1].action \in A THEN 1 ELSE 0)
  BY CountStep
<1>. QED  BY <1>1, <1>2

\* Pushing a request.
LEMMA CountAppend ==
    ASSUME NEW S, NEW q \in Seq(S), NEW e \in S, NEW A
    PROVE  /\ \A n \in 0..Len(q) : Count(Append(q, e), A, n) = Count(q, A, n)
           /\ Count(Append(q, e), A, Len(Append(q, e)))
                = Count(q, A, Len(q)) + (IF e.action \in A THEN 1 ELSE 0)
<1>1. PICK p, m : p = Append(q, e) /\ m = Len(q)
  OBVIOUS
<1>2. Len(p) = m + 1 /\ m \in Nat /\ (\A i \in 1..m : p[i] = q[i]) /\ p[m + 1] = e
  BY <1>1, AppendProperties, LenProperties
<1>3. /\ \A n \in 0..m : Count(p, A, n) = Count(q, A, n)
      /\ Count(p, A, m + 1) = Count(q, A, m) + (IF e.action \in A THEN 1 ELSE 0)
  <2>1. PICK r : r = q
    OBVIOUS
  <2>2. m \in Nat /\ (\A i \in 1..m : p[i] = r[i]) /\ p[m + 1].action = e.action
    BY <1>2, <2>1
  <2>3. /\ \A n \in 0..m : Count(p, A, n) = Count(r, A, n)
        /\ Count(p, A, m + 1) = Count(r, A, m) + (IF p[m + 1].action \in A THEN 1 ELSE 0)
    BY <2>2, CountLonger
  <2>. QED  BY <2>1, <2>2, <2>3
<1>. QED  BY <1>1, <1>2, <1>3

\* Taking a request off the queue.
LEMMA CountTail ==
    ASSUME NEW S, NEW q \in Seq(S), q # <<>>, NEW A, NEW n \in 0..Len(Tail(q))
    PROVE  Count(q, A, n + 1) = Count(Tail(q), A, n) + (IF Head(q).action \in A THEN 1 ELSE 0)
<1>1. /\ Len(Tail(q)) = Len(q) - 1 /\ Len(q) \in Nat
      /\ \A i \in 1..Len(Tail(q)) : Tail(q)[i] = q[i + 1]
      /\ Head(q) = q[1]
  BY HeadTailProperties, LenProperties
<1>. DEFINE X == {i \in 1..n : Tail(q)[i].action \in A}
            Z == {i \in 2..(n + 1) : q[i].action \in A}
            Y == {i \in 1..(n + 1) : q[i].action \in A}
            f == [i \in X |-> i + 1]
<1>2. IsFiniteSet(X)
  <2>1. IsFiniteSet(1..n)
    BY FS_Interval
  <2>. QED  BY <2>1, FS_Subset
<1>3. f \in Bijection(X, Z)
  <2>1. f \in [X -> Z]
    BY <1>1
  <2>2. \A i, j \in X : f[i] = f[j] => i = j
    OBVIOUS
  <2>3. ASSUME NEW z \in Z PROVE \E i \in X : f[i] = z
    <3>1. z - 1 \in X /\ f[z - 1] = z
      BY <1>1
    <3>. QED  BY <3>1
  <2>. HIDE DEF f, X, Z
  <2>. QED  BY <2>1, <2>2, <2>3 DEF Bijection, Injection, Surjection, IsInjective
<1>4. IsFiniteSet(Z) /\ Cardinality(Z) = Cardinality(X)
  <2>. HIDE DEF f, X, Z
  <2>1. ExistsBijection(X, Z)
    BY <1>3 DEF ExistsBijection
  <2>. QED  BY <1>2, <2>1, FS_Bijection
<1>5. Y = (IF Head(q).action \in A THEN Z \cup {1} ELSE Z) /\ 1 \notin Z
  BY <1>1
<1>6. Cardinality(Y) = Cardinality(X) + (IF Head(q).action \in A THEN 1 ELSE 0)
  <2>1. Cardinality(Z \cup {1}) = Cardinality(Z) + 1
    BY <1>4, <1>5, FS_AddElement
  <2>2. Cardinality(X) \in Nat
    BY <1>2, FS_CardinalityType
  <2>. HIDE DEF X, Y, Z
  <2>. QED  BY <1>4, <1>5, <2>1, <2>2
<1>. QED  BY <1>6 DEF Count

-----------------------------------------------------------------------------
(* Scripts.                                                                *)

LEMMA TablesAre ==
    /\ \A order \in {CreateOrder, DropOrder} :
          /\ order \in [1..13 -> Tables]
          /\ Len(order) = 13
          /\ \A t \in Tables : \E i \in 1..13 : order[i] = t
    /\ DataTables = {"sysProcStat", "sysProcMemInfo", "sysProcDiskStats", "sysProcPressure",
                     "sysProcBuddyInfo", "sysProcWireless", "sysProcVMStat", "procAcct",
                     "procInfo", "procEvent", "contextInfo"}
    /\ Tables = DataTables \cup {"devices", "sessions"}
<1>1. /\ DOMAIN CreateOrder = 1..13 /\ Len(CreateOrder) = 13
      /\ DOMAIN DropOrder = 1..13 /\ Len(DropOrder) = 13
  BY DEF CreateOrder, DropOrder
<1>2. Tables = {CreateOrder[i] : i \in 1..13}
  BY <1>1 DEF Tables, ToSet
<1>3. Tables = {"devices", "sessions", "sysProcStat", "sysProcMemInfo", "sysProcDiskStats",
                "sysProcPressure", "sysProcBuddyInfo", "sysProcWireless", "sysProcVMStat",
                "procAcct", "procInfo", "procEvent", "contextInfo"}
  BY DEF Tables, ToSet, CreateOrder
<1>4. Tables = {DropOrder[i] : i \in 1..13}
  <2>1. ToSet(DropOrder) = {DropOrder[i] : i \in 1..13}
    BY <1>1 DEF ToSet
  <2>2. ToSet(DropOrder) = Tables
    BY <1>3 DEF ToSet, DropOrder
  <2>. QED  BY <2>1, <2>2
<1>5. CreateOrder \in [1..13 -> Tables] /\ DropOrder \in [1..13 -> Tables]
  <2>1. /\ CreateOrder = [i \in 1..13 |-> CreateOrder[i]]
        /\ DropOrder = [i \in 1..13 |-> DropOrder[i]]
    BY <1>1 DEF CreateOrder, DropOrder
  <2>. QED  BY <1>2, <1>4, <2>1
<1>. QED  BY <1>1, <1>2, <1>3, <1>4, <1>5 DEF DataTables

\* The table the rows of a kind of data go to, and how many an answer has.
TableOf ==
    [s \in DataSources |->
        CASE s = "ProcEvent" -> "procEvent"
          [] s = "ProcAcct" -> "procAcct"
          [] s = "ProcInfo" -> "procInfo"
          [] s = "ContextInfo" -> "contextInfo"
          [] s = "SysProcStat" -> "sysProcStat"
          [] s = "SysProcBuddyInfo" -> "sysProcBuddyInfo"
          [] s = "SysProcWireless" -> "sysProcWireless"
          [] s = "SysProcMemInfo" -> "sysProcMemInfo"
          [] s = "SysProcPressure" -> "sysProcPressure"
          [] s = "SysProcDiskStats" -> "sysProcDiskStats"
          [] s = "SysProcVMStat" -> "sysProcVMStat"]

RowCount(sample) ==
    CASE sample.source \in {"ProcEvent", "ProcAcct", "SysProcMemInfo", "SysProcPressure", "SysProcVMStat"} -> 1
      [] sample.source = "SysProcStat" -> sample.entries + 1
      [] OTHER -> sample.entries

LEMMA TableOfType ==
    /\ TableOf \in [DataSources -> DataTables]
    /\ \A s, u \in DataSources : TableOf[s] = TableOf[u] => s = u
<1>1. TableOf \in [DataSources -> DataTables]
  BY TablesAre DEF TableOf, DataSources
<1>2. \A s, u \in DataSources : TableOf[s] = TableOf[u] => s = u
  BY DEF TableOf, DataSources
<1>. QED  BY <1>1, <1>2

\* Every overload of addData() writes one row after the other into one table.
LEMMA ScriptRows ==
    ASSUME NEW sample \in Samples
    PROVE  /\ RowCount(sample) \in Nat
           /\ AddDataScript(sample)
                = [i \in 1..RowCount(sample) |-> Insert(TableOf[sample.source], sample, i)]
<1>. DEFINE s == sample.source
            e == sample.entries
<1>1. s \in DataSources /\ e \in Nat
  BY LanesAssumption DEF Samples
<1>2. ASSUME NEW t PROVE OneRow(t, sample) = [i \in 1..1 |-> Insert(t, sample, i)]
  BY DEF OneRow
<1>3. ASSUME NEW t
      PROVE  <<Insert(t, sample, 1)>> \o [n \in 1..e |-> Insert(t, sample, n + 1)]
                = [i \in 1..(e + 1) |-> Insert(t, sample, i)]
  <2>. DEFINE rest == [n \in 1..e |-> Insert(t, sample, n + 1)]
              all == [i \in 1..(e + 1) |-> Insert(t, sample, i)]
              S == {Insert(t, sample, i) : i \in 1..(e + 1)}
  <2>1. <<Insert(t, sample, 1)>> \in Seq(S) /\ Len(<<Insert(t, sample, 1)>>) = 1
    <3>1. 1 \in 1..(e + 1)
      BY <1>1
    <3>2. Insert(t, sample, 1) \in S
      BY <3>1
    <3>3. PICK a, A : a = Insert(t, sample, 1) /\ A = S
      OBVIOUS
    <3>4. a \in A
      BY <3>2, <3>3
    <3>5. <<a>> \in Seq(A) /\ Len(<<a>>) = 1
      BY <3>4
    <3>. HIDE DEF S
    <3>. QED  BY <3>3, <3>5
  <2>2. rest \in Seq(S) /\ Len(rest) = e
    <3>1. e \in Nat /\ \A n \in 1..e : n + 1 \in 1..(e + 1)
      BY <1>1
    <3>2. \A n \in 1..e : Insert(t, sample, n + 1) \in S
      BY <3>1
    <3>3. PICK A : A = S
      OBVIOUS
    <3>4. rest \in [1..e -> A]
      BY <3>2, <3>3
    <3>. HIDE DEF S, rest
    <3>. QED  BY <3>1, <3>3, <3>4
  <2>3. all \in Seq(S) /\ Len(all) = e + 1
    BY <1>1
  <2>4. \A i \in 1..(e + 1) : (<<Insert(t, sample, 1)>> \o rest)[i] = all[i]
    BY <1>1, <2>1, <2>2, ConcatProperties
  <2>5. <<Insert(t, sample, 1)>> \o rest \in Seq(S) /\ Len(<<Insert(t, sample, 1)>> \o rest) = e + 1
    BY <1>1, <2>1, <2>2, ConcatProperties
  <2>. HIDE DEF rest, all, S
  <2>. QED  BY <2>3, <2>4, <2>5, SeqEqual DEF rest, all
<1>4. ASSUME NEW t PROVE RowPerEntry(t, sample) = [i \in 1..e |-> Insert(t, sample, i)]
  BY DEF RowPerEntry
<1>5. CASE s \in {"ProcEvent", "ProcAcct", "SysProcMemInfo", "SysProcPressure", "SysProcVMStat"}
  BY <1>1, <1>2, <1>5
  DEF RowCount, AddDataScript, TableOf, addProcEvent, addProcAcct, addMemInfo, addPressure, addVMStat
<1>6. CASE s = "SysProcStat"
  <2>1. AddDataScript(sample) = addProcStat(sample) /\ RowCount(sample) = e + 1 /\ TableOf[s] = "sysProcStat"
    BY <1>1, <1>6 DEF RowCount, AddDataScript, TableOf
  <2>2. addProcStat(sample) = [i \in 1..(e + 1) |-> Insert("sysProcStat", sample, i)]
    BY <1>2, <1>3 DEF addProcStat, OneRow
  <2>. QED  BY <1>1, <2>1, <2>2
<1>7. CASE s \in {"ProcInfo", "ContextInfo", "SysProcBuddyInfo", "SysProcWireless", "SysProcDiskStats"}
  BY <1>1, <1>4, <1>7
  DEF RowCount, AddDataScript, TableOf, addProcInfo, addContextInfo, addBuddyInfo, addWireless, addDiskStats
<1>. QED  BY <1>1, <1>5, <1>6, <1>7 DEF DataSources

-----------------------------------------------------------------------------
(* What a script does to the database.                                     *)

\* A database has its tables and, for each of them, rows.
IsStore(db) ==
    /\ db = [tables |-> db.tables, rows |-> [t \in Tables |-> db.rows[t]]]
    /\ db.tables \subseteq Tables

\* The rows that n statements of an answer insert.
NewRows(db, sample, n, hash) ==
    {[session |-> r.id, sample |-> sample, entry |-> i] : r \in OpenSession(db, hash), i \in 1..n}

LEMMA StoreEqual ==
    ASSUME NEW a, IsStore(a), NEW b, IsStore(b),
           a.tables = b.tables, \A t \in Tables : a.rows[t] = b.rows[t]
    PROVE  a = b
BY DEF IsStore

LEMMA EffectsStore ==
    ASSUME NEW db, NEW done, NEW hash
    PROVE  IsStore(Effects(db, done, hash))
BY DEF IsStore, Effects

\* The tables and rows a database has when the statements done have run.
LEMMA EffectsTables ==
    ASSUME NEW db, NEW done, NEW hash, NEW t \in Tables
    PROVE  t \in Effects(db, done, hash).tables
               <=> Of(done, "drop", t) = {} /\ (t \in db.tables \/ Of(done, "create", t) # {})
BY DEF Effects

LEMMA EffectsRows ==
    ASSUME NEW db, NEW done, NEW hash, NEW t \in Tables
    PROVE  Effects(db, done, hash).rows[t]
             = IF Of(done, "drop", t) # {} THEN {} ELSE db.rows[t] \cup Inserted(db, done, t, hash)
BY DEF Effects

LEMMA InsertedNone ==
    ASSUME NEW db, NEW done, NEW t, NEW hash, Of(done, "insert", t) = {}
    PROVE  Inserted(db, done, t, hash) = {}
BY DEF Inserted

\* The rows an insertion adds.
Filed(db, st, hash) == {RowFor(st, r) : r \in OpenSession(db, hash)}

LEMMA InsertedMore ==
    ASSUME NEW db, NEW done, NEW hash, NEW st, NEW t, st.op = "insert", st.table = t
    PROVE  Inserted(db, done \cup {st}, t, hash)
             = Inserted(db, done, t, hash) \cup Filed(db, st, hash)
<1>1. Of(done \cup {st}, "insert", t) = Of(done, "insert", t) \cup {st}
  BY DEF Of
<1>. QED  BY <1>1 DEF Inserted, Filed

LEMMA NothingDone ==
    ASSUME NEW db, IsStore(db), NEW script, NEW hash
    PROVE  After(db, script, 0, hash) = db
<1>1. PICK none : none = {script[i] : i \in 1..0}
  OBVIOUS
<1>2. PICK new : new = Effects(db, none, hash)
  OBVIOUS
<1>3. \A op, t : Of(none, op, t) = {}
  BY <1>1 DEF Of
<1>4. \A t : Inserted(db, none, t, hash) = {}
  BY <1>3, InsertedNone
<1>5. IsStore(new)
  BY <1>2, EffectsStore
<1>6. new.tables = db.tables
  <2>1. \A t \in Tables : t \in new.tables <=> t \in db.tables
    BY <1>2, <1>3 DEF Effects
  <2>. QED  BY <1>5, <2>1 DEF IsStore
<1>7. \A t \in Tables : new.rows[t] = db.rows[t]
  BY <1>2, <1>3, <1>4 DEF Effects
<1>8. new = db
  BY <1>5, <1>6, <1>7, StoreEqual
<1>. QED  BY <1>1, <1>2, <1>8 DEF After

\* What Effect does, table by table.
LEMMA EffectCreates ==
    ASSUME NEW db, IsStore(db), NEW st, st.table \in Tables, NEW hash, st.op = "create"
    PROVE  /\ IsStore(Effect(db, st, hash))
           /\ Effect(db, st, hash).tables = db.tables \cup {st.table}
           /\ Effect(db, st, hash).rows = db.rows
<1>1. PICK ts, rs : db = [tables |-> ts, rows |-> rs] /\ ts \subseteq Tables /\ rs = [t \in Tables |-> rs[t]]
  BY DEF IsStore
<1>2. Effect(db, st, hash) = [tables |-> ts \cup {st.table}, rows |-> rs]
  BY <1>1 DEF Effect
<1>. QED  BY <1>1, <1>2 DEF IsStore

LEMMA EffectDrops ==
    ASSUME NEW db, IsStore(db), NEW st, st.table \in Tables, NEW hash, st.op = "drop"
    PROVE  /\ IsStore(Effect(db, st, hash))
           /\ Effect(db, st, hash).tables = db.tables \ {st.table}
           /\ \A t \in Tables : Effect(db, st, hash).rows[t] = IF t = st.table THEN {} ELSE db.rows[t]
<1>1. PICK ts, rs : db = [tables |-> ts, rows |-> rs] /\ ts \subseteq Tables /\ rs = [t \in Tables |-> rs[t]]
  BY DEF IsStore
<1>2. PICK new : new = [rs EXCEPT ![st.table] = {}]
  OBVIOUS
<1>3. Effect(db, st, hash) = [tables |-> ts \ {st.table}, rows |-> new]
  BY <1>1, <1>2 DEF Effect
<1>4. new = [t \in Tables |-> new[t]] /\ \A t \in Tables : new[t] = IF t = st.table THEN {} ELSE rs[t]
  BY <1>1, <1>2
<1>. QED  BY <1>1, <1>3, <1>4 DEF IsStore

LEMMA EffectInserts ==
    ASSUME NEW db, IsStore(db), NEW st, st.table \in Tables, NEW hash, st.op = "insert"
    PROVE  /\ IsStore(Effect(db, st, hash))
           /\ Effect(db, st, hash).tables = db.tables
           /\ Effect(db, st, hash).rows[st.table] = db.rows[st.table] \cup Filed(db, st, hash)
           /\ \A t \in Tables \ {st.table} : Effect(db, st, hash).rows[t] = db.rows[t]
<1>0. PICK R : R = Filed(db, st, hash)
  OBVIOUS
<1>1. PICK ts, rs : db = [tables |-> ts, rows |-> rs] /\ ts \subseteq Tables /\ rs = [t \in Tables |-> rs[t]]
  BY DEF IsStore
<1>2. PICK new : new = [rs EXCEPT ![st.table] = @ \cup R]
  OBVIOUS
<1>3. Effect(db, st, hash) = [tables |-> ts, rows |-> new]
  <2>1. Effect(db, st, hash) = [db EXCEPT !.rows[st.table] = @ \cup R]
    BY <1>0 DEF Effect, Filed
  <2>. QED  BY <1>1, <1>2, <2>1
<1>4. new = [t \in Tables |-> new[t]] /\ \A t \in Tables : new[t] = IF t = st.table THEN rs[t] \cup R ELSE rs[t]
  BY <1>1, <1>2
<1>5. PICK step : step = Effect(db, st, hash)
  OBVIOUS
<1>6. step.tables = ts /\ step.rows = new /\ db.tables = ts /\ db.rows = rs
  BY <1>1, <1>3, <1>5
<1>7. IsStore(step)
  <2>1. step = [tables |-> ts, rows |-> [t \in Tables |-> new[t]]]
    BY <1>3, <1>4, <1>5
  <2>. QED  BY <1>1, <1>6, <2>1 DEF IsStore
<1>8. step.rows[st.table] = db.rows[st.table] \cup R /\ \A t \in Tables \ {st.table} : step.rows[t] = db.rows[t]
  BY <1>4, <1>6
<1>. QED  BY <1>0, <1>5, <1>6, <1>7, <1>8

\* A database that has changed like that is the one Effect leaves.
LEMMA IsDropped ==
    ASSUME NEW old, IsStore(old), NEW new, IsStore(new), NEW st, st.op = "drop", st.table \in Tables, NEW hash,
           \A t \in Tables : t \in new.tables <=> t \in old.tables \ {st.table},
           \A t \in Tables : new.rows[t] = IF t = st.table THEN {} ELSE old.rows[t]
    PROVE  new = Effect(old, st, hash)
<1>1. PICK step : step = Effect(old, st, hash)
  OBVIOUS
<1>2. /\ IsStore(step) /\ step.tables = old.tables \ {st.table}
      /\ \A t \in Tables : step.rows[t] = IF t = st.table THEN {} ELSE old.rows[t]
  BY <1>1, EffectDrops
<1>3. new.tables = step.tables
  BY <1>2 DEF IsStore
<1>4. \A t \in Tables : new.rows[t] = step.rows[t]
  BY <1>2
<1>5. IsStore(new) /\ IsStore(step)
  BY <1>2
<1>6. new = step
  BY <1>3, <1>4, <1>5, StoreEqual
<1>. QED  BY <1>1, <1>6

LEMMA IsInserted ==
    ASSUME NEW old, IsStore(old), NEW new, IsStore(new), NEW st, st.op = "insert", st.table \in Tables, NEW hash,
           \A t \in Tables : t \in new.tables <=> t \in old.tables,
           new.rows[st.table] = old.rows[st.table] \cup Filed(old, st, hash),
           \A t \in Tables \ {st.table} : new.rows[t] = old.rows[t]
    PROVE  new = Effect(old, st, hash)
<1>1. PICK step : step = Effect(old, st, hash)
  OBVIOUS
<1>2. /\ IsStore(step) /\ step.tables = old.tables
      /\ step.rows[st.table] = old.rows[st.table] \cup Filed(old, st, hash)
      /\ \A t \in Tables \ {st.table} : step.rows[t] = old.rows[t]
  BY <1>1, EffectInserts
<1>3. new.tables = step.tables
  BY <1>2 DEF IsStore
<1>4. \A t \in Tables : new.rows[t] = step.rows[t]
  BY <1>2
<1>5. new = step
  BY <1>2, <1>3, <1>4, StoreEqual
<1>. QED  BY <1>1, <1>5

\* A statement after others of its kind: the sessions table is not written.
LEMMA OneMore ==
    ASSUME NEW db, IsStore(db), NEW done, NEW st, NEW hash,
           NEW op \in {"create", "drop", "insert"},
           \A x \in done \cup {st} : x.op = op /\ x.table \in Tables /\ (op = "insert" => x.table \in DataTables)
    PROVE  Effects(db, done \cup {st}, hash) = Effect(Effects(db, done, hash), st, hash)
<1>1. PICK old, new, more, R, step :
         /\ old = Effects(db, done, hash) /\ new = Effects(db, more, hash) /\ more = done \cup {st}
         /\ R = Filed(db, st, hash) /\ step = Effect(old, st, hash)
  OBVIOUS
<1>2. \A o, t : Of(more, o, t) = IF st.op = o /\ st.table = t THEN Of(done, o, t) \cup {st} ELSE Of(done, o, t)
  BY <1>1 DEF Of
<1>3. \A o, t : o # op => Of(done, o, t) = {} /\ Of(more, o, t) = {}
  BY <1>1 DEF Of
<1>4. st.op = op /\ st.table \in Tables
  OBVIOUS
<1>5. \A t \in Tables :
         /\ t \in old.tables <=> Of(done, "drop", t) = {} /\ (t \in db.tables \/ Of(done, "create", t) # {})
         /\ t \in new.tables <=> Of(more, "drop", t) = {} /\ (t \in db.tables \/ Of(more, "create", t) # {})
  BY <1>1 DEF Effects
<1>6. \A t \in Tables :
         /\ old.rows[t] = IF Of(done, "drop", t) # {} THEN {} ELSE db.rows[t] \cup Inserted(db, done, t, hash)
         /\ new.rows[t] = IF Of(more, "drop", t) # {} THEN {} ELSE db.rows[t] \cup Inserted(db, more, t, hash)
  BY <1>1 DEF Effects
<1>7. op # "insert" => \A t : Inserted(db, done, t, hash) = {} /\ Inserted(db, more, t, hash) = {}
  BY <1>3, InsertedNone
<1>8. IsStore(old) /\ IsStore(new)
  BY <1>1, EffectsStore
<1>9. CASE op = "create"
  <2>1. IsStore(step) /\ step.tables = old.tables \cup {st.table} /\ step.rows = old.rows
    BY <1>1, <1>4, <1>8, <1>9, EffectCreates
  <2>2. new.tables = step.tables
    <3>1. \A t \in Tables : t \in new.tables <=> t \in old.tables \cup {st.table}
      BY <1>2, <1>3, <1>4, <1>5, <1>9
    <3>. QED  BY <1>8, <1>4, <2>1, <3>1 DEF IsStore
  <2>3. \A t \in Tables : new.rows[t] = step.rows[t]
    BY <1>3, <1>6, <1>7, <1>9, <2>1
  <2>. QED  BY <1>1, <1>8, <2>1, <2>2, <2>3, StoreEqual
<1>10. CASE op = "drop"
  <2>1. \A t \in Tables : t \in new.tables <=> t \in old.tables \ {st.table}
    BY <1>2, <1>3, <1>4, <1>5, <1>10
  <2>2. ASSUME NEW t \in Tables PROVE new.rows[t] = IF t = st.table THEN {} ELSE old.rows[t]
    <3>1. new.rows[t] = (IF Of(more, "drop", t) # {} THEN {} ELSE db.rows[t] \cup Inserted(db, more, t, hash))
      BY <1>6
    <3>2. old.rows[t] = (IF Of(done, "drop", t) # {} THEN {} ELSE db.rows[t] \cup Inserted(db, done, t, hash))
      BY <1>6
    <3>3. Inserted(db, more, t, hash) = {} /\ Inserted(db, done, t, hash) = {}
      BY <1>7, <1>10
    <3>4. CASE t = st.table
      <4>1. Of(more, "drop", t) # {}
        BY <1>2, <1>4, <1>10, <3>4
      <4>. QED  BY <3>1, <3>4, <4>1
    <3>5. CASE t # st.table
      <4>1. Of(more, "drop", t) = Of(done, "drop", t)
        BY <1>2, <3>5
      <4>. QED  BY <3>1, <3>2, <3>3, <3>5, <4>1
    <3>. QED  BY <3>4, <3>5
  <2>3. new = Effect(old, st, hash)
    BY <1>4, <1>8, <1>10, <2>1, <2>2, IsDropped
  <2>. QED  BY <1>1, <2>3
<1>11. CASE op = "insert"
  <2>1. st.table \in DataTables /\ st.table # "sessions" /\ "sessions" \in Tables
    BY <1>11, TablesAre
  <2>2. OpenSession(old, hash) = OpenSession(db, hash)
    <3>1. Of(done, "insert", "sessions") = {} /\ Of(done, "drop", "sessions") = {}
      BY <1>3, <1>11, TablesAre DEF Of
    <3>2. Inserted(db, done, "sessions", hash) = {}
      BY <3>1, InsertedNone
    <3>3. old.rows["sessions"] = db.rows["sessions"]
      BY <1>6, <2>1, <3>1, <3>2
    <3>. QED  BY <3>3 DEF OpenSession
  <2>3. R = Filed(old, st, hash)
    BY <1>1, <2>2 DEF Filed
  <2>4. \A t \in Tables : t \in new.tables <=> t \in old.tables
    BY <1>3, <1>5, <1>11
  <2>5. ASSUME NEW t \in Tables PROVE new.rows[t] = IF t = st.table THEN old.rows[t] \cup R ELSE old.rows[t]
    <3>1. PICK oldIns, newIns : oldIns = Inserted(db, done, t, hash) /\ newIns = Inserted(db, more, t, hash)
      OBVIOUS
    <3>2. new.rows[t] = db.rows[t] \cup newIns /\ old.rows[t] = db.rows[t] \cup oldIns
      <4>1. Of(more, "drop", t) = {} /\ Of(done, "drop", t) = {}
        BY <1>3, <1>11
      <4>. QED  BY <1>6, <3>1, <4>1
    <3>3. CASE t = st.table
      <4>1. st.op = "insert" /\ st.table = t
        BY <1>4, <1>11, <3>3
      <4>2. newIns = oldIns \cup R
        BY <1>1, <3>1, <4>1, InsertedMore
      <4>. QED  BY <3>2, <3>3, <4>2
    <3>4. CASE t # st.table
      <4>1. Of(more, "insert", t) = Of(done, "insert", t)
        BY <1>2, <3>4
      <4>2. newIns = oldIns
        BY <3>1, <4>1 DEF Inserted
      <4>. QED  BY <3>2, <3>4, <4>2
    <3>. QED  BY <3>3, <3>4
  <2>6. /\ new.rows[st.table] = old.rows[st.table] \cup Filed(old, st, hash)
        /\ \A t \in Tables \ {st.table} : new.rows[t] = old.rows[t]
    BY <1>4, <2>3, <2>5
  <2>7. new = Effect(old, st, hash)
    BY <1>4, <1>8, <1>11, <2>4, <2>6, IsInserted
  <2>. QED  BY <1>1, <2>7
<1>. QED  BY <1>9, <1>10, <1>11

-----------------------------------------------------------------------------
(* Whole scripts.                                                          *)

Scripts == {createTables, dropTables} \cup {AddDataScript(sample) : sample \in Samples}

LEMMA TableScript ==
    ASSUME NEW op, NEW order \in {CreateOrder, DropOrder}
    PROVE  /\ Len(Statements(op, order)) = 13
           /\ \A i \in 1..13 : /\ Statements(op, order)[i].op = op
                               /\ Statements(op, order)[i].table = order[i]
                               /\ Statements(op, order)[i].table \in Tables
<1>1. order \in [1..13 -> Tables]
  BY TablesAre
<1>2. Statements(op, order) = [i \in 1..13 |-> Statement(op, order[i], {})]
  BY <1>1 DEF Statements
<1>. QED  BY <1>1, <1>2 DEF Statement

LEMMA DataScript ==
    ASSUME NEW sample \in Samples
    PROVE  /\ Len(AddDataScript(sample)) = RowCount(sample) /\ RowCount(sample) \in Nat
           /\ TableOf[sample.source] \in DataTables
           /\ \A i \in 1..RowCount(sample) :
                 /\ AddDataScript(sample)[i].op = "insert"
                 /\ AddDataScript(sample)[i].table = TableOf[sample.source]
                 /\ AddDataScript(sample)[i].row.sample = sample
                 /\ AddDataScript(sample)[i].row.entry = i
<1>1. /\ RowCount(sample) \in Nat
      /\ AddDataScript(sample) = [i \in 1..RowCount(sample) |-> Insert(TableOf[sample.source], sample, i)]
  BY ScriptRows
<1>2. TableOf[sample.source] \in DataTables
  BY TableOfType DEF Samples
<1>. QED  BY <1>1, <1>2 DEF Insert, Statement

\* The statements of a script are of one kind.
LEMMA OneKind ==
    ASSUME NEW script \in Scripts
    PROVE  /\ Len(script) \in Nat
           /\ \E op \in {"create", "drop", "insert"} :
                 \A i \in 1..Len(script) :
                    script[i].op = op /\ script[i].table \in Tables /\ (op = "insert" => script[i].table \in DataTables)
<1>1. CASE script = createTables
  <2>1. \A i \in 1..13 : script[i].op = "create" /\ script[i].table \in Tables
    BY <1>1, TableScript DEF createTables
  <2>2. Len(script) = 13
    BY <1>1, TableScript DEF createTables
  <2>. QED  BY <2>1, <2>2
<1>2. CASE script = dropTables
  <2>1. \A i \in 1..13 : script[i].op = "drop" /\ script[i].table \in Tables
    BY <1>2, TableScript DEF dropTables
  <2>2. Len(script) = 13
    BY <1>2, TableScript DEF dropTables
  <2>. QED  BY <2>1, <2>2
<1>3. ASSUME NEW sample \in Samples, script = AddDataScript(sample)
      PROVE  /\ Len(script) \in Nat
             /\ \A i \in 1..Len(script) : script[i].op = "insert" /\ script[i].table \in DataTables
  BY <1>3, DataScript
<1>. QED  BY <1>1, <1>2, <1>3, TablesAre DEF Scripts

\* What the first n statements of a script do to the database, said of all of
\* them at once, is what they do one after the other: the loop of sqlite3_exec()
\* and of the PostgreSQL server over the statements of a query (runQuery).
THEOREM StatementByStatement ==
    ASSUME NEW db, IsStore(db), NEW script \in Scripts, NEW hash
    PROVE  /\ After(db, script, 0, hash) = db
           /\ \A n \in 0..(Len(script) - 1) :
                 After(db, script, n + 1, hash) = Effect(After(db, script, n, hash), script[n + 1], hash)
<1>1. After(db, script, 0, hash) = db
  BY NothingDone
<1>2. ASSUME NEW n \in 0..(Len(script) - 1)
      PROVE  After(db, script, n + 1, hash) = Effect(After(db, script, n, hash), script[n + 1], hash)
  <2>1. PICK done, st : done = {script[i] : i \in 1..n} /\ st = script[n + 1]
    OBVIOUS
  <2>2. Len(script) \in Nat /\ n \in Nat /\ n + 1 \in 1..Len(script)
    BY OneKind
  <2>3. {script[i] : i \in 1..(n + 1)} = done \cup {st}
    BY <2>1, <2>2
  <2>4. PICK op \in {"create", "drop", "insert"} :
           \A i \in 1..Len(script) :
              script[i].op = op /\ script[i].table \in Tables /\ (op = "insert" => script[i].table \in DataTables)
    BY OneKind
  <2>5. \A x \in done \cup {st} : x.op = op /\ x.table \in Tables /\ (op = "insert" => x.table \in DataTables)
    BY <2>1, <2>2, <2>4
  <2>6. Effects(db, done \cup {st}, hash) = Effect(Effects(db, done, hash), st, hash)
    BY <2>5, OneMore
  <2>7. After(db, script, n, hash) = Effects(db, done, hash)
    BY <2>1 DEF After
  <2>8. After(db, script, n + 1, hash) = Effects(db, done \cup {st}, hash)
    BY <2>3 DEF After
  <2>. QED  BY <2>1, <2>6, <2>7, <2>8
<1>. QED  BY <1>1, <1>2

LEMMA AfterStore ==
    ASSUME NEW db, NEW script, NEW n, NEW hash
    PROVE  IsStore(After(db, script, n, hash))
BY EffectsStore DEF After

\* Dropping some of the tables, or all.
LEMMA AfterDrops ==
    ASSUME NEW db, IsStore(db), NEW n \in 0..13, NEW hash, NEW new, new = After(db, dropTables, n, hash)
    PROVE  /\ n = 0 => new = db
           /\ \A t \in Tables : new.rows[t] \in {db.rows[t], {}}
           /\ n = 13 => \A t \in Tables : new.rows[t] = {}
           /\ \/ \A t \in Tables \ {"devices"} : new.rows[t] = db.rows[t]
              \/ new.rows["sessions"] = {}
<1>1. PICK done : done = {dropTables[i] : i \in 1..n}
  OBVIOUS
<1>2. new = Effects(db, done, hash)
  BY <1>1 DEF After
<1>3. \A i \in 1..13 : dropTables[i].op = "drop" /\ dropTables[i].table = DropOrder[i]
  BY TableScript DEF dropTables
<1>4. \A t : Of(done, "insert", t) = {}
  BY <1>1, <1>3 DEF Of
<1>5. \A t \in Tables : new.rows[t] = IF Of(done, "drop", t) # {} THEN {} ELSE db.rows[t] \cup Inserted(db, done, t, hash)
  BY <1>2 DEF Effects
<1>6. \A t : Inserted(db, done, t, hash) = {}
  BY <1>4, InsertedNone
<1>7. ASSUME n = 13, NEW t \in Tables PROVE Of(done, "drop", t) # {}
  <2>1. PICK i \in 1..13 : DropOrder[i] = t
    BY TablesAre
  <2>2. dropTables[i] \in Of(done, "drop", t)
    BY <1>1, <1>3, <1>7, <2>1 DEF Of
  <2>. QED  BY <2>2
<1>8. n = 0 => new = db
  BY NothingDone
<1>9. DropOrder[1] = "devices" /\ DropOrder[2] = "sessions" /\ "sessions" \in Tables
  BY TablesAre DEF DropOrder
<1>10. CASE n < 2
  <2>1. \A st \in done : st.table = "devices"
    BY <1>1, <1>3, <1>9, <1>10
  <2>2. \A t \in Tables \ {"devices"} : Of(done, "drop", t) = {}
    BY <2>1 DEF Of
  <2>. QED  BY <1>5, <1>6, <1>7, <1>8, <2>2
<1>11. CASE n >= 2
  <2>1. dropTables[2] \in Of(done, "drop", "sessions")
    BY <1>1, <1>3, <1>9, <1>11 DEF Of
  <2>2. new.rows["sessions"] = {}
    BY <1>5, <1>9, <2>1
  <2>. QED  BY <1>5, <1>6, <1>7, <1>8, <2>2
<1>. QED  BY <1>10, <1>11

\* Creating some of the tables, or all: the rows there are stay.
LEMMA AfterCreates ==
    ASSUME NEW db, IsStore(db), NEW n \in 0..13, NEW hash, NEW new, new = After(db, createTables, n, hash)
    PROVE  /\ \A t \in Tables : new.rows[t] = db.rows[t]
           /\ n = 13 => new.tables = Tables
<1>1. PICK done : done = {createTables[i] : i \in 1..n}
  OBVIOUS
<1>2. new = Effects(db, done, hash)
  BY <1>1 DEF After
<1>3. \A i \in 1..13 : createTables[i].op = "create" /\ createTables[i].table = CreateOrder[i]
  BY TableScript DEF createTables
<1>4. \A t : Of(done, "insert", t) = {} /\ Of(done, "drop", t) = {}
  BY <1>1, <1>3 DEF Of
<1>5. \A t \in Tables : new.rows[t] = IF Of(done, "drop", t) # {} THEN {} ELSE db.rows[t] \cup Inserted(db, done, t, hash)
  BY <1>2 DEF Effects
<1>6. \A t : Inserted(db, done, t, hash) = {}
  BY <1>4, InsertedNone
<1>7. ASSUME n = 13, NEW t \in Tables PROVE t \in new.tables
  <2>1. PICK i \in 1..13 : CreateOrder[i] = t
    BY TablesAre
  <2>2. createTables[i] \in Of(done, "create", t)
    BY <1>1, <1>3, <1>7, <2>1 DEF Of
  <2>. QED  BY <1>2, <1>4, <2>2, EffectsTables
<1>8. IsStore(new)
  BY AfterStore
<1>9. n = 13 => new.tables = Tables
  BY <1>7, <1>8 DEF IsStore
<1>. QED  BY <1>4, <1>5, <1>6, <1>9

\* The first n rows of an answer.
LEMMA AfterInserts ==
    ASSUME NEW db, IsStore(db), NEW sample \in Samples, NEW n \in 0..RowCount(sample), NEW hash,
           NEW new, new = After(db, AddDataScript(sample), n, hash)
    PROVE  /\ IsStore(new)
           /\ TableOf[sample.source] \in DataTables
           /\ new.rows[TableOf[sample.source]]
                 = db.rows[TableOf[sample.source]] \cup NewRows(db, sample, n, hash)
           /\ \A t \in Tables \ {TableOf[sample.source]} : new.rows[t] = db.rows[t]
<1>1. PICK script, done, table :
         script = AddDataScript(sample) /\ done = {script[i] : i \in 1..n} /\ table = TableOf[sample.source]
  OBVIOUS
<1>2. /\ n \in Nat /\ 1..n \subseteq 1..RowCount(sample) /\ table \in DataTables
      /\ \A i \in 1..n : /\ script[i].op = "insert" /\ script[i].table = table
                         /\ script[i].row.sample = sample /\ script[i].row.entry = i
  <2>1. /\ RowCount(sample) \in Nat /\ table \in DataTables
        /\ \A i \in 1..RowCount(sample) : /\ script[i].op = "insert" /\ script[i].table = table
                                          /\ script[i].row.sample = sample /\ script[i].row.entry = i
    BY <1>1, DataScript
  <2>. QED  BY <2>1
<1>3. new = Effects(db, done, hash)
  BY <1>1 DEF After
<1>4. /\ \A t : Of(done, "drop", t) = {} /\ (t # table => Of(done, "insert", t) = {})
      /\ Of(done, "insert", table) = done
  <2>1. \A st \in done : st.op = "insert" /\ st.table = table
    BY <1>1, <1>2
  <2>. QED  BY <2>1 DEF Of
<1>5. Inserted(db, done, table, hash) = NewRows(db, sample, n, hash)
  <2>1. Inserted(db, done, table, hash) = {RowFor(st, r) : st \in done, r \in OpenSession(db, hash)}
    BY <1>4 DEF Inserted
  <2>2. \A i \in 1..n : \A r : RowFor(script[i], r) = [session |-> r.id, sample |-> sample, entry |-> i]
    <3>. HIDE DEF RowCount
    <3>. QED  BY <1>2 DEF RowFor
  <2>3. \A st \in done : \E i \in 1..n : st = script[i]
    BY <1>1
  <2>4. \A i \in 1..n : script[i] \in done
    BY <1>1
  <2>5. ASSUME NEW x \in Inserted(db, done, table, hash) PROVE x \in NewRows(db, sample, n, hash)
    <3>1. PICK st \in done, r \in OpenSession(db, hash) : x = RowFor(st, r)
      BY <2>1
    <3>2. PICK i \in 1..n : st = script[i]
      BY <2>3
    <3>3. x = [session |-> r.id, sample |-> sample, entry |-> i]
      BY <2>2, <3>1, <3>2
    <3>. QED  BY <3>3 DEF NewRows
  <2>6. ASSUME NEW x \in NewRows(db, sample, n, hash) PROVE x \in Inserted(db, done, table, hash)
    <3>1. PICK r \in OpenSession(db, hash), i \in 1..n : x = [session |-> r.id, sample |-> sample, entry |-> i]
      BY DEF NewRows
    <3>2. x = RowFor(script[i], r) /\ script[i] \in done
      BY <2>2, <2>4, <3>1
    <3>. QED  BY <2>1, <3>2
  <2>. QED  BY <2>5, <2>6
<1>6. \A t \in Tables : new.rows[t] = db.rows[t] \cup Inserted(db, done, t, hash)
  <2>1. ASSUME NEW t \in Tables PROVE Of(done, "drop", t) = {}
    BY <1>4
  <2>. QED  BY <1>3, <2>1, EffectsRows
<1>7. \A t : t # table => Inserted(db, done, t, hash) = {}
  BY <1>4, InsertedNone
<1>8. IsStore(new) /\ table \in Tables
  BY <1>2, AfterStore, TablesAre
<1>9. new.rows[table] = db.rows[table] \cup NewRows(db, sample, n, hash)
  BY <1>5, <1>6, <1>8
<1>10. \A t \in Tables \ {table} : new.rows[t] = db.rows[t]
  BY <1>6, <1>7
<1>. QED  BY <1>1, <1>2, <1>8, <1>9, <1>10

-----------------------------------------------------------------------------
(* The requests that run scripts.                                          *)

LEMMA OutcomeBounds ==
    ASSUME NEW db, NEW script, Len(script) \in Nat, NEW hash, NEW n \in Outcomes(db, script, hash)
    PROVE  n \in 0..Len(script) /\ (backend = "pqsql" => n \in {0, Len(script)})
<1>1. PICK most : most = Runnable(db, script, hash)
  OBVIOUS
<1>2. most \in 0..Len(script)
  BY <1>1 DEF Runnable
<1>3. PICK k \in {most} \cup {b \in Breaks : b < most} : n = Kept(script, k)
  BY <1>1 DEF Outcomes
<1>4. k \in 0..Len(script)
  BY <1>2, <1>3, RecordingAssumption
<1>. QED  BY <1>3, <1>4 DEF Kept

\* Dropping and creating keeps the rows of a table or takes them all; with
\* PostgreSQL it takes those of every table or of none.
LEMMA DatabaseInitialized ==
    ASSUME IsStore(Store), DB_doInitDatabase
    PROVE  /\ IsStore(Store')
           /\ \A t \in Tables : rows'[t] \in {rows[t], {}}
           /\ backend = "pqsql" => (\A t \in Tables : rows'[t] = rows[t]) \/ (\A t \in Tables : rows'[t] = {})
           /\ (\A t \in Tables \ {"devices"} : rows'[t] = rows[t]) \/ rows'["sessions"] = {}
           /\ initialized' = "Okay" => tables' = Tables
           /\ initialized' \in {"Okay", "Error"}
<1>1. PICK drop, n, dropped, k, created :
         /\ drop \in {dropTables, <<>>} /\ n \in Outcomes(Store, drop, 0)
         /\ dropped = After(Store, drop, n, 0) /\ k \in Outcomes(dropped, createTables, 0)
         /\ created = After(dropped, createTables, k, 0)
         /\ tables' = created.tables /\ rows' = created.rows
         /\ initialized' = IF k = Len(createTables) THEN "Okay" ELSE "Error"
  BY DEF DB_doInitDatabase
<1>2. PICK db : db = Store
  OBVIOUS
<1>3. db.tables = tables /\ db.rows = rows /\ IsStore(db)
  BY <1>2 DEF Store
<1>4. Len(createTables) = 13 /\ Len(dropTables) = 13
  BY TableScript DEF createTables, dropTables
<1>5. k \in 0..13
  <2>1. Len(createTables) \in Nat /\ k \in Outcomes(dropped, createTables, 0)
    BY <1>1, <1>4
  <2>2. k \in 0..Len(createTables)
    BY <2>1, OutcomeBounds
  <2>. QED  BY <1>4, <2>2
<1>6. IsStore(dropped) /\ IsStore(created)
  BY <1>1, AfterStore
<1>7. /\ \A t \in Tables : dropped.rows[t] \in {rows[t], {}}
      /\ backend = "pqsql" => \/ \A t \in Tables : dropped.rows[t] = rows[t]
                              \/ \A t \in Tables : dropped.rows[t] = {}
      /\ \/ \A t \in Tables \ {"devices"} : dropped.rows[t] = rows[t]
         \/ dropped.rows["sessions"] = {}
  <2>1. CASE drop = <<>>
    <3>1. Len(drop) = 0
      BY <2>1
    <3>2. n \in 0..0
      BY <1>1, <3>1, OutcomeBounds
    <3>3. n = 0
      BY <3>2
    <3>4. dropped = db
      BY <1>1, <1>2, <1>3, <3>3, NothingDone
    <3>. QED  BY <1>3, <3>4
  <2>2. CASE drop = dropTables
    <3>1. n \in 0..13 /\ (backend = "pqsql" => n \in {0, 13})
      <4>1. Len(drop) = 13 /\ Len(drop) \in Nat /\ n \in Outcomes(Store, drop, 0)
        BY <1>1, <1>4, <2>2
      <4>2. n \in 0..Len(drop) /\ (backend = "pqsql" => n \in {0, Len(drop)})
        BY <4>1, OutcomeBounds
      <4>. QED  BY <4>1, <4>2
    <3>2. /\ n = 0 => dropped = db
          /\ \A t \in Tables : dropped.rows[t] \in {db.rows[t], {}}
          /\ n = 13 => \A t \in Tables : dropped.rows[t] = {}
          /\ \/ \A t \in Tables \ {"devices"} : dropped.rows[t] = db.rows[t]
             \/ dropped.rows["sessions"] = {}
      BY <1>1, <1>2, <1>3, <2>2, <3>1, AfterDrops
    <3>. QED  BY <1>3, <3>1, <3>2
  <2>. QED  BY <1>1, <2>1, <2>2
<1>8. /\ \A t \in Tables : created.rows[t] = dropped.rows[t]
      /\ k = 13 => created.tables = Tables
  BY <1>1, <1>5, <1>6, AfterCreates
<1>9. Store' = created
  <2>1. Store' = [tables |-> created.tables, rows |-> created.rows]
    BY <1>1 DEF Store
  <2>2. PICK ts, rs : created = [tables |-> ts, rows |-> rs]
    BY <1>6 DEF IsStore
  <2>. QED  BY <2>1, <2>2
<1>10. \A t \in Tables : rows'[t] = dropped.rows[t]
  BY <1>1, <1>8
<1>11. initialized' \in {"Okay", "Error"} /\ (initialized' = "Okay" => tables' = Tables)
  BY <1>1, <1>4, <1>8
<1>12. "sessions" \in Tables
  BY TablesAre
<1>. QED  BY <1>6, <1>7, <1>9, <1>10, <1>11, <1>12

\* Of a script that runs, every statement can.
LEMMA SomethingRan ==
    ASSUME NEW db, NEW script, Len(script) \in Nat, NEW hash, NEW n \in Outcomes(db, script, hash), n # 0,
           DOMAIN script = 1..Len(script)
    PROVE  \A i \in 1..Len(script) : CanRun(db, script[i], hash)
<1>1. PICK most : most = Runnable(db, script, hash)
  OBVIOUS
<1>2. PICK k \in {most} \cup {b \in Breaks : b < most} : n = Kept(script, k)
  BY <1>1 DEF Outcomes
<1>3. most # 0
  BY <1>1, <1>2, RecordingAssumption DEF Kept, Runnable
<1>. QED  BY <1>1, <1>3 DEF Runnable

\* An answer of the monitor adds its first rows to the table of its source.
LEMMA DataAdded ==
    ASSUME IsStore(Store), DB_doAddData, dbRequests \in Seq(DBRequests)
    PROVE  \E sample \in Samples, hash \in 0..MaxSessions, n \in Nat :
              /\ sample = Head(dbRequests).sample /\ hash = Head(dbRequests).hash
              /\ n \in 0..RowCount(sample)
              /\ IsStore(Store')
              /\ TableOf[sample.source] \in DataTables
              /\ rows'[TableOf[sample.source]]
                    = rows[TableOf[sample.source]] \cup NewRows(Store, sample, n, hash)
              /\ \A t \in Tables \ {TableOf[sample.source]} : rows'[t] = rows[t]
              /\ backend = "pqsql" => n \in {0, RowCount(sample)}
              /\ n # 0 => OpenSession(Store, hash) # {}
<1>1. PICK sample, hash, script, n :
         /\ sample = Head(dbRequests).sample /\ hash = Head(dbRequests).hash
         /\ script = AddDataScript(sample)
         /\ n \in Outcomes(Store, script, hash) /\ rows' = After(Store, script, n, hash).rows
  BY DEF DB_doAddData
<1>2. sample \in Samples /\ hash \in 0..MaxSessions
  <2>1. dbRequests # <<>> /\ Head(dbRequests) \in DBRequests /\ Head(dbRequests).action = "AddData"
    BY HeadTailProperties DEF DB_doAddData, DBHandles
  <2>. QED  BY <1>1, <2>1 DEF DBRequests
<1>3. Len(script) = RowCount(sample) /\ RowCount(sample) \in Nat /\ DOMAIN script = 1..Len(script)
  BY <1>1, <1>2, DataScript, ScriptRows
<1>4. n \in 0..RowCount(sample) /\ (backend = "pqsql" => n \in {0, RowCount(sample)})
  BY <1>1, <1>3, OutcomeBounds
<1>5. PICK db, new : db = Store /\ new = After(Store, script, n, hash)
  OBVIOUS
<1>6. db.tables = tables /\ db.rows = rows /\ IsStore(db) /\ rows' = new.rows
  BY <1>1, <1>5 DEF Store
<1>7. /\ IsStore(new)
      /\ TableOf[sample.source] \in DataTables
      /\ new.rows[TableOf[sample.source]]
            = db.rows[TableOf[sample.source]] \cup NewRows(db, sample, n, hash)
      /\ \A t \in Tables \ {TableOf[sample.source]} : new.rows[t] = db.rows[t]
  <2>1. new = After(db, AddDataScript(sample), n, hash)
    BY <1>1, <1>5
  <2>2. sample \in Samples /\ n \in 0..RowCount(sample) /\ IsStore(db)
    BY <1>2, <1>4, <1>6
  <2>. QED  BY <2>1, <2>2, AfterInserts
<1>8. IsStore(Store')
  <2>1. Store' = [tables |-> tables, rows |-> rows']
    BY DEF Store, DB_doAddData
  <2>2. rows' = [t \in Tables |-> rows'[t]] /\ tables \subseteq Tables
    BY <1>6, <1>7 DEF IsStore
  <2>. QED  BY <2>1, <2>2 DEF IsStore
<1>9. n # 0 => OpenSession(Store, hash) # {}
  <2>1. SUFFICES ASSUME n # 0 PROVE OpenSession(Store, hash) # {}
    OBVIOUS
  <2>2. \E i \in 1..RowCount(sample) : TRUE
    BY <1>3, <1>4, <2>1
  <2>3. PICK i \in 1..RowCount(sample) : CanRun(Store, script[i], hash)
    BY <1>1, <1>3, <1>4, <2>1, <2>2, SomethingRan
  <2>. QED  BY <1>1, <1>2, <2>3, DataScript DEF CanRun
<1>. QED  BY <1>1, <1>2, <1>4, <1>5, <1>6, <1>7, <1>8, <1>9

-----------------------------------------------------------------------------
(* The sessions in the queue of the device are numbered in the order the    *)
(* monitor sets them, and data comes behind the session it was collected    *)
(* for: when the queue is served from k on, sessions k + 1, k + 2, ... are   *)
(* set and the data in between is of the last of them.                      *)

Numbered(q, k) ==
    \A i \in 1..Len(q) :
        /\ q[i].action = "SetSession" => q[i].session = k + Count(q, {"SetSession"}, i)
        /\ q[i].action = "ProcessData" => q[i].sample.of = k + Count(q, {"SetSession"}, i)

LEMMA CountNat ==
    ASSUME NEW q, NEW A, NEW n \in Nat
    PROVE  Count(q, A, n) \in Nat
BY CountStep

LEMMA NumberedAppend ==
    ASSUME NEW S, NEW q \in Seq(S), NEW e \in S, NEW k \in Nat, Numbered(q, k),
           e.action = "SetSession" => e.session = k + Count(q, {"SetSession"}, Len(q)) + 1,
           e.action = "ProcessData" => e.sample.of = k + Count(q, {"SetSession"}, Len(q))
    PROVE  Numbered(Append(q, e), k)
<1>1. PICK p, m, n : p = Append(q, e) /\ m = Len(q) /\ n = Count(q, {"SetSession"}, Len(q))
  OBVIOUS
<1>2. Len(p) = m + 1 /\ m \in Nat /\ (\A i \in 1..m : p[i] = q[i]) /\ p[m + 1] = e
  BY <1>1, AppendProperties, LenProperties
<1>3. /\ \A i \in 0..m : Count(p, {"SetSession"}, i) = Count(q, {"SetSession"}, i)
      /\ Count(p, {"SetSession"}, m + 1) = n + (IF e.action = "SetSession" THEN 1 ELSE 0)
  <2>1. PICK A : A = {"SetSession"}
    OBVIOUS
  <2>2. /\ \A i \in 0..m : Count(p, A, i) = Count(q, A, i)
        /\ Count(p, A, m + 1) = Count(q, A, m) + (IF e.action \in A THEN 1 ELSE 0)
    BY <1>2, CountLonger
  <2>3. e.action \in A <=> e.action = "SetSession"
    BY <2>1
  <2>. QED  BY <1>1, <2>1, <2>2, <2>3
<1>4. n \in Nat
  BY <1>1, <1>2, CountNat
<1>5. ASSUME NEW i \in 1..(m + 1)
      PROVE  /\ p[i].action = "SetSession" => p[i].session = k + Count(p, {"SetSession"}, i)
             /\ p[i].action = "ProcessData" => p[i].sample.of = k + Count(p, {"SetSession"}, i)
  <2>1. CASE i \in 1..m
    <3>1. p[i] = q[i] /\ Count(p, {"SetSession"}, i) = Count(q, {"SetSession"}, i)
      BY <1>2, <1>3, <2>1
    <3>. QED  BY <1>1, <2>1, <3>1 DEF Numbered
  <2>2. CASE i = m + 1
    BY <1>1, <1>2, <1>3, <1>4, <2>2
  <2>. QED  BY <1>2, <2>1, <2>2
<1>6. Numbered(p, k)
  BY <1>2, <1>5 DEF Numbered
<1>. QED  BY <1>1, <1>6

LEMMA NumberedTail ==
    ASSUME NEW S, NEW q \in Seq(S), q # <<>>, NEW k \in Nat, Numbered(q, k)
    PROVE  /\ Head(q).action = "SetSession" => Head(q).session = k + 1 /\ Numbered(Tail(q), k + 1)
           /\ Head(q).action = "ProcessData" => Head(q).sample.of = k
           /\ Head(q).action # "SetSession" => Numbered(Tail(q), k)
<1>1. PICK p, first : p = Tail(q) /\ first = Head(q)
  OBVIOUS
<1>2. /\ Len(p) = Len(q) - 1 /\ Len(q) \in Nat /\ Len(q) >= 1
      /\ \A i \in 1..Len(p) : p[i] = q[i + 1]
      /\ first = q[1]
  BY <1>1, HeadTailProperties, LenProperties, EmptySeq
<1>3. Count(q, {"SetSession"}, 1) = IF first.action \in {"SetSession"} THEN 1 ELSE 0
  BY <1>2, CountFirst
<1>4. /\ first.action = "SetSession" => first.session = k + 1
      /\ first.action = "ProcessData" => first.sample.of = k
  BY <1>2, <1>3 DEF Numbered
<1>5. ASSUME NEW i \in 1..Len(p)
      PROVE  LET d == IF first.action \in {"SetSession"} THEN 1 ELSE 0
             IN  /\ p[i].action = "SetSession" => p[i].session = k + d + Count(p, {"SetSession"}, i)
                 /\ p[i].action = "ProcessData" => p[i].sample.of = k + d + Count(p, {"SetSession"}, i)
  <2>1. Count(q, {"SetSession"}, i + 1) = Count(p, {"SetSession"}, i) + (IF first.action \in {"SetSession"} THEN 1 ELSE 0)
    BY <1>1, <1>2, CountTail
  <2>2. Count(p, {"SetSession"}, i) \in Nat
    BY <1>2, CountNat
  <2>3. /\ q[i + 1].action = "SetSession" => q[i + 1].session = k + Count(q, {"SetSession"}, i + 1)
        /\ q[i + 1].action = "ProcessData" => q[i + 1].sample.of = k + Count(q, {"SetSession"}, i + 1)
    BY <1>2 DEF Numbered
  <2>. QED  BY <1>2, <2>1, <2>2, <2>3
<1>6. first.action = "SetSession" => Numbered(p, k + 1)
  BY <1>5 DEF Numbered
<1>7. first.action # "SetSession" => Numbered(p, k)
  BY <1>5 DEF Numbered
<1>. QED  BY <1>1, <1>4, <1>6, <1>7

LEMMA NumberedNone == ASSUME NEW k PROVE Numbered(<<>>, k)
BY DEF Numbered

-----------------------------------------------------------------------------
(* The device and its lanes.                                               *)

\* How many requests of a queue set a session, and how many start the lanes
\* sooner or later.
SetsIn(q) == Count(q, {"SetSession"}, Len(q))
StartsIn(q) == Count(q, {"SetSession", "StartStream"}, Len(q))

LEMMA PushCounts ==
    ASSUME NEW q \in Seq(LaneRequests), NEW e \in LaneRequests, NEW p, p = Append(q, e)
    PROVE  /\ p \in Seq(LaneRequests)
           /\ SetsIn(q) \in Nat /\ SetsIn(p) = SetsIn(q) + (IF e.action = "SetSession" THEN 1 ELSE 0)
           /\ StartsIn(q) \in Nat
           /\ StartsIn(p) = StartsIn(q) + (IF e.action = "SetSession" \/ e.action = "StartStream" THEN 1 ELSE 0)
<1>1. PICK A, B : A = {"SetSession"} /\ B = {"SetSession", "StartStream"}
  OBVIOUS
<1>2. /\ e.action \in A <=> e.action = "SetSession"
      /\ e.action \in B <=> e.action = "SetSession" \/ e.action = "StartStream"
  BY <1>1
<1>3. PICK S : S = LaneRequests
  OBVIOUS
<1>4. q \in Seq(S) /\ e \in S
  BY <1>3
<1>5. Count(p, A, Len(p)) = Count(q, A, Len(q)) + (IF e.action \in A THEN 1 ELSE 0)
  BY <1>4, CountAppend
<1>6. Count(p, B, Len(p)) = Count(q, B, Len(q)) + (IF e.action \in B THEN 1 ELSE 0)
  BY <1>4, CountAppend
<1>7. Count(q, A, Len(q)) \in Nat /\ Count(q, B, Len(q)) \in Nat
  BY <1>4, CountNat, LenProperties
<1>8. p \in Seq(LaneRequests)
  BY AppendProperties
<1>. QED  BY <1>1, <1>2, <1>5, <1>6, <1>7, <1>8 DEF SetsIn, StartsIn

LEMMA PopCounts ==
    ASSUME NEW q \in Seq(LaneRequests), q # <<>>, NEW p, p = Tail(q), NEW e, e = Head(q)
    PROVE  /\ p \in Seq(LaneRequests) /\ e \in LaneRequests
           /\ SetsIn(p) \in Nat /\ SetsIn(q) = SetsIn(p) + (IF e.action = "SetSession" THEN 1 ELSE 0)
           /\ StartsIn(p) \in Nat
           /\ StartsIn(q) = StartsIn(p) + (IF e.action = "SetSession" \/ e.action = "StartStream" THEN 1 ELSE 0)
<1>1. PICK A, B : A = {"SetSession"} /\ B = {"SetSession", "StartStream"}
  OBVIOUS
<1>2. /\ e.action \in A <=> e.action = "SetSession"
      /\ e.action \in B <=> e.action = "SetSession" \/ e.action = "StartStream"
  BY <1>1
<1>3. PICK S : S = LaneRequests
  OBVIOUS
<1>4. q \in Seq(S) /\ p \in Seq(S) /\ e \in S /\ Len(q) = Len(p) + 1 /\ Len(p) \in Nat
  BY <1>3, HeadTailProperties, LenProperties, EmptySeq
<1>5. Count(q, A, Len(p) + 1) = Count(p, A, Len(p)) + (IF e.action \in A THEN 1 ELSE 0)
  BY <1>4, CountTail
<1>6. Count(q, B, Len(p) + 1) = Count(p, B, Len(p)) + (IF e.action \in B THEN 1 ELSE 0)
  BY <1>4, CountTail
<1>7. Count(p, A, Len(p)) \in Nat /\ Count(p, B, Len(p)) \in Nat
  BY <1>4, CountNat
<1>. QED  BY <1>1, <1>2, <1>3, <1>4, <1>5, <1>6, <1>7 DEF SetsIn, StartsIn

LEMMA RequestKinds ==
    /\ \A r \in LaneRequests :
          /\ r.action = "SetSession" => r.session \in 0..MaxSessions /\ r.plan \in [Lanes -> SUBSET DataSources]
          /\ r.action = "ProcessData" => r.sample \in Samples
    /\ [action |-> "StartStream"] \in LaneRequests
    /\ [action |-> "StopStream"] \in LaneRequests
    /\ \A p \in [Lanes -> SUBSET DataSources], n \in 0..MaxSessions :
          [action |-> "SetSession", plan |-> p, session |-> n] \in LaneRequests
    /\ \A sample \in Samples : [action |-> "ProcessData", sample |-> sample] \in LaneRequests
BY DEF LaneRequests

\* What holds of the device, its lanes and its queue.
LaneInv ==
    /\ LanesTypeOK
    /\ Numbered(requests, session)
    /\ session + SetsIn(requests) <= MaxSessions
    /\ current + StartsIn(requests) <= MaxStarts
    /\ sampled \subseteq (DataSources \X (0..MaxSessions))

LEMMA MonitorSessionIs == MonitorSession = session + SetsIn(requests)
BY DEF MonitorSession, Queued, SetsIn

LEMMA StartsLeftIs == StartsLeft <=> current + StartsIn(requests) < MaxStarts
BY DEF StartsLeft, Queued, StartsIn

LEMMA ConfigurationType == ASSUME NEW p PROVE Configuration(p) \subseteq Entries
BY DEF Configuration

LEMMA LaneInvInit == Init => LaneInv
<1>. SUFFICES ASSUME Init PROVE LaneInv
  OBVIOUS
<1>1. requests = <<>> /\ session = 0 /\ current = 0 /\ Len(requests) = 0
  BY DEF Init, LanesInit
<1>2. SetsIn(requests) = 0 /\ StartsIn(requests) = 0
  BY <1>1, CountNone DEF SetsIn, StartsIn
<1>3. Numbered(requests, session)
  BY <1>1, NumberedNone
<1>4. LanesTypeOK
  BY LanesAssumption DEF Init, LanesInit, LanesTypeOK
<1>. QED  BY <1>1, <1>2, <1>3, <1>4, LanesAssumption DEF LaneInv, Init

\* A request that is served, when it sets no session.
LEMMA LaneServed ==
    ASSUME LaneInv, requests # <<>>, NEW p, p = Tail(requests), Head(requests).action # "SetSession"
    PROVE  /\ p \in Seq(LaneRequests) /\ Head(requests) \in LaneRequests
           /\ Numbered(p, session)
           /\ SetsIn(p) \in Nat /\ SetsIn(requests) = SetsIn(p)
           /\ StartsIn(p) \in Nat
           /\ StartsIn(requests) = StartsIn(p) + (IF Head(requests).action = "StartStream" THEN 1 ELSE 0)
<1>1. PICK q, e : q = requests /\ e = Head(requests)
  OBVIOUS
<1>2. q \in Seq(LaneRequests) /\ session \in Nat /\ Numbered(q, session) /\ q # <<>>
  BY <1>1 DEF LaneInv, LanesTypeOK
<1>3. p = Tail(q) /\ e = Head(q) /\ e.action # "SetSession"
  BY <1>1
<1>4. Numbered(p, session)
  BY <1>2, <1>3, NumberedTail
<1>5. /\ p \in Seq(LaneRequests) /\ e \in LaneRequests
      /\ SetsIn(p) \in Nat /\ SetsIn(q) = SetsIn(p) + (IF e.action = "SetSession" THEN 1 ELSE 0)
      /\ StartsIn(p) \in Nat
      /\ StartsIn(q) = StartsIn(p) + (IF e.action = "SetSession" \/ e.action = "StartStream" THEN 1 ELSE 0)
  <2>1. /\ Tail(q) \in Seq(LaneRequests) /\ Head(q) \in LaneRequests
        /\ SetsIn(Tail(q)) \in Nat /\ SetsIn(q) = SetsIn(Tail(q)) + (IF Head(q).action = "SetSession" THEN 1 ELSE 0)
        /\ StartsIn(Tail(q)) \in Nat
        /\ StartsIn(q) = StartsIn(Tail(q))
                            + (IF Head(q).action = "SetSession" \/ Head(q).action = "StartStream" THEN 1 ELSE 0)
    BY <1>2, PopCounts
  <2>. QED  BY <1>3, <2>1
<1>. QED  BY <1>1, <1>3, <1>4, <1>5

\* One lemma for each step of the device, its clients, its timers and its monitor.
LEMMA LaneSetsSession == ASSUME LaneInv, doSetSession, UNCHANGED sampled PROVE LaneInv'
<1>1. PICK q, e, p, n : /\ q = requests /\ e = Head(requests) /\ p = Tail(requests)
                        /\ n = Append(p, [action |-> "StartStream"])
  OBVIOUS
<1>2. /\ q \in Seq(LaneRequests) /\ q # <<>> /\ p = Tail(q) /\ e = Head(q) /\ e.action = "SetSession"
      /\ Numbered(q, session) /\ session \in Nat /\ current \in 0..MaxStarts
      /\ session + SetsIn(q) <= MaxSessions /\ current + StartsIn(q) <= MaxStarts
  BY <1>1 DEF LaneInv, LanesTypeOK, doSetSession, Handles
<1>3. e.session = session + 1 /\ Numbered(p, session + 1)
  BY <1>2, NumberedTail
<1>4. /\ p \in Seq(LaneRequests) /\ e \in LaneRequests
      /\ SetsIn(p) \in Nat /\ SetsIn(q) = SetsIn(p) + 1 /\ StartsIn(p) \in Nat /\ StartsIn(q) = StartsIn(p) + 1
  BY <1>2, PopCounts
<1>5. /\ n \in Seq(LaneRequests)
      /\ SetsIn(n) = SetsIn(p) /\ StartsIn(n) = StartsIn(p) + 1
  <2>1. PICK x : x = [action |-> "StartStream"]
    OBVIOUS
  <2>2. x \in LaneRequests /\ x.action = "StartStream" /\ n = Append(p, x)
    BY <1>1, <2>1, RequestKinds
  <2>3. /\ n \in Seq(LaneRequests)
        /\ SetsIn(n) = SetsIn(p) + (IF x.action = "SetSession" THEN 1 ELSE 0)
        /\ StartsIn(n) = StartsIn(p) + (IF x.action = "SetSession" \/ x.action = "StartStream" THEN 1 ELSE 0)
    BY <1>4, <2>2, PushCounts
  <2>. QED  BY <1>4, <2>2, <2>3
<1>6. Numbered(n, session + 1)
  <2>1. PICK s, x : s = session + 1 /\ x = [action |-> "StartStream"]
    OBVIOUS
  <2>2. s \in Nat /\ x \in LaneRequests /\ x.action = "StartStream" /\ Numbered(p, s) /\ n = Append(p, x)
    BY <1>1, <1>2, <1>3, <2>1, RequestKinds
  <2>3. Numbered(Append(p, x), s)
    BY <1>4, <2>2, NumberedAppend
  <2>. QED  BY <2>1, <2>2, <2>3
<1>7. session' = e.session /\ plan' = e.plan /\ requests' = n /\ current' = current
  BY <1>1 DEF doSetSession
<1>8. Numbered(requests', session')
  BY <1>3, <1>6, <1>7
<1>9. session' + SetsIn(requests') <= MaxSessions /\ current' + StartsIn(requests') <= MaxStarts
  BY <1>2, <1>3, <1>4, <1>5, <1>7
<1>10. LanesTypeOK'
  <2>1. session' \in 0..MaxSessions /\ plan' \in [Lanes -> SUBSET DataSources]
    BY <1>2, <1>4, <1>7, RequestKinds
  <2>2. requests' \in Seq(LaneRequests)
    BY <1>5, <1>7
  <2>. QED  BY <2>1, <2>2 DEF LaneInv, LanesTypeOK, doSetSession
<1>. QED  BY <1>8, <1>9, <1>10 DEF LaneInv

LEMMA LaneStarts == ASSUME LaneInv, doStartStream, UNCHANGED sampled PROVE LaneInv'
<1>1. PICK p : p = Tail(requests)
  OBVIOUS
<1>2. requests # <<>> /\ Head(requests).action = "StartStream" /\ requests' = p /\ session' = session
  BY <1>1 DEF doStartStream, Handles
<1>3. /\ p \in Seq(LaneRequests) /\ Numbered(p, session) /\ SetsIn(requests) = SetsIn(p)
      /\ StartsIn(p) \in Nat /\ StartsIn(requests) = StartsIn(p) + 1
  BY <1>1, <1>2, LaneServed
<1>4. current' = current + 1 /\ current \in 0..MaxStarts /\ current + StartsIn(requests) <= MaxStarts
  BY DEF LaneInv, LanesTypeOK, doStartStream, startUpdateLanes
<1>5. current' \in 1..MaxStarts
  BY <1>3, <1>4, LanesAssumption
<1>6. current' + StartsIn(requests') <= MaxStarts
  BY <1>2, <1>3, <1>4
<1>7. LanesTypeOK'
  <2>1. dataSources' \subseteq Entries
    BY ConfigurationType DEF doStartStream, startUpdateLanes
  <2>2. armed' \subseteq Lanes \X (1..MaxStarts)
    BY <1>5 DEF doStartStream, startUpdateLanes, LaneInv, LanesTypeOK
  <2>. QED  BY <1>2, <1>3, <1>5, <2>1, <2>2 DEF LaneInv, LanesTypeOK, doStartStream
<1>. QED  BY <1>2, <1>3, <1>6, <1>7 DEF LaneInv

LEMMA LaneStops == ASSUME LaneInv, doStopStream, UNCHANGED sampled PROVE LaneInv'
<1>1. PICK p : p = Tail(requests)
  OBVIOUS
<1>2. requests # <<>> /\ Head(requests).action = "StopStream" /\ requests' = p /\ session' = session /\ current' = current
  BY <1>1 DEF doStopStream, Handles
<1>3. /\ p \in Seq(LaneRequests) /\ Numbered(p, session) /\ SetsIn(requests) = SetsIn(p)
      /\ StartsIn(requests) = StartsIn(p) + 0 /\ StartsIn(p) \in Nat
  BY <1>1, <1>2, LaneServed
<1>4. LanesTypeOK'
  BY <1>2, <1>3 DEF LaneInv, LanesTypeOK, doStopStream, stopUpdateLanes
<1>. QED  BY <1>2, <1>3, <1>4 DEF LaneInv

LEMMA LaneProcesses == ASSUME LaneInv, doProcessData PROVE LaneInv'
<1>1. PICK p : p = Tail(requests)
  OBVIOUS
<1>2. requests # <<>> /\ Head(requests).action = "ProcessData" /\ requests' = p /\ session' = session
      /\ current' = current /\ sampled' = sampled
  BY <1>1 DEF doProcessData, Handles
<1>3. /\ p \in Seq(LaneRequests) /\ Numbered(p, session) /\ SetsIn(requests) = SetsIn(p)
      /\ StartsIn(requests) = StartsIn(p) + 0 /\ StartsIn(p) \in Nat
  BY <1>1, <1>2, LaneServed
<1>4. LanesTypeOK'
  BY <1>2, <1>3 DEF LaneInv, LanesTypeOK, doProcessData
<1>. QED  BY <1>2, <1>3, <1>4 DEF LaneInv

\* Steps that leave the queue alone.
LEMMA LaneAsks == ASSUME LaneInv, NEW l \in Lanes, Timer_tick(l), UNCHANGED sampled PROVE LaneInv'
<1>1. {Asks(e.source) : e \in {x \in dataSources : x.lane = l}} \subseteq DataSources
  BY DEF LaneInv, LanesTypeOK, Entries, Asks
<1>2. LanesTypeOK'
  BY <1>1 DEF LaneInv, LanesTypeOK, Timer_tick
<1>. QED  BY <1>2 DEF LaneInv, Timer_tick

LEMMA LaneDisconnects == ASSUME LaneInv, Connection_finalize, UNCHANGED sampled PROVE LaneInv'
<1>1. LanesTypeOK'
  BY DEF LaneInv, LanesTypeOK, Connection_finalize, stopUpdateLanes
<1>. QED  BY <1>1 DEF LaneInv, Connection_finalize

LEMMA LaneRests == ASSUME LaneInv, UNCHANGED <<laneVars, sampled>> PROVE LaneInv'
<1>1. LanesTypeOK'
  BY DEF LaneInv, LanesTypeOK, laneVars
<1>. QED  BY <1>1 DEF LaneInv, laneVars

\* Steps that push a request.
LEMMA LanePushes ==
    ASSUME LaneInv, NEW e \in LaneRequests, requests' = Append(requests, e),
           e.action = "SetSession" => MonitorSession < MaxSessions /\ e.session = MonitorSession + 1,
           e.action = "SetSession" \/ e.action = "StartStream" => StartsLeft,
           e.action = "ProcessData" => e.sample.of = MonitorSession,
           UNCHANGED <<session, current>>
    PROVE  /\ requests' \in Seq(LaneRequests) /\ Numbered(requests', session')
           /\ session' + SetsIn(requests') <= MaxSessions /\ current' + StartsIn(requests') <= MaxStarts
<1>1. PICK q, n, m : q = requests /\ n = Append(q, e) /\ m = SetsIn(q)
  OBVIOUS
<1>2. /\ q \in Seq(LaneRequests) /\ Numbered(q, session) /\ session \in Nat /\ current \in Nat
      /\ session + SetsIn(q) <= MaxSessions /\ current + StartsIn(q) <= MaxStarts
  BY <1>1 DEF LaneInv, LanesTypeOK
<1>3. /\ e.action = "SetSession" => session + m < MaxSessions /\ e.session = session + m + 1
      /\ e.action = "SetSession" \/ e.action = "StartStream" => current + StartsIn(q) < MaxStarts
      /\ e.action = "ProcessData" => e.sample.of = session + m
  BY <1>1, MonitorSessionIs, StartsLeftIs
<1>4. /\ n \in Seq(LaneRequests)
      /\ SetsIn(q) \in Nat /\ SetsIn(n) = SetsIn(q) + (IF e.action = "SetSession" THEN 1 ELSE 0)
      /\ StartsIn(q) \in Nat
      /\ StartsIn(n) = StartsIn(q) + (IF e.action = "SetSession" \/ e.action = "StartStream" THEN 1 ELSE 0)
  BY <1>1, <1>2, PushCounts
<1>5. Numbered(n, session)
  <2>1. PICK S, k : S = LaneRequests /\ k = session
    OBVIOUS
  <2>2. /\ q \in Seq(S) /\ e \in S /\ k \in Nat /\ Numbered(q, k)
        /\ e.action = "SetSession" => e.session = k + Count(q, {"SetSession"}, Len(q)) + 1
        /\ e.action = "ProcessData" => e.sample.of = k + Count(q, {"SetSession"}, Len(q))
    BY <1>1, <1>2, <1>3, <2>1 DEF SetsIn
  <2>3. Numbered(Append(q, e), k)
    BY <2>2, NumberedAppend
  <2>. QED  BY <1>1, <2>1, <2>3
<1>6. requests' = n /\ session' = session /\ current' = current
  BY <1>1
<1>7. MaxSessions \in Nat /\ MaxStarts \in Nat
  BY LanesAssumption
<1>8. session + SetsIn(n) <= MaxSessions
  BY <1>1, <1>2, <1>3, <1>4, <1>7
<1>9. current + StartsIn(n) <= MaxStarts
  BY <1>2, <1>3, <1>4, <1>7
<1>. QED  BY <1>4, <1>5, <1>6, <1>8, <1>9

LEMMA LaneHearsSession == ASSUME LaneInv, Connection_readSetSession, UNCHANGED sampled PROVE LaneInv'
<1>. PICK p \in Plans :
        requests' = Append(requests, [action |-> "SetSession", plan |-> p, session |-> MonitorSession + 1])
  BY DEF Connection_readSetSession
<1>1. PICK e : /\ e = [action |-> "SetSession", plan |-> p, session |-> MonitorSession + 1]
               /\ requests' = Append(requests, e)
  OBVIOUS
<1>2. MonitorSession < MaxSessions /\ StartsLeft /\ UNCHANGED <<session, current>>
  BY DEF Connection_readSetSession
<1>3. e.action = "SetSession" /\ e.session = MonitorSession + 1
  BY <1>1
<1>4. e \in LaneRequests
  <2>1. MonitorSession + 1 \in 0..MaxSessions
    <3>1. SetsIn(requests) \in Nat /\ session \in Nat
      BY CountNat, LenProperties DEF SetsIn, LaneInv, LanesTypeOK
    <3>. QED  BY <1>2, <3>1, MonitorSessionIs, LanesAssumption
  <2>. QED  BY <1>1, <2>1, RequestKinds, LanesAssumption
<1>5. /\ requests' \in Seq(LaneRequests) /\ Numbered(requests', session')
      /\ session' + SetsIn(requests') <= MaxSessions /\ current' + StartsIn(requests') <= MaxStarts
  BY <1>1, <1>2, <1>3, <1>4, LanePushes
<1>6. LanesTypeOK'
  BY <1>5 DEF LaneInv, LanesTypeOK, Connection_readSetSession
<1>. QED  BY <1>5, <1>6 DEF LaneInv

LEMMA LaneHearsClient == ASSUME LaneInv, doStartStopCollecting, UNCHANGED sampled PROVE LaneInv'
<1>1. PICK e : /\ requests' = Append(requests, e) /\ UNCHANGED <<session, current>>
               /\ e = [action |-> "StopStream"] \/ (e = [action |-> "StartStream"] /\ StartsLeft)
  BY DEF doStartStopCollecting
<1>2. /\ e \in LaneRequests /\ e.action # "SetSession" /\ e.action # "ProcessData"
      /\ e.action = "StartStream" => StartsLeft
  BY <1>1, RequestKinds
<1>3. /\ requests' \in Seq(LaneRequests) /\ Numbered(requests', session')
      /\ session' + SetsIn(requests') <= MaxSessions /\ current' + StartsIn(requests') <= MaxStarts
  BY <1>1, <1>2, LanePushes
<1>4. LanesTypeOK'
  BY <1>3 DEF LaneInv, LanesTypeOK, doStartStopCollecting
<1>. QED  BY <1>3, <1>4 DEF LaneInv

LEMMA LaneHearsData == ASSUME LaneInv, NEW s \in DataSources, Connection_readData(s) PROVE LaneInv'
<1>1. MonitorSession \in 0..MaxSessions
  <2>1. SetsIn(requests) \in Nat /\ session \in Nat
    BY CountNat, LenProperties DEF SetsIn, LaneInv, LanesTypeOK
  <2>. QED  BY <2>1, MonitorSessionIs, LanesAssumption DEF LaneInv
<1>2. sampled' \subseteq (DataSources \X (0..MaxSessions))
  BY <1>1 DEF LaneInv, Connection_readData
<1>3. /\ requests' \in Seq(LaneRequests) /\ Numbered(requests', session')
      /\ session' + SetsIn(requests') <= MaxSessions /\ current' + StartsIn(requests') <= MaxStarts
  <2>1. CASE requests' = requests
    BY <2>1 DEF LaneInv, LanesTypeOK, Connection_readData
  <2>2. ASSUME NEW n \in EntryCounts, NEW e,
               e = [action |-> "ProcessData", sample |-> [source |-> s, entries |-> n, of |-> MonitorSession]],
               requests' = Append(requests, e)
        PROVE  /\ requests' \in Seq(LaneRequests) /\ Numbered(requests', session')
               /\ session' + SetsIn(requests') <= MaxSessions /\ current' + StartsIn(requests') <= MaxStarts
    <3>1. e.action = "ProcessData" /\ e.sample.of = MonitorSession
      BY <2>2
    <3>2. e.sample \in Samples
      BY <1>1, <2>2, RecordingAssumption DEF Samples
    <3>3. e \in LaneRequests
      BY <2>2, <3>2, RequestKinds
    <3>4. UNCHANGED <<session, current>>
      BY DEF Connection_readData
    <3>. QED  BY <2>2, <3>1, <3>3, <3>4, LanePushes
  <2>. QED  BY <2>1, <2>2 DEF Connection_readData
<1>4. LanesTypeOK'
  BY <1>3 DEF LaneInv, LanesTypeOK, Connection_readData
<1>. QED  BY <1>2, <1>3, <1>4 DEF LaneInv

LEMMA LaneInvStep == LaneInv /\ [Next]_vars => LaneInv'
<1>. SUFFICES ASSUME LaneInv, [Next]_vars PROVE LaneInv'
  OBVIOUS
<1>1. CASE DatabaseStep
  BY <1>1, LaneRests
  DEF DatabaseStep, DB_doInitDatabase, DB_doAddDevice, DB_doAddSession, DB_doEndSession, DB_doAddData
<1>2. CASE DeviceStep
  BY <1>2, LaneSetsSession, LaneStarts, LaneStops, LaneProcesses DEF DeviceStep, DeviceSetsSession
<1>3. CASE DeviceDisconnects
  BY <1>3, LaneDisconnects DEF DeviceDisconnects
<1>4. ASSUME NEW l \in Lanes, TickStep(l) PROVE LaneInv'
  BY <1>4, LaneAsks DEF TickStep
<1>5. ASSUME NEW s \in DataSources, Connection_readData(s) PROVE LaneInv'
  BY <1>5, LaneHearsData
<1>6. CASE (Connection_readSetSession \/ doStartStopCollecting)
             /\ UNCHANGED <<dbRequests, storeVars, sampled, admin, initialized>>
  BY <1>6, LaneHearsSession, LaneHearsClient
<1>7. CASE Administrate
  BY <1>7, LaneRests DEF Administrate
<1>8. CASE UNCHANGED vars
  BY <1>8, LaneRests DEF vars
<1>. QED  BY <1>1, <1>2, <1>3, <1>4, <1>5, <1>6, <1>7, <1>8 DEF Next

\* What the lanes poll follows from the plan alone: a start configures them from
\* the plan there is, and a plan comes with another start.
THEOREM PlanFollowedSafe == Spec => []PlanFollowed
<1>1. Init => PlanFollowed
  BY DEF Init, LanesInit, PlanFollowed
<1>2. PlanFollowed /\ [Next]_vars => PlanFollowed'
  <2>. SUFFICES ASSUME PlanFollowed, [Next]_vars PROVE PlanFollowed'
    OBVIOUS
  <2>1. CASE UNCHANGED <<deviceState, plan, dataSources>>
    BY <2>1 DEF PlanFollowed
  <2>2. CASE deviceState' # "Collecting"
    BY <2>2 DEF PlanFollowed
  <2>3. CASE doStartStream
    <3>1. dataSources' = Configuration(plan) /\ plan' = plan
      BY <2>3 DEF doStartStream, startUpdateLanes
    <3>2. \A l \in Lanes, s \in Configured : s \in plan[l] <=> [lane |-> l, source |-> s] \in Configuration(plan)
      BY DEF Configuration, Entries, Configured
    <3>. QED  BY <3>1, <3>2 DEF PlanFollowed
  <2>4. \/ doStartStream \/ deviceState' # "Collecting" \/ UNCHANGED <<deviceState, plan, dataSources>>
    BY DEF Next, vars, laneVars, DatabaseStep, DB_doInitDatabase, DB_doAddDevice, DB_doAddSession,
           DB_doEndSession, DB_doAddData, DeviceStep, DeviceSetsSession, doSetSession, doProcessData,
           doStopStream, DeviceDisconnects, Connection_finalize, TickStep, Timer_tick,
           Connection_readData, Connection_readSetSession, doStartStopCollecting, Administrate
  <2>. QED  BY <2>1, <2>2, <2>3, <2>4
<1>. QED  BY <1>1, <1>2, PTL DEF Spec

-----------------------------------------------------------------------------
(* The tables and their rows.                                              *)

Under(f, S) == {f[x] : x \in S}

LEMMA FiniteImage ==
    ASSUME NEW S, IsFiniteSet(S), NEW f
    PROVE  IsFiniteSet(Under(f, S))
<1>1. PICK T, g : T = Under(f, S) /\ T = {f[x] : x \in S} /\ g = [x \in S |-> f[x]]
  BY DEF Under
<1>2. g \in [S -> T] /\ \A y \in T : \E x \in S : g[x] = y
  BY <1>1
<1>3. g \in Surjection(S, T)
  BY <1>2 DEF Surjection
<1>4. IsFiniteSet(T)
  BY <1>3, FS_Surjection
<1>. QED  BY <1>1, <1>4

\* The key of a new row is not in use.
LEMMA NewKeyIsNew ==
    ASSUME NEW ids \in SUBSET Nat, IsFiniteSet(ids)
    PROVE  NewKey(ids) \in Nat \ ids
<1>1. CASE ids = {}
  BY <1>1 DEF NewKey
<1>2. CASE ids # {}
  <2>1. PICK k : k = CHOOSE x \in ids : \A j \in ids : j <= x
    OBVIOUS
  <2>2. k \in ids /\ \A j \in ids : j <= k
    BY <1>2, <2>1, Largest
  <2>3. NewKey(ids) = 1 + k
    BY <1>2, <2>1 DEF NewKey
  <2>4. 1 + k \in Nat /\ 1 + k \notin ids
    BY <2>2
  <2>. QED  BY <2>3, <2>4
<1>. QED  BY <1>1, <1>2

LEMMA RowKinds ==
    /\ RowsOf("devices") = [id : Nat]
    /\ RowsOf("sessions") = [id : Nat, hash : 0..MaxSessions, open : BOOLEAN]
    /\ \A t \in DataTables : RowsOf(t) = [session : Nat, sample : Samples, entry : Nat]
    /\ {"devices", "sessions"} \cup DataTables = Tables
    /\ "devices" \notin DataTables /\ "sessions" \notin DataTables
<1>1. \A t \in DataTables : t # "devices" /\ t # "sessions"
  BY TablesAre
<1>. QED  BY <1>1, TablesAre DEF RowsOf

LEMMA SessionKey == \A r \in RowsOf("sessions") : r.id \in Nat
BY DEF RowsOf

\* What holds of the tables and their rows, and of the queue of the database.
RowsTyped == \A t \in Tables : rows[t] \subseteq RowsOf(t) /\ IsFiniteSet(rows[t])

StoreInv ==
    /\ IsStore(Store)
    /\ RowsTyped
    /\ dbRequests \in Seq(DBRequests)
    /\ backend \in Backends
    /\ admin \in 0..MaxAdmin
    /\ initialized \in {"none", "Okay", "Error"}

TypeInv == LaneInv /\ StoreInv

\* A table that gets other rows.
LEMMA OtherRows ==
    ASSUME StoreInv, NEW t \in Tables, NEW X, rows' = [rows EXCEPT ![t] = X], tables' = tables
    PROVE  /\ IsStore(Store')
           /\ rows'[t] = X
           /\ \A u \in Tables \ {t} : rows'[u] = rows[u]
           /\ X \subseteq RowsOf(t) /\ IsFiniteSet(X) => RowsTyped'
<1>1. rows = [u \in Tables |-> rows[u]] /\ tables \subseteq Tables
  BY DEF StoreInv, IsStore, Store
<1>2. rows' = [u \in Tables |-> rows'[u]] /\ rows'[t] = X /\ \A u \in Tables \ {t} : rows'[u] = rows[u]
  BY <1>1
<1>3. IsStore(Store')
  BY <1>1, <1>2 DEF IsStore, Store
<1>4. X \subseteq RowsOf(t) /\ IsFiniteSet(X) => RowsTyped'
  <2>1. SUFFICES ASSUME X \subseteq RowsOf(t), IsFiniteSet(X), NEW u \in Tables
                 PROVE  rows'[u] \subseteq RowsOf(u) /\ IsFiniteSet(rows'[u])
    BY DEF RowsTyped
  <2>2. CASE u = t
    BY <1>2, <2>1, <2>2
  <2>3. CASE u # t
    BY <1>2, <2>3 DEF StoreInv, RowsTyped
  <2>. QED  BY <2>2, <2>3
<1>. QED  BY <1>2, <1>3, <1>4

LEMMA SessionAdded ==
    ASSUME TypeInv, DB_doAddSession
    PROVE  \/ rows' = rows
           \/ \E new \in RowsOf("sessions") :
                 /\ \A r \in rows["sessions"] : r.id # new.id
                 /\ new.hash = Head(dbRequests).hash /\ new.open = TRUE
                 /\ rows' = [rows EXCEPT !["sessions"] = rows["sessions"] \cup {new}]
<1>1. PICK S : S = rows["sessions"]
  OBVIOUS
<1>2. S \subseteq RowsOf("sessions") /\ IsFiniteSet(S)
  BY <1>1, RowKinds DEF TypeInv, StoreInv, RowsTyped
<1>3. PICK ids : ids = {r.id : r \in S}
  OBVIOUS
<1>4. ids \subseteq Nat /\ IsFiniteSet(ids)
  <2>1. PICK f : f = [r \in S |-> r.id]
    OBVIOUS
  <2>2. Under(f, S) = ids
    BY <1>3, <2>1 DEF Under
  <2>3. IsFiniteSet(Under(f, S))
    BY <1>2, FiniteImage
  <2>4. ids \subseteq Nat
    BY <1>2, <1>3, SessionKey
  <2>. QED  BY <2>2, <2>3, <2>4
<1>5. NewKey(ids) \in Nat \ ids
  BY <1>4, NewKeyIsNew
<1>6. PICK new : new = [id |-> NewKey(ids), hash |-> Head(dbRequests).hash, open |-> TRUE]
  OBVIOUS
<1>7. new \in RowsOf("sessions")
  <2>1. Head(dbRequests).hash \in 0..MaxSessions
    <3>1. dbRequests # <<>> /\ Head(dbRequests) \in DBRequests /\ Head(dbRequests).action = "AddSession"
      BY HeadTailProperties DEF DB_doAddSession, DBHandles, TypeInv, StoreInv
    <3>. QED  BY <3>1 DEF DBRequests
  <2>. QED  BY <1>5, <1>6, <2>1, RowKinds
<1>8. \A r \in S : r.id # new.id
  BY <1>3, <1>5, <1>6
<1>9. rows' = rows \/ rows' = [rows EXCEPT !["sessions"] = S \cup {new}]
  BY <1>1, <1>3, <1>6 DEF DB_doAddSession
<1>10. new.hash = Head(dbRequests).hash /\ new.open = TRUE
  BY <1>6
<1>. QED  BY <1>1, <1>7, <1>8, <1>9, <1>10

LEMMA SessionEnded ==
    ASSUME TypeInv, DB_doEndSession
    PROVE  \/ rows' = rows
           \/ \E f :
                 /\ \A r \in rows["sessions"] : f[r] \in RowsOf("sessions") /\ f[r].id = r.id /\ f[r].hash = r.hash
                 /\ \A r \in rows["sessions"] : f[r].open = (r.open /\ r.hash # Head(dbRequests).hash)
                 /\ rows' = [rows EXCEPT !["sessions"] = Under(f, rows["sessions"])]
<1>1. PICK S, h : S = rows["sessions"] /\ h = Head(dbRequests).hash
  OBVIOUS
<1>2. S \subseteq RowsOf("sessions")
  BY <1>1, RowKinds DEF TypeInv, StoreInv, RowsTyped
<1>3. PICK f : f = [r \in S |-> IF r.hash = h THEN [r EXCEPT !.open = FALSE] ELSE r]
  OBVIOUS
<1>4. PICK ended : ended = {IF r.hash = h THEN [r EXCEPT !.open = FALSE] ELSE r : r \in S}
  OBVIOUS
<1>5. ASSUME NEW r \in S
      PROVE  /\ f[r] \in RowsOf("sessions") /\ f[r].id = r.id /\ f[r].hash = r.hash
             /\ f[r].open = (r.open /\ r.hash # h)
  <2>1. f[r] = IF r.hash = h THEN [r EXCEPT !.open = FALSE] ELSE r
    BY <1>3
  <2>2. r \in [id : Nat, hash : 0..MaxSessions, open : BOOLEAN]
    BY <1>2, RowKinds
  <2>. QED  BY <2>1, <2>2, RowKinds
<1>6. \/ rows' = rows
      \/ rows' = [rows EXCEPT !["sessions"] = ended]
  BY <1>1, <1>4 DEF DB_doEndSession
<1>7. ended = Under(f, S)
  BY <1>3, <1>4 DEF Under
<1>8. rows' = rows \/ rows' = [rows EXCEPT !["sessions"] = Under(f, rows["sessions"])]
  BY <1>1, <1>6, <1>7
<1>. QED  BY <1>1, <1>5, <1>8

LEMMA NewRowsType ==
    ASSUME TypeInv, NEW sample \in Samples, NEW hash, NEW n \in Nat, NEW t \in DataTables
    PROVE  NewRows(Store, sample, n, hash) \subseteq RowsOf(t) /\ IsFiniteSet(NewRows(Store, sample, n, hash))
<1>1. PICK O : O = OpenSession(Store, hash)
  OBVIOUS
<1>2. PICK S : S = rows["sessions"]
  OBVIOUS
<1>3. S \subseteq RowsOf("sessions") /\ IsFiniteSet(S)
  BY <1>2, RowKinds DEF TypeInv, StoreInv, RowsTyped
<1>4. O \subseteq S
  BY <1>1, <1>2 DEF OpenSession, Store
<1>5. \A r \in O : r.id \in Nat
  BY <1>3, <1>4, SessionKey
<1>6. NewRows(Store, sample, n, hash) \subseteq RowsOf(t)
  <2>1. ASSUME NEW r \in O, NEW i \in 1..n
        PROVE  [session |-> r.id, sample |-> sample, entry |-> i] \in RowsOf(t)
    <3>1. RowsOf(t) = [session : Nat, sample : Samples, entry : Nat]
      BY RowKinds
    <3>. QED  BY <1>5, <3>1
  <2>. QED  BY <1>1, <2>1 DEF NewRows
<1>7. IsFiniteSet(O \X (1..n))
  <2>1. IsFiniteSet(O) /\ IsFiniteSet(1..n)
    BY <1>3, <1>4, FS_Subset, FS_Interval
  <2>. QED  BY <2>1, FS_Product
<1>8. PICK P, f : P = O \X (1..n) /\ f = [p \in P |-> [session |-> p[1].id, sample |-> sample, entry |-> p[2]]]
  OBVIOUS
<1>9. NewRows(Store, sample, n, hash) = Under(f, P)
  <2>1. ASSUME NEW x \in NewRows(Store, sample, n, hash) PROVE x \in Under(f, P)
    <3>1. PICK r \in O, i \in 1..n : x = [session |-> r.id, sample |-> sample, entry |-> i]
      BY <1>1 DEF NewRows
    <3>2. <<r, i>> \in P /\ f[<<r, i>>] = x
      BY <1>8, <3>1
    <3>. QED  BY <3>2 DEF Under
  <2>2. ASSUME NEW p \in P PROVE f[p] \in NewRows(Store, sample, n, hash)
    <3>1. f[p] = [session |-> p[1].id, sample |-> sample, entry |-> p[2]] /\ p[1] \in O /\ p[2] \in 1..n
      BY <1>8
    <3>. QED  BY <1>1, <3>1 DEF NewRows
  <2>. QED  BY <2>1, <2>2 DEF Under
<1>10. IsFiniteSet(Under(f, P))
  BY <1>7, <1>8, FiniteImage
<1>. QED  BY <1>6, <1>9, <1>10

\* The requests the database is sent.
LEMMA DBRequestKinds ==
    /\ [action |-> "AddDevice"] \in DBRequests
    /\ \A forced \in BOOLEAN : [action |-> "InitDatabase", forced |-> forced] \in DBRequests
    /\ \A hash \in 0..MaxSessions :
          /\ [action |-> "AddSession", hash |-> hash] \in DBRequests
          /\ [action |-> "EndSession", hash |-> hash] \in DBRequests
          /\ \A sample \in Samples : [action |-> "AddData", hash |-> hash, sample |-> sample] \in DBRequests
BY DEF DBRequests

LEMMA Served == ASSUME StoreInv, NEW action, DBHandles(action) PROVE Tail(dbRequests) \in Seq(DBRequests)
BY HeadTailProperties DEF StoreInv, DBHandles

LEMMA StoreInitializes == ASSUME TypeInv, DB_doInitDatabase PROVE StoreInv'
<1>1. /\ IsStore(Store') /\ initialized' \in {"Okay", "Error"}
      /\ \A t \in Tables : rows'[t] \in {rows[t], {}}
  BY DatabaseInitialized DEF TypeInv, StoreInv
<1>2. RowsTyped'
  <2>1. SUFFICES ASSUME NEW t \in Tables PROVE rows'[t] \subseteq RowsOf(t) /\ IsFiniteSet(rows'[t])
    BY DEF RowsTyped
  <2>2. CASE rows'[t] = rows[t]
    BY <2>2 DEF TypeInv, StoreInv, RowsTyped
  <2>3. CASE rows'[t] = {}
    BY <2>3, FS_EmptySet
  <2>. QED  BY <1>1, <2>2, <2>3
<1>3. dbRequests' \in Seq(DBRequests)
  BY Served DEF DB_doInitDatabase, TypeInv
<1>. QED  BY <1>1, <1>2, <1>3 DEF TypeInv, StoreInv, DB_doInitDatabase

LEMMA StoreAddsDevice == ASSUME TypeInv, DB_doAddDevice PROVE StoreInv'
<1>1. dbRequests' \in Seq(DBRequests)
  BY Served DEF DB_doAddDevice, TypeInv
<1>2. IsStore(Store') /\ RowsTyped'
  <2>1. CASE rows' = rows
    BY <2>1 DEF TypeInv, StoreInv, RowsTyped, Store, DB_doAddDevice
  <2>2. CASE rows' = [rows EXCEPT !["devices"] = {[id |-> 1]}]
    <3>1. PICK X, t : X = {[id |-> 1]} /\ t = "devices"
      OBVIOUS
    <3>2. X \subseteq RowsOf(t) /\ IsFiniteSet(X) /\ t \in Tables
      BY <3>1, RowKinds, FS_Singleton
    <3>3. rows' = [rows EXCEPT ![t] = X] /\ tables' = tables /\ StoreInv
      BY <2>2, <3>1 DEF DB_doAddDevice, TypeInv
    <3>. QED  BY <3>2, <3>3, OtherRows
  <2>. QED  BY <2>1, <2>2 DEF DB_doAddDevice
<1>. QED  BY <1>1, <1>2 DEF TypeInv, StoreInv, DB_doAddDevice

LEMMA StoreAddsSession == ASSUME TypeInv, DB_doAddSession PROVE StoreInv'
<1>1. dbRequests' \in Seq(DBRequests)
  BY Served DEF DB_doAddSession, TypeInv
<1>2. IsStore(Store') /\ RowsTyped'
  <2>1. CASE rows' = rows
    BY <2>1 DEF TypeInv, StoreInv, RowsTyped, Store, DB_doAddSession
  <2>2. ASSUME NEW new \in RowsOf("sessions"), rows' = [rows EXCEPT !["sessions"] = rows["sessions"] \cup {new}]
        PROVE  IsStore(Store') /\ RowsTyped'
    <3>1. PICK X, t : X = rows["sessions"] \cup {new} /\ t = "sessions"
      OBVIOUS
    <3>2. X \subseteq RowsOf(t) /\ IsFiniteSet(X) /\ t \in Tables
      <4>1. t \in Tables /\ rows[t] \subseteq RowsOf(t) /\ IsFiniteSet(rows[t])
        BY <3>1, RowKinds DEF TypeInv, StoreInv, RowsTyped
      <4>. QED  BY <3>1, <4>1, FS_AddElement
    <3>3. rows' = [rows EXCEPT ![t] = X] /\ tables' = tables /\ StoreInv
      BY <2>2, <3>1 DEF DB_doAddSession, TypeInv
    <3>. QED  BY <3>2, <3>3, OtherRows
  <2>. QED  BY <2>1, <2>2, SessionAdded
<1>. QED  BY <1>1, <1>2 DEF TypeInv, StoreInv, DB_doAddSession

LEMMA StoreEndsSession == ASSUME TypeInv, DB_doEndSession PROVE StoreInv'
<1>1. dbRequests' \in Seq(DBRequests)
  BY Served DEF DB_doEndSession, TypeInv
<1>2. IsStore(Store') /\ RowsTyped'
  <2>1. CASE rows' = rows
    BY <2>1 DEF TypeInv, StoreInv, RowsTyped, Store, DB_doEndSession
  <2>2. ASSUME NEW f, \A r \in rows["sessions"] : f[r] \in RowsOf("sessions"),
               rows' = [rows EXCEPT !["sessions"] = Under(f, rows["sessions"])]
        PROVE  IsStore(Store') /\ RowsTyped'
    <3>1. PICK X, t : X = Under(f, rows["sessions"]) /\ t = "sessions"
      OBVIOUS
    <3>2. X \subseteq RowsOf(t) /\ IsFiniteSet(X) /\ t \in Tables
      <4>1. t \in Tables /\ IsFiniteSet(rows[t])
        BY <3>1, RowKinds DEF TypeInv, StoreInv, RowsTyped
      <4>2. IsFiniteSet(X)
        BY <3>1, <4>1, FiniteImage
      <4>3. X \subseteq RowsOf(t)
        BY <2>2, <3>1 DEF Under
      <4>. QED  BY <4>1, <4>2, <4>3
    <3>3. rows' = [rows EXCEPT ![t] = X] /\ tables' = tables /\ StoreInv
      BY <2>2, <3>1 DEF DB_doEndSession, TypeInv
    <3>. QED  BY <3>2, <3>3, OtherRows
  <2>. QED  BY <2>1, <2>2, SessionEnded
<1>. QED  BY <1>1, <1>2 DEF TypeInv, StoreInv, DB_doEndSession

LEMMA StoreAddsData == ASSUME TypeInv, DB_doAddData PROVE StoreInv'
<1>1. dbRequests' \in Seq(DBRequests)
  BY Served DEF DB_doAddData, TypeInv
<1>2. IsStore(Store') /\ RowsTyped'
  <2>1. IsStore(Store) /\ dbRequests \in Seq(DBRequests)
    BY DEF TypeInv, StoreInv
  <2>2. PICK sample \in Samples, hash \in 0..MaxSessions, n \in Nat :
           /\ IsStore(Store')
           /\ TableOf[sample.source] \in DataTables
           /\ rows'[TableOf[sample.source]]
                 = rows[TableOf[sample.source]] \cup NewRows(Store, sample, n, hash)
           /\ \A t \in Tables \ {TableOf[sample.source]} : rows'[t] = rows[t]
    BY <2>1, DataAdded
  <2>3. PICK table, new : table = TableOf[sample.source] /\ new = NewRows(Store, sample, n, hash)
    OBVIOUS
  <2>4. new \subseteq RowsOf(table) /\ IsFiniteSet(new)
    BY <2>2, <2>3, NewRowsType
  <2>5. rows'[table] = rows[table] \cup new /\ \A t \in Tables \ {table} : rows'[t] = rows[t]
    BY <2>2, <2>3
  <2>6. ASSUME NEW t \in Tables PROVE rows'[t] \subseteq RowsOf(t) /\ IsFiniteSet(rows'[t])
    <3>1. rows[t] \subseteq RowsOf(t) /\ IsFiniteSet(rows[t])
      BY DEF TypeInv, StoreInv, RowsTyped
    <3>2. CASE t = table
      BY <2>4, <2>5, <3>1, <3>2, FS_Union
    <3>3. CASE t # table
      BY <2>5, <3>1, <3>3
    <3>. QED  BY <3>2, <3>3
  <2>. QED  BY <2>2, <2>6 DEF RowsTyped
<1>. QED  BY <1>1, <1>2 DEF TypeInv, StoreInv, DB_doAddData

\* Steps that leave the tables alone, and may push a request.
LEMMA StorePushes ==
    ASSUME TypeInv, NEW e \in DBRequests, dbRequests' = Append(dbRequests, e) \/ dbRequests' = dbRequests,
           UNCHANGED <<storeVars, initialized>>, admin' \in 0..MaxAdmin
    PROVE  StoreInv'
<1>1. dbRequests' \in Seq(DBRequests)
  BY AppendProperties DEF TypeInv, StoreInv
<1>2. IsStore(Store') /\ RowsTyped'
  BY DEF TypeInv, StoreInv, RowsTyped, Store, storeVars
<1>. QED  BY <1>1, <1>2 DEF TypeInv, StoreInv, storeVars

LEMMA StoreRests ==
    ASSUME TypeInv, UNCHANGED <<dbRequests, storeVars, initialized, admin>>
    PROVE  StoreInv'
<1>1. [action |-> "AddDevice"] \in DBRequests /\ admin' \in 0..MaxAdmin
  BY DBRequestKinds DEF TypeInv, StoreInv
<1>. QED  BY <1>1, StorePushes

LEMMA TypeInvStep == TypeInv /\ [Next]_vars => TypeInv'
<1>. SUFFICES ASSUME TypeInv, [Next]_vars PROVE TypeInv'
  OBVIOUS
<1>0. LaneInv'
  BY LaneInvStep DEF TypeInv
<1>. SUFFICES StoreInv'
  BY <1>0 DEF TypeInv
<1>1. session \in 0..MaxSessions /\ session' \in 0..MaxSessions /\ admin \in 0..MaxAdmin
  BY <1>0 DEF TypeInv, StoreInv, LaneInv, LanesTypeOK
<1>2. CASE DatabaseStep
  BY <1>2, StoreInitializes, StoreAddsDevice, StoreAddsSession, StoreEndsSession, StoreAddsData DEF DatabaseStep
<1>3. CASE DeviceSetsSession
  <2>1. [action |-> "AddSession", hash |-> session'] \in DBRequests
    BY <1>1, DBRequestKinds
  <2>. QED  BY <1>1, <1>3, <2>1, StorePushes DEF DeviceSetsSession
<1>4. CASE doProcessData
  <2>1. Head(requests).sample \in Samples
    <3>1. requests # <<>> /\ Head(requests) \in LaneRequests /\ Head(requests).action = "ProcessData"
      BY <1>4, HeadTailProperties DEF doProcessData, Handles, TypeInv, LaneInv, LanesTypeOK
    <3>. QED  BY <3>1, RequestKinds
  <2>2. [action |-> "AddData", hash |-> session, sample |-> Head(requests).sample] \in DBRequests
    BY <1>1, <2>1, DBRequestKinds
  <2>3. /\ dbRequests' = Append(dbRequests, [action |-> "AddData", hash |-> session, sample |-> Head(requests).sample])
        /\ UNCHANGED <<storeVars, initialized>> /\ admin' = admin
    BY <1>4 DEF doProcessData
  <2>. QED  BY <1>1, <2>2, <2>3, StorePushes
<1>5. CASE DeviceDisconnects
  <2>1. [action |-> "EndSession", hash |-> session] \in DBRequests
    BY <1>1, DBRequestKinds
  <2>. QED  BY <1>1, <1>5, <2>1, StorePushes DEF DeviceDisconnects
<1>6. CASE Administrate
  <2>1. admin' \in 0..MaxAdmin
    BY <1>1, <1>6, RecordingAssumption DEF Administrate
  <2>2. PICK e \in DBRequests : dbRequests' = Append(dbRequests, e)
    <3>1. PICK rq \in {[action |-> "AddDevice"]} \cup [action : {"InitDatabase"}, forced : Forced] :
             dbRequests' = Append(dbRequests, rq)
      BY <1>6 DEF Administrate
    <3>2. rq \in DBRequests
      BY RecordingAssumption DEF DBRequests
    <3>. QED  BY <3>1, <3>2
  <2>. QED  BY <1>6, <2>1, <2>2, StorePushes DEF Administrate
<1>7. ASSUME UNCHANGED <<dbRequests, storeVars, initialized, admin>> PROVE StoreInv'
  BY <1>7, StoreRests
<1>8. ASSUME NEW l \in Lanes, TickStep(l) PROVE StoreInv'
  BY <1>7, <1>8 DEF TickStep
<1>9. ASSUME NEW s \in DataSources, Connection_readData(s) PROVE StoreInv'
  BY <1>7, <1>9 DEF Connection_readData
<1>10. CASE UNCHANGED vars
  BY <1>7, <1>10 DEF vars
<1>. QED  BY <1>2, <1>3, <1>4, <1>5, <1>6, <1>7, <1>8, <1>9, <1>10 DEF Next, DeviceStep

LEMMA TypeInvInit == Init => TypeInv
<1>. SUFFICES ASSUME Init PROVE TypeInv
  OBVIOUS
<1>1. IsStore(Store)
  <2>1. tables = Tables /\ rows = [t \in Tables |-> IF t = "devices" THEN {[id |-> 1]} ELSE {}]
    BY DEF Init
  <2>2. rows = [t \in Tables |-> rows[t]]
    BY <2>1
  <2>. QED  BY <2>1, <2>2 DEF IsStore, Store
<1>2. RowsTyped
  <2>1. SUFFICES ASSUME NEW t \in Tables PROVE rows[t] \subseteq RowsOf(t) /\ IsFiniteSet(rows[t])
    BY DEF RowsTyped
  <2>2. rows[t] = IF t = "devices" THEN {[id |-> 1]} ELSE {}
    BY DEF Init
  <2>3. CASE t = "devices"
    <3>1. PICK X, d : X = {d} /\ d = [id |-> 1] /\ rows[t] = X
      BY <2>2, <2>3
    <3>2. X \subseteq RowsOf(t)
      BY <2>3, <3>1, RowKinds
    <3>3. IsFiniteSet(X)
      BY <3>1, FS_Singleton
    <3>. QED  BY <3>1, <3>2, <3>3
  <2>4. CASE t # "devices"
    BY <2>2, <2>4, FS_EmptySet
  <2>. QED  BY <2>3, <2>4
<1>3. admin \in 0..MaxAdmin /\ dbRequests \in Seq(DBRequests)
  BY RecordingAssumption DEF Init
<1>. QED  BY <1>1, <1>2, <1>3, LaneInvInit DEF TypeInv, StoreInv, Init

LEMMA TypeInvHolds == Spec => []TypeInv
BY TypeInvInit, TypeInvStep, PTL DEF Spec

\* Every request in the two queues, every data source, timer and row is of its
\* kind, and no session or start is counted beyond its bound.
THEOREM TypeCorrect == Spec => []TypeOK
<1>1. TypeInv => TypeOK
  BY DEF TypeInv, LaneInv, StoreInv, RowsTyped, IsStore, Store, TypeOK
<1>. QED  BY <1>1, TypeInvHolds, PTL

-----------------------------------------------------------------------------
(* The rows of an answer.                                                  *)

\* A data row is in the table of its source.
RowsFiled == \A t \in DataTables : \A r \in rows[t] : TableOf[r.sample.source] = t

\* A step changes no row of a data table, or empties some of them, or adds the
\* first rows of an answer to one.
LEMMA DataRowsStep ==
    ASSUME TypeInv, [Next]_vars
    PROVE  \/ \A t \in DataTables : rows'[t] \in {rows[t], {}}
           \/ \E sample \in Samples, hash \in 0..MaxSessions, n \in Nat :
                 /\ n \in 0..RowCount(sample)
                 /\ backend = "pqsql" => n \in {0, RowCount(sample)}
                 /\ TableOf[sample.source] \in DataTables
                 /\ rows'[TableOf[sample.source]]
                       = rows[TableOf[sample.source]] \cup NewRows(Store, sample, n, hash)
                 /\ \A t \in DataTables \ {TableOf[sample.source]} : rows'[t] = rows[t]
<1>1. StoreInv /\ IsStore(Store) /\ dbRequests \in Seq(DBRequests) /\ DataTables \subseteq Tables
  BY RowKinds DEF TypeInv, StoreInv
<1>2. CASE DB_doInitDatabase
  BY <1>1, <1>2, DatabaseInitialized
<1>3. CASE DB_doAddData
  BY <1>1, <1>3, DataAdded
<1>4. CASE UNCHANGED rows
  BY <1>4
<1>5. CASE DB_doAddDevice \/ DB_doAddSession \/ DB_doEndSession
  <2>1. \/ rows' = rows
        \/ \E t \in {"devices", "sessions"} : \E X : rows' = [rows EXCEPT ![t] = X] /\ tables' = tables
    <3>1. CASE DB_doAddDevice
      BY <3>1 DEF DB_doAddDevice
    <3>2. CASE DB_doAddSession
      BY <3>2, SessionAdded DEF DB_doAddSession
    <3>3. CASE DB_doEndSession
      BY <3>3, SessionEnded DEF DB_doEndSession
    <3>. QED  BY <1>5, <3>1, <3>2, <3>3
  <2>2. ASSUME NEW t \in {"devices", "sessions"}, NEW X, rows' = [rows EXCEPT ![t] = X], tables' = tables
        PROVE  \A u \in DataTables : rows'[u] = rows[u]
    <3>1. t \in Tables /\ t \notin DataTables
      BY RowKinds
    <3>. QED  BY <1>1, <2>2, <3>1, OtherRows
  <2>. QED  BY <2>1, <2>2
<1>. QED
  BY <1>2, <1>3, <1>4, <1>5
  DEF Next, vars, storeVars, DatabaseStep, DeviceStep, DeviceSetsSession, doProcessData, DeviceDisconnects,
      TickStep, Connection_readData, Administrate

LEMMA NewRowsOf ==
    ASSUME NEW db, NEW sample, NEW n, NEW hash, NEW r \in NewRows(db, sample, n, hash)
    PROVE  /\ r.sample = sample /\ r.entry \in 1..n
           /\ \E s \in OpenSession(db, hash) : r.session = s.id
BY DEF NewRows

LEMMA RowsFiledStep == ASSUME TypeInv, RowsFiled, [Next]_vars PROVE RowsFiled'
<1>1. CASE \A t \in DataTables : rows'[t] \in {rows[t], {}}
  BY <1>1 DEF RowsFiled
<1>2. ASSUME NEW sample \in Samples, NEW hash, NEW n, NEW table, table = TableOf[sample.source],
             rows'[table] = rows[table] \cup NewRows(Store, sample, n, hash),
             \A t \in DataTables \ {table} : rows'[t] = rows[t]
      PROVE  RowsFiled'
  <2>1. SUFFICES ASSUME NEW t \in DataTables, NEW r \in rows'[t] PROVE TableOf[r.sample.source] = t
    BY DEF RowsFiled
  <2>2. CASE r \in rows[t]
    BY <2>2 DEF RowsFiled
  <2>3. CASE r \notin rows[t]
    <3>1. t = table /\ r \in NewRows(Store, sample, n, hash)
      BY <1>2, <2>1, <2>3
    <3>. QED  BY <1>2, <3>1, NewRowsOf
  <2>. QED  BY <2>2, <2>3
<1>. QED  BY <1>1, <1>2, DataRowsStep

LEMMA RowsFiledHolds == Spec => []RowsFiled
<1>1. Init => RowsFiled
  <2>1. Init => \A t \in DataTables : rows[t] = {}
    BY RowKinds DEF Init
  <2>. QED  BY <2>1 DEF RowsFiled
<1>2. TypeInv /\ RowsFiled /\ [Next]_vars => RowsFiled'
  BY RowsFiledStep
<1>. QED  BY <1>1, <1>2, TypeInvHolds, PTL DEF Spec

\* Two kinds of data never share a table: an answer is written to the table of
\* its source (doAddData, addData), and no two sources have the same one.
THEOREM TablesNotSharedSafe == Spec => []TablesNotShared
<1>1. TypeInv /\ RowsFiled => TablesNotShared
  <2>1. SUFFICES ASSUME TypeInv, RowsFiled, NEW t \in DataTables, NEW r \in rows[t], NEW q \in rows[t]
                 PROVE  r.sample.source = q.sample.source
    BY DEF TablesNotShared
  <2>2. r \in RowsOf(t) /\ q \in RowsOf(t) /\ RowsOf(t) = [session : Nat, sample : Samples, entry : Nat]
    BY <2>1, RowKinds DEF TypeInv, StoreInv, RowsTyped
  <2>3. r.sample.source \in DataSources /\ q.sample.source \in DataSources
    BY <2>2 DEF Samples
  <2>4. TableOf[r.sample.source] = TableOf[q.sample.source]
    BY <2>1 DEF RowsFiled
  <2>. QED  BY <2>3, <2>4, TableOfType
<1>. QED  BY <1>1, TypeInvHolds, RowsFiledHolds, PTL

\* The numbers of the rows that are there of an answer.
EntriesOf(R, sample) == {q.entry : q \in {x \in R : x.sample = sample}}

LEMMA EntriesMore ==
    ASSUME NEW R, NEW Q, NEW db, NEW sample, NEW n \in Nat, NEW hash, NEW s,
           Q = R \cup NewRows(db, sample, n, hash)
    PROVE  EntriesOf(Q, s) = EntriesOf(R, s) \/ (s = sample /\ EntriesOf(Q, s) = EntriesOf(R, s) \cup 1..n)
<1>1. PICK new, all, old : new = NewRows(db, sample, n, hash) /\ all = EntriesOf(Q, s) /\ old = EntriesOf(R, s)
  OBVIOUS
<1>2. \A e : e \in all <=> (e \in old \/ \E x \in new : x.sample = s /\ x.entry = e)
  BY <1>1 DEF EntriesOf
<1>3. \A x \in new : x.sample = sample /\ x.entry \in 1..n /\ OpenSession(db, hash) # {}
  BY <1>1, NewRowsOf
<1>4. ASSUME NEW r \in OpenSession(db, hash), NEW e \in 1..n
      PROVE  \E x \in new : x.sample = sample /\ x.entry = e
  <2>1. PICK x : x = [session |-> r.id, sample |-> sample, entry |-> e]
    OBVIOUS
  <2>2. x \in new
    BY <1>1, <2>1 DEF NewRows
  <2>. QED  BY <2>1, <2>2
<1>5. CASE s = sample /\ OpenSession(db, hash) # {}
  <2>1. PICK r : r \in OpenSession(db, hash)
    BY <1>5
  <2>2. \A e : e \in all <=> (e \in old \/ e \in 1..n)
    BY <1>2, <1>3, <1>4, <1>5, <2>1
  <2>3. all = old \cup 1..n
    BY <2>2
  <2>. QED  BY <1>1, <1>5, <2>3
<1>6. CASE ~(s = sample /\ OpenSession(db, hash) # {})
  <2>1. \A e : e \in all <=> e \in old
    BY <1>2, <1>3, <1>6
  <2>2. \A x \in all : x \in old
    BY <2>1
  <2>3. \A x \in old : x \in all
    BY <2>1
  <2>4. all = old
    BY <2>2, <2>3
  <2>. QED  BY <1>1, <1>6, <2>4
<1>. QED  BY <1>5, <1>6

\* Of every answer a table has the first rows; with PostgreSQL none or all.
RowsFirst ==
    \A t \in DataTables : \A s \in Samples :
        \E m \in 0..RowCount(s) :
            EntriesOf(rows[t], s) = 1..m /\ (backend = "pqsql" => m \in {0, RowCount(s)})

LEMMA BackendStays == [Next]_vars => backend' = backend
BY DEF Next, vars, laneVars, storeVars, DatabaseStep, DB_doInitDatabase, DB_doAddDevice, DB_doAddSession,
       DB_doEndSession, DB_doAddData, DeviceStep, DeviceSetsSession, doProcessData, DeviceDisconnects,
       TickStep, Connection_readData, Administrate

LEMMA RowCountNat == ASSUME NEW s \in Samples PROVE RowCount(s) \in Nat
BY ScriptRows

LEMMA NoEntries == ASSUME NEW s PROVE EntriesOf({}, s) = 1..0
BY DEF EntriesOf

LEMMA RowsFirstStep == ASSUME TypeInv, RowsFirst, [Next]_vars PROVE RowsFirst'
<1>1. CASE \A t \in DataTables : rows'[t] \in {rows[t], {}}
  <2>1. SUFFICES ASSUME NEW t \in DataTables, NEW s \in Samples
                 PROVE  \E m \in 0..RowCount(s) :
                           EntriesOf(rows'[t], s) = 1..m /\ (backend' = "pqsql" => m \in {0, RowCount(s)})
    BY DEF RowsFirst
  <2>2. CASE rows'[t] = rows[t]
    BY <2>2, BackendStays DEF RowsFirst
  <2>3. CASE rows'[t] = {}
    BY <2>3, NoEntries, RowCountNat
  <2>. QED  BY <1>1, <2>2, <2>3
<1>2. ASSUME NEW sample \in Samples, NEW hash, NEW n \in 0..RowCount(sample),
             backend = "pqsql" => n \in {0, RowCount(sample)},
             NEW table \in DataTables,
             rows'[table] = rows[table] \cup NewRows(Store, sample, n, hash),
             \A t \in DataTables \ {table} : rows'[t] = rows[t]
      PROVE  RowsFirst'
  <2>1. SUFFICES ASSUME NEW t \in DataTables, NEW s \in Samples
                 PROVE  \E m \in 0..RowCount(s) :
                           EntriesOf(rows'[t], s) = 1..m /\ (backend = "pqsql" => m \in {0, RowCount(s)})
    BY BackendStays DEF RowsFirst
  <2>2. PICK k \in 0..RowCount(s) :
           EntriesOf(rows[t], s) = 1..k /\ (backend = "pqsql" => k \in {0, RowCount(s)})
    BY DEF RowsFirst
  <2>3. CASE EntriesOf(rows'[t], s) = EntriesOf(rows[t], s)
    BY <2>2, <2>3
  <2>4. CASE t = table /\ s = sample /\ EntriesOf(rows'[t], s) = EntriesOf(rows[t], s) \cup 1..n
    <3>1. PICK m : m = IF k <= n THEN n ELSE k
      OBVIOUS
    <3>2. RowCount(s) \in Nat
      BY RowCountNat
    <3>3. 1..m = (1..k) \cup 1..n
      BY <1>2, <2>4, <3>1, <3>2
    <3>4. m \in 0..RowCount(s) /\ (backend = "pqsql" => m \in {0, RowCount(s)})
      BY <1>2, <2>2, <2>4, <3>1, <3>2
    <3>. QED  BY <2>2, <2>4, <3>3, <3>4
  <2>5. n \in Nat
    BY RowCountNat
  <2>6. CASE t = table
    <3>1. PICK R, Q, db, new : R = rows[t] /\ Q = rows'[t] /\ db = Store /\ new = NewRows(db, sample, n, hash)
      OBVIOUS
    <3>2. Q = R \cup new
      BY <1>2, <2>6, <3>1
    <3>3. EntriesOf(Q, s) = EntriesOf(R, s) \/ (s = sample /\ EntriesOf(Q, s) = EntriesOf(R, s) \cup 1..n)
      <4>1. Q = R \cup NewRows(db, sample, n, hash)
        BY <3>1, <3>2
      <4>. QED  BY <2>5, <4>1, EntriesMore
    <3>. QED  BY <2>3, <2>4, <2>6, <3>1, <3>3
  <2>7. CASE t # table
    BY <1>2, <2>3, <2>7
  <2>. QED  BY <2>6, <2>7
<1>. QED  BY <1>1, <1>2, DataRowsStep

LEMMA RowsFirstHolds == Spec => []RowsFirst
<1>1. Init => RowsFirst
  <2>1. Init => \A t \in DataTables : rows[t] = {}
    BY RowKinds DEF Init
  <2>2. \A s \in Samples : 0 \in 0..RowCount(s) /\ EntriesOf({}, s) = 1..0
    BY NoEntries, RowCountNat
  <2>. QED  BY <2>1, <2>2 DEF RowsFirst
<1>2. TypeInv /\ RowsFirst /\ [Next]_vars => RowsFirst'
  BY RowsFirstStep
<1>. QED  BY <1>1, <1>2, TypeInvHolds, PTL DEF Spec

LEMMA RowOfSample ==
    ASSUME TypeInv, NEW t \in DataTables, NEW r \in rows[t]
    PROVE  /\ r.sample \in Samples /\ Len(AddDataScript(r.sample)) = RowCount(r.sample)
           /\ RowCount(r.sample) \in Nat
           /\ r.entry \in EntriesOf(rows[t], r.sample)
<1>1. r \in RowsOf(t) /\ RowsOf(t) = [session : Nat, sample : Samples, entry : Nat]
  BY RowKinds DEF TypeInv, StoreInv, RowsTyped
<1>2. r.sample \in Samples
  BY <1>1
<1>. QED  BY <1>2, DataScript DEF EntriesOf

\* Whatever a script is stopped by and wherever, an answer of the monitor has
\* its first rows and no others: statements run in order and none is passed
\* over (Query::addData, runQuery of both backends).
THEOREM SamplePrefixSafe == Spec => []SamplePrefix
<1>1. TypeInv /\ RowsFirst => SamplePrefix
  <2>1. SUFFICES ASSUME TypeInv, RowsFirst, NEW t \in DataTables, NEW r \in rows[t]
                 PROVE  EntriesOf(rows[t], r.sample) \in {1..n : n \in 1..Len(AddDataScript(r.sample))}
    BY DEF SamplePrefix, EntriesOf
  <2>2. PICK m \in 0..RowCount(r.sample) : EntriesOf(rows[t], r.sample) = 1..m
    BY <2>1, RowOfSample DEF RowsFirst
  <2>3. m # 0 /\ RowCount(r.sample) \in Nat
    BY <2>1, <2>2, RowOfSample
  <2>4. m \in 1..Len(AddDataScript(r.sample))
    BY <2>1, <2>3, RowOfSample
  <2>. QED  BY <2>2, <2>4
<1>. QED  BY <1>1, TypeInvHolds, RowsFirstHolds, PTL

\* With PostgreSQL an answer has all its rows or none: a script is one
\* transaction (runTransaction), and dropping the tables drops all of them.
THEOREM SampleWholeSafe == Spec => []SampleWhole
<1>1. TypeInv /\ RowsFirst => SampleWhole
  <2>1. SUFFICES ASSUME TypeInv, RowsFirst, backend = "pqsql", NEW t \in DataTables, NEW r \in rows[t]
                 PROVE  EntriesOf(rows[t], r.sample) = 1..Len(AddDataScript(r.sample))
    BY DEF SampleWhole, EntriesOf
  <2>2. PICK m \in {0, RowCount(r.sample)} : EntriesOf(rows[t], r.sample) = 1..m
    BY <2>1, RowOfSample DEF RowsFirst
  <2>3. m # 0
    BY <2>1, <2>2, RowOfSample
  <2>. QED  BY <2>1, <2>2, <2>3, RowOfSample
<1>. QED  BY <1>1, TypeInvHolds, RowsFirstHolds, PTL

-----------------------------------------------------------------------------
(* The session of a row.                                                   *)

\* Data in the queue of the database is filed under the session it is of.
OfItsSession(q) == \A i \in 1..Len(q) : q[i].action = "AddData" => q[i].hash = q[i].sample.of
DataOfSession == OfItsSession(dbRequests)

LEMMA OfSessionAppend ==
    ASSUME NEW S, NEW q \in Seq(S), NEW e \in S, OfItsSession(q), e.action = "AddData" => e.hash = e.sample.of
    PROVE  OfItsSession(Append(q, e))
<1>1. PICK p : p = Append(q, e)
  OBVIOUS
<1>2. Len(p) = Len(q) + 1 /\ Len(q) \in Nat /\ (\A i \in 1..Len(q) : p[i] = q[i]) /\ p[Len(q) + 1] = e
  BY <1>1, AppendProperties, LenProperties
<1>3. ASSUME NEW i \in 1..Len(p), p[i].action = "AddData" PROVE p[i].hash = p[i].sample.of
  <2>1. CASE i \in 1..Len(q)
    BY <1>2, <1>3, <2>1 DEF OfItsSession
  <2>2. CASE i = Len(q) + 1
    BY <1>2, <1>3, <2>2
  <2>. QED  BY <1>2, <2>1, <2>2
<1>. QED  BY <1>1, <1>3 DEF OfItsSession

LEMMA OfSessionTail ==
    ASSUME NEW S, NEW q \in Seq(S), q # <<>>, OfItsSession(q)
    PROVE  /\ OfItsSession(Tail(q))
           /\ Head(q).action = "AddData" => Head(q).hash = Head(q).sample.of
<1>1. /\ Len(Tail(q)) = Len(q) - 1 /\ Len(q) \in Nat /\ Len(q) >= 1
      /\ \A i \in 1..Len(Tail(q)) : Tail(q)[i] = q[i + 1]
      /\ Head(q) = q[1]
  BY HeadTailProperties, LenProperties, EmptySeq
<1>. QED  BY <1>1 DEF OfItsSession

\* What a step does to the queue of the database: it serves its head, or pushes
\* one request; the sessions pushed are those the device is set, and data is
\* pushed for the session it was collected for.
LEMMA QueueMoves ==
    ASSUME TypeInv, [Next]_vars
    PROVE  \/ DatabaseStep /\ dbRequests # <<>> /\ dbRequests' = Tail(dbRequests) /\ session' = session
           \/ UNCHANGED <<dbRequests, rows, session>>
           \/ \E e \in DBRequests :
                 /\ dbRequests' = Append(dbRequests, e) /\ rows' = rows
                 /\ session' = session \/ session' = session + 1
                 /\ e.action = "AddSession" => e.hash = session' /\ session' = session + 1
                 /\ e.action = "AddData" => e.hash = e.sample.of
<1>1. CASE DatabaseStep
  BY <1>1
  DEF DatabaseStep, DB_doInitDatabase, DB_doAddDevice, DB_doAddSession, DB_doEndSession, DB_doAddData, DBHandles,
      laneVars
<1>2. CASE DeviceSetsSession
  <2>1. PICK q, r : q = requests /\ r = Head(requests)
    OBVIOUS
  <2>2. /\ q \in Seq(LaneRequests) /\ q # <<>> /\ r = Head(q) /\ r.action = "SetSession"
        /\ session \in Nat /\ Numbered(q, session) /\ session' = r.session
    BY <1>2, <2>1 DEF TypeInv, LaneInv, LanesTypeOK, DeviceSetsSession, doSetSession, Handles
  <2>3. session' = session + 1
    BY <2>2, NumberedTail
  <2>4. session' \in 0..MaxSessions
    BY TypeInvStep DEF TypeInv, LaneInv, LanesTypeOK
  <2>5. PICK e : e = [action |-> "AddSession", hash |-> session']
    OBVIOUS
  <2>6. e \in DBRequests /\ e.action = "AddSession" /\ e.hash = session' /\ dbRequests' = Append(dbRequests, e) /\ rows' = rows
    BY <1>2, <2>4, <2>5, DBRequestKinds DEF DeviceSetsSession, storeVars
  <2>. QED  BY <2>3, <2>6
<1>3. CASE DeviceDisconnects
  <2>1. session \in 0..MaxSessions
    BY DEF TypeInv, LaneInv, LanesTypeOK
  <2>2. PICK e : e = [action |-> "EndSession", hash |-> session]
    OBVIOUS
  <2>3. /\ e \in DBRequests /\ e.action = "EndSession" /\ dbRequests' \in {dbRequests, Append(dbRequests, e)}
        /\ rows' = rows /\ session' = session
    BY <1>3, <2>1, <2>2, DBRequestKinds DEF DeviceDisconnects, Connection_finalize, storeVars
  <2>. QED  BY <2>3
<1>4. CASE doProcessData
  <2>1. PICK q, r : q = requests /\ r = Head(requests)
    OBVIOUS
  <2>2. q \in Seq(LaneRequests) /\ q # <<>> /\ r = Head(q) /\ r.action = "ProcessData"
        /\ session \in Nat /\ session \in 0..MaxSessions /\ Numbered(q, session)
    BY <1>4, <2>1 DEF TypeInv, LaneInv, LanesTypeOK, doProcessData, Handles
  <2>3. r.sample \in Samples /\ r.sample.of = session
    BY <2>2, HeadTailProperties, RequestKinds, NumberedTail
  <2>4. PICK e : e = [action |-> "AddData", hash |-> session, sample |-> r.sample]
    OBVIOUS
  <2>5. /\ e \in DBRequests /\ e.hash = e.sample.of /\ e.action = "AddData" /\ dbRequests' = Append(dbRequests, e)
        /\ rows' = rows /\ session' = session
    BY <1>4, <2>1, <2>2, <2>3, <2>4, DBRequestKinds DEF doProcessData, storeVars
  <2>. QED  BY <2>5
<1>5. CASE Administrate
  <2>1. PICK rq \in {[action |-> "AddDevice"]} \cup [action : {"InitDatabase"}, forced : Forced] :
           dbRequests' = Append(dbRequests, rq)
    BY <1>5 DEF Administrate
  <2>2. rq \in DBRequests /\ rq.action \in {"AddDevice", "InitDatabase"}
    BY RecordingAssumption DEF DBRequests
  <2>3. rows' = rows /\ session' = session
    BY <1>5 DEF Administrate, storeVars, laneVars
  <2>. QED  BY <2>1, <2>2, <2>3
<1>6. ASSUME NEW l \in Lanes, TickStep(l) PROVE UNCHANGED <<dbRequests, rows, session>>
  BY <1>6 DEF TickStep, Timer_tick, storeVars
<1>7. ASSUME NEW s \in DataSources, Connection_readData(s) PROVE UNCHANGED <<dbRequests, rows, session>>
  BY <1>7 DEF Connection_readData, storeVars
<1>8. ASSUME \/ doStartStream \/ doStopStream \/ Connection_readSetSession \/ doStartStopCollecting,
             UNCHANGED <<dbRequests, storeVars>>
      PROVE  UNCHANGED <<dbRequests, rows, session>>
  BY <1>8 DEF doStartStream, doStopStream, Connection_readSetSession, doStartStopCollecting, storeVars
<1>9. CASE UNCHANGED vars
  BY <1>9 DEF vars, laneVars, storeVars
<1>. QED  BY <1>1, <1>2, <1>3, <1>4, <1>5, <1>6, <1>7, <1>8, <1>9 DEF Next, DeviceStep

LEMMA DataOfSessionStep == ASSUME TypeInv, DataOfSession, [Next]_vars PROVE DataOfSession'
<1>1. PICK q : q = dbRequests
  OBVIOUS
<1>2. q \in Seq(DBRequests) /\ OfItsSession(q)
  BY <1>1 DEF TypeInv, StoreInv, DataOfSession
<1>3. CASE q # <<>> /\ dbRequests' = Tail(q)
  BY <1>2, <1>3, OfSessionTail DEF DataOfSession
<1>4. CASE dbRequests' = q
  BY <1>2, <1>4 DEF DataOfSession
<1>5. ASSUME NEW e \in DBRequests, dbRequests' = Append(q, e), e.action = "AddData" => e.hash = e.sample.of
      PROVE  DataOfSession'
  BY <1>2, <1>5, OfSessionAppend DEF DataOfSession
<1>. QED  BY <1>1, <1>3, <1>4, <1>5, QueueMoves

\* No two sessions have one key.
KeysUnique == \A r, s \in rows["sessions"] : r.id = s.id => r = s

\* With PostgreSQL a data row has a session, and it is the one of the data.
RowsRefer ==
    \A t \in DataTables : \A r \in rows[t] :
        /\ \E s \in rows["sessions"] : s.id = r.session
        /\ \A s \in rows["sessions"] : s.id = r.session => s.hash = r.sample.of

SessionInv == DataOfSession /\ KeysUnique /\ (backend = "pqsql" => RowsRefer)

LEMMA SessionInvInitializes ==
    ASSUME TypeInv, SessionInv, DB_doInitDatabase
    PROVE  KeysUnique' /\ (backend = "pqsql" => RowsRefer')
<1>1. /\ rows'["sessions"] \in {rows["sessions"], {}}
      /\ backend = "pqsql" => (\A t \in Tables : rows'[t] = rows[t]) \/ (\A t \in Tables : rows'[t] = {})
  BY DatabaseInitialized, RowKinds DEF TypeInv, StoreInv
<1>2. KeysUnique'
  BY <1>1 DEF SessionInv, KeysUnique
<1>3. "sessions" \in Tables /\ DataTables \subseteq Tables
  BY RowKinds
<1>4. CASE \A t \in Tables : rows'[t] = rows[t]
  BY <1>2, <1>3, <1>4 DEF SessionInv, RowsRefer
<1>5. CASE \A t \in Tables : rows'[t] = {}
  BY <1>2, <1>3, <1>5 DEF RowsRefer
<1>. QED  BY <1>1, <1>2, <1>4, <1>5

\* A new session takes no row over, for its key is new.
LEMMA SessionInvAdds ==
    ASSUME TypeInv, SessionInv, DB_doAddSession
    PROVE  KeysUnique' /\ (backend = "pqsql" => RowsRefer')
<1>1. CASE rows' = rows
  BY <1>1 DEF SessionInv, KeysUnique, RowsRefer
<1>2. ASSUME NEW new \in RowsOf("sessions"), \A r \in rows["sessions"] : r.id # new.id,
             rows' = [rows EXCEPT !["sessions"] = rows["sessions"] \cup {new}]
      PROVE  KeysUnique' /\ (backend = "pqsql" => RowsRefer')
  <2>1. PICK t, X : t = "sessions" /\ X = rows["sessions"] \cup {new}
    OBVIOUS
  <2>2. StoreInv /\ t \in Tables /\ rows' = [rows EXCEPT ![t] = X] /\ tables' = tables
    BY <1>2, <2>1, RowKinds DEF TypeInv, DB_doAddSession
  <2>3. rows'[t] = X /\ \A u \in Tables \ {t} : rows'[u] = rows[u]
    BY <2>2, OtherRows
  <2>4. \A u \in DataTables : rows'[u] = rows[u]
    BY <2>1, <2>3, RowKinds
  <2>5. \A s : s \in rows'["sessions"] <=> (s \in rows["sessions"] \/ s = new)
    BY <2>1, <2>3
  <2>6. KeysUnique'
    BY <1>2, <2>5 DEF SessionInv, KeysUnique
  <2>7. ASSUME backend = "pqsql" PROVE RowsRefer'
    <3>1. SUFFICES ASSUME NEW u \in DataTables, NEW r \in rows[u]
                   PROVE  /\ \E s \in rows'["sessions"] : s.id = r.session
                          /\ \A s \in rows'["sessions"] : s.id = r.session => s.hash = r.sample.of
      BY <2>4 DEF RowsRefer
    <3>2. PICK s \in rows["sessions"] : s.id = r.session
      BY <2>7 DEF SessionInv, RowsRefer
    <3>3. new.id # r.session
      BY <1>2, <3>2
    <3>. QED  BY <2>5, <2>7, <3>2, <3>3 DEF SessionInv, RowsRefer
  <2>. QED  BY <2>6, <2>7
<1>. QED  BY <1>1, <1>2, SessionAdded

LEMMA SessionInvEnds ==
    ASSUME TypeInv, SessionInv, DB_doEndSession
    PROVE  KeysUnique' /\ (backend = "pqsql" => RowsRefer')
<1>1. CASE rows' = rows
  BY <1>1 DEF SessionInv, KeysUnique, RowsRefer
<1>2. ASSUME NEW f, \A r \in rows["sessions"] : f[r].id = r.id /\ f[r].hash = r.hash,
             rows' = [rows EXCEPT !["sessions"] = Under(f, rows["sessions"])]
      PROVE  KeysUnique' /\ (backend = "pqsql" => RowsRefer')
  <2>1. PICK t, X : t = "sessions" /\ X = Under(f, rows["sessions"])
    OBVIOUS
  <2>2. StoreInv /\ t \in Tables /\ rows' = [rows EXCEPT ![t] = X] /\ tables' = tables
    BY <1>2, <2>1, RowKinds DEF TypeInv, DB_doEndSession
  <2>3. rows'[t] = X /\ \A u \in Tables \ {t} : rows'[u] = rows[u]
    BY <2>2, OtherRows
  <2>4. \A u \in DataTables : rows'[u] = rows[u]
    BY <2>1, <2>3, RowKinds
  <2>5. \A s : s \in rows'["sessions"] <=> \E r \in rows["sessions"] : s = f[r]
    BY <2>1, <2>3 DEF Under
  <2>6. KeysUnique'
    BY <1>2, <2>5 DEF SessionInv, KeysUnique
  <2>7. ASSUME backend = "pqsql" PROVE RowsRefer'
    <3>1. SUFFICES ASSUME NEW u \in DataTables, NEW r \in rows[u]
                   PROVE  /\ \E s \in rows'["sessions"] : s.id = r.session
                          /\ \A s \in rows'["sessions"] : s.id = r.session => s.hash = r.sample.of
      BY <2>4 DEF RowsRefer
    <3>. QED  BY <1>2, <2>5, <2>7 DEF SessionInv, RowsRefer
  <2>. QED  BY <2>6, <2>7
<1>. QED  BY <1>1, <1>2, SessionEnded

LEMMA SessionInvFiles ==
    ASSUME TypeInv, SessionInv, DB_doAddData
    PROVE  KeysUnique' /\ (backend = "pqsql" => RowsRefer')
<1>1. IsStore(Store) /\ dbRequests \in Seq(DBRequests) /\ dbRequests # <<>>
  BY DEF TypeInv, StoreInv, DB_doAddData, DBHandles
<1>2. PICK sample \in Samples, hash \in 0..MaxSessions, n \in Nat, table \in DataTables :
         /\ sample = Head(dbRequests).sample /\ hash = Head(dbRequests).hash
         /\ rows'[table] = rows[table] \cup NewRows(Store, sample, n, hash)
         /\ \A t \in Tables \ {table} : rows'[t] = rows[t]
  BY <1>1, DataAdded
<1>3. PICK db, new : db = Store /\ new = NewRows(db, sample, n, hash) /\ rows'[table] = rows[table] \cup new
  BY <1>2
<1>4. hash = sample.of
  <2>1. PICK q : q = dbRequests
    OBVIOUS
  <2>2. q \in Seq(DBRequests) /\ q # <<>> /\ OfItsSession(q) /\ Head(q).action = "AddData"
    BY <1>1, <2>1 DEF SessionInv, DataOfSession, DB_doAddData, DBHandles
  <2>3. Head(q).hash = Head(q).sample.of
    BY <2>2, OfSessionTail
  <2>. QED  BY <1>2, <2>1, <2>3
<1>5. rows'["sessions"] = rows["sessions"]
  BY <1>2, RowKinds
<1>6. KeysUnique'
  BY <1>5 DEF SessionInv, KeysUnique
<1>7. ASSUME backend = "pqsql", NEW t \in DataTables, NEW r \in rows'[t]
      PROVE  /\ \E s \in rows["sessions"] : s.id = r.session
             /\ \A s \in rows["sessions"] : s.id = r.session => s.hash = r.sample.of
  <2>1. CASE r \in rows[t]
    BY <1>7, <2>1 DEF SessionInv, RowsRefer
  <2>2. CASE r \notin rows[t]
    <3>1. r \in new
      BY <1>2, <1>7, <1>3, <2>2, RowKinds
    <3>2. r.sample = sample /\ \E s \in OpenSession(db, hash) : r.session = s.id
      BY <1>3, <3>1, NewRowsOf
    <3>3. PICK s \in rows["sessions"] : s.hash = hash /\ r.session = s.id
      BY <1>3, <3>2 DEF OpenSession, Store
    <3>4. \A z \in rows["sessions"] : z.id = r.session => z = s
      BY <3>3 DEF SessionInv, KeysUnique
    <3>. QED  BY <1>4, <3>2, <3>3, <3>4
  <2>. QED  BY <2>1, <2>2
<1>8. backend = "pqsql" => RowsRefer'
  BY <1>5, <1>7 DEF RowsRefer
<1>. QED  BY <1>6, <1>8

LEMMA SessionInvStep == ASSUME TypeInv, SessionInv, [Next]_vars PROVE SessionInv'
<1>1. DataOfSession' /\ backend' = backend
  BY DataOfSessionStep, BackendStays DEF SessionInv
<1>. SUFFICES KeysUnique' /\ (backend = "pqsql" => RowsRefer')
  BY <1>1 DEF SessionInv
<1>2. CASE DB_doInitDatabase \/ DB_doAddSession \/ DB_doEndSession \/ DB_doAddData
  BY <1>2, SessionInvInitializes, SessionInvAdds, SessionInvEnds, SessionInvFiles
<1>3. CASE \A t \in Tables \ {"devices"} : rows'[t] = rows[t]
  <2>1. rows'["sessions"] = rows["sessions"] /\ \A t \in DataTables : rows'[t] = rows[t]
    BY <1>3, RowKinds
  <2>. QED  BY <2>1 DEF SessionInv, KeysUnique, RowsRefer
<1>4. CASE DB_doAddDevice
  <2>1. CASE rows' = rows
    BY <1>3, <2>1
  <2>2. ASSUME NEW t, NEW X, t = "devices", rows' = [rows EXCEPT ![t] = X]
        PROVE  \A u \in Tables \ {"devices"} : rows'[u] = rows[u]
    <3>1. StoreInv /\ t \in Tables /\ tables' = tables
      BY <1>4, <2>2, RowKinds DEF TypeInv, DB_doAddDevice
    <3>. QED  BY <2>2, <3>1, OtherRows
  <2>. QED  BY <1>3, <1>4, <2>1, <2>2 DEF DB_doAddDevice
<1>5. CASE UNCHANGED rows
  BY <1>3, <1>5
<1>. QED
  BY <1>2, <1>4, <1>5
  DEF Next, vars, storeVars, DatabaseStep, DeviceStep, DeviceSetsSession, doProcessData, DeviceDisconnects,
      TickStep, Connection_readData, Administrate

\* A row of data refers to a session that is there, and to no other than the one
\* the monitor collected it for: the device handles data behind the session it
\* is of (doSetSession, doProcessData), the sub-select of addData() finds the
\* session by its hash, and the tables are dropped together with PostgreSQL.
THEOREM RowsKeepSessionSafe == Spec => []RowsKeepSession
<1>1. Init => SessionInv
  <2>1. Init => dbRequests = <<>> /\ rows["sessions"] = {} /\ \A t \in DataTables : rows[t] = {}
    BY RowKinds DEF Init
  <2>. QED  BY <2>1 DEF SessionInv, DataOfSession, OfItsSession, KeysUnique, RowsRefer
<1>2. TypeInv /\ SessionInv /\ [Next]_vars => SessionInv'
  BY SessionInvStep
<1>3. SessionInv => RowsKeepSession
  BY DEF SessionInv, RowsRefer, RowsKeepSession
<1>. QED  BY <1>1, <1>2, <1>3, TypeInvHolds, PTL DEF Spec

\* An InitDatabase answered Okay leaves every table in place, whatever a drop
\* that failed before has taken away: creating a table that exists does nothing,
\* and all the statements have run (doInitDatabase, createTables).
THEOREM InitCompleteSafe == Spec => []InitComplete
<1>1. Init => InitComplete
  BY DEF Init, InitComplete
<1>2. TypeInv /\ InitComplete /\ [Next]_vars => InitComplete'
  <2>. SUFFICES ASSUME TypeInv, InitComplete, [Next]_vars PROVE InitComplete'
    OBVIOUS
  <2>1. CASE DB_doInitDatabase
    BY <2>1, DatabaseInitialized DEF TypeInv, StoreInv, InitComplete
  <2>2. CASE UNCHANGED <<tables, initialized>>
    BY <2>2 DEF InitComplete
  <2>. QED
    BY <2>1, <2>2
    DEF Next, vars, storeVars, DatabaseStep, DB_doAddDevice, DB_doAddSession, DB_doEndSession, DB_doAddData,
        DeviceStep, DeviceSetsSession, doProcessData, DeviceDisconnects, TickStep, Connection_readData,
        Administrate
<1>. QED  BY <1>1, <1>2, TypeInvHolds, PTL DEF Spec

-----------------------------------------------------------------------------
(* Sessions that are to be opened.                                         *)

\* The sessions in the queue of the database are opened in the order of their
\* numbers, up to k, and are not among the rows S.
OpensLater(q, S, k) ==
    \A i \in 1..Len(q) :
        q[i].action = "AddSession" =>
            /\ q[i].hash <= k
            /\ \A r \in S : r.hash # q[i].hash
            /\ \A j \in 1..(i - 1) : q[j].action = "AddSession" => q[j].hash < q[i].hash

OpenedOnce ==
    /\ OpensLater(dbRequests, rows["sessions"], session)
    /\ \A r \in rows["sessions"] : r.hash <= session

LEMMA OpensNumber == \A d \in DBRequests : d.action = "AddSession" => d.hash \in Nat
BY LanesAssumption DEF DBRequests

LEMMA OpensPush ==
    ASSUME NEW q \in Seq(DBRequests), NEW e \in DBRequests, NEW S, NEW k \in Nat, NEW m \in Nat, k <= m,
           OpensLater(q, S, k), \A r \in S : r.hash \in Nat /\ r.hash <= k,
           e.action = "AddSession" => k < e.hash /\ e.hash <= m
    PROVE  OpensLater(Append(q, e), S, m)
<1>1. PICK p : p = Append(q, e)
  OBVIOUS
<1>2. Len(p) = Len(q) + 1 /\ Len(q) \in Nat /\ (\A i \in 1..Len(q) : p[i] = q[i]) /\ p[Len(q) + 1] = e
  BY <1>1, AppendProperties, LenProperties
<1>3. \A d \in DBRequests : d.action = "AddSession" => d.hash \in Nat
  BY OpensNumber
<1>4. \A i \in 1..Len(q) : q[i] \in DBRequests
  BY ElementOfSeq
<1>5. ASSUME NEW i \in 1..Len(p), p[i].action = "AddSession"
      PROVE  /\ p[i].hash <= m
             /\ \A r \in S : r.hash # p[i].hash
             /\ \A j \in 1..(i - 1) : p[j].action = "AddSession" => p[j].hash < p[i].hash
  <2>1. CASE i \in 1..Len(q)
    <3>1. /\ q[i].hash \in Nat /\ q[i].hash <= k
          /\ \A r \in S : r.hash # q[i].hash
          /\ \A j \in 1..(i - 1) : q[j].action = "AddSession" => q[j].hash < q[i].hash
      BY <1>2, <1>3, <1>4, <1>5, <2>1 DEF OpensLater
    <3>2. \A j \in 1..(i - 1) : p[j] = q[j]
      BY <1>2, <2>1
    <3>. QED  BY <1>2, <2>1, <3>1, <3>2
  <2>2. CASE i = Len(q) + 1
    <3>1. p[i] = e /\ k < e.hash /\ e.hash <= m /\ e.hash \in Nat
      BY <1>2, <1>3, <1>5, <2>2
    <3>2. \A j \in 1..(i - 1) : p[j] = q[j] /\ (q[j].action = "AddSession" => q[j].hash \in Nat /\ q[j].hash <= k)
      BY <1>2, <1>3, <1>4, <2>2 DEF OpensLater
    <3>. QED  BY <3>1, <3>2
  <2>. QED  BY <1>2, <2>1, <2>2
<1>. QED  BY <1>1, <1>5 DEF OpensLater

\* The rows T have no session but those there were and the one that is opened.
LEMMA OpensPop ==
    ASSUME NEW q \in Seq(DBRequests), q # <<>>, NEW S, NEW k, NEW T,
           OpensLater(q, S, k),
           \A r \in T : \/ \E s \in S : s.hash = r.hash
                       \/ (Head(q).action = "AddSession" /\ r.hash = Head(q).hash)
    PROVE  /\ OpensLater(Tail(q), T, k)
           /\ Head(q).action = "AddSession" => Head(q).hash <= k /\ \A r \in S : r.hash # Head(q).hash
<1>1. PICK p : p = Tail(q)
  OBVIOUS
<1>2. /\ Len(p) = Len(q) - 1 /\ Len(q) \in Nat /\ Len(q) >= 1
      /\ \A i \in 1..Len(p) : p[i] = q[i + 1] /\ q[i + 1] \in DBRequests
      /\ Head(q) = q[1] /\ q[1] \in DBRequests
  <2>1. Len(q) \in Nat /\ Len(q) >= 1 /\ \A i \in 1..Len(q) : q[i] \in DBRequests
    BY LenProperties, EmptySeq, ElementOfSeq
  <2>. QED  BY <1>1, <2>1, HeadTailProperties
<1>3. \A d \in DBRequests : d.action = "AddSession" => d.hash \in Nat
  BY OpensNumber
<1>4. ASSUME NEW i \in 1..Len(p), p[i].action = "AddSession"
      PROVE  /\ p[i].hash <= k
             /\ \A r \in T : r.hash # p[i].hash
             /\ \A j \in 1..(i - 1) : p[j].action = "AddSession" => p[j].hash < p[i].hash
  <2>1. /\ i + 1 \in 1..Len(q) /\ 1 \in 1..((i + 1) - 1) /\ p[i] = q[i + 1] /\ p[i].hash \in Nat
        /\ \A j \in 1..(i - 1) : j + 1 \in 1..((i + 1) - 1) /\ p[j] = q[j + 1]
    BY <1>2, <1>3, <1>4
  <2>2. /\ q[i + 1].hash <= k
        /\ \A r \in S : r.hash # q[i + 1].hash
        /\ \A j \in 1..((i + 1) - 1) : q[j].action = "AddSession" => q[j].hash < q[i + 1].hash
    BY <1>4, <2>1 DEF OpensLater
  <2>3. Head(q).action = "AddSession" => Head(q).hash \in Nat /\ Head(q).hash < p[i].hash
    BY <1>2, <1>3, <2>1, <2>2
  <2>4. ASSUME NEW r \in T PROVE r.hash # p[i].hash
    BY <2>1, <2>2, <2>3
  <2>. QED  BY <2>1, <2>2, <2>4
<1>5. Head(q).action = "AddSession" => Head(q).hash <= k /\ \A r \in S : r.hash # Head(q).hash
  BY <1>2 DEF OpensLater
<1>. QED  BY <1>1, <1>4, <1>5 DEF OpensLater

\* One table has other rows.
LEMMA OneTable ==
    ASSUME StoreInv, NEW t \in Tables, NEW X, rows' = [rows EXCEPT ![t] = X], tables' = tables
    PROVE  rows'[t] = X /\ \A u \in Tables \ {t} : rows'[u] = rows[u]
BY OtherRows

\* The table of sessions after a request of its own: an opening adds the session
\* of the request, an end is set in the rows of its session.
LEMMA TableOpened ==
    ASSUME TypeInv, DB_doAddSession, rows' # rows
    PROVE  /\ \A t \in Tables \ {"sessions"} : rows'[t] = rows[t]
           /\ \E new : /\ new.hash = Head(dbRequests).hash /\ new.open = TRUE
                       /\ \A r : r \in rows'["sessions"] <=> r \in rows["sessions"] \/ r = new
<1>1. PICK new : /\ new.hash = Head(dbRequests).hash /\ new.open = TRUE
                 /\ rows' = [rows EXCEPT !["sessions"] = rows["sessions"] \cup {new}]
  BY SessionAdded
<1>2. PICK t, X : t = "sessions" /\ X = rows["sessions"] \cup {new}
  OBVIOUS
<1>3. StoreInv /\ t \in Tables /\ rows' = [rows EXCEPT ![t] = X] /\ tables' = tables
  BY <1>1, <1>2, RowKinds DEF TypeInv, DB_doAddSession
<1>4. rows'[t] = X /\ \A u \in Tables \ {t} : rows'[u] = rows[u]
  BY <1>3, OneTable
<1>. QED  BY <1>1, <1>2, <1>4

LEMMA TableEnded ==
    ASSUME TypeInv, DB_doEndSession, rows' # rows
    PROVE  /\ \A t \in Tables \ {"sessions"} : rows'[t] = rows[t]
           /\ \E f :
                 /\ \A r \in rows["sessions"] :
                       f[r].hash = r.hash /\ f[r].open = (r.open /\ r.hash # Head(dbRequests).hash)
                 /\ \A r : r \in rows'["sessions"] <=> \E s \in rows["sessions"] : r = f[s]
<1>1. PICK f :
         /\ \A r \in rows["sessions"] : f[r].hash = r.hash /\ f[r].open = (r.open /\ r.hash # Head(dbRequests).hash)
         /\ rows' = [rows EXCEPT !["sessions"] = Under(f, rows["sessions"])]
  BY SessionEnded
<1>2. PICK t, X : t = "sessions" /\ X = Under(f, rows["sessions"])
  OBVIOUS
<1>3. StoreInv /\ t \in Tables /\ rows' = [rows EXCEPT ![t] = X] /\ tables' = tables
  BY <1>1, <1>2, RowKinds DEF TypeInv, DB_doEndSession
<1>4. rows'[t] = X /\ \A u \in Tables \ {t} : rows'[u] = rows[u]
  BY <1>3, OneTable
<1>5. \A r : r \in rows'["sessions"] <=> \E s \in rows["sessions"] : r = f[s]
  BY <1>2, <1>4 DEF Under
<1>. QED  BY <1>1, <1>2, <1>4, <1>5

LEMMA SessionHashes ==
    ASSUME TypeInv, DatabaseStep, NEW r \in rows'["sessions"]
    PROVE  \/ \E s \in rows["sessions"] : s.hash = r.hash
           \/ (Head(dbRequests).action = "AddSession" /\ r.hash = Head(dbRequests).hash)
<1>1. CASE rows'["sessions"] \in {rows["sessions"], {}}
  BY <1>1
<1>2. CASE DB_doInitDatabase
  <2>1. rows'["sessions"] \in {rows["sessions"], {}}
    BY <1>2, DatabaseInitialized, RowKinds DEF TypeInv, StoreInv
  <2>. QED  BY <1>1, <2>1
<1>3. CASE DB_doAddDevice
  <2>1. ASSUME NEW t, NEW X, t = "devices", rows' = [rows EXCEPT ![t] = X]
        PROVE  rows'["sessions"] = rows["sessions"]
    <3>1. StoreInv /\ t \in Tables /\ tables' = tables
      BY <1>3, <2>1, RowKinds DEF TypeInv, DB_doAddDevice
    <3>. QED  BY <2>1, <3>1, OtherRows, RowKinds
  <2>. QED  BY <1>1, <1>3, <2>1 DEF DB_doAddDevice
<1>4. CASE DB_doAddData
  <2>1. rows'["sessions"] = rows["sessions"]
    BY <1>4, DataAdded, RowKinds DEF TypeInv, StoreInv
  <2>. QED  BY <1>1, <2>1
<1>5. CASE DB_doAddSession /\ rows' # rows
  <2>1. Head(dbRequests).action = "AddSession"
    BY <1>5 DEF DB_doAddSession, DBHandles
  <2>. QED  BY <1>5, <2>1, TableOpened
<1>6. CASE DB_doEndSession /\ rows' # rows
  BY <1>6, TableEnded
<1>. QED  BY <1>1, <1>2, <1>3, <1>4, <1>5, <1>6 DEF DatabaseStep

LEMMA OpenedOnceStep == ASSUME TypeInv, OpenedOnce, [Next]_vars PROVE OpenedOnce'
<1>1. PICK q, S, T, k : q = dbRequests /\ S = rows["sessions"] /\ T = rows'["sessions"] /\ k = session
  OBVIOUS
<1>2. q \in Seq(DBRequests) /\ k \in Nat /\ OpensLater(q, S, k) /\ \A r \in S : r.hash \in Nat /\ r.hash <= k
  <2>1. q \in Seq(DBRequests) /\ k \in Nat /\ S \subseteq RowsOf("sessions")
    BY <1>1, RowKinds DEF TypeInv, LaneInv, LanesTypeOK, StoreInv, RowsTyped
  <2>2. \A r \in [id : Nat, hash : 0..MaxSessions, open : BOOLEAN] : r.hash \in Nat
    BY LanesAssumption
  <2>. QED  BY <1>1, <2>1, <2>2, RowKinds DEF OpenedOnce
<1>3. CASE DatabaseStep /\ q # <<>> /\ dbRequests' = Tail(q) /\ session' = k
  <2>1. \A r \in T : \/ \E s \in S : s.hash = r.hash
                     \/ (Head(q).action = "AddSession" /\ r.hash = Head(q).hash)
    BY <1>1, <1>3, SessionHashes
  <2>2. /\ OpensLater(Tail(q), T, k)
        /\ Head(q).action = "AddSession" => Head(q).hash <= k
    BY <1>2, <1>3, <2>1, OpensPop
  <2>. QED  BY <1>1, <1>2, <1>3, <2>1, <2>2 DEF OpenedOnce
<1>4. CASE UNCHANGED <<dbRequests, rows, session>>
  BY <1>4 DEF OpenedOnce
<1>5. ASSUME NEW e \in DBRequests, dbRequests' = Append(q, e), rows' = rows,
             session' = session \/ session' = session + 1,
             e.action = "AddSession" => e.hash = session' /\ session' = session + 1
      PROVE  OpenedOnce'
  <2>1. PICK m : m = session'
    OBVIOUS
  <2>2. m \in Nat /\ k <= m /\ (e.action = "AddSession" => k < e.hash /\ e.hash <= m)
    BY <1>1, <1>2, <1>5, <2>1
  <2>3. OpensLater(Append(q, e), S, m)
    BY <1>2, <2>2, OpensPush
  <2>4. T = S
    BY <1>1, <1>5
  <2>. QED  BY <1>1, <1>2, <1>5, <2>1, <2>2, <2>3, <2>4 DEF OpenedOnce
<1>. QED  BY <1>1, <1>3, <1>4, <1>5, QueueMoves

-----------------------------------------------------------------------------
(* The promise of the database, step by step.                              *)

LEMMA KnownIs ==
    \A h \in 0..MaxSessions, open \in BOOLEAN :
        [hash |-> h, open |-> open] \in KnownSessions
           <=> \E r \in rows["sessions"] : r.hash = h /\ r.open = open
BY DEF KnownSessions

\* Nothing is known of the keys and of the devices.
LEMMA NothingNew ==
    ASSUME rows'["sessions"] = rows["sessions"], \A t \in DataTables : rows'[t] = rows[t]
    PROVE  UNCHANGED <<KnownSessions, RecordedRows>>
<1>1. KnownSessions' = KnownSessions
  BY DEF KnownSessions
<1>2. UNION {rows'[t] : t \in DataTables} = UNION {rows[t] : t \in DataTables}
  OBVIOUS
<1>3. RecordedRows' = RecordedRows
  BY <1>2 DEF RecordedRows
<1>. QED  BY <1>1, <1>3

LEMMA RecordedIs ==
    \A x : x \in RecordedRows
              <=> \E t \in DataTables : \E r \in rows[t] : x = [sample |-> r.sample, entry |-> r.entry]
BY DEF RecordedRows

LEMMA RecordedIsThen ==
    \A x : x \in RecordedRows'
              <=> \E t \in DataTables : \E r \in rows'[t] : x = [sample |-> r.sample, entry |-> r.entry]
BY DEF RecordedRows

\* A session is opened that was not there.
LEMMA PromiseOpen ==
    ASSUME TypeInv, OpenedOnce, DB_doAddSession
    PROVE  \/ UNCHANGED <<KnownSessions, RecordedRows>>
           \/ \E h \in 0..MaxSessions : Promise!Open(h)
<1>1. CASE rows' = rows
  BY <1>1, NothingNew
<1>2. CASE rows' # rows
  <2>1. PICK h, new : /\ h = Head(dbRequests).hash /\ new.hash = h /\ new.open = TRUE
                      /\ \A r : r \in rows'["sessions"] <=> r \in rows["sessions"] \/ r = new
    BY <1>2, TableOpened
  <2>2. \A t \in DataTables : rows'[t] = rows[t]
    BY <1>2, TableOpened, RowKinds
  <2>3. /\ dbRequests \in Seq(DBRequests) /\ dbRequests # <<>>
        /\ Head(dbRequests) \in DBRequests /\ Head(dbRequests).action = "AddSession"
    BY HeadTailProperties DEF TypeInv, StoreInv, DB_doAddSession, DBHandles
  <2>4. h \in 0..MaxSessions
    BY <2>1, <2>3 DEF DBRequests
  <2>5. \A r \in rows["sessions"] : r.hash # h
    <3>1. PICK q, S, k : q = dbRequests /\ S = rows["sessions"] /\ k = session
      OBVIOUS
    <3>2. q \in Seq(DBRequests) /\ q # <<>> /\ OpensLater(q, S, k)
      BY <2>3, <3>1 DEF OpenedOnce
    <3>3. Head(q).action = "AddSession" => \A r \in S : r.hash # Head(q).hash
      BY <3>2, OpensPop
    <3>. QED  BY <2>1, <2>3, <3>1, <3>3
  <2>6. KnownSessions' = KnownSessions \cup {[hash |-> h, open |-> TRUE]}
    BY <2>1 DEF KnownSessions
  <2>7. \A s \in KnownSessions : s.hash # h
    BY <2>5 DEF KnownSessions
  <2>8. RecordedRows' = RecordedRows
    BY <2>2, RecordedIs, RecordedIsThen DEF RecordedRows
  <2>9. backend' = backend
    BY DEF DB_doAddSession
  <2>. QED  BY <2>4, <2>6, <2>7, <2>8, <2>9 DEF Promise!Open, Promise!Session
<1>. QED  BY <1>1, <1>2

\* A session is ended that was open, or nothing is.
LEMMA PromiseEnd ==
    ASSUME TypeInv, DB_doEndSession
    PROVE  \/ UNCHANGED <<KnownSessions, RecordedRows>>
           \/ \E h \in 0..MaxSessions : Promise!End(h)
<1>1. CASE rows' = rows
  BY <1>1, NothingNew
<1>2. CASE rows' # rows
  <2>1. PICK h, f : /\ h = Head(dbRequests).hash
                    /\ \A r \in rows["sessions"] : f[r].hash = r.hash /\ f[r].open = (r.open /\ r.hash # h)
                    /\ \A r : r \in rows'["sessions"] <=> \E s \in rows["sessions"] : r = f[s]
    BY <1>2, TableEnded
  <2>2. \A t \in DataTables : rows'[t] = rows[t]
    BY <1>2, TableEnded, RowKinds
  <2>3. h \in 0..MaxSessions
    <3>1. Head(dbRequests) \in DBRequests /\ Head(dbRequests).action = "EndSession"
      BY HeadTailProperties DEF TypeInv, StoreInv, DB_doEndSession, DBHandles
    <3>. QED  BY <2>1, <3>1 DEF DBRequests
  <2>4. RecordedRows' = RecordedRows
    BY <2>2, RecordedIs, RecordedIsThen DEF RecordedRows
  <2>5. \A r \in rows["sessions"] : r.open \in BOOLEAN
    <3>1. rows["sessions"] \subseteq [id : Nat, hash : 0..MaxSessions, open : BOOLEAN]
      BY RowKinds DEF TypeInv, StoreInv, RowsTyped
    <3>. QED  BY <3>1
  <2>6. \A x : x \in KnownSessions'
                  <=> \E r \in rows["sessions"] : x = [hash |-> r.hash, open |-> (r.open /\ r.hash # h)]
    BY <2>1 DEF KnownSessions
  <2>7. \A x : x \in KnownSessions <=> \E r \in rows["sessions"] : x = [hash |-> r.hash, open |-> r.open]
    BY DEF KnownSessions
  <2>8. CASE \E r \in rows["sessions"] : r.hash = h /\ r.open
    <3>1. PICK z \in rows["sessions"] : z.hash = h /\ z.open
      BY <2>8
    <3>2. [hash |-> h, open |-> TRUE] \in KnownSessions
      BY <2>5, <2>7, <3>1
    <3>3. ASSUME NEW x
          PROVE  x \in KnownSessions'
                    <=> x \in (KnownSessions \ {[hash |-> h, open |-> TRUE]}) \cup {[hash |-> h, open |-> FALSE]}
      <4>1. ASSUME x \in KnownSessions'
            PROVE  x \in (KnownSessions \ {[hash |-> h, open |-> TRUE]}) \cup {[hash |-> h, open |-> FALSE]}
        BY <2>5, <2>6, <2>7, <4>1
      <4>2. ASSUME x \in KnownSessions, x # [hash |-> h, open |-> TRUE] PROVE x \in KnownSessions'
        BY <2>5, <2>6, <2>7, <4>2
      <4>3. [hash |-> h, open |-> FALSE] \in KnownSessions'
        BY <2>6, <3>1
      <4>. QED  BY <4>1, <4>2, <4>3
    <3>4. KnownSessions' = (KnownSessions \ {[hash |-> h, open |-> TRUE]}) \cup {[hash |-> h, open |-> FALSE]}
      BY <3>3
    <3>. QED  BY <2>3, <2>4, <3>2, <3>4 DEF Promise!End, Promise!Session, DB_doEndSession
  <2>9. CASE \A r \in rows["sessions"] : ~(r.hash = h /\ r.open)
    <3>1. \A r \in rows["sessions"] : r.open = (r.open /\ r.hash # h)
      BY <2>5, <2>9
    <3>2. \A x : x \in KnownSessions' <=> x \in KnownSessions
      BY <2>6, <2>7, <3>1
    <3>. QED  BY <2>4, <3>2
  <2>. QED  BY <2>8, <2>9
<1>. QED  BY <1>1, <1>2

\* The first rows of a sample are recorded, while its session is open.
LEMMA PromiseRecord ==
    ASSUME TypeInv, DataOfSession, DB_doAddData
    PROVE  \/ UNCHANGED <<KnownSessions, RecordedRows>>
           \/ \E a \in Samples : \E n \in 1..Len(AddDataScript(a)) : Promise!Record(a, n)
<1>1. IsStore(Store) /\ dbRequests \in Seq(DBRequests) /\ dbRequests # <<>>
  BY DEF TypeInv, StoreInv, DB_doAddData, DBHandles
<1>2. PICK sample \in Samples, hash \in 0..MaxSessions, n \in Nat, table \in DataTables :
         /\ sample = Head(dbRequests).sample /\ hash = Head(dbRequests).hash
         /\ rows'[table] = rows[table] \cup NewRows(Store, sample, n, hash)
         /\ \A t \in Tables \ {table} : rows'[t] = rows[t]
         /\ n \in 0..RowCount(sample) /\ (backend = "pqsql" => n \in {0, RowCount(sample)})
         /\ n # 0 => OpenSession(Store, hash) # {}
  BY <1>1, DataAdded
<1>3. hash = sample.of
  <2>1. PICK q : q = dbRequests
    OBVIOUS
  <2>2. q \in Seq(DBRequests) /\ q # <<>> /\ OfItsSession(q) /\ Head(q).action = "AddData"
    BY <1>1, <2>1 DEF DataOfSession, DB_doAddData, DBHandles
  <2>3. Head(q).hash = Head(q).sample.of
    BY <2>2, OfSessionTail
  <2>. QED  BY <1>2, <2>1, <2>3
<1>4. rows'["sessions"] = rows["sessions"] /\ backend' = backend
  BY <1>2, RowKinds DEF DB_doAddData
<1>5. KnownSessions' = KnownSessions
  BY <1>4 DEF KnownSessions
<1>6. CASE n = 0
  <2>1. PICK new : new = NewRows(Store, sample, n, hash)
    OBVIOUS
  <2>2. new = {}
    BY <1>6, <2>1, NewRowsOf
  <2>3. rows'[table] = rows[table]
    BY <1>2, <2>1, <2>2
  <2>4. \A t \in DataTables : rows'[t] = rows[t]
    BY <1>2, <2>3, RowKinds
  <2>. QED  BY <1>4, <2>4, NothingNew
<1>7. CASE n # 0
  <2>1. PICK db, new : db = Store /\ new = NewRows(db, sample, n, hash)
    OBVIOUS
  <2>2. PICK s \in rows["sessions"] : s.hash = hash /\ s.open /\ s \in OpenSession(db, hash)
    BY <1>2, <1>7, <2>1 DEF OpenSession, Store
  <2>3. [hash |-> sample.of, open |-> TRUE] \in KnownSessions
    <3>1. rows["sessions"] \subseteq [id : Nat, hash : 0..MaxSessions, open : BOOLEAN]
      BY RowKinds DEF TypeInv, StoreInv, RowsTyped
    <3>2. s.open = TRUE
      BY <2>2, <3>1
    <3>. QED  BY <1>3, <2>2, <3>2 DEF KnownSessions
  <2>4. n \in 1..RowCount(sample) /\ (backend = "pqsql" => n = RowCount(sample))
    BY <1>2, <1>7, RowCountNat
  <2>5. RowCount(sample) = Len(AddDataScript(sample))
    BY DataScript
  <2>6. rows'[table] = rows[table] \cup new
    BY <1>2, <2>1
  <2>7. ASSUME NEW x
        PROVE  x \in RecordedRows' <=> x \in RecordedRows \/ \E i \in 1..n : x = [sample |-> sample, entry |-> i]
    <3>1. ASSUME x \in RecordedRows'
          PROVE  x \in RecordedRows \/ \E i \in 1..n : x = [sample |-> sample, entry |-> i]
      <4>1. PICK t, r : t \in DataTables /\ r \in rows'[t] /\ x = [sample |-> r.sample, entry |-> r.entry]
        BY <3>1, RecordedIsThen
      <4>2. CASE r \in rows[t]
        BY <4>1, <4>2, RecordedIs
      <4>3. CASE r \notin rows[t]
        <5>1. r \in new
          BY <1>2, <2>6, <4>1, <4>3, RowKinds
        <5>2. r.sample = sample /\ r.entry \in 1..n
          BY <2>1, <5>1, NewRowsOf
        <5>. QED  BY <4>1, <5>2
      <4>. QED  BY <4>2, <4>3
    <3>2. ASSUME x \in RecordedRows PROVE x \in RecordedRows'
      <4>1. PICK t, r : t \in DataTables /\ r \in rows[t] /\ x = [sample |-> r.sample, entry |-> r.entry]
        BY <3>2, RecordedIs
      <4>2. r \in rows'[t]
        BY <1>2, <2>6, <4>1, RowKinds
      <4>. QED  BY <4>1, <4>2, RecordedIsThen
    <3>3. ASSUME NEW i \in 1..n, x = [sample |-> sample, entry |-> i] PROVE x \in RecordedRows'
      <4>1. PICK r : r = [session |-> s.id, sample |-> sample, entry |-> i]
        OBVIOUS
      <4>2. r \in new
        BY <2>1, <2>2, <4>1 DEF NewRows
      <4>3. r \in rows'[table] /\ x = [sample |-> r.sample, entry |-> r.entry]
        BY <2>6, <3>3, <4>1, <4>2
      <4>. QED  BY <4>3, RecordedIsThen
    <3>. QED  BY <3>1, <3>2, <3>3
  <2>8. RecordedRows' = RecordedRows \cup {[sample |-> sample, entry |-> i] : i \in 1..n}
    BY <2>7
  <2>9. Promise!Record(sample, n)
    BY <1>4, <1>5, <2>3, <2>4, <2>5, <2>8 DEF Promise!Record, Promise!Session
  <2>. QED  BY <2>4, <2>5, <2>9
<1>. QED  BY <1>6, <1>7

\* An InitDatabase forgets the sessions, or nothing: the table of the sessions is
\* dropped before those of the data.
LEMMA PromiseForget ==
    ASSUME TypeInv, RowsFiled, DB_doInitDatabase
    PROVE  UNCHANGED <<KnownSessions, RecordedRows>> \/ Promise!Forget
<1>1. /\ \A t \in Tables : rows'[t] \in {rows[t], {}}
      /\ backend = "pqsql" => (\A t \in Tables : rows'[t] = rows[t]) \/ (\A t \in Tables : rows'[t] = {})
      /\ (\A t \in Tables \ {"devices"} : rows'[t] = rows[t]) \/ rows'["sessions"] = {}
  BY DatabaseInitialized DEF TypeInv, StoreInv
<1>2. DataTables \subseteq Tables /\ "sessions" \in Tables /\ "devices" \notin DataTables
  BY RowKinds
<1>3. CASE \A t \in Tables \ {"devices"} : rows'[t] = rows[t]
  BY <1>2, <1>3, NothingNew
<1>4. CASE rows'["sessions"] = {} /\ (backend = "pqsql" => \A t \in Tables : rows'[t] = {})
  <2>1. KnownSessions' = {}
    BY <1>4 DEF KnownSessions
  <2>2. PICK gone : gone = {a \in {x.sample : x \in RecordedRows} : rows'[TableOf[a.source]] = {}}
    OBVIOUS
  <2>3. gone \in SUBSET {x.sample : x \in RecordedRows}
    BY <2>2
  <2>4. ASSUME NEW x PROVE x \in RecordedRows' <=> x \in RecordedRows /\ x.sample \notin gone
    <3>1. ASSUME x \in RecordedRows' PROVE x \in RecordedRows /\ x.sample \notin gone
      <4>1. PICK t, r : t \in DataTables /\ r \in rows'[t] /\ x = [sample |-> r.sample, entry |-> r.entry]
        BY <3>1, RecordedIsThen
      <4>2. r \in rows[t] /\ rows'[t] # {}
        BY <1>1, <1>2, <4>1
      <4>3. x \in RecordedRows
        BY <4>1, <4>2, RecordedIs
      <4>4. TableOf[r.sample.source] = t
        BY <4>1, <4>2 DEF RowsFiled
      <4>. QED  BY <2>2, <4>1, <4>2, <4>3, <4>4
    <3>2. ASSUME x \in RecordedRows, x.sample \notin gone PROVE x \in RecordedRows'
      <4>1. PICK t, r : t \in DataTables /\ r \in rows[t] /\ x = [sample |-> r.sample, entry |-> r.entry]
        BY <3>2, RecordedIs
      <4>2. TableOf[r.sample.source] = t
        BY <4>1 DEF RowsFiled
      <4>3. rows'[t] # {}
        BY <2>2, <3>2, <4>1, <4>2
      <4>4. r \in rows'[t]
        BY <1>1, <1>2, <4>1, <4>3
      <4>. QED  BY <4>1, <4>4, RecordedIsThen
    <3>. QED  BY <3>1, <3>2
  <2>5. RecordedRows' = {x \in RecordedRows : x.sample \notin gone}
    BY <2>4
  <2>6. backend = "pqsql" => RecordedRows' = {}
    BY <1>2, <1>4, RecordedIsThen
  <2>7. backend' = backend
    BY DEF DB_doInitDatabase
  <2>. QED  BY <2>1, <2>3, <2>5, <2>6, <2>7 DEF Promise!Forget
<1>. QED  BY <1>1, <1>2, <1>3, <1>4

LEMMA PromiseStep ==
    ASSUME TypeInv, RowsFiled, DataOfSession, OpenedOnce, [Next]_vars
    PROVE  [Promise!Next]_(Promise!storeVars)
<1>1. backend' = backend
  BY BackendStays
<1>2. CASE DB_doInitDatabase
  BY <1>1, <1>2, PromiseForget DEF Promise!Next, Promise!storeVars
<1>3. CASE DB_doAddSession
  BY <1>1, <1>3, PromiseOpen DEF Promise!Next, Promise!storeVars
<1>4. CASE DB_doEndSession
  BY <1>1, <1>4, PromiseEnd DEF Promise!Next, Promise!storeVars
<1>5. CASE DB_doAddData
  BY <1>1, <1>5, PromiseRecord DEF Promise!Next, Promise!storeVars
<1>6. CASE rows'["sessions"] = rows["sessions"] /\ \A t \in DataTables : rows'[t] = rows[t]
  BY <1>1, <1>6, NothingNew DEF Promise!storeVars
<1>7. CASE DB_doAddDevice
  <2>1. ASSUME NEW t, NEW X, t = "devices", rows' = [rows EXCEPT ![t] = X]
        PROVE  \A u \in Tables \ {"devices"} : rows'[u] = rows[u]
    <3>1. StoreInv /\ t \in Tables /\ tables' = tables
      BY <1>7, <2>1, RowKinds DEF TypeInv, DB_doAddDevice
    <3>. QED  BY <2>1, <3>1, OneTable
  <2>2. rows' = rows \/ \A u \in Tables \ {"devices"} : rows'[u] = rows[u]
    BY <1>7, <2>1 DEF DB_doAddDevice
  <2>. QED  BY <1>6, <2>2, RowKinds
<1>8. CASE UNCHANGED rows
  BY <1>6, <1>8
<1>9. DatabaseStep \/ UNCHANGED rows
  BY QueueMoves
<1>. QED  BY <1>2, <1>3, <1>4, <1>5, <1>7, <1>8, <1>9 DEF DatabaseStep

\* The database keeps its promise: a session is opened once and ended once, data
\* is recorded while its own session is open and stays until the tables are
\* dropped, whatever scripts stop in the middle, for both backends.
THEOREM StoreKeptSafe == Spec => StoreKept
<1>1. Init => Promise!Init /\ OpenedOnce
  <2>1. Init => /\ rows["sessions"] = {} /\ (\A t \in DataTables : rows[t] = {})
                /\ dbRequests = <<>> /\ backend \in Backends
    BY RowKinds DEF Init
  <2>2. Init => KnownSessions = {} /\ RecordedRows = {}
    BY <2>1, RecordedIs DEF KnownSessions
  <2>. QED  BY <2>1, <2>2 DEF Promise!Init, OpenedOnce, OpensLater
<1>2. TypeInv /\ OpenedOnce /\ [Next]_vars => OpenedOnce'
  BY OpenedOnceStep
<1>3. Init => DataOfSession
  BY DEF Init, DataOfSession, OfItsSession
<1>4. TypeInv /\ DataOfSession /\ [Next]_vars => DataOfSession'
  BY DataOfSessionStep
<1>5. TypeInv /\ RowsFiled /\ DataOfSession /\ OpenedOnce /\ [Next]_vars => [Promise!Next]_(Promise!storeVars)
  BY PromiseStep
<1>. QED  BY <1>1, <1>2, <1>3, <1>4, <1>5, TypeInvHolds, RowsFiledHolds, PTL DEF Spec, StoreKept, Promise!Spec
=============================================================================

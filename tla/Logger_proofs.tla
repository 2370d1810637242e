--------------------------- MODULE Logger_proofs ----------------------------
(***************************************************************************)
(* Proofs about one Logger, for any keys, values, workload, capacity and   *)
(* number of calls.                                                        *)
(***************************************************************************)
EXTENDS Logger, LogOps_proofs

Inv == TypeOK /\ PosiDrift

-----------------------------------------------------------------------------
\* While posi is not negative the entry on top can be read.
LEMMA InvReadable ==
  ASSUME Inv, store.posi >= 0
  PROVE  store \in Store /\ InRange(store)
BY DEF Inv, TypeOK, PosiDrift, Store, InRange

\* writeLog keeps the types and the drift: vector and position grow together.
LEMMA WriteInv ==
  ASSUME Inv, NEW cmd \in Workload, Write(cmd)
  PROVE  Inv'
<1>1. store \in Store /\ InRange(store) /\ cmd \in Command /\ 0 \in Nat
  BY InvReadable, LoggerConstants DEF Write
<1>2. store' = WriteLog(store, 0, cmd) /\ drift' = drift /\ outcome' = outcome
  BY DEF Write
<1>3. store' \in Store
  BY <1>1, <1>2, WriteLogType
<1>4. cleared' \in BOOLEAN /\ calls' \in Nat
  BY DEF Write, Call, Inv, TypeOK
<1>5. PosiDrift'
  <2>1. CASE ~CanWrite(store)
    BY <1>2, <2>1 DEF WriteLog, Inv, PosiDrift
  <2>2. CASE CanWrite(store)
    <3> DEFINE grown == Append(store.log, NewEntry(0, cmd))
    <3>1. store.log \in Seq(Entry) /\ store.posi + 1 \in Int /\ NewEntry(0, cmd) \in Entry
      BY <1>1 DEF Store, NewEntry, Entry
    <3>2. grown \in Seq(Entry) /\ Len(grown) = Len(store.log) + 1
      BY <3>1
    <3>3. store'.posi = store.posi + 1 /\ store'.log = Mark(grown, store.posi + 1, "PRE", 0)
      BY <1>2, <2>2 DEF WriteLog
    <3> HIDE DEF grown
    <3>4. "PRE" \in {"PRE", "COMMIT"} /\ 0 \in Nat
      OBVIOUS
    <3>5. Len(store'.log) = Len(store.log) + 1
      BY <3>1, <3>2, <3>3, <3>4, MarkType
    <3>6. store.posi \in Int /\ Len(store.log) \in Int /\ drift \in Int
          /\ store.posi = Len(store.log) - drift
      BY <3>1 DEF Inv, TypeOK, PosiDrift, Store
    <3>7. store'.posi = Len(store'.log) - drift
      BY <3>3, <3>5, <3>6
    <3> QED
      BY <1>2, <3>7 DEF PosiDrift
  <2> QED
    BY <2>1, <2>2
<1> QED
  BY <1>2, <1>3, <1>4, <1>5 DEF Inv, TypeOK

\* commitLog keeps them: position and length stay.
LEMMA CommitInv ==
  ASSUME Inv, Commit
  PROVE  Inv'
<1>1. store \in Store /\ InRange(store)
  BY InvReadable DEF Commit
<1>2. store' = CommitLog(store).store /\ drift' = drift /\ outcome' = outcome
  BY DEF Commit
<1>3. store' \in Store
  BY <1>1, <1>2, CommitLogType DEF Result
<1>4. cleared' \in BOOLEAN /\ calls' \in Nat
  BY DEF Commit, Call, Inv, TypeOK
<1>5. PosiDrift'
  <2>1. Same(store, store')
    BY <1>1, <1>2, CommitLogSame
  <2>2. store'.posi = store.posi /\ Len(store'.log) = Len(store.log)
    BY <2>1 DEF Same
  <2> QED
    BY <1>2, <2>2 DEF Inv, PosiDrift
<1> QED
  BY <1>2, <1>3, <1>4, <1>5 DEF Inv, TypeOK

\* rollbackLog keeps them: it shortens the vector by one, and moves the
\* position by one more only for a committed GET, which drift counts.
LEMMA RollbackInv ==
  ASSUME Inv, Rollback
  PROVE  Inv'
<1>1. ~RollbackThrows(store) /\ store' = RollbackLog(store).store /\ outcome' = outcome
  BY DEF Rollback
<1>2. store \in Store /\ store.posi \in Int /\ drift \in Nat /\ store.posi = Len(store.log) - drift
  BY DEF Inv, TypeOK, PosiDrift, Store
<1>3. cleared' \in BOOLEAN /\ calls' \in Nat
  BY DEF Rollback, Call, Inv, TypeOK
<1>4. drift' = IF CommittedOp(store, "GET") THEN drift + 1 ELSE drift
  BY DEF Rollback
<1>5. CASE store.posi < 0
  <2>1. store.posi <= 0 /\ ~(store.posi > 0)
    BY <1>2, <1>5
  <2>2. RollbackLog(store) = Refused(store) /\ ~CommittedOp(store, "GET")
    BY <2>1 DEF RollbackLog, CommittedOp
  <2>3. store' = store /\ drift' = drift
    BY <1>1, <1>4, <2>2 DEF Refused
  <2> QED
    BY <1>1, <1>3, <2>3 DEF Inv, TypeOK, PosiDrift
<1>6. CASE store.posi >= 0
  <2>1. InRange(store)
    BY <1>6, InvReadable
  <2>2. store' \in Store
    BY <1>1, <1>2, <2>1, RollbackLogType DEF Result
  <2>3. CASE ~CommittedOp(store, "GET") /\ RollbackLog(store) = Refused(store)
    BY <1>1, <1>3, <1>4, <2>3 DEF Refused, Inv, TypeOK, PosiDrift
  <2>4. CASE /\ store.posi > 0 /\ store'.log = Front(store.log)
             /\ store'.posi = store.posi - (IF CommittedOp(store, "GET") THEN 2 ELSE 1)
    <3>1. store.log \in Seq(Entry) /\ Len(store.log) \in Nat /\ Len(store.log) - 1 \in 0 .. Len(store.log)
      BY <1>2, <2>1, <2>4 DEF Store, InRange
    <3>2. Len(store'.log) = Len(store.log) - 1
      BY <2>4, <3>1, SliceType DEF Front
    <3>3. store'.posi = Len(store'.log) - drift'
      <4>1. CASE CommittedOp(store, "GET")
        <5>1. store'.posi = store.posi - 2 /\ drift' = drift + 1
          BY <1>4, <2>4, <4>1
        <5> QED
          BY <1>2, <3>1, <3>2, <5>1
      <4>2. CASE ~CommittedOp(store, "GET")
        <5>1. store'.posi = store.posi - 1 /\ drift' = drift
          BY <1>4, <2>4, <4>2
        <5> QED
          BY <1>2, <3>1, <3>2, <5>1
      <4> QED
        BY <4>1, <4>2
    <3>4. PosiDrift'
      BY <3>3 DEF PosiDrift
    <3>5. drift' \in Nat
      BY <1>2, <1>4
    <3> QED
      BY <1>1, <1>3, <2>2, <3>4, <3>5 DEF Inv, TypeOK
  <2> QED
    BY <1>1, <1>2, <2>1, <2>3, <2>4, RollbackLogSame
<1> QED
  BY <1>2, <1>5, <1>6

\* Every step keeps the invariant.
LEMMA StepInv ==
  ASSUME Inv, [Next]_vars
  PROVE  Inv'
<1>1. CASE \E cmd \in Workload : Write(cmd)
  BY <1>1, WriteInv
<1>2. CASE Commit
  BY <1>2, CommitInv
<1>3. CASE Rollback
  BY <1>3, RollbackInv
<1>4. CASE RollbackFails
  BY <1>4 DEF RollbackFails, Call, Inv, TypeOK, PosiDrift
<1>5. CASE Lost
  BY <1>5 DEF Lost, Call, Inv, TypeOK, PosiDrift
<1>6. CASE UNCHANGED vars
  BY <1>6 DEF vars, Inv, TypeOK, PosiDrift
<1> QED
  BY <1>1, <1>2, <1>3, <1>4, <1>5, <1>6 DEF Next

\* The invariant holds in every execution.
LEMMA LoggerInvariance == Spec => []Inv
<1>1. ASSUME Init
      PROVE  Inv
  <2>1. store \in Store
    BY <1>1, EmptyStoreType DEF Init
  <2>2. store.log = <<>> /\ store.posi = 0
    BY <1>1 DEF Init, EmptyStore
  <2>3. drift = 0 /\ cleared \in BOOLEAN /\ outcome = "ok" /\ calls = 0
    BY <1>1 DEF Init
  <2> QED
    BY <2>1, <2>2, <2>3 DEF Inv, TypeOK, PosiDrift
<1> QED
  BY <1>1, StepInv, PTL DEF Spec

-----------------------------------------------------------------------------
\* Whatever is written, committed and rolled back, a Logger's log and map
\* stay well formed.
THEOREM LoggerTyped == Spec => []TypeOK
<1>1. Inv => TypeOK
  BY DEF Inv
<1> QED
  BY <1>1, LoggerInvariance, PTL

\* posi and the length of the vector differ by exactly the number of
\* committed GETs rolled back: no other sequence of calls separates them.
THEOREM DriftIsRolledBackGets == Spec => []PosiDrift
<1>1. Inv => PosiDrift
  BY DEF Inv
<1> QED
  BY <1>1, LoggerInvariance, PTL

-----------------------------------------------------------------------------
\* An entry below the one on top is beyond the reach of every call.
LEMMA BuriedKept ==
  ASSUME Inv, [Next]_vars, NEW n \in 1 .. store.posi - 1
  PROVE  n <= Len(store'.log) /\ store'.log[n] = store.log[n]
<1>1. /\ store \in Store /\ store.posi \in Int /\ store.posi >= 2 /\ InRange(store)
      /\ store.log \in Seq(Entry) /\ n \in 1 .. Len(store.log) - 1 /\ n # store.posi
  BY InvReadable DEF Inv, TypeOK, Store, InRange
<1>2. CASE \E cmd \in Workload : Write(cmd)
  <2> PICK cmd \in Workload : Write(cmd)
    BY <1>2
  <2>1. store' = WriteLog(store, 0, cmd)
    BY DEF Write
  <2>2. CASE ~CanWrite(store)
    BY <1>1, <2>1, <2>2 DEF WriteLog
  <2>3. CASE CanWrite(store)
    <3> DEFINE grown == Append(store.log, NewEntry(0, cmd))
    <3>1. NewEntry(0, cmd) \in Entry
      BY LoggerConstants DEF NewEntry, Entry
    <3>2. grown \in Seq(Entry) /\ Len(grown) = Len(store.log) + 1 /\ grown[n] = store.log[n]
      BY <1>1, <3>1
    <3>3. store'.log = Mark(grown, store.posi + 1, "PRE", 0)
      BY <2>1, <2>3 DEF WriteLog
    <3> HIDE DEF grown
    <3>4. "PRE" \in {"PRE", "COMMIT"} /\ 0 \in Nat /\ store.posi + 1 \in Int /\ n # store.posi + 1
      BY <1>1
    <3>5. Len(store'.log) = Len(grown) /\ store'.log[n] = grown[n]
      BY <1>1, <3>2, <3>3, <3>4, MarkType, MarkSame
    <3> QED
      BY <1>1, <3>2, <3>5
  <2> QED
    BY <2>2, <2>3
<1>3. CASE Commit
  <2>1. Same(store, store')
    BY <1>1, <1>3, CommitLogSame DEF Commit
  <2> QED
    BY <1>1, <2>1 DEF Same
<1>4. CASE Rollback
  <2>1. ~RollbackThrows(store) /\ store' = RollbackLog(store).store /\ store.posi # 0
    BY <1>1, <1>4 DEF Rollback
  <2>2. store'.log = Front(store.log)
    BY <1>1, <2>1, RollbackLogSame
  <2> QED
    BY <1>1, <2>2 DEF Front
<1>5. CASE RollbackFails \/ Lost \/ UNCHANGED vars
  <2>1. store' = store
    BY <1>5 DEF RollbackFails, Lost, vars
  <2> QED
    BY <1>1, <2>1
<1> QED
  BY <1>2, <1>3, <1>4, <1>5 DEF Next

\* No call reaches an entry below the one on top: one that was covered
\* before it was committed stays prepared for good.
THEOREM BuriedForGood == Spec => BuriedIsFinal
<1>1. ASSUME Inv, [Next]_vars
      PROVE  [\A n \in 1 .. store.posi - 1 : n <= Len(store'.log) /\ store'.log[n] = store.log[n]]_vars
  BY <1>1, BuriedKept
<1>2. Spec => [][Next]_vars
  BY DEF Spec
<1> QED
  BY <1>1, <1>2, LoggerInvariance, PTL DEF BuriedIsFinal
-----------------------------------------------------------------------------
(***************************************************************************)
(* The map and the log.                                                    *)
(***************************************************************************)

\* Replaying builds a map for every prefix of the log, each from the one
\* before it.
LEMMA ReplayPrefixes ==
  ASSUME NEW q \in Seq(Entry)
  PROVE  \E f \in [0 .. Len(q) -> Map] :
           /\ f[0] = EmptyStore.db
           /\ \A m \in 1 .. Len(q) : f[m] = ReplayStep(f[m - 1], q[m])
           /\ Replay(q) = f[Len(q)]
<1> DEFINE n    == Len(q)
           step == [p \in Nat \X Map |-> IF p[1] \in 1 .. n THEN ReplayStep(p[2], q[p[1]]) ELSE p[2]]
           Is(iter) == iter = [s \in SUBSET (1 .. n) |-> IF s = {} THEN EmptyStore.db
                                 ELSE ReplayStep(iter[s \ {Max(s)}], q[Max(s)])]
           chosen == CHOOSE iter : Is(iter)
<1>1. n \in Nat /\ DOMAIN q = 1 .. n /\ n = Len(q)
  OBVIOUS
<1>a. \A i \in 1 .. n : q[i] \in Entry
  OBVIOUS
<1>2. Replay(q) = chosen[1 .. n]
  BY <1>1 DEF Replay, FoldLeft, MapThenFoldSet
<1>3. EmptyStore.db \in Map
  BY DEF EmptyStore, Map
<1>4. ASSUME NEW db \in Map, NEW e \in Entry
      PROVE  ReplayStep(db, e) \in Map
  BY DEF ReplayStep, Map, Entry, Command
<1>5. step \in [Nat \X Map -> Map]
  <2> SUFFICES ASSUME NEW i \in Nat, NEW db \in Map, i \in 1 .. n
               PROVE  ReplayStep(db, q[i]) \in Map
    OBVIOUS
  <2> QED
    BY <1>4
<1> HIDE DEF n
<1>6. PICK it \in [SUBSET (1 .. n) -> Map] : FoldsTo(n, EmptyStore.db, step, it)
  <2> HIDE DEF step
  <2> QED
    BY <1>1, <1>3, <1>5, FoldExists
<1>7. Is(it)
  <2>1. ASSUME NEW s \in SUBSET (1 .. n), s # {}
        PROVE  it[s] = ReplayStep(it[s \ {Max(s)}], q[Max(s)])
    <3>1. Max(s) \in s
      BY <1>1, <2>1, MaxPosition, Zenon
    <3>a. Max(s) \in 1 .. n
      BY <3>1
    <3>b. Max(s) \in Nat
      BY <1>1, <3>a
    <3>2. it[s \ {Max(s)}] \in Map
      BY <1>6
    <3>3. step[<<Max(s), it[s \ {Max(s)}]>>] = ReplayStep(it[s \ {Max(s)}], q[Max(s)])
      BY <3>a, <3>b, <3>2
    <3> HIDE DEF step
    <3> QED
      BY <1>6, <2>1, <3>3 DEF FoldsTo
  <2> HIDE DEF step
  <2> QED
    BY <1>6, <2>1 DEF FoldsTo
<1>8. Is(chosen)
  <2> HIDE DEF Is
  <2> QED
    BY <1>7
<1> HIDE DEF chosen
<1> DEFINE f == [m \in 0 .. n |-> chosen[1 .. m]]
<1>9. f[0] = EmptyStore.db
  <2>1. 1 .. 0 = {}
    OBVIOUS
  <2> QED
    BY <1>1, <1>8, <2>1
<1>10. ASSUME NEW m \in 1 .. n
       PROVE  f[m] = ReplayStep(f[m - 1], q[m])
  <2>a. m \in Nat /\ m >= 1 /\ m <= n
    BY <1>1
  <2>b. 1 .. m \in SUBSET (1 .. n)
    BY <1>1, <2>a
  <2>c. (1 .. m) \ {m} = 1 .. m - 1 /\ m \in 1 .. m
    BY <2>a
  <2>1. 1 .. m \in SUBSET (1 .. n) /\ 1 .. m # {} /\ (1 .. m) \ {m} = 1 .. m - 1
    BY <2>b, <2>c
  <2>2. Max(1 .. m) = m
    <3>1. m \in Nat /\ m \in 1 .. m /\ 1 .. m \in SUBSET (1 .. m)
      BY <1>1
    <3>2. Max(1 .. m) \in 1 .. m /\ m <= Max(1 .. m)
      BY <2>1, <3>1, MaxPosition, Zenon
    <3> QED
      BY <3>1, <3>2
  <2>3. chosen[1 .. m] = ReplayStep(chosen[(1 .. m) \ {m}], q[m])
    <3> QED
      BY <1>8, <2>1, <2>2
  <2>4. f[m] = chosen[1 .. m] /\ f[m - 1] = chosen[1 .. m - 1]
    BY <1>1
  <2> QED
    BY <2>1, <2>3, <2>4
<1>11. \A m \in 0 .. n : f[m] \in Map
  <2> DEFINE Bad == {m \in 0 .. n : f[m] \notin Map}
  <2> SUFFICES ASSUME Bad # {} PROVE FALSE
    OBVIOUS
  <2>1. PICK m \in Bad : \A k \in Bad : m <= k
    <3>1. Bad \in SUBSET Nat
      OBVIOUS
    <3> HIDE DEF Bad
    <3> QED
      BY <3>1, LeastPosition
  <2>2. m \in 0 .. n /\ f[m] \notin Map
    BY <2>1
  <2>3. m # 0
    BY <1>3, <1>9, <2>2
  <2>4. m \in 1 .. n /\ m - 1 \in 0 .. n /\ ~(m <= m - 1)
    BY <1>1, <2>2, <2>3
  <2>5. m - 1 \notin Bad
    <3> HIDE DEF Bad
    <3> QED
      BY <2>1, <2>4
  <2>6. f[m - 1] \in Map
    BY <2>4, <2>5
  <2>7. q[m] \in Entry
    BY <1>a, <2>4
  <2> HIDE DEF f, Bad
  <2> QED
    BY <1>4, <1>10, <2>2, <2>4, <2>6, <2>7
<1>12. f \in [0 .. n -> Map] /\ Replay(q) = f[n]
  BY <1>1, <1>2, <1>11
<1> HIDE DEF f
<1> QED
  BY <1>1, <1>9, <1>10, <1>12

\* Replaying a log with one more entry: the step of that entry on the map
\* of the log without it.
LEMMA ReplayAppend ==
  ASSUME NEW q \in Seq(Entry), NEW e \in Entry
  PROVE  Replay(Append(q, e)) = ReplayStep(Replay(q), e)
<1> DEFINE n == Len(q)
           p == Append(q, e)
<1>1. n \in Nat /\ p \in Seq(Entry) /\ Len(p) = n + 1 /\ p[n + 1] = e /\ \A m \in 1 .. n : p[m] = q[m]
  OBVIOUS
<1>2. PICK f \in [0 .. n -> Map] : /\ f[0] = EmptyStore.db
                                   /\ \A m \in 1 .. n : f[m] = ReplayStep(f[m - 1], q[m])
                                   /\ Replay(q) = f[n]
  BY ReplayPrefixes
<1>3. PICK g \in [0 .. n + 1 -> Map] : /\ g[0] = EmptyStore.db
                                       /\ \A m \in 1 .. n + 1 : g[m] = ReplayStep(g[m - 1], p[m])
                                       /\ Replay(p) = g[n + 1]
  <2> HIDE DEF p, n
  <2> QED
    BY <1>1, ReplayPrefixes
<1> HIDE DEF n, p
<1> DEFINE Bad == {m \in 0 .. n : f[m] # g[m]}
<1>4. Bad = {}
  <2> SUFFICES ASSUME Bad # {} PROVE FALSE
    OBVIOUS
  <2>1. Bad \in SUBSET Nat
    BY <1>1
  <2>2. PICK m \in Bad : \A k \in Bad : m <= k
    <3> HIDE DEF Bad
    <3> QED
      BY <2>1, LeastPosition
  <2>3. m \in 0 .. n /\ f[m] # g[m]
    BY <2>2
  <2>4. m # 0
    BY <1>2, <1>3, <2>3
  <2>5. m \in 1 .. n /\ m \in 1 .. n + 1 /\ m - 1 \in 0 .. n /\ ~(m <= m - 1)
    BY <1>1, <2>3, <2>4
  <2>6. m - 1 \notin Bad
    <3> HIDE DEF Bad
    <3> QED
      BY <2>2, <2>5
  <2>7. f[m - 1] = g[m - 1]
    BY <2>5, <2>6
  <2> HIDE DEF Bad
  <2> QED
    BY <1>1, <1>2, <1>3, <2>3, <2>5, <2>7
<1>5. f[n] = g[n]
  <2>1. n \in 0 .. n
    BY <1>1
  <2> QED
    BY <1>4, <2>1
<1>6. n + 1 \in 1 .. n + 1 /\ (n + 1) - 1 = n
  BY <1>1
<1>7. g[n + 1] = ReplayStep(g[n], e)
  BY <1>1, <1>3, <1>6
<1> QED
  BY <1>2, <1>3, <1>5, <1>7 DEF p

\* Replaying an empty log.
LEMMA ReplayNone == Replay(<<>>) = EmptyStore.db
<1>1. <<>> \in Seq(Entry) /\ Len(<<>>) = 0
  OBVIOUS
<1> QED
  BY <1>1, ReplayPrefixes

\* Until it has erased a key no entry of the log has, so that a committed DEL
\* has named none: rolling it back puts nothing in the map.
Clean(log) == \A n \in 1 .. Len(log) : log[n].dels = 0

\* The map is the log's replay, and no entry has erased a key.
Mapped(s) == s.db = Replay(s.log) /\ Clean(s.log)

MapInv == drift = 0 /\ ~cleared => Mapped(store)

\* A key is erased on the way from store s to store t.
Clears(s, t) == \E k \in Key : t.db[k] = Absent /\ s.db[k] # Absent

\* An entry that is not committed adds nothing to the map.
LEMMA PreparedAddsNothing ==
  ASSUME NEW db, NEW e, e.state # "COMMIT" \/ e.cmd.op # "SET"
  PROVE  ReplayStep(db, e) = db
BY DEF ReplayStep

\* The store whose log is q with e on top.
LEMMA CleanAppend ==
  ASSUME NEW q \in Seq(Entry), NEW e \in Entry, Clean(q), e.dels = 0
  PROVE  Clean(Append(q, e))
<1> SUFFICES ASSUME NEW n \in 1 .. Len(Append(q, e))
             PROVE  Append(q, e)[n].dels = 0
  BY DEF Clean
<1>1. CASE n = Len(q) + 1
  BY <1>1
<1>2. CASE n # Len(q) + 1
  <2>1. n \in 1 .. Len(q) /\ Append(q, e)[n] = q[n]
    BY <1>2
  <2> QED
    BY <2>1 DEF Clean
<1> QED
  BY <1>1, <1>2

\* writeLog adds an entry that is not committed.
LEMMA WriteMapped ==
  ASSUME NEW s \in Store, s.posi = Len(s.log), Mapped(s), NEW i \in Nat, NEW cmd \in Command
  PROVE  Mapped(WriteLog(s, i, cmd))
<1>1. CASE ~CanWrite(s)
  BY <1>1 DEF WriteLog
<1>2. CASE CanWrite(s)
  <2> DEFINE q == s.log
             e == NewEntry(i, cmd)
             m == Marked(e, "PRE", 0)
             t == WriteLog(s, i, cmd)
  <2>1. q \in Seq(Entry) /\ e \in Entry /\ m = e /\ e.state = "PRE" /\ e.dels = 0
    BY DEF Store, NewEntry, Entry, Marked
  <2>2. t.log = Mark(Append(q, e), Len(q) + 1, "PRE", 0) /\ t.db = s.db
    BY <1>2 DEF WriteLog
  <2> HIDE DEF e, t, m, q
  <2>a. PICK n \in Nat, st \in {"PRE", "COMMIT"}, d \in Nat : n = Len(q) + 1 /\ st = "PRE" /\ d = 0
    <3>1. Len(q) + 1 \in Nat
      BY <2>1
    <3>2. "PRE" \in {"PRE", "COMMIT"} /\ 0 \in Nat
      OBVIOUS
    <3> QED
      BY <3>1, <3>2, Zenon
  <2>b. Mark(Append(q, e), n, st, d) = Append(q, Marked(e, st, d))
    BY <2>1, <2>a, MarkLast
  <2>3. t.log = Append(q, e)
    BY <2>1, <2>2, <2>a, <2>b DEF m
  <2>4. Replay(t.log) = Replay(q) /\ Clean(t.log)
    BY <2>1, <2>3, ReplayAppend, PreparedAddsNothing, CleanAppend DEF Mapped, q
  <2> QED
    BY <2>2, <2>4 DEF Mapped, q, t
<1> QED
  BY <1>1, <1>2

\* What marking the top entry of a log makes of the replay.
LEMMA MarkMapped ==
  ASSUME NEW log \in Seq(Entry), NEW n \in Nat, n = Len(log), n > 0, Clean(log),
         log[n].state = "PRE", NEW st \in {"PRE", "COMMIT"}
  PROVE  /\ Clean(Mark(log, n, st, 0))
         /\ Replay(Mark(log, n, st, 0)) =
              IF st = "COMMIT" /\ log[n].cmd.op = "SET"
              THEN [Replay(log) EXCEPT ![log[n].cmd.keys[1]] = log[n].cmd.val]
              ELSE Replay(log)
<1> DEFINE q == Front(log)
           e == log[n]
           m == Marked(e, st, 0)
<1>1. q \in Seq(Entry) /\ Len(q) = n - 1 /\ e \in Entry /\ log = Append(q, e)
      /\ \A i \in 1 .. n - 1 : q[i] = log[i]
  BY LastEntry
<1>2. m \in Entry /\ Mark(log, n, st, 0) = Append(q, m)
  <2> HIDE DEF q, e, m
  <2>1. n = Len(q) + 1 /\ 0 \in Nat
    BY <1>1
  <2>2. Marked(e, st, 0) \in Entry /\ Mark(Append(q, e), n, st, 0) = Append(q, Marked(e, st, 0))
    BY <1>1, <2>1, MarkLast
  <2> QED
    BY <1>1, <2>2 DEF m
<1>3. m.dels = 0 /\ m.cmd = e.cmd /\ m.state = st /\ e.state = "PRE"
  BY <1>1 DEF Marked, Clean, Entry
<1>4. Clean(q)
  BY <1>1 DEF Clean
<1> HIDE DEF q, e, m
<1>5. Clean(Append(q, m))
  BY <1>1, <1>2, <1>3, <1>4, CleanAppend
<1>6. Replay(log) = Replay(q)
  BY <1>1, <1>3, ReplayAppend, PreparedAddsNothing
<1>7. Replay(Append(q, m)) = ReplayStep(Replay(q), m)
  BY <1>1, <1>2, ReplayAppend
<1> QED
  BY <1>2, <1>3, <1>5, <1>6, <1>7 DEF ReplayStep, e

\* commitLog changes the map as the entry it commits says, as long as no DEL
\* erases a key.
LEMMA CommitMapped ==
  ASSUME NEW s \in Store, s.posi = Len(s.log), Mapped(s), ~Clears(s, CommitLog(s).store)
  PROVE  Mapped(CommitLog(s).store)
<1> DEFINE n == Len(s.log)
           e == s.log[n]
<1>1. s.log \in Seq(Entry) /\ s.posi = n /\ n \in Nat /\ s.db \in Map /\ s.delq \in Seq(Key)
  BY DEF Store, Map
<1>2. CASE s.posi = 0 \/ TopState(s) = "COMMIT"
  BY <1>2 DEF CommitLog, Refused
<1>3. CASE ~(s.posi = 0 \/ TopState(s) = "COMMIT")
  <2>1. n > 0 /\ Top(s) = e /\ e \in Entry /\ TopState(s) = e.state /\ e.state = "PRE"
        /\ e.cmd \in Command
    <3>1. n > 0 /\ Top(s) = e /\ TopState(s) = e.state
      BY <1>1, <1>3 DEF Top, TopState
    <3>2. e \in Entry
      BY <1>1, <3>1
    <3> QED
      BY <1>3, <3>1, <3>2 DEF Entry
  <2>a. e.cmd.op \in {"SET", "GET", "DEL"} /\ e.cmd.keys \in Seq(Key) \ {<<>>} /\ e.cmd.keys[1] \in Key
    BY <2>1 DEF Command
  <2>2. /\ Clean(Mark(s.log, n, "COMMIT", 0)) /\ Clean(Mark(s.log, n, "PRE", 0))
        /\ Replay(Mark(s.log, n, "PRE", 0)) = s.db
        /\ Replay(Mark(s.log, n, "COMMIT", 0)) =
             IF e.cmd.op = "SET" THEN [s.db EXCEPT ![e.cmd.keys[1]] = e.cmd.val] ELSE s.db
    <3>1. n = Len(s.log) /\ Clean(s.log) /\ Replay(s.log) = s.db
      BY DEF Mapped
    <3> HIDE DEF n
    <3>2. /\ Clean(Mark(s.log, n, "COMMIT", 0))
          /\ Replay(Mark(s.log, n, "COMMIT", 0)) =
               IF "COMMIT" = "COMMIT" /\ s.log[n].cmd.op = "SET"
               THEN [Replay(s.log) EXCEPT ![s.log[n].cmd.keys[1]] = s.log[n].cmd.val]
               ELSE Replay(s.log)
      BY <1>1, <2>1, <3>1, MarkMapped
    <3>3. /\ Clean(Mark(s.log, n, "PRE", 0))
          /\ Replay(Mark(s.log, n, "PRE", 0)) =
               IF "PRE" = "COMMIT" /\ s.log[n].cmd.op = "SET"
               THEN [Replay(s.log) EXCEPT ![s.log[n].cmd.keys[1]] = s.log[n].cmd.val]
               ELSE Replay(s.log)
      BY <1>1, <2>1, <3>1, MarkMapped
    <3> QED
      BY <3>1, <3>2, <3>3
  <2> HIDE DEF n, e
  <2>3. CASE e.cmd.op = "GET"
    <3>1. CommitLog(s) = CommitGet(s)
      BY <1>3, <2>1, <2>3 DEF CommitLog
    <3>2. CommitLog(s).store = s \/ /\ CommitLog(s).store.db = s.db
                                    /\ CommitLog(s).store.log = Mark(s.log, n, "COMMIT", 0)
      BY <1>1, <3>1 DEF CommitGet, Refused, Applied
    <3> QED
      BY <2>2, <2>3, <3>2 DEF Mapped
  <2>4. CASE e.cmd.op = "SET"
    <3>1. CommitLog(s) = CommitSet(s)
      BY <1>3, <2>1, <2>4 DEF CommitLog
    <3>2. /\ CommitLog(s).store.db = [s.db EXCEPT ![e.cmd.keys[1]] = e.cmd.val]
          /\ CommitLog(s).store.log = Mark(s.log, n, "COMMIT", 0)
      BY <1>1, <2>1, <3>1 DEF CommitSet, Applied
    <3> QED
      BY <2>2, <2>4, <3>2 DEF Mapped
  <2>5. CASE e.cmd.op = "DEL"
    <3> DEFINE q    == ParseDelVal(s, e.cmd)
               miss == NotFound(s.db, q)
               f    == CHOOSE i \in miss : \A j \in miss : i <= j
               t    == CommitLog(s).store
    <3>1. CommitLog(s) = CommitDel(s)
      BY <1>3, <2>1, <2>5 DEF CommitLog
    <3>2. q \in Seq(Key) /\ DOMAIN q = 1 .. Len(q) /\ Len(q) \in Nat
      <4>1. Len(e.cmd.keys) - 1 \in 0 .. Len(e.cmd.keys) /\ 1 \in Nat \ {0}
        BY <2>a
      <4>2. Front(e.cmd.keys) \in Seq(Key)
        BY <2>a, <4>1, SliceType DEF Front
      <4>3. q \in Seq(Key)
        BY <1>1, <4>2, ConcatProperties DEF ParseDelVal
      <4> HIDE DEF q
      <4> QED
        BY <4>3
    <3>3. ~(\E k \in Key : t.db[k] = Absent /\ s.db[k] # Absent)
      BY DEF Clears
    <3>4. miss \subseteq 1 .. Len(q) /\ miss \subseteq Nat
      BY <3>2 DEF NotFound
    <3>5. 1 \notin miss /\ Len(q) > 0 => q[1] \in Key /\ s.db[q[1]] # Absent
      BY <3>2 DEF NotFound
    <3>6. CASE miss = {}
      <4>1. t.db = Erase(s.db, Range(q)) /\ t.log = Mark(s.log, n, "COMMIT", Len(q))
        BY <1>1, <2>1, <3>1, <3>6 DEF CommitDel, Applied
      <4>2. Len(q) = 0
        <5> SUFFICES ASSUME Len(q) # 0 PROVE FALSE
          OBVIOUS
        <5>1. Len(q) > 0 /\ 1 \in DOMAIN q
          BY <3>2
        <5>2. q[1] \in Range(q) /\ q[1] \in Key /\ s.db[q[1]] # Absent
          BY <3>5, <3>6, <5>1 DEF Range
        <5> HIDE DEF q, t
        <5>3. t.db[q[1]] = Absent
          BY <4>1, <5>2 DEF Erase
        <5> QED
          BY <3>3, <5>2, <5>3
      <4>3. Range(q) = {}
        BY <3>2, <4>2 DEF Range
      <4> HIDE DEF q, t
      <4>4. t.db = s.db
        BY <1>1, <4>1, <4>3 DEF Erase, Map
      <4>5. t.log = Mark(s.log, n, "COMMIT", 0)
        BY <4>1, <4>2
      <4> QED
        BY <2>2, <2>5, <4>4, <4>5 DEF Mapped, t
    <3>7. CASE miss # {}
      <4>1. f \in miss /\ \A j \in miss : f <= j
        <5>1. \E i \in miss : \A j \in miss : i <= j
          <6> HIDE DEF miss
          <6> QED
            BY <3>4, <3>7, LeastPosition
        <5> HIDE DEF miss
        <5> QED
          BY <5>1
      <4>2. t.db = Erase(s.db, Range(SubSeq(q, 1, f - 1))) /\ t.log = Mark(s.log, n, "PRE", f - 1)
        <5>1. CommitDel(s) = Refused([log  |-> Mark(s.log, n, "PRE", f - 1),
                    posi |-> n,
                    db   |-> Erase(s.db, Range(SubSeq(q, 1, f - 1))),
                    delq |-> SubSeq(q, f + 1, Len(q))])
          BY <1>1, <2>1, <3>7 DEF CommitDel
        <5> QED
          BY <3>1, <5>1 DEF Refused
      <4>a. f \in 1 .. Len(q) /\ f - 1 \in 0 .. Len(q) /\ 1 \in Nat \ {0}
        <5> HIDE DEF f, miss
        <5> QED
          BY <3>2, <3>4, <4>1
      <4> DEFINE u == SubSeq(q, 1, f - 1)
      <4>3. u \in Seq(Key) /\ Len(u) = f - 1 /\ DOMAIN u = 1 .. Len(u)
        <5> HIDE DEF q, f
        <5>1. SubSeq(q, 1, f - 1) \in Seq(Key) /\ Len(SubSeq(q, 1, f - 1)) = f - 1
          BY <3>2, <4>a, SliceType
        <5> QED
          BY <5>1
      <4>4. f = 1
        <5> SUFFICES ASSUME f # 1 PROVE FALSE
          OBVIOUS
        <5>1. 1 \notin miss /\ Len(q) > 0 /\ f - 1 >= 1
          <6> HIDE DEF f, miss, q
          <6> QED
            BY <3>2, <4>1, <4>a
        <5>2. u[1] = q[1]
          <6> HIDE DEF f, q
          <6> QED
            BY <3>2, <4>a, <5>1
        <5>3. q[1] \in Range(u) /\ q[1] \in Key /\ s.db[q[1]] # Absent
          <6>1. 1 \in DOMAIN u
            <7> HIDE DEF u, f
            <7> QED
              BY <4>3, <5>1
          <6>2. q[1] \in Range(u)
            <7> HIDE DEF u, q
            <7> QED
              BY <5>2, <6>1 DEF Range
          <6> QED
            BY <3>5, <5>1, <6>2
        <5> HIDE DEF q, t, u, f, miss
        <5>4. t.db[q[1]] = Absent
          BY <4>2, <5>3 DEF Erase, u
        <5> QED
          BY <3>3, <5>3, <5>4
      <4>5. Range(u) = {}
        <5> HIDE DEF u, f
        <5> QED
          BY <4>3, <4>4 DEF Range
      <4> HIDE DEF q, t, u, f, miss
      <4>6. t.db = s.db
        BY <1>1, <4>2, <4>5 DEF Erase, Map, u
      <4>7. t.log = Mark(s.log, n, "PRE", 0)
        BY <4>2, <4>4
      <4> QED
        BY <2>2, <4>6, <4>7 DEF Mapped, t
    <3> QED
      BY <3>6, <3>7
  <2> QED
    BY <2>a, <2>3, <2>4, <2>5
<1> QED
  BY <1>2, <1>3

\* rollbackLog takes the top entry out of the log; the map stays, and so does
\* the replay, for neither a committed SET nor a DEL that erased a key is
\* ever taken back.
LEMMA RollbackMapped ==
  ASSUME NEW s \in Store, s.posi = Len(s.log), Mapped(s), ~RollbackThrows(s),
         ~RollbackUndefined(s), ~CommittedOp(s, "GET")
  PROVE  Mapped(RollbackLog(s).store)
<1> DEFINE n == Len(s.log)
           e == s.log[n]
           t == RollbackLog(s).store
<1>1. s.log \in Seq(Entry) /\ s.posi = n /\ n \in Nat /\ s.db \in Map /\ s.delq \in Seq(Key)
  BY DEF Store, Map
<1>2. CASE n = 0
  <2>1. s.posi <= 0
    BY <1>1, <1>2
  <2> QED
    BY <2>1 DEF RollbackLog, Refused
<1>3. CASE n # 0
  <2>1. n > 0 /\ s.posi > 0 /\ ~(s.posi <= 0) /\ s.posi # 0
    BY <1>1, <1>3
  <2>2. Top(s) = e /\ e \in Entry /\ TopState(s) = e.state
    BY <1>1, <2>1 DEF Top, TopState
  <2>3. e.state \in {"PRE", "COMMIT"} /\ e.cmd \in Command /\ e.dels = 0
    BY <1>1, <2>1, <2>2 DEF Entry, Mapped, Clean
  <2>4. e.cmd.op \in {"SET", "GET", "DEL"} /\ e.cmd.keys \in Seq(Key) \ {<<>>}
    BY <2>3 DEF Command
  <2>5. /\ Front(s.log) \in Seq(Entry) /\ Len(Front(s.log)) = n - 1
        /\ s.log = Append(Front(s.log), e)
        /\ \A i \in 1 .. n - 1 : Front(s.log)[i] = s.log[i]
    BY <1>1, <2>1, LastEntry
  <2>6. e.state # "COMMIT" \/ e.cmd.op # "SET"
    BY <2>1, <2>2 DEF RollbackThrows, CommittedOp
  <2>7. Replay(Front(s.log)) = s.db /\ Clean(Front(s.log))
    <3>1. Replay(s.log) = ReplayStep(Replay(Front(s.log)), e)
      <4> HIDE DEF e
      <4> QED
        BY <2>2, <2>5, ReplayAppend
    <3>2. Replay(Front(s.log)) = Replay(s.log)
      BY <2>6, <3>1, PreparedAddsNothing
    <3>3. Clean(Front(s.log))
      BY <1>1, <2>5 DEF Clean, Mapped
    <3> QED
      BY <3>2, <3>3 DEF Mapped
  <2>8. t.log = Front(s.log) /\ t.db = s.db
    <3>1. CASE e.state = "PRE"
      BY <2>1, <2>2, <3>1 DEF RollbackLog, Pop
    <3>2. CASE e.state = "COMMIT" /\ e.cmd.op = "DEL"
      <4> DEFINE q == ParseDelVal(s, e.cmd)
      <4>1. CommittedOp(s, "DEL") /\ ~CommittedOp(s, "GET") /\ TopState(s) # "PRE"
        BY <2>1, <2>2, <3>2 DEF CommittedOp
      <4>2. RollbackLog(s) = RollbackDel(s)
        BY <2>1, <4>1 DEF RollbackLog
      <4>3. t.log = Front(s.log) /\ t.db = [k \in Key |-> IF k \in Range(q) THEN Empty ELSE s.db[k]]
        BY <2>2, <4>2 DEF RollbackDel, Pop
      <4>4. q \in Seq(Key)
        <5> HIDE DEF e
        <5>1. Len(e.cmd.keys) - 1 \in 0 .. Len(e.cmd.keys) /\ 1 \in Nat \ {0}
          BY <2>4
        <5>2. Front(e.cmd.keys) \in Seq(Key)
          BY <2>4, <5>1, SliceType DEF Front
        <5> QED
          BY <1>1, <5>2, ConcatProperties DEF ParseDelVal
      <4>5. ~(Len(q) > 0)
        BY <2>2, <2>3, <4>1 DEF RollbackUndefined
      <4>6. Range(q) = {}
        <5> HIDE DEF q
        <5>1. Len(q) = 0 /\ DOMAIN q = 1 .. Len(q)
          BY <4>4, <4>5
        <5> QED
          BY <5>1 DEF Range
      <4> HIDE DEF q
      <4> QED
        BY <1>1, <4>3, <4>6 DEF Map
    <3> QED
      BY <2>1, <2>2, <2>3, <2>4, <2>6, <3>1, <3>2 DEF CommittedOp
  <2> QED
    BY <2>7, <2>8 DEF Mapped
<1> QED
  BY <1>2, <1>3

\* Every step keeps map and log together.
LEMMA StepMapped ==
  ASSUME Inv, MapInv, [Next]_vars
  PROVE  MapInv'
<1> SUFFICES ASSUME drift' = 0, ~cleared'
             PROVE  Mapped(store)'
  BY DEF MapInv
<1>1. store \in Store /\ drift \in Nat /\ cleared \in BOOLEAN /\ store.posi \in Int
      /\ store.posi = Len(store.log) - drift
  BY DEF Inv, TypeOK, PosiDrift, Store
<1>a. drift = 0 => store.posi = Len(store.log)
  <2>1. Len(store.log) \in Nat
    BY <1>1 DEF Store
  <2> QED
    BY <1>1, <2>1
<1>b. ASSUME store' = store, drift' = drift, cleared' = cleared
      PROVE  Mapped(store)'
  BY <1>b DEF MapInv, Mapped, Clean
<1>2. CASE \E cmd \in Workload : Write(cmd)
  <2> PICK cmd \in Workload : Write(cmd)
    BY <1>2
  <2>1. store' = WriteLog(store, 0, cmd) /\ drift = 0 /\ ~cleared /\ cmd \in Command /\ 0 \in Nat
    BY LoggerConstants DEF Write
  <2>2. Mapped(WriteLog(store, 0, cmd))
    BY <1>1, <1>a, <2>1, WriteMapped DEF MapInv
  <2> QED
    BY <2>1, <2>2 DEF Mapped, Clean
<1>3. CASE Commit
  <2>1. store' = CommitLog(store).store /\ drift = 0 /\ ~cleared /\ ~Clears(store, CommitLog(store).store)
    BY <1>3 DEF Commit, Clears
  <2>2. Mapped(CommitLog(store).store)
    BY <1>1, <1>a, <2>1, CommitMapped DEF MapInv
  <2> QED
    BY <2>1, <2>2 DEF Mapped, Clean
<1>4. CASE Rollback
  <2>1. /\ store' = RollbackLog(store).store /\ ~cleared
        /\ ~RollbackThrows(store) /\ ~RollbackUndefined(store)
        /\ drift' = IF CommittedOp(store, "GET") THEN drift + 1 ELSE drift
    BY <1>4 DEF Rollback
  <2>2. drift = 0 /\ ~CommittedOp(store, "GET")
    BY <1>1, <2>1
  <2>3. Mapped(RollbackLog(store).store)
    BY <1>1, <1>a, <2>1, <2>2, RollbackMapped DEF MapInv
  <2> QED
    BY <2>1, <2>3 DEF Mapped, Clean
<1>5. CASE RollbackFails \/ Lost \/ UNCHANGED vars
  BY <1>b, <1>5 DEF RollbackFails, Lost, vars
<1> QED
  BY <1>2, <1>3, <1>4, <1>5 DEF Next

\* Until a committed GET has been rolled back or a DEL has erased a key, the
\* map is what the committed SETs of the log make it, for any keys, workload,
\* capacity and number of calls.
THEOREM MapFollowsLog == Spec => []MapIsReplay
<1>1. Init => MapInv
  <2>1. \A n \in 1 .. Len(<<>>) : FALSE
    OBVIOUS
  <2> QED
    BY <2>1, ReplayNone DEF Init, MapInv, Mapped, Clean, EmptyStore
<1>2. Inv /\ MapInv /\ [Next]_vars => MapInv'
  BY StepMapped
<1>3. MapInv => MapIsReplay
  BY DEF MapInv, Mapped, MapIsReplay
<1> QED
  BY <1>1, <1>2, <1>3, LoggerInvariance, PTL DEF Spec
=============================================================================

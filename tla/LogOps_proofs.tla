--------------------------- MODULE LogOps_proofs ----------------------------
(***************************************************************************)
(* What the operations of a Logger keep: they map a well-formed store to a *)
(* well-formed store, and posi stays within the vector except where a      *)
(* committed GET is rolled back.                                           *)
(***************************************************************************)
EXTENDS LogOps, SequenceTheorems, WellFoundedInduction, TLAPS

Map == [Key -> Value \cup {Empty, Absent}]

Result == [ok : BOOLEAN, ans : Value \cup {Empty}, store : Store]

\* A mark changes neither the length of the log nor the type of its entries.
LEMMA MarkType ==
  ASSUME NEW log \in Seq(Entry), NEW n \in Int, NEW st \in {"PRE", "COMMIT"}, NEW d \in Nat
  PROVE  Mark(log, n, st, d) \in Seq(Entry) /\ Len(Mark(log, n, st, d)) = Len(log)
<1> DEFINE new == [index |-> log[n].index, cmd |-> log[n].cmd,
                   state |-> st, dels |-> log[n].dels + d]
<1>1. CASE n \in 1 .. Len(log)
  <2>1. log[n] \in Entry
    BY <1>1
  <2>2. new \in Entry
    BY <2>1 DEF Entry
  <2> QED
    BY <2>2, <1>1 DEF Mark
<1>2. CASE n \notin 1 .. Len(log)
  <2>1. Mark(log, n, st, d) = log
    BY <1>2 DEF Mark
  <2> QED
    BY <2>1
<1> QED
  BY <1>1, <1>2

\* writeLog keeps the store well formed and its position readable.
LEMMA WriteLogType ==
  ASSUME NEW s \in Store, InRange(s), NEW index \in Nat, NEW cmd \in Command
  PROVE  WriteLog(s, index, cmd) \in Store /\ InRange(WriteLog(s, index, cmd))
<1>1. CASE ~CanWrite(s)
  BY <1>1 DEF WriteLog
<1>2. CASE CanWrite(s)
  <2> DEFINE grown == Append(s.log, NewEntry(index, cmd))
  <2>1. NewEntry(index, cmd) \in Entry
    BY DEF NewEntry, Entry
  <2>2. s.log \in Seq(Entry) /\ s.posi \in Int
    BY DEF Store
  <2>3. grown \in Seq(Entry) /\ Len(grown) = Len(s.log) + 1
    BY <2>1, <2>2
  <2> HIDE DEF grown
  <2>4. /\ Mark(grown, s.posi + 1, "PRE", 0) \in Seq(Entry)
        /\ Len(Mark(grown, s.posi + 1, "PRE", 0)) = Len(s.log) + 1
    <3>1. s.posi + 1 \in Int /\ 0 \in Nat /\ "PRE" \in {"PRE", "COMMIT"}
      BY <2>2
    <3> QED
      BY <2>3, <3>1, MarkType
  <2>5. WriteLog(s, index, cmd) =
          [log |-> Mark(grown, s.posi + 1, "PRE", 0), posi |-> s.posi + 1,
           db |-> s.db, delq |-> s.delq]
    BY <1>2 DEF WriteLog, grown
  <2>6. WriteLog(s, index, cmd) \in Store
    BY <2>2, <2>4, <2>5 DEF Store
  <2>7. InRange(WriteLog(s, index, cmd))
    BY <2>2, <2>4, <2>5 DEF InRange
  <2> QED
    BY <2>6, <2>7
<1> QED
  BY <1>1, <1>2

-----------------------------------------------------------------------------
\* The entry on top, read only when there is one.
LEMMA TopType ==
  ASSUME NEW s \in Store, InRange(s), s.posi # 0
  PROVE  /\ Top(s) \in Entry
         /\ Top(s).cmd \in Command
         /\ Top(s).cmd.keys \in Seq(Key) /\ Top(s).cmd.keys # <<>>
         /\ Top(s).cmd.keys[1] \in Key
         /\ Front(Top(s).cmd.keys) \in Seq(Key)
<1>1. s.log \in Seq(Entry) /\ s.posi \in 1 .. Len(s.log)
  BY DEF Store, InRange
<1>2. Top(s) \in Entry
  BY <1>1 DEF Top
<1>3. Top(s).cmd \in Command
  BY <1>2 DEF Entry
<1>4. Top(s).cmd.keys \in Seq(Key) /\ Top(s).cmd.keys # <<>>
  BY <1>3 DEF Command
<1>5. Top(s).cmd.keys[1] \in Key /\ Front(Top(s).cmd.keys) \in Seq(Key)
  BY <1>4 DEF Front
<1> QED
  BY <1>2, <1>3, <1>4, <1>5

\* A committed entry leaves the store well formed.
LEMMA AppliedType ==
  ASSUME NEW s \in Store, InRange(s), NEW db \in Map, NEW delq \in Seq(Key),
         NEW ans \in Value \cup {Empty}, NEW erased \in Nat
  PROVE  /\ Applied(s, db, delq, ans, erased) \in Result
         /\ InRange(Applied(s, db, delq, ans, erased).store)
<1> DEFINE log == Mark(s.log, s.posi, "COMMIT", erased)
<1>1. s.log \in Seq(Entry) /\ s.posi \in Int /\ s.posi \in 0 .. Len(s.log)
  BY DEF Store, InRange
<1>2. log \in Seq(Entry) /\ Len(log) = Len(s.log)
  BY <1>1, MarkType
<1> HIDE DEF log
<1>3. Applied(s, db, delq, ans, erased) =
        [ok |-> TRUE, ans |-> ans,
         store |-> [log |-> log, posi |-> s.posi, db |-> db, delq |-> delq]]
  BY DEF Applied, log
<1> QED
  BY <1>1, <1>2, <1>3 DEF Store, Result, InRange, Map

\* Dropping the last entry, or the first keys of a queue.
LEMMA SliceType ==
  ASSUME NEW S, NEW q \in Seq(S), NEW m \in Nat \ {0}, NEW n \in 0 .. Len(q)
  PROVE  SubSeq(q, m, n) \in Seq(S) /\ Len(SubSeq(q, m, n)) = IF m <= n THEN n - m + 1 ELSE 0
<1>1. \A i \in m .. n : q[i] \in S
  OBVIOUS
<1> QED
  BY <1>1, SubSeqProperties

\* Erasing keys yields a map.
LEMMA EraseType ==
  ASSUME NEW db \in Map, NEW ks
  PROVE  Erase(db, ks) \in Map
BY DEF Erase, Map

\* A set of positions has a first one.
LEMMA LeastPosition ==
  ASSUME NEW N \in SUBSET Nat, N # {}
  PROVE  \E n \in N : \A m \in N : n <= m
<1>1. PICK n \in N : \A m \in N : <<m, n>> \notin OpToRel(<, Nat)
  BY NatLessThanWellFounded, WFMin
<1>2. \A m \in N : <<m, n>> \notin {ss \in Nat \X Nat : ss[1] < ss[2]}
  BY <1>1 DEF OpToRel
<1>3. \A m \in N : ~(m < n)
  BY <1>2
<1> QED
  BY <1>3

\* A nonempty set of positions has a largest one.
LEMMA MaxPosition ==
  ASSUME NEW n \in Nat, NEW s \in SUBSET (1 .. n), s # {}
  PROVE  Max(s) \in s /\ \A m \in s : m <= Max(s)
<1> DEFINE Bounds == {b \in Nat : \A m \in s : m <= b}
<1>1. n \in Bounds
  OBVIOUS
<1>2. PICK b \in Bounds : \A c \in Bounds : b <= c
  BY <1>1, LeastPosition
<1>3. b \in s
  <2> SUFFICES ASSUME b \notin s PROVE FALSE
    OBVIOUS
  <2>1. PICK m \in s : TRUE
    OBVIOUS
  <2>2. b \in Nat /\ m \in Nat /\ m >= 1 /\ m <= b
    BY <1>2, <2>1
  <2>3. b - 1 \in Bounds
    BY <2>2
  <2> QED
    BY <1>2, <2>2, <2>3
<1>4. \A m \in s : b >= m
  BY <1>2
<1>5. \E x \in s : \A y \in s : x >= y
  BY <1>3, <1>4
<1> HIDE DEF Bounds
<1> QED
  BY <1>5 DEF Max

\* iter folds step over the sets of positions up to n: it is base at no
\* positions, and the step at the largest of any others.
FoldsTo(n, base, step, iter) ==
  /\ iter[{}] = base
  /\ \A s \in SUBSET (1 .. n) : s # {} => iter[s] = step[<<Max(s), iter[s \ {Max(s)}]>>]

\* Folding is a definition by recursion: there is such a function for every
\* step and every number of positions.
LEMMA FoldExists ==
  ASSUME NEW X, NEW base \in X, NEW step \in [Nat \X X -> X], NEW n \in Nat
  PROVE  \E iter \in [SUBSET (1 .. n) -> X] : FoldsTo(n, base, step, iter)
<1> DEFINE Folds(m, iter) == FoldsTo(m, base, step, iter)
           Bad == {m \in Nat : ~ \E iter \in [SUBSET (1 .. m) -> X] : Folds(m, iter)}
<1> USE DEF FoldsTo
<1>1. SUFFICES ASSUME Bad # {} PROVE FALSE
  OBVIOUS
<1>2. PICK m \in Bad : \A k \in Bad : m <= k
  BY <1>1, LeastPosition
<1>3. m # 0
  <2> SUFFICES ASSUME m = 0 PROVE FALSE
    OBVIOUS
  <2> DEFINE zero == [s \in SUBSET (1 .. 0) |-> base]
  <2>1. 1 .. 0 = {}
    OBVIOUS
  <2>2. zero \in [SUBSET (1 .. 0) -> X] /\ Folds(0, zero)
    BY <2>1
  <2> QED
    BY <1>2, <2>2
<1>4. m \in Nat /\ m - 1 \in Nat /\ m - 1 \notin Bad
  <2>1. m \in Nat
    OBVIOUS
  <2>2. m - 1 \in Nat /\ ~(m <= m - 1)
    BY <1>3, <2>1
  <2> HIDE DEF Bad
  <2> QED
    BY <1>2, <2>1, <2>2
<1>5. PICK old \in [SUBSET (1 .. m - 1) -> X] : Folds(m - 1, old)
  BY <1>4
<1> DEFINE iter == [s \in SUBSET (1 .. m) |->
                      IF m \in s THEN step[<<m, old[s \ {m}]>>] ELSE old[s]]
<1>6. \A s \in SUBSET (1 .. m) : m \notin s => s \in SUBSET (1 .. m - 1)
  BY <1>4
<1>7. \A s \in SUBSET (1 .. m) : s \ {m} \in SUBSET (1 .. m - 1)
  BY <1>4
<1>8. iter \in [SUBSET (1 .. m) -> X]
  <2> SUFFICES ASSUME NEW s \in SUBSET (1 .. m)
               PROVE  (IF m \in s THEN step[<<m, old[s \ {m}]>>] ELSE old[s]) \in X
    OBVIOUS
  <2>1. old[s \ {m}] \in X
    BY <1>5, <1>7
  <2>2. <<m, old[s \ {m}]>> \in Nat \X X
    BY <1>4, <2>1
  <2>3. m \notin s => old[s] \in X
    BY <1>5, <1>6
  <2> QED
    BY <2>2, <2>3
<1>9. iter[{}] = base
  BY <1>5
<1>10. ASSUME NEW s \in SUBSET (1 .. m), s # {}
       PROVE  iter[s] = step[<<Max(s), iter[s \ {Max(s)}]>>]
  <2>1. Max(s) \in s /\ \A k \in s : k <= Max(s)
    BY <1>4, <1>10, MaxPosition
  <2>2. CASE m \in s
    <3>1. Max(s) = m
      <4>1. Max(s) \in 1 .. m /\ m <= Max(s)
        BY <2>1, <2>2
      <4> QED
        BY <1>4, <4>1
    <3>2. iter[s \ {m}] = old[s \ {m}]
      BY <1>7
    <3> QED
      BY <2>2, <3>1, <3>2
  <2>3. CASE m \notin s
    <3>1. s \in SUBSET (1 .. m - 1)
      BY <1>6, <2>3
    <3>2. old[s] = step[<<Max(s), old[s \ {Max(s)}]>>]
      BY <1>5, <1>10, <3>1
    <3>3. iter[s] = old[s] /\ iter[s \ {Max(s)}] = old[s \ {Max(s)}]
      BY <2>3
    <3> QED
      BY <3>2, <3>3
  <2> QED
    BY <2>2, <2>3
<1>11. Folds(m, iter)
  BY <1>9, <1>10
<1> QED
  BY <1>2, <1>8, <1>11

\* A refused call hands back a well-formed store.
LEMMA RefusedType ==
  ASSUME NEW s \in Store, InRange(s)
  PROVE  Refused(s) \in Result /\ InRange(Refused(s).store)
BY DEF Refused, Result

\* Committing a GET yields a well formed result.
LEMMA CommitGetType ==
  ASSUME NEW s \in Store, InRange(s), s.posi # 0
  PROVE  CommitGet(s) \in Result /\ InRange(CommitGet(s).store)
<1> DEFINE v == s.db[Top(s).cmd.keys[1]]
<1>1. s.db \in Map /\ s.delq \in Seq(Key) /\ v \in Value \cup {Empty, Absent} /\ 0 \in Nat
  BY TopType DEF Store, Map
<1>2. CommitGet(s) = IF v = Absent THEN Refused(s) ELSE Applied(s, s.db, s.delq, v, 0)
  BY DEF CommitGet
<1> HIDE DEF v
<1>3. CASE v = Absent
  BY <1>2, <1>3, RefusedType
<1>4. CASE v # Absent
  <2>1. v \in Value \cup {Empty}
    BY <1>1, <1>4
  <2> QED
    BY <1>1, <1>2, <1>4, <2>1, AppliedType
<1> QED
  BY <1>3, <1>4

\* Committing a SET yields a well formed result.
LEMMA CommitSetType ==
  ASSUME NEW s \in Store, InRange(s), s.posi # 0
  PROVE  CommitSet(s) \in Result /\ InRange(CommitSet(s).store)
<1> DEFINE c == Top(s).cmd
           db == [s.db EXCEPT ![c.keys[1]] = c.val]
<1>1. c.val \in Value \cup {Empty}
  BY TopType DEF Command
<1>2. db \in Map /\ s.delq \in Seq(Key) /\ Empty \in Value \cup {Empty} /\ 0 \in Nat
  BY <1>1, TopType DEF Store, Map
<1>3. CommitSet(s) = Applied(s, db, s.delq, Empty, 0)
  BY DEF CommitSet
<1> HIDE DEF db
<1> QED
  BY <1>2, <1>3, AppliedType

\* Committing a DEL yields a well formed result, also when it stops half way.
LEMMA CommitDelType ==
  ASSUME NEW s \in Store, InRange(s), s.posi # 0
  PROVE  CommitDel(s) \in Result /\ InRange(CommitDel(s).store)
<1> DEFINE q    == ParseDelVal(s, Top(s).cmd)
           miss == NotFound(s.db, q)
           f    == CHOOSE n \in miss : \A m \in miss : n <= m
           left == [log  |-> Mark(s.log, s.posi, "PRE", f - 1),
                    posi |-> s.posi,
                    db   |-> Erase(s.db, Range(SubSeq(q, 1, f - 1))),
                    delq |-> SubSeq(q, f + 1, Len(q))]
<1>1. /\ s.log \in Seq(Entry) /\ s.posi \in Int /\ s.posi \in 0 .. Len(s.log)
      /\ s.db \in Map /\ s.delq \in Seq(Key)
  BY DEF Store, InRange, Map
<1>2. q \in Seq(Key)
  BY <1>1, TopType DEF ParseDelVal
<1>3. CommitDel(s) = IF miss = {} THEN Applied(s, Erase(s.db, Range(q)), <<>>, Empty, Len(q))
                     ELSE Refused(left)
  BY DEF CommitDel
<1>4. miss \subseteq DOMAIN q
  BY DEF NotFound
<1> HIDE DEF q, miss
<1>5. CASE miss = {}
  <2>1. /\ Erase(s.db, Range(q)) \in Map /\ <<>> \in Seq(Key)
        /\ Empty \in Value \cup {Empty} /\ Len(q) \in Nat
    BY <1>1, <1>2, EraseType
  <2> QED
    BY <1>3, <1>5, <2>1, AppliedType
<1>6. CASE miss # {}
  <2>1. miss \in SUBSET Nat
    BY <1>2, <1>4
  <2>2. f \in miss
    BY <1>6, <2>1, LeastPosition
  <2>3. f \in 1 .. Len(q)
    BY <1>2, <1>4, <2>2
  <2> HIDE DEF f
  <2>4. f - 1 \in Nat /\ f - 1 \in 0 .. Len(q) /\ 1 \in Nat \ {0} /\ f + 1 \in Nat \ {0}
        /\ Len(q) \in 0 .. Len(q)
    BY <1>2, <2>3
  <2>5. SubSeq(q, f + 1, Len(q)) \in Seq(Key)
    BY <1>2, <2>4, SliceType
  <2>6. Mark(s.log, s.posi, "PRE", f - 1) \in Seq(Entry) /\ Len(Mark(s.log, s.posi, "PRE", f - 1)) = Len(s.log)
    BY <1>1, <2>4, MarkType
  <2>7. Erase(s.db, Range(SubSeq(q, 1, f - 1))) \in Map
    BY <1>1, EraseType
  <2>8. left \in Store /\ InRange(left)
    BY <1>1, <2>5, <2>6, <2>7 DEF Store, Map, InRange
  <2> HIDE DEF left
  <2> QED
    BY <1>3, <1>6, <2>8, RefusedType
<1> QED
  BY <1>5, <1>6

\* commitLog keeps the store well formed and its position readable, whether
\* or not it succeeds.
LEMMA CommitLogType ==
  ASSUME NEW s \in Store, InRange(s)
  PROVE  CommitLog(s) \in Result /\ InRange(CommitLog(s).store)
<1>1. CASE s.posi = 0 \/ TopState(s) = "COMMIT"
  <2>1. CommitLog(s) = Refused(s)
    BY <1>1 DEF CommitLog
  <2> QED
    BY <2>1, RefusedType
<1>2. CASE s.posi # 0 /\ TopState(s) # "COMMIT"
  <2>1. TopState(s) = "PRE"
    BY <1>2, TopType DEF TopState, Entry
  <2>2. CASE Top(s).cmd.op = "GET"
    BY <1>2, <2>1, <2>2, CommitGetType DEF CommitLog
  <2>3. CASE Top(s).cmd.op = "SET"
    BY <1>2, <2>1, <2>3, CommitSetType DEF CommitLog
  <2>4. CASE Top(s).cmd.op \notin {"GET", "SET"}
    <3>1. CommitLog(s) = CommitDel(s)
      BY <1>2, <2>1, <2>4 DEF CommitLog
    <3> QED
      BY <1>2, <3>1, CommitDelType
  <2> QED
    BY <2>2, <2>3, <2>4
<1> QED
  BY <1>1, <1>2
-----------------------------------------------------------------------------
\* Popping n of an entry leaves a well-formed store.
LEMMA PopType ==
  ASSUME NEW s \in Store, s.posi \in 1 .. Len(s.log),
         NEW n \in {1, 2}, NEW db \in Map, NEW delq \in Seq(Key)
  PROVE  /\ Pop(s, n, db, delq) \in Result
         /\ Pop(s, n, db, delq).store.posi = s.posi - n
         /\ Len(Pop(s, n, db, delq).store.log) = Len(s.log) - 1
<1> DEFINE front == SubSeq(s.log, 1, Len(s.log) - 1)
<1>1. s.log \in Seq(Entry) /\ s.posi \in Int
  BY DEF Store
<1>2. Len(s.log) - 1 \in 0 .. Len(s.log) /\ 1 \in Nat \ {0}
  BY <1>1
<1>3. front \in Seq(Entry) /\ Len(front) = Len(s.log) - 1
  BY <1>1, <1>2, SliceType
<1>4. Pop(s, n, db, delq) =
        [ok |-> TRUE, ans |-> Empty,
         store |-> [log |-> front, posi |-> s.posi - n, db |-> db, delq |-> delq]]
  BY DEF Pop, Front
<1> HIDE DEF front
<1> QED
  BY <1>1, <1>3, <1>4 DEF Result, Store, Map

\* rollbackLog, when it comes back, keeps the store well formed.  The
\* position stays readable or becomes -1, the latter only by a committed GET.
LEMMA RollbackLogType ==
  ASSUME NEW s \in Store, InRange(s), ~RollbackThrows(s)
  PROVE  /\ RollbackLog(s) \in Result
         /\ RollbackLog(s).store.posi >= 0 => InRange(RollbackLog(s).store)
<1>1. /\ s.log \in Seq(Entry) /\ s.posi \in Int /\ s.posi \in 0 .. Len(s.log)
      /\ s.db \in Map /\ s.delq \in Seq(Key)
  BY DEF Store, InRange, Map
<1>2. CASE s.posi = 0
  <2>1. s.posi <= 0 /\ ~(s.posi > 0)
    BY <1>2
  <2>2. RollbackLog(s) = Refused(s)
    BY <2>1 DEF RollbackLog, CommittedOp
  <2> QED
    BY <2>2, RefusedType
<1>3. CASE s.posi # 0
  <2>1. s.posi \in 1 .. Len(s.log) /\ ~(s.posi <= 0) /\ s.posi > 0
    BY <1>1, <1>3
  <2>2. CASE TopState(s) = "PRE"
    <3>1. RollbackLog(s) = Pop(s, 1, s.db, s.delq)
      BY <2>1, <2>2 DEF RollbackLog, CommittedOp
    <3>2. RollbackLog(s) \in Result
      BY <1>1, <2>1, <3>1, PopType
    <3>3. RollbackLog(s).store.posi = s.posi - 1 /\ Len(RollbackLog(s).store.log) = Len(s.log) - 1
      BY <1>1, <2>1, <3>1, PopType
    <3> QED
      BY <1>1, <2>1, <3>2, <3>3 DEF InRange
  <2>3. CASE CommittedOp(s, "GET")
    <3>1. RollbackLog(s) = Pop(s, 2, s.db, s.delq)
      BY <2>1, <2>3 DEF RollbackLog, CommittedOp
    <3>2. RollbackLog(s) \in Result
      BY <1>1, <2>1, <3>1, PopType
    <3>3. RollbackLog(s).store.posi = s.posi - 2 /\ Len(RollbackLog(s).store.log) = Len(s.log) - 1
      BY <1>1, <2>1, <3>1, PopType
    <3> QED
      BY <1>1, <2>1, <3>2, <3>3 DEF InRange
  <2>4. CASE TopState(s) # "PRE" /\ ~CommittedOp(s, "GET")
    <3> DEFINE db == [k \in Key |-> IF k \in Range(ParseDelVal(s, Top(s).cmd)) THEN Empty ELSE s.db[k]]
    <3>1. RollbackLog(s) = RollbackDel(s)
      BY <2>1, <2>4 DEF RollbackLog
    <3>2. RollbackLog(s) = Pop(s, 1, db, <<>>)
      BY <3>1 DEF RollbackDel
    <3>3. db \in Map /\ <<>> \in Seq(Key) /\ 1 \in {1, 2}
      BY <1>1 DEF Map
    <3> HIDE DEF db
    <3>4. /\ Pop(s, 1, db, <<>>) \in Result
          /\ Pop(s, 1, db, <<>>).store.posi = s.posi - 1
          /\ Len(Pop(s, 1, db, <<>>).store.log) = Len(s.log) - 1
      BY <2>1, <3>3, PopType, Zenon
    <3> QED
      BY <1>1, <2>1, <3>2, <3>4 DEF InRange
  <2> QED
    BY <2>2, <2>3, <2>4
<1> QED
  BY <1>2, <1>3

\* What getNewLogIndex, getLog and the entry on top return.
LEMMA NewLogIndexType ==
  ASSUME NEW s \in Store, InRange(s)
  PROVE  NewLogIndex(s) \in Nat
<1>1. CASE s.posi = 0
  BY <1>1 DEF NewLogIndex
<1>2. CASE s.posi # 0
  BY <1>2, TopType DEF NewLogIndex, Entry
<1> QED
  BY <1>1, <1>2

\* getLog within the vector yields an entry.
LEMMA LogAtType ==
  ASSUME NEW s \in Store, NEW n, HasLog(s, n)
  PROVE  LogAt(s, n) \in Entry
BY DEF Store, HasLog, LogAt

\* The store of a node that starts is well formed.
LEMMA EmptyStoreType == EmptyStore \in Store /\ InRange(EmptyStore)
BY DEF EmptyStore, Store, InRange
-----------------------------------------------------------------------------
\* What the operations leave alone.  Same(s, t): position and length are kept,
\* and so is every entry except the one on top.
Same(s, t) ==
  /\ t.posi = s.posi
  /\ Len(t.log) = Len(s.log)
  /\ \A n \in 1 .. Len(s.log) : n # s.posi => t.log[n] = s.log[n]

\* Marking an entry leaves the others alone.
LEMMA MarkSame ==
  ASSUME NEW log \in Seq(Entry), NEW n \in Int, NEW st, NEW d
  PROVE  \A i \in 1 .. Len(log) : i # n => Mark(log, n, st, d)[i] = log[i]
BY DEF Mark

\* A successful commit changes the entry on top only.
LEMMA AppliedSame ==
  ASSUME NEW s \in Store, NEW db, NEW delq, NEW ans, NEW erased \in Nat
  PROVE  Same(s, Applied(s, db, delq, ans, erased).store)
<1> DEFINE log == Mark(s.log, s.posi, "COMMIT", erased)
<1>1. s.log \in Seq(Entry) /\ s.posi \in Int
  BY DEF Store
<1>2. Len(log) = Len(s.log) /\ \A i \in 1 .. Len(s.log) : i # s.posi => log[i] = s.log[i]
  BY <1>1, MarkType, MarkSame
<1>3. /\ Applied(s, db, delq, ans, erased).store.log = log
      /\ Applied(s, db, delq, ans, erased).store.posi = s.posi
  BY DEF Applied
<1> HIDE DEF log
<1> QED
  BY <1>2, <1>3 DEF Same

\* So does committing a DEL, successful or not.
LEMMA CommitDelSame ==
  ASSUME NEW s \in Store, InRange(s), s.posi # 0
  PROVE  Same(s, CommitDel(s).store)
<1> DEFINE q    == ParseDelVal(s, Top(s).cmd)
           miss == NotFound(s.db, q)
           f    == CHOOSE n \in miss : \A m \in miss : n <= m
           log  == Mark(s.log, s.posi, "PRE", f - 1)
           left == [log |-> log, posi |-> s.posi,
                    db   |-> Erase(s.db, Range(SubSeq(q, 1, f - 1))),
                    delq |-> SubSeq(q, f + 1, Len(q))]
<1>1. s.log \in Seq(Entry) /\ s.posi \in Int /\ s.delq \in Seq(Key)
  BY DEF Store
<1>2. q \in Seq(Key)
  BY <1>1, TopType DEF ParseDelVal
<1>3. CommitDel(s) = IF miss = {} THEN Applied(s, Erase(s.db, Range(q)), <<>>, Empty, Len(q))
                     ELSE Refused(left)
  BY DEF CommitDel
<1>4. miss \subseteq DOMAIN q
  BY DEF NotFound
<1> HIDE DEF q, miss
<1>5. CASE miss = {}
  BY <1>2, <1>3, <1>5, AppliedSame
<1>6. CASE miss # {}
  <2>1. miss \in SUBSET Nat
    BY <1>2, <1>4
  <2>2. f \in miss
    BY <1>6, <2>1, LeastPosition
  <2>3. f - 1 \in Nat
    BY <1>2, <1>4, <2>2
  <2> HIDE DEF f
  <2>4. Len(log) = Len(s.log) /\ \A i \in 1 .. Len(s.log) : i # s.posi => log[i] = s.log[i]
    BY <1>1, <2>3, MarkType, MarkSame
  <2> HIDE DEF log
  <2>5. CommitDel(s).store.log = log /\ CommitDel(s).store.posi = s.posi
    BY <1>3, <1>6 DEF Refused
  <2> QED
    BY <2>4, <2>5 DEF Same
<1> QED
  BY <1>5, <1>6

\* commitLog touches the entry on top only.
LEMMA CommitLogSame ==
  ASSUME NEW s \in Store, InRange(s)
  PROVE  Same(s, CommitLog(s).store)
<1>1. Same(s, Refused(s).store)
  BY DEF Same, Refused
<1>2. CASE s.posi = 0 \/ TopState(s) = "COMMIT"
  BY <1>1, <1>2 DEF CommitLog
<1>3. CASE s.posi # 0 /\ TopState(s) # "COMMIT"
  <2>1. TopState(s) = "PRE"
    BY <1>3, TopType DEF TopState, Entry
  <2>2. 0 \in Nat
    OBVIOUS
  <2>3. CASE Top(s).cmd.op = "GET"
    <3>1. CommitLog(s) = CommitGet(s)
      BY <1>3, <2>1, <2>3 DEF CommitLog
    <3> QED
      BY <1>1, <2>2, <3>1, AppliedSame DEF CommitGet
  <2>4. CASE Top(s).cmd.op = "SET"
    <3>1. CommitLog(s) = CommitSet(s)
      BY <1>3, <2>1, <2>4 DEF CommitLog
    <3> QED
      BY <2>2, <3>1, AppliedSame DEF CommitSet
  <2>5. CASE Top(s).cmd.op \notin {"GET", "SET"}
    <3>1. CommitLog(s) = CommitDel(s)
      BY <1>3, <2>1, <2>5 DEF CommitLog
    <3> QED
      BY <1>3, <3>1, CommitDelSame
  <2> QED
    BY <2>3, <2>4, <2>5
<1> QED
  BY <1>2, <1>3

\* rollbackLog refuses on an empty log, and otherwise drops the last entry of
\* the vector and moves posi back once, or twice for a committed GET.
LEMMA RollbackLogSame ==
  ASSUME NEW s \in Store, InRange(s), ~RollbackThrows(s)
  PROVE  \/ s.posi = 0 /\ ~CommittedOp(s, "GET") /\ RollbackLog(s) = Refused(s)
         \/ /\ s.posi > 0
            /\ RollbackLog(s).ok
            /\ RollbackLog(s).store.log = Front(s.log)
            /\ RollbackLog(s).store.posi = s.posi - (IF CommittedOp(s, "GET") THEN 2 ELSE 1)
<1>1. s.posi \in Int /\ s.posi \in 0 .. Len(s.log)
  BY DEF Store, InRange
<1>2. CASE s.posi = 0
  <2>1. s.posi <= 0 /\ ~(s.posi > 0)
    BY <1>2
  <2> QED
    BY <1>2, <2>1 DEF RollbackLog, CommittedOp
<1>3. CASE s.posi # 0
  <2>1. ~(s.posi <= 0) /\ s.posi > 0
    BY <1>1, <1>3
  <2>2. CASE TopState(s) = "PRE"
    <3>1. RollbackLog(s) = Pop(s, 1, s.db, s.delq) /\ ~CommittedOp(s, "GET")
      BY <2>1, <2>2 DEF RollbackLog, CommittedOp
    <3> QED
      BY <2>1, <3>1 DEF Pop
  <2>3. CASE CommittedOp(s, "GET")
    <3>1. RollbackLog(s) = Pop(s, 2, s.db, s.delq)
      BY <2>1, <2>3 DEF RollbackLog, CommittedOp
    <3> QED
      BY <2>1, <2>3, <3>1 DEF Pop
  <2>4. CASE TopState(s) # "PRE" /\ ~CommittedOp(s, "GET")
    <3>1. \E db : RollbackLog(s) = Pop(s, 1, db, <<>>)
      BY <2>1, <2>4 DEF RollbackLog, RollbackDel
    <3> QED
      BY <2>1, <2>4, <3>1 DEF Pop
  <2> QED
    BY <2>2, <2>3, <2>4
<1> QED
  BY <1>2, <1>3

\* Two logs are the same when they have the same entries.
LEMMA SameEntries ==
  ASSUME NEW p \in Seq(Entry), NEW q \in Seq(Entry), NEW n \in Nat, Len(p) = n, Len(q) = n,
         \A i \in 1 .. n : p[i] = q[i]
  PROVE  p = q
BY SeqEqual

\* A log that is not empty is the log below its last entry and that entry.
LEMMA LastEntry ==
  ASSUME NEW q \in Seq(Entry), NEW n \in Nat, Len(q) = n, n > 0
  PROVE  /\ Front(q) \in Seq(Entry) /\ Len(Front(q)) = n - 1
         /\ \A m \in 1 .. n - 1 : Front(q)[m] = q[m]
         /\ q[n] \in Entry
         /\ q = Append(Front(q), q[n])
<1>1. Front(q) = SubSeq(q, 1, n - 1) /\ n - 1 \in 0 .. Len(q) /\ n - 1 \in Int /\ 1 \in Nat \ {0}
  BY DEF Front
<1>2. Front(q) \in Seq(Entry) /\ Len(Front(q)) = n - 1
  BY <1>1, SliceType
<1>3. \A i \in 1 .. n - 1 : q[i] \in Entry
  OBVIOUS
<1>4. \A i \in 1 .. (n - 1) - 1 + 1 : SubSeq(q, 1, n - 1)[i] = q[1 + i - 1]
  BY <1>1, <1>3, SubSeqProperties
<1>5. \A m \in 1 .. n - 1 : Front(q)[m] = q[m]
  <2> TAKE m \in 1 .. n - 1
  <2>1. m \in 1 .. (n - 1) - 1 + 1 /\ 1 + m - 1 = m
    OBVIOUS
  <2> QED
    BY <1>1, <1>4, <2>1
<1>6. q[n] \in Entry
  OBVIOUS
<1>7. q = Append(Front(q), q[n])
  <2> DEFINE p == Append(Front(q), q[n])
  <2>1. p \in Seq(Entry) /\ Len(p) = n /\ \A m \in 1 .. n : p[m] = IF m = n THEN q[n] ELSE Front(q)[m]
    BY <1>2, <1>6
  <2>2. \A m \in 1 .. n : p[m] = q[m]
    BY <1>5, <2>1
  <2> HIDE DEF p
  <2>3. p = q
    BY <2>1, <2>2, SameEntries
  <2> QED
    BY <2>3 DEF p
<1> QED
  BY <1>2, <1>5, <1>6, <1>7

\* An entry with another state and more keys erased.
Marked(e, st, d) == [index |-> e.index, cmd |-> e.cmd, state |-> st, dels |-> e.dels + d]

\* Marking the last entry replaces it on the log below.
LEMMA MarkLast ==
  ASSUME NEW q \in Seq(Entry), NEW e \in Entry, NEW st \in {"PRE", "COMMIT"}, NEW d \in Nat,
         NEW n \in Nat, n = Len(q) + 1
  PROVE  /\ Marked(e, st, d) \in Entry
         /\ Mark(Append(q, e), n, st, d) = Append(q, Marked(e, st, d))
<1> DEFINE p == Append(q, e)
           m == Marked(e, st, d)
<1>1. n \in Nat /\ Len(q) = n - 1 /\ p \in Seq(Entry) /\ Len(p) = n /\ n \in 1 .. Len(p) /\ p[n] = e
  OBVIOUS
<1>2. m \in Entry
  BY DEF Marked, Entry
<1>3. Mark(p, n, st, d) = [p EXCEPT ![n] = m]
  BY <1>1 DEF Mark, Marked
<1>4. \A i \in 1 .. n - 1 : p[i] = q[i]
  BY <1>1
<1> HIDE DEF p, m
<1>5. /\ [p EXCEPT ![n] = m] \in Seq(Entry) /\ Len([p EXCEPT ![n] = m]) = n
      /\ \A i \in 1 .. n : [p EXCEPT ![n] = m][i] = IF i = n THEN m ELSE p[i]
  BY <1>1, <1>2, ExceptSeq
<1>6. Append(q, m) \in Seq(Entry) /\ Len(Append(q, m)) = n
      /\ \A i \in 1 .. n : Append(q, m)[i] = IF i = n THEN m ELSE q[i]
  BY <1>1, <1>2
<1>7. \A i \in 1 .. n : [p EXCEPT ![n] = m][i] = Append(q, m)[i]
  BY <1>4, <1>5, <1>6
<1>8. [p EXCEPT ![n] = m] = Append(q, m)
  BY <1>1, <1>5, <1>6, <1>7, SameEntries
<1> QED
  BY <1>2, <1>3, <1>8 DEF p, m
-----------------------------------------------------------------------------
\* t is s with one more entry on top, which is not committed.
Above(t, s) == t.posi > 0 /\ TopState(t) = "PRE" /\ RollbackLog(t).store = s

\* Rolling such an entry back succeeds, and the rest of the store is the one
\* under it.
LEMMA AboveFacts ==
  ASSUME NEW t \in Store, NEW s, t.posi = Len(t.log), Above(t, s)
  PROVE  /\ RollbackLog(t).ok /\ ~RollbackThrows(t) /\ ~RollbackUndefined(t)
         /\ t.posi \in Nat /\ s.posi = t.posi - 1 /\ Len(s.log) = t.posi - 1
         /\ s.db = t.db /\ s.delq = t.delq
         /\ \A n \in 1 .. t.posi - 1 : s.log[n] = t.log[n]
         /\ t.log[t.posi].state = "PRE"
<1>1. t.log \in Seq(Entry) /\ t.posi \in Nat /\ t.posi > 0
  BY DEF Store, Above
<1>2. TopState(t) = "PRE" /\ TopState(t) = t.log[t.posi].state
  BY <1>1 DEF Above, TopState, Top
<1>3. \A op : ~CommittedOp(t, op)
  BY <1>2 DEF CommittedOp
<1>4. RollbackLog(t) = Pop(t, 1, t.db, t.delq)
  BY <1>1, <1>2, <1>3 DEF RollbackLog
<1>5. s = Pop(t, 1, t.db, t.delq).store
  BY <1>4 DEF Above
<1>6. s.log = Front(t.log) /\ s.posi = t.posi - 1 /\ s.db = t.db /\ s.delq = t.delq
  BY <1>5 DEF Pop
<1>7. Len(Front(t.log)) = t.posi - 1 /\ \A n \in 1 .. t.posi - 1 : Front(t.log)[n] = t.log[n]
  BY <1>1, LastEntry
<1> QED
  BY <1>1, <1>2, <1>3, <1>4, <1>6, <1>7 DEF Pop, RollbackThrows, RollbackUndefined

\* writeLog puts such an entry on a log that has room.
LEMMA WrittenAbove ==
  ASSUME NEW s \in Store, s.posi = Len(s.log), CanWrite(s), NEW i \in Nat, NEW c \in Command
  PROVE  /\ WriteLog(s, i, c) \in Store /\ Above(WriteLog(s, i, c), s)
         /\ WriteLog(s, i, c).posi = s.posi + 1 /\ Len(WriteLog(s, i, c).log) = s.posi + 1
         /\ Top(WriteLog(s, i, c)).cmd = c /\ NewLogIndex(WriteLog(s, i, c)) = i
         /\ WriteLog(s, i, c).db = s.db
<1> DEFINE e == NewEntry(i, c)
           t == WriteLog(s, i, c)
           n == s.posi + 1
<1>1. s.log \in Seq(Entry) /\ s.posi \in Nat /\ n \in Nat /\ n = Len(s.log) + 1
  BY DEF Store
<1>2. e \in Entry
  BY DEF NewEntry, Entry
<1>3. Marked(e, "PRE", 0) = e
  BY DEF Marked, NewEntry
<1>4. "PRE" \in {"PRE", "COMMIT"} /\ 0 \in Nat
  OBVIOUS
<1>5. Mark(Append(s.log, e), n, "PRE", 0) = Append(s.log, e)
  <2> HIDE DEF e, n
  <2>1. Mark(Append(s.log, e), n, "PRE", 0) = Append(s.log, Marked(e, "PRE", 0))
    BY <1>1, <1>2, <1>4, MarkLast
  <2> QED
    BY <1>3, <2>1
<1>6. t.log = Append(s.log, e) /\ t.posi = n /\ t.db = s.db /\ t.delq = s.delq
      /\ t = [log |-> Append(s.log, e), posi |-> n, db |-> s.db, delq |-> s.delq]
  BY <1>5 DEF WriteLog
<1> HIDE DEF e, t
<1>7. /\ Append(s.log, e) \in Seq(Entry) /\ Len(Append(s.log, e)) = n
      /\ Append(s.log, e)[n] = e /\ \A m \in 1 .. n - 1 : Append(s.log, e)[m] = s.log[m]
  BY <1>1, <1>2
<1>8. Front(Append(s.log, e)) = s.log
  <2>0. n > 0
    BY <1>1
  <2>1. /\ Front(Append(s.log, e)) \in Seq(Entry) /\ Len(Front(Append(s.log, e))) = n - 1
        /\ \A m \in 1 .. n - 1 : Front(Append(s.log, e))[m] = Append(s.log, e)[m]
    <3> HIDE DEF n
    <3> QED
      BY <1>1, <1>7, <2>0, LastEntry
  <2>2. n - 1 \in Nat /\ Len(s.log) = n - 1
    BY <1>1
  <2>3. \A m \in 1 .. n - 1 : Front(Append(s.log, e))[m] = s.log[m]
    BY <1>7, <2>1
  <2> HIDE DEF n
  <2> QED
    BY <1>1, <2>1, <2>2, <2>3, SameEntries
<1>9. t \in Store
  BY <1>1, <1>6, <1>7 DEF Store
<1>10. t.posi > 0 /\ Top(t) = e
  BY <1>1, <1>6, <1>7 DEF Top
<1>11. e.state = "PRE" /\ e.index = i /\ e.cmd = c
  BY DEF e, NewEntry
<1>12. RollbackLog(t).store = s
  <2>1. TopState(t) = "PRE"
    BY <1>10, <1>11 DEF TopState
  <2>2. RollbackLog(t) = Pop(t, 1, t.db, t.delq)
    <3>1. \A op : ~CommittedOp(t, op)
      BY <2>1 DEF CommittedOp
    <3>2. t.posi \in Nat
      BY <1>1, <1>6
    <3> QED
      BY <1>10, <2>1, <3>1, <3>2 DEF RollbackLog
  <2>3. RollbackLog(t).store = [log |-> s.log, posi |-> s.posi, db |-> s.db, delq |-> s.delq]
    BY <1>1, <1>6, <1>8, <2>2 DEF Pop
  <2> QED
    BY <2>3 DEF Store
<1> QED
  BY <1>1, <1>6, <1>7, <1>9, <1>10, <1>11, <1>12 DEF Above, TopState, NewLogIndex, t

\* Committing a SET or a GET on top: a SET always succeeds and stores its
\* value, a GET succeeds when the key is there and answers its value.  The
\* entry on top is marked, and a refusal changes nothing.
LEMMA CommitTop ==
  ASSUME NEW t \in Store, t.posi = Len(t.log), t.posi > 0, TopState(t) = "PRE",
         Top(t).cmd.op \in {"SET", "GET"}
  PROVE  /\ CommitLog(t) \in Result
         /\ ~CommitLog(t).ok => CommitLog(t).store = t /\ Top(t).cmd.op = "GET"
         /\ CommitLog(t).ok =>
              /\ CommitLog(t).store.log[t.posi].state = "COMMIT"
              /\ Top(t).cmd.op = "SET" =>
                   /\ CommitLog(t).ans = Empty
                   /\ CommitLog(t).store.db = [t.db EXCEPT ![Top(t).cmd.keys[1]] = Top(t).cmd.val]
              /\ Top(t).cmd.op = "GET" =>
                   /\ CommitLog(t).ans = t.db[Top(t).cmd.keys[1]]
                   /\ t.db[Top(t).cmd.keys[1]] # Absent
                   /\ CommitLog(t).store.db = t.db
         /\ CommitLog(t).store.posi = t.posi /\ Len(CommitLog(t).store.log) = t.posi
         /\ \A n \in 1 .. t.posi - 1 : CommitLog(t).store.log[n] = t.log[n]
         /\ CommitLog(t).store.log[t.posi].index = t.log[t.posi].index
         /\ CommitLog(t).store.log[t.posi].cmd = t.log[t.posi].cmd
<1> DEFINE n == t.posi
           c == Top(t).cmd
<1>1. t.log \in Seq(Entry) /\ n \in Nat /\ n > 0 /\ Len(t.log) = n /\ n \in 1 .. n /\ InRange(t)
  BY DEF Store, InRange
<1>2. CommitLog(t) \in Result
  BY <1>1, CommitLogType
<1>3. Same(t, CommitLog(t).store)
  BY <1>1, CommitLogSame
<1>4. /\ CommitLog(t).store.posi = t.posi /\ Len(CommitLog(t).store.log) = t.posi
      /\ \A m \in 1 .. t.posi - 1 : CommitLog(t).store.log[m] = t.log[m]
  BY <1>1, <1>3 DEF Same
<1>5. \/ c.op = "SET" /\ CommitLog(t) = CommitSet(t)
      \/ c.op = "GET" /\ CommitLog(t) = CommitGet(t)
  BY <1>1 DEF CommitLog, c
<1>6. ASSUME NEW db, NEW delq, NEW ans
      PROVE  /\ Applied(t, db, delq, ans, 0).store.log[n].state = "COMMIT"
             /\ Applied(t, db, delq, ans, 0).store.log[n].index = t.log[n].index
             /\ Applied(t, db, delq, ans, 0).store.log[n].cmd = t.log[n].cmd
  BY <1>1 DEF Applied, Mark
<1>7. CASE c.op = "SET" /\ CommitLog(t) = CommitSet(t)
  <2>1. CommitLog(t) = Applied(t, [t.db EXCEPT ![c.keys[1]] = c.val], t.delq, Empty, 0)
    BY <1>7 DEF CommitSet
  <2>2. /\ CommitLog(t).ok /\ CommitLog(t).ans = Empty
        /\ CommitLog(t).store.db = [t.db EXCEPT ![c.keys[1]] = c.val]
    BY <2>1 DEF Applied
  <2> QED
    BY <1>2, <1>4, <1>6, <1>7, <2>1, <2>2
<1>8. CASE c.op = "GET" /\ CommitLog(t) = CommitGet(t)
  <2> DEFINE v == t.db[c.keys[1]]
  <2>1. CASE v = Absent
    <3>1. CommitLog(t) = Refused(t)
      BY <1>8, <2>1 DEF CommitGet
    <3>2. ~CommitLog(t).ok /\ CommitLog(t).store = t
      BY <3>1 DEF Refused
    <3> QED
      BY <1>2, <1>4, <1>8, <3>2
  <2>2. CASE v # Absent
    <3>1. CommitLog(t) = Applied(t, t.db, t.delq, v, 0)
      BY <1>8, <2>2 DEF CommitGet
    <3>2. CommitLog(t).ok /\ CommitLog(t).ans = v /\ CommitLog(t).store.db = t.db
      BY <3>1 DEF Applied
    <3>3. /\ CommitLog(t).store.log[n].state = "COMMIT"
          /\ CommitLog(t).store.log[n].index = t.log[n].index
          /\ CommitLog(t).store.log[n].cmd = t.log[n].cmd
      <4> HIDE DEF v
      <4> QED
        BY <1>1, <3>1 DEF Applied, Mark
    <3> QED
      BY <1>2, <1>4, <1>8, <2>2, <3>2, <3>3
  <2> QED
    BY <2>1, <2>2
<1> QED
  BY <1>5, <1>7, <1>8
=============================================================================

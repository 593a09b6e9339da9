----------------------------- MODULE StoreProofs -----------------------------
(***************************************************************************)
(* Proofs about Store, for any processes, strands, keys, values, callbacks *)
(* and retry limit: its invariants, that it implements AbsStore, and that  *)
(* an update makes finitely many attempts.                                 *)
(***************************************************************************)
EXTENDS Store, TLAPS

-----------------------------------------------------------------------------
(* The ordered map: each operation keeps the keys listed once. *)

LEMMA EmptyOK == EmptyMap \in OrderedMaps /\ Listed(EmptyMap)
  BY DEF EmptyMap, OrderedMaps, Contents, Listed, Has

LEMMA PutOK ==
  ASSUME NEW m \in OrderedMaps, Listed(m), NEW k \in Keys, NEW v \in Vals
  PROVE  /\ Put(m, k, v) \in OrderedMaps /\ Listed(Put(m, k, v)) /\ Has(Put(m, k, v), k)
         /\ Put(m, k, v).val = [m.val EXCEPT ![k] = v]
<1> DEFINE n == Put(m, k, v)
<1>1. n \in OrderedMaps /\ n.val = [m.val EXCEPT ![k] = v]
  BY DEF Put, OrderedMaps, Contents
<1>2. v # Absent
  BY StoreAssumption
<1>3. \A j \in Keys : Has(n, j) <=> j = k \/ Has(m, j)
  BY <1>1, <1>2 DEF Has, OrderedMaps, Contents
<1>4. CASE Has(m, k)
  <2>1. n.order = m.order
    BY <1>4 DEF Put
  <2> QED
    BY <1>1, <1>3, <1>4, <2>1 DEF Listed
<1>5. CASE ~Has(m, k)
  <2>1. /\ m.order \in Seq(Keys) /\ n.order = Append(m.order, k)
        /\ Len(n.order) = Len(m.order) + 1 /\ Len(m.order) \in Nat
        /\ \A i \in 1..Len(m.order) : n.order[i] = m.order[i]
        /\ n.order[Len(m.order) + 1] = k
    BY <1>5 DEF Put, OrderedMaps
  <2>2. \A i \in 1..Len(m.order) : m.order[i] # k
    BY <1>5 DEF Listed
  <2>3. \A i, j \in 1..Len(n.order) : n.order[i] = n.order[j] => i = j
    BY <2>1, <2>2 DEF Listed
  <2>4. \A j \in Keys : Has(n, j) <=> \E i \in 1..Len(n.order) : n.order[i] = j
    <3> TAKE j \in Keys
    <3>1. Has(m, j) <=> \E i \in 1..Len(m.order) : m.order[i] = j
      BY DEF Listed
    <3>2. (\E i \in 1..Len(n.order) : n.order[i] = j)
            <=> j = k \/ \E i \in 1..Len(m.order) : m.order[i] = j
      BY <2>1
    <3> QED
      BY <1>3, <3>1, <3>2
  <2> QED
    BY <1>1, <1>3, <2>3, <2>4 DEF Listed
<1> QED
  BY <1>4, <1>5

LEMMA Concat ==
  ASSUME NEW S, NEW a \in Seq(S), NEW b \in Seq(S)
  PROVE  /\ a \o b \in Seq(S) /\ Len(a \o b) = Len(a) + Len(b)
         /\ \A i \in 1..Len(a) : (a \o b)[i] = a[i]
         /\ \A i \in 1..Len(b) : (a \o b)[Len(a) + i] = b[i]
  OBVIOUS

LEMMA RemoveOK ==
  ASSUME NEW m \in OrderedMaps, Listed(m), NEW k \in Keys, Has(m, k)
  PROVE  /\ Remove(m, k) \in OrderedMaps /\ Listed(Remove(m, k)) /\ ~Has(Remove(m, k), k)
         /\ Remove(m, k).val = [m.val EXCEPT ![k] = Absent]
<1> DEFINE n == Remove(m, k)
           at == Position(m, k)
           L == Len(m.order)
<1>1. n.val = [m.val EXCEPT ![k] = Absent] /\ m.val \in Contents /\ m.order \in Seq(Keys)
  BY DEF Remove, OrderedMaps
<1>2. at \in 1..L /\ m.order[at] = k
  BY DEF Position, Listed
<1>3. L \in Nat /\ Len(n.order) = L - 1 /\ n.order \in Seq(Keys)
      /\ \A i \in 1..(L - 1) : n.order[i] = IF i < at THEN m.order[i] ELSE m.order[i + 1]
  <2> DEFINE front == SubSeq(m.order, 1, at - 1)
             back == SubSeq(m.order, at + 1, L)
  <2>1. L \in Nat
    BY <1>1
  <2>2. front \in Seq(Keys) /\ Len(front) = at - 1
        /\ \A i \in 1..(at - 1) : front[i] = m.order[i]
    BY <1>1, <1>2, <2>1
  <2>3. back \in Seq(Keys) /\ Len(back) = L - at
        /\ \A i \in 1..(L - at) : back[i] = m.order[at + i]
    BY <1>1, <1>2, <2>1
  <2>4. n.order = front \o back
    BY DEF Remove
  <2> HIDE DEF front, back
  <2>5. Len(n.order) = L - 1 /\ n.order \in Seq(Keys)
    BY <1>2, <2>1, <2>2, <2>3, <2>4
  <2> HIDE DEF n, at, L
  <2>6. ASSUME NEW i \in 1..(L - 1), i < at
        PROVE  n.order[i] = m.order[i]
    <3>1. i \in 1..Len(front)
      BY <1>2, <2>1, <2>2, <2>6
    <3> QED
      BY <1>2, <2>1, <2>2, <2>3, <2>4, <2>6, <3>1, Concat
  <2>7. ASSUME NEW i \in 1..(L - 1), ~(i < at)
        PROVE  n.order[i] = m.order[i + 1]
    <3>1. /\ i - at + 1 \in 1..Len(back) /\ at + (i - at + 1) = i + 1
          /\ Len(front) + (i - at + 1) = i
      BY <1>2, <2>1, <2>2, <2>3, <2>7
    <3>2. (front \o back)[Len(front) + (i - at + 1)] = back[i - at + 1]
      BY <2>2, <2>3, <3>1, Concat
    <3> QED
      BY <2>3, <2>4, <3>1, <3>2
  <2> QED
    BY <2>1, <2>5, <2>6, <2>7
<1> HIDE DEF n, at
<1>4. ASSUME NEW i \in 1..(L - 1), NEW j \in 1..(L - 1), n.order[i] = n.order[j]
      PROVE  i = j
  <2> DEFINE Was(h) == IF h < at THEN h ELSE h + 1
  <2>1. /\ Was(i) \in 1..L /\ Was(j) \in 1..L
        /\ n.order[i] = m.order[Was(i)] /\ n.order[j] = m.order[Was(j)]
    BY <1>2, <1>3
  <2>2. Was(i) = Was(j)
    BY <1>4, <2>1 DEF Listed
  <2> QED
    BY <1>2, <1>3, <2>2
<1>5. \A i \in 1..(L - 1) : n.order[i] # k
  BY <1>2, <1>3 DEF Listed
<1>6. \A j \in Keys \ {k} : (\E i \in 1..L : m.order[i] = j) <=> \E i \in 1..(L - 1) : n.order[i] = j
  <2> TAKE j \in Keys \ {k}
  <2>1. ASSUME NEW i \in 1..L, m.order[i] = j
        PROVE  \E h \in 1..(L - 1) : n.order[h] = j
    <3>1. i # at
      BY <1>2, <2>1
    <3>2. CASE i < at
      BY <1>2, <1>3, <2>1, <3>2
    <3>3. CASE i > at
      <4>1. i - 1 \in 1..(L - 1) /\ ~(i - 1 < at) /\ (i - 1) + 1 = i
        BY <1>2, <1>3, <3>3
      <4> QED
        BY <1>3, <2>1, <4>1
    <3> QED
      BY <1>2, <1>3, <3>1, <3>2, <3>3
  <2>2. ASSUME NEW h \in 1..(L - 1), n.order[h] = j
        PROVE  \E i \in 1..L : m.order[i] = j
    BY <1>2, <1>3, <2>2, SMTT(30)
  <2> QED
    BY <2>1, <2>2
<1>7. \A j \in Keys : Has(n, j) <=> j # k /\ Has(m, j)
  BY <1>1 DEF Has, Contents, n
<1>8. \A j \in Keys : Has(n, j) <=> \E i \in 1..Len(n.order) : n.order[i] = j
  BY <1>3, <1>5, <1>6, <1>7 DEF Listed
<1>9. n \in OrderedMaps
  <2>1. n.val \in Contents
    BY <1>1 DEF Contents, n
  <2>2. n = [val |-> n.val, order |-> n.order]
    BY DEF Remove, n
  <2> QED
    BY <1>3, <2>1, <2>2 DEF OrderedMaps
<1> QED
  BY <1>1, <1>3, <1>4, <1>7, <1>8, <1>9 DEF Listed, n

LEMMA UnsetOK ==
  ASSUME NEW m \in OrderedMaps, Listed(m), NEW k \in Keys, NEW v \in Vals
  PROVE  Unset(m, k, v) \in OrderedMaps /\ Listed(Unset(m, k, v)) /\ Unset(m, k, v).val = m.val
<1>1. /\ Put(m, k, v) \in OrderedMaps /\ Listed(Put(m, k, v)) /\ Has(Put(m, k, v), k)
      /\ Put(m, k, v).val = [m.val EXCEPT ![k] = v]
  BY PutOK
<1>2. m.val \in Contents
  BY DEF OrderedMaps
<1>3. CASE Has(m, k)
  <2>1. m.val[k] \in Vals
    BY <1>2, <1>3 DEF Has, Contents
  <2>2. /\ Unset(m, k, v) = Put(Put(m, k, v), k, m.val[k])
        /\ Unset(m, k, v) \in OrderedMaps /\ Listed(Unset(m, k, v))
        /\ Unset(m, k, v).val = [Put(m, k, v).val EXCEPT ![k] = m.val[k]]
    BY <1>1, <1>3, <2>1, PutOK DEF Unset
  <2> QED
    BY <1>1, <1>2, <2>2 DEF Contents
<1>4. CASE ~Has(m, k)
  <2>1. /\ Unset(m, k, v) = Remove(Put(m, k, v), k)
        /\ Unset(m, k, v) \in OrderedMaps /\ Listed(Unset(m, k, v))
        /\ Unset(m, k, v).val = [Put(m, k, v).val EXCEPT ![k] = Absent]
    BY <1>1, <1>4, RemoveOK DEF Unset
  <2>2. m.val[k] = Absent
    BY <1>4 DEF Has
  <2> QED
    BY <1>1, <1>2, <2>1, <2>2 DEF Contents
<1> QED
  BY <1>3, <1>4

(* The rollback of a delete: the key is back, with its value. *)
LEMMA ReinsertOK ==
  ASSUME NEW m \in OrderedMaps, Listed(m), NEW k \in Keys, Has(m, k)
  PROVE  /\ Put(Remove(m, k), k, m.val[k]) \in OrderedMaps
         /\ Listed(Put(Remove(m, k), k, m.val[k]))
         /\ Put(Remove(m, k), k, m.val[k]).val = m.val
<1>1. m.val \in Contents /\ m.val[k] \in Vals
  BY DEF OrderedMaps, Contents, Has
<1>2. /\ Remove(m, k) \in OrderedMaps /\ Listed(Remove(m, k))
      /\ Remove(m, k).val = [m.val EXCEPT ![k] = Absent]
  BY RemoveOK
<1>3. /\ Put(Remove(m, k), k, m.val[k]) \in OrderedMaps
      /\ Listed(Put(Remove(m, k), k, m.val[k]))
      /\ Put(Remove(m, k), k, m.val[k]).val = [Remove(m, k).val EXCEPT ![k] = m.val[k]]
  BY <1>1, <1>2, PutOK
<1> QED
  BY <1>1, <1>2, <1>3 DEF Contents

-----------------------------------------------------------------------------
(* What the invariant says of a session that is open. *)

LEMMA OneSession ==
  ASSUME IInv, NEW p \in open
  PROVE  /\ lock = p /\ open = {p} /\ p \in Sessions
         /\ \A s \in updates : s \in Strands /\ SessionOf[s] = p /\ s \in Of(p)
         /\ \A q \in Sessions : q # p => owner[q] = None
  BY DEF IInv, TypeOK, Exclusive, Of

LEMMA ClosedSession ==
  ASSUME IInv, open = {}
  PROVE  updates = {} /\ stale = {} /\ \A q \in Sessions : owner[q] = None
  BY DEF IInv, TypeOK, Exclusive

LEMMA ResultOK ==
  ASSUME IInv, NEW s \in updates
  PROVE  job[s] \in Jobs /\ job[s].key \in Keys /\ Result(s) \in Vals
  BY StoreAssumption DEF IInv, TypeOK, Jobs, Result

-----------------------------------------------------------------------------
(* Init and each action establish or keep the invariant.                   *)

LEMMA Functions ==
  ASSUME IInv
  PROVE  /\ data \in [Sessions -> OrderedMaps] /\ snap \in [Sessions -> OrderedMaps]
         /\ owner \in [Sessions -> Strands \cup {None}]
         /\ job \in [Strands -> Jobs \cup {NoJob}] /\ open \subseteq Sessions
         /\ updates \subseteq Strands /\ stale \subseteq updates
  BY DEF IInv, TypeOK

LEMMA InitOK == Init => IInv
<1> SUFFICES ASSUME Init PROVE IInv
  OBVIOUS
<1>1. EmptyMap \in OrderedMaps /\ Listed(EmptyMap)
  BY EmptyOK
<1>2. TypeOK
  BY <1>1 DEF Init, TypeOK
<1> QED
  BY <1>1, <1>2 DEF Init, IInv, KeysListed, MemoryIsDisk, Exclusive, FreshBase

LEMMA OpenKeeps ==
  ASSUME IInv, NEW p \in Sessions, Open(p)
  PROVE  IInv'
<1>a. /\ p \notin open /\ lock = None /\ lock' = p /\ open' = open \cup {p}
      /\ data' = [data EXCEPT ![p] = disk]
      /\ UNCHANGED <<disk, owner, snap, updates, stale, job>>
  BY DEF Open
<1>b. open = {} /\ updates = {} /\ stale = {} /\ \A q \in Sessions : owner[q] = None
  <2>1. open = {}
    BY <1>a, StoreAssumption DEF IInv, Exclusive, TypeOK
  <2> QED
    BY <2>1, ClosedSession
<1>1. TypeOK'
  BY <1>a DEF IInv, TypeOK
<1>2. KeysListed'
  BY <1>a, Functions DEF IInv, KeysListed
<1>3. MemoryIsDisk'
  BY <1>a, <1>b, Functions DEF IInv, MemoryIsDisk
<1>4. Exclusive'
  BY <1>a, <1>b, StoreAssumption, Functions DEF IInv, Exclusive
<1>5. FreshBase'
  BY <1>a, <1>b, Functions DEF IInv, FreshBase
<1> QED
  BY <1>1, <1>2, <1>3, <1>4, <1>5 DEF IInv

LEMMA CloseKeeps ==
  ASSUME IInv, NEW p \in Sessions, Close(p)
  PROVE  IInv'
<1>a. /\ data' = [data EXCEPT ![p] = EmptyMap] /\ lock' = None
      /\ UNCHANGED <<disk, owner, snap, updates, stale, job>>
  BY DEF Close
<1>b. open' = {} /\ updates' = {} /\ stale' = {} /\ \A q \in Sessions : owner'[q] = None
  BY OneSession DEF Close, IInv, TypeOK
<1>1. TypeOK'
  BY <1>a, <1>b, EmptyOK DEF IInv, TypeOK
<1>2. KeysListed'
  BY <1>a, EmptyOK, Functions DEF IInv, KeysListed
<1>3. MemoryIsDisk'
  BY <1>b, Functions DEF IInv, MemoryIsDisk
<1>4. Exclusive'
  BY <1>a, <1>b, Functions DEF IInv, Exclusive
<1>5. FreshBase'
  BY <1>b, Functions DEF IInv, FreshBase
<1> QED
  BY <1>1, <1>2, <1>3, <1>4, <1>5 DEF IInv

LEMMA CrashKeeps ==
  ASSUME IInv, NEW p \in Sessions, Crash(p)
  PROVE  IInv'
<1>a. /\ data' = [data EXCEPT ![p] = EmptyMap] /\ lock' = None
      /\ owner' = [owner EXCEPT ![p] = None]
      /\ snap' = [snap EXCEPT ![p] = EmptyMap]
      /\ job' = [s \in Strands |-> IF s \in Of(p) THEN NoJob ELSE job[s]]
      /\ UNCHANGED disk
  BY DEF Crash
<1>b. open' = {} /\ updates' = {} /\ stale' = {} /\ \A q \in Sessions : owner'[q] = None
  BY OneSession DEF Crash, IInv, TypeOK
<1>1. TypeOK'
  BY <1>a, <1>b, EmptyOK DEF IInv, TypeOK
<1>2. KeysListed'
  BY <1>a, EmptyOK, Functions DEF IInv, KeysListed
<1>3. MemoryIsDisk'
  BY <1>b, Functions DEF IInv, MemoryIsDisk
<1>4. Exclusive'
  BY <1>a, <1>b, Functions DEF IInv, Exclusive
<1>5. FreshBase'
  BY <1>b, Functions DEF IInv, FreshBase
<1> QED
  BY <1>1, <1>2, <1>3, <1>4, <1>5 DEF IInv

(* A plain write, for any two maps: the one it makes and the one it falls back to. *)
LEMMA MutateKeeps ==
  ASSUME IInv, NEW s \in Strands,
         NEW new \in OrderedMaps, Listed(new), NEW old \in OrderedMaps, Listed(old),
         old.val = data[SessionOf[s]].val, Mutate(s, new, old)
  PROVE  IInv'
<1> DEFINE p == SessionOf[s]
<1>a. p \in open /\ UNCHANGED <<lock, open, owner, snap, updates, job>>
  BY DEF Mutate, MayAccess
<1>b. /\ lock = p /\ open = {p} /\ p \in Sessions
      /\ \A u \in updates : u \in Strands /\ SessionOf[u] = p /\ u \in Of(p)
      /\ \A q \in Sessions : q # p => owner[q] = None
  BY <1>a, OneSession
<1>c. \/ owner[p] # None /\ data' = [data EXCEPT ![p] = new] /\ UNCHANGED <<disk, stale>>
      \/ /\ owner[p] = None /\ data' = [data EXCEPT ![p] = new] /\ disk' = new
         /\ stale' = updates
      \/ owner[p] = None /\ data' = [data EXCEPT ![p] = old] /\ UNCHANGED <<disk, stale>>
  <2>1. s # None /\ stale \cup (updates \cap Of(p)) = updates
    BY <1>b, Functions, StoreAssumption
  <2> QED
    BY <2>1 DEF Mutate, Flushed, Outdated
<1>d. owner[p] # None => updates = {}
  BY <1>b DEF IInv, Exclusive
<1>1. TypeOK'
  BY <1>a, <1>b, <1>c DEF IInv, TypeOK
<1>2. KeysListed'
  BY <1>a, <1>b, <1>c, Functions DEF IInv, KeysListed
<1>3. MemoryIsDisk'
  BY <1>a, <1>b, <1>c, Functions DEF IInv, MemoryIsDisk
<1>4. Exclusive'
  BY <1>a, <1>b, <1>c, Functions DEF IInv, Exclusive
<1>5. FreshBase'
  BY <1>a, <1>b, <1>c, <1>d, Functions DEF IInv, FreshBase
<1> QED
  BY <1>1, <1>2, <1>3, <1>4, <1>5 DEF IInv

LEMMA UpdateBeginKeeps ==
  ASSUME IInv, NEW s \in Strands, NEW k \in Keys, NEW f \in Transforms, UpdateBegin(s, k, f)
  PROVE  IInv'
<1> DEFINE p == SessionOf[s]
           j == [key |-> k, fn |-> f, base |-> data[p].val[k], conflicts |-> 0]
<1>a. /\ p \in open /\ owner[p] = None /\ s \notin updates
      /\ updates' = updates \cup {s} /\ job' = [job EXCEPT ![s] = j]
      /\ UNCHANGED <<disk, lock, open, data, owner, snap, stale>>
  BY DEF UpdateBegin
<1>b. /\ lock = p /\ open = {p} /\ p \in Sessions
      /\ \A q \in Sessions : q # p => owner[q] = None
  BY <1>a, OneSession
<1>c. j \in Jobs
  BY <1>b DEF Jobs, IInv, TypeOK, OrderedMaps, Contents
<1> HIDE DEF j
<1>1. TypeOK'
  BY <1>a, <1>b, <1>c DEF IInv, TypeOK
<1>2. KeysListed'
  BY <1>a, Functions DEF IInv, KeysListed
<1>3. MemoryIsDisk'
  BY <1>a, Functions DEF IInv, MemoryIsDisk
<1>4. Exclusive'
  BY <1>a, <1>b, Functions DEF IInv, Exclusive
<1>5. FreshBase'
  <2>1. j.base = disk.val[j.key]
    BY <1>a, <1>b DEF j, IInv, MemoryIsDisk
  <2> QED
    BY <1>a, <1>b, <2>1, Functions DEF IInv, FreshBase
<1> QED
  BY <1>1, <1>2, <1>3, <1>4, <1>5 DEF IInv

LEMMA UpdateCommitKeeps ==
  ASSUME IInv, NEW s \in Strands, UpdateCommit(s)
  PROVE  IInv'
<1> DEFINE p == SessionOf[s]
<1>a. /\ s \in updates /\ updates' = updates \ {s} /\ job' = [job EXCEPT ![s] = NoJob]
      /\ UNCHANGED <<lock, open, owner, snap>>
  BY DEF UpdateCommit, EndUpdate
<1>b. /\ p \in open /\ lock = p /\ open = {p} /\ p \in Sessions
      /\ \A u \in updates : u \in Strands /\ SessionOf[u] = p /\ u \in Of(p)
      /\ \A q \in Sessions : owner[q] = None
  <2>1. p \in open /\ s \in Of(p)
    BY <1>a DEF IInv, Exclusive, Of
  <2> QED
    BY <1>a, <2>1, OneSession DEF IInv, Exclusive
<1> DEFINE new == Put(data[p], job[s].key, Result(s))
<1>c. new \in OrderedMaps /\ Listed(new)
  BY <1>a, <1>b, PutOK, ResultOK DEF IInv, TypeOK, KeysListed
<1>d. data' = [data EXCEPT ![p] = new] /\ disk' = new /\ stale' = updates \ {s}
  BY <1>b DEF UpdateCommit, Flushed, Outdated, IInv, TypeOK
<1> HIDE DEF new
<1>1. TypeOK'
  BY <1>a, <1>b, <1>c, <1>d DEF IInv, TypeOK
<1>2. KeysListed'
  BY <1>b, <1>c, <1>d, <1>a, Functions DEF IInv, KeysListed
<1>3. MemoryIsDisk'
  BY <1>a, <1>b, <1>c, <1>d, Functions DEF IInv, MemoryIsDisk
<1>4. Exclusive'
  BY <1>a, <1>b, Functions DEF IInv, Exclusive
<1>5. FreshBase'
  BY <1>a, <1>d, Functions DEF IInv, FreshBase
<1> QED
  BY <1>1, <1>2, <1>3, <1>4, <1>5 DEF IInv

LEMMA UpdateUndoneKeeps ==
  ASSUME IInv, NEW s \in Strands, UpdateUndone(s)
  PROVE  IInv'
<1> DEFINE p == SessionOf[s]
<1>a. /\ s \in updates /\ updates' = updates \ {s} /\ job' = [job EXCEPT ![s] = NoJob]
      /\ UNCHANGED <<lock, open, owner, snap>>
  BY DEF UpdateUndone, EndUpdate
<1>b. /\ p \in open /\ lock = p /\ open = {p} /\ p \in Sessions
      /\ \A u \in updates : u \in Strands /\ SessionOf[u] = p /\ u \in Of(p)
      /\ \A q \in Sessions : owner[q] = None
  <2>1. p \in open /\ s \in Of(p)
    BY <1>a DEF IInv, Exclusive, Of
  <2> QED
    BY <1>a, <2>1, OneSession DEF IInv, Exclusive
<1> DEFINE old == Unset(data[p], job[s].key, Result(s))
<1>c. old \in OrderedMaps /\ Listed(old) /\ old.val = data[p].val
  BY <1>a, <1>b, UnsetOK, ResultOK DEF IInv, TypeOK, KeysListed
<1>d. data' = [data EXCEPT ![p] = old] /\ UNCHANGED <<disk, stale>>
  BY DEF UpdateUndone
<1>e. s \notin stale
  BY DEF UpdateUndone
<1> HIDE DEF old
<1>1. TypeOK'
  BY <1>a, <1>b, <1>c, <1>d, <1>e DEF IInv, TypeOK
<1>2. KeysListed'
  BY <1>a, <1>b, <1>c, <1>d, Functions DEF IInv, KeysListed
<1>3. MemoryIsDisk'
  BY <1>a, <1>b, <1>c, <1>d, Functions DEF IInv, MemoryIsDisk
<1>4. Exclusive'
  BY <1>a, <1>b, Functions DEF IInv, Exclusive
<1>5. FreshBase'
  BY <1>a, <1>d, Functions DEF IInv, FreshBase
<1> QED
  BY <1>1, <1>2, <1>3, <1>4, <1>5 DEF IInv

LEMMA UpdateRetryKeeps ==
  ASSUME IInv, NEW s \in Strands, UpdateRetry(s)
  PROVE  IInv'
<1> DEFINE p == SessionOf[s]
           j == [key |-> job[s].key, fn |-> job[s].fn, base |-> data[p].val[job[s].key],
                 conflicts |-> job[s].conflicts + 1]
<1>a. /\ s \in updates /\ stale' = stale \ {s} /\ job' = [job EXCEPT ![s] = j]
      /\ UNCHANGED <<disk, lock, open, data, owner, snap, updates>>
  BY DEF UpdateRetry, IInv, TypeOK
<1>b. p \in open /\ p \in Sessions /\ owner[p] = None
  BY <1>a, OneSession DEF IInv, Exclusive, TypeOK, Of
<1>c. j \in Jobs /\ j.base = data[p].val[j.key]
  <2>1. job[s] \in Jobs /\ job[s].key \in Keys
    BY <1>a, ResultOK
  <2>2. data[p].val[job[s].key] \in Vals \cup {Absent}
    BY <1>b, <2>1, Functions DEF OrderedMaps, Contents
  <2> QED
    BY <2>1, <2>2 DEF Jobs
<1> HIDE DEF j
<1>1. TypeOK'
  BY <1>a, <1>c DEF IInv, TypeOK
<1>2. KeysListed'
  BY <1>a, Functions DEF IInv, KeysListed
<1>3. MemoryIsDisk'
  BY <1>a, Functions DEF IInv, MemoryIsDisk
<1>4. Exclusive'
  BY <1>a, Functions DEF IInv, Exclusive
<1>5. FreshBase'
  BY <1>a, <1>b, <1>c, Functions DEF IInv, FreshBase, MemoryIsDisk
<1> QED
  BY <1>1, <1>2, <1>3, <1>4, <1>5 DEF IInv

LEMMA UpdateBusyKeeps ==
  ASSUME IInv, NEW s \in Strands, UpdateBusy(s)
  PROVE  IInv'
<1>a. /\ s \in updates /\ updates' = updates \ {s} /\ job' = [job EXCEPT ![s] = NoJob]
      /\ stale' = stale \ {s} /\ UNCHANGED <<disk, lock, open, data, owner, snap>>
  BY DEF UpdateBusy, EndUpdate, IInv, TypeOK
<1>1. TypeOK'
  BY <1>a DEF IInv, TypeOK
<1>2. KeysListed'
  BY <1>a, Functions DEF IInv, KeysListed
<1>3. MemoryIsDisk'
  BY <1>a, Functions DEF IInv, MemoryIsDisk
<1>4. Exclusive'
  BY <1>a, Functions DEF IInv, Exclusive
<1>5. FreshBase'
  BY <1>a, Functions DEF IInv, FreshBase
<1> QED
  BY <1>1, <1>2, <1>3, <1>4, <1>5 DEF IInv

LEMMA UpdateAbortKeeps ==
  ASSUME IInv, NEW s \in Strands, UpdateAbort(s)
  PROVE  IInv'
<1>a. /\ s \in updates /\ updates' = updates \ {s} /\ job' = [job EXCEPT ![s] = NoJob]
      /\ stale' = stale \ {s} /\ UNCHANGED <<disk, lock, open, data, owner, snap>>
  BY DEF UpdateAbort, EndUpdate, IInv, TypeOK
<1>1. TypeOK'
  BY <1>a DEF IInv, TypeOK
<1>2. KeysListed'
  BY <1>a, Functions DEF IInv, KeysListed
<1>3. MemoryIsDisk'
  BY <1>a, Functions DEF IInv, MemoryIsDisk
<1>4. Exclusive'
  BY <1>a, Functions DEF IInv, Exclusive
<1>5. FreshBase'
  BY <1>a, Functions DEF IInv, FreshBase
<1> QED
  BY <1>1, <1>2, <1>3, <1>4, <1>5 DEF IInv

LEMMA BatchBeginKeeps ==
  ASSUME IInv, NEW s \in Strands, BatchBegin(s)
  PROVE  IInv'
<1> DEFINE p == SessionOf[s]
<1>a. /\ p \in open /\ owner[p] = None /\ updates \cap Of(p) = {}
      /\ owner' = [owner EXCEPT ![p] = s] /\ snap' = [snap EXCEPT ![p] = data[p]]
      /\ UNCHANGED <<disk, lock, open, data, updates, stale, job>>
  BY DEF BatchBegin
<1>b. p \in Sessions /\ open = {p}
  BY <1>a, OneSession
<1>1. TypeOK'
  BY <1>a, <1>b DEF IInv, TypeOK
<1>2. KeysListed'
  BY <1>a, <1>b, Functions DEF IInv, KeysListed
<1>3. MemoryIsDisk'
  BY <1>a, <1>b, Functions DEF IInv, MemoryIsDisk
<1>4. Exclusive'
  BY <1>a, <1>b, StoreAssumption, Functions DEF IInv, Exclusive
<1>5. FreshBase'
  BY <1>a, Functions DEF IInv, FreshBase
<1> QED
  BY <1>1, <1>2, <1>3, <1>4, <1>5 DEF IInv

LEMMA BatchCommitKeeps ==
  ASSUME IInv, NEW s \in Strands, BatchCommit(s)
  PROVE  IInv'
<1> DEFINE p == SessionOf[s]
<1>a. /\ p \in open /\ owner[p] = s /\ p \in Sessions /\ open = {p}
      /\ owner' = [owner EXCEPT ![p] = None] /\ snap' = [snap EXCEPT ![p] = EmptyMap]
      /\ UNCHANGED <<lock, open, updates, job>>
  BY OneSession DEF EndBatch, BatchCommit
<1>b. updates = {} /\ owner[p] # None
  BY <1>a, OneSession, StoreAssumption DEF IInv, Exclusive
<1>c. data' = data /\ disk' = data[p] /\ stale' = {}
  BY <1>a, <1>b DEF BatchCommit, Flushed, Outdated, IInv, TypeOK
<1>1. TypeOK'
  BY <1>a, <1>b, <1>c, EmptyOK DEF IInv, TypeOK
<1>2. KeysListed'
  BY <1>a, <1>c, EmptyOK, Functions DEF IInv, KeysListed
<1>3. MemoryIsDisk'
  BY <1>a, <1>c, Functions DEF IInv, MemoryIsDisk
<1>4. Exclusive'
  BY <1>a, <1>b, Functions DEF IInv, Exclusive
<1>5. FreshBase'
  BY <1>a, <1>b, Functions DEF IInv, FreshBase
<1> QED
  BY <1>1, <1>2, <1>3, <1>4, <1>5 DEF IInv

LEMMA BatchUndoneKeeps ==
  ASSUME IInv, NEW s \in Strands, BatchUndone(s)
  PROVE  IInv'
<1> DEFINE p == SessionOf[s]
<1>a. /\ p \in open /\ owner[p] = s /\ p \in Sessions /\ open = {p}
      /\ owner' = [owner EXCEPT ![p] = None] /\ snap' = [snap EXCEPT ![p] = EmptyMap]
      /\ UNCHANGED <<lock, open, updates, job>>
  BY OneSession DEF EndBatch, BatchUndone
<1>b. updates = {} /\ owner[p] # None
  BY <1>a, OneSession, StoreAssumption DEF IInv, Exclusive
<1>c. data' = [data EXCEPT ![p] = snap[p]] /\ UNCHANGED <<disk, stale>>
  BY DEF BatchUndone
<1>1. TypeOK'
  BY <1>a, <1>b, <1>c, EmptyOK DEF IInv, TypeOK
<1>2. KeysListed'
  BY <1>a, <1>c, EmptyOK, Functions DEF IInv, KeysListed
<1>3. MemoryIsDisk'
  BY <1>a, <1>b, <1>c, Functions DEF IInv, MemoryIsDisk
<1>4. Exclusive'
  BY <1>a, <1>b, Functions DEF IInv, Exclusive
<1>5. FreshBase'
  BY <1>a, <1>b, Functions DEF IInv, FreshBase
<1> QED
  BY <1>1, <1>2, <1>3, <1>4, <1>5 DEF IInv

-----------------------------------------------------------------------------
(* The invariants of every run.                                               *)

LEMMA PlainKeeps ==
  ASSUME IInv, NEW s \in Strands, PlainStep(s)
  PROVE  IInv'
<1> DEFINE p == SessionOf[s]
           m == data[p]
<1>1. p \in Sessions /\ m \in OrderedMaps /\ Listed(m)
  BY StoreAssumption DEF IInv, TypeOK, KeysListed
<1> HIDE DEF m
<1>2. ASSUME NEW k \in Keys, NEW v \in Vals, Set(s, k, v)
      PROVE  IInv'
  <2>1. Mutate(s, Put(m, k, v), Unset(m, k, v))
    BY <1>2 DEF Set, m
  <2> QED
    BY <1>1, <2>1, PutOK, UnsetOK, MutateKeeps DEF m
<1>3. ASSUME NEW k \in Keys, Delete(s, k)
      PROVE  IInv'
  <2>1. Has(m, k) /\ Mutate(s, Remove(m, k), Put(Remove(m, k), k, m.val[k]))
    BY <1>3 DEF Delete, m
  <2> QED
    BY <1>1, <2>1, RemoveOK, ReinsertOK, MutateKeeps DEF m
<1>4. CASE Clear(s)
  <2>1. Mutate(s, EmptyMap, m)
    BY <1>4 DEF Clear, m
  <2> QED
    BY <1>1, <2>1, EmptyOK, MutateKeeps DEF m
<1> QED
  BY <1>2, <1>3, <1>4 DEF PlainStep

LEMMA StepKeeps == IInv /\ [Next]_vars => IInv'
<1> SUFFICES ASSUME IInv, [Next]_vars PROVE IInv'
  OBVIOUS
<1>1. ASSUME NEW p \in Sessions, Open(p) \/ Close(p) \/ Crash(p)
      PROVE  IInv'
  BY <1>1, OpenKeeps, CloseKeeps, CrashKeeps
<1>2. ASSUME NEW s \in Strands, PlainStep(s)
      PROVE  IInv'
  BY <1>2, PlainKeeps
<1>3. ASSUME NEW s \in Strands, UpdateStep(s)
      PROVE  IInv'
  BY <1>3, UpdateCommitKeeps, UpdateUndoneKeeps, UpdateRetryKeeps, UpdateBusyKeeps, UpdateAbortKeeps
     DEF UpdateStep
<1>4. ASSUME NEW s \in Strands, BatchStep(s)
      PROVE  IInv'
  BY <1>4, BatchBeginKeeps, BatchCommitKeeps, BatchUndoneKeeps DEF BatchStep
<1>5. ASSUME NEW s \in Strands, NEW k \in Keys, NEW f \in Transforms, UpdateBegin(s, k, f)
      PROVE  IInv'
  BY <1>5, UpdateBeginKeeps
<1>6. CASE UNCHANGED vars
  BY <1>6 DEF vars, IInv, TypeOK, KeysListed, MemoryIsDisk, Exclusive, FreshBase, Of
<1> QED
  BY <1>1, <1>2, <1>3, <1>4, <1>5, <1>6 DEF Next

(* The inductive invariant holds in every reachable state. *)
THEOREM StoreInvariant == Spec => []IInv
<1> QED
  BY InitOK, StepKeeps, PTL DEF Spec

(* The variables keep their types. *)
THEOREM StoreTyped == Spec => []TypeOK
<1>1. IInv => TypeOK
  BY DEF IInv
<1> QED
  BY <1>1, StoreInvariant, PTL

(* Outside a batch the map in memory is the one on disk, inside one the     *)
(* snapshot is: flushLocked and every rollback of store.go.                *)
THEOREM MemoryFollowsDisk == Spec => []MemoryIsDisk
<1>1. IInv => MemoryIsDisk
  BY DEF IInv
<1> QED
  BY <1>1, StoreInvariant, PTL

(* Each key of the ordered map is listed exactly once, whatever is set,    *)
(* deleted and rolled back (map.go).                                       *)
THEOREM KeysStayListed == Spec => []KeysListed
<1>1. IInv => KeysListed
  BY DEF IInv
<1> QED
  BY <1>1, StoreInvariant, PTL

(* One process, one batch, and no update callback beside a batch: the lock  *)
(* file, beginBatch and beginUpdate of store.go.                           *)
THEOREM StoreIsExclusive == Spec => []Exclusive
<1>1. IInv => Exclusive
  BY DEF IInv
<1> QED
  BY <1>1, StoreInvariant, PTL

(* A store_update that will commit computed from the current value.        *)
THEOREM UpdatesAreFresh == Spec => []FreshBase
<1>1. IInv => FreshBase
  BY DEF IInv
<1> QED
  BY <1>1, StoreInvariant, PTL

-----------------------------------------------------------------------------
(* The store implements AbsStore: each step is one of its steps, or none.  *)

Draft == IF lock # None /\ owner[lock] # None THEN data[lock].val ELSE None

Pending == [s \in Strands |->
              IF s \in updates THEN [key |-> job[s].key, fn |-> job[s].fn] ELSE None]

LEMMA DraftIs ==
  ASSUME IInv
  PROVE  /\ open = {} => \A p \in Sessions : owner[p] = None
         /\ \A p \in open : owner[p] = None => Draft = None
         /\ \A p \in open : owner[p] # None => Draft = data[p].val /\ Draft # None
<1>1. open = {} => \A p \in Sessions : owner[p] = None
  BY ClosedSession
<1>2. ASSUME NEW p \in open
      PROVE  /\ owner[p] = None => Draft = None
             /\ owner[p] # None => Draft = data[p].val /\ Draft # None
  <2>1. lock = p /\ p \in Sessions /\ p # None /\ data[p].val \in Contents
    BY OneSession, Functions, StoreAssumption DEF OrderedMaps
  <2> QED
    BY <2>1, StoreAssumption DEF Draft, Contents
<1> QED
  BY <1>1, <1>2

LEMMA PendingIs ==
  ASSUME IInv
  PROVE  /\ \A s \in Strands : s \notin updates => Pending[s] = None
         /\ \A s \in updates :
              /\ s \in Strands /\ Pending[s] \in Promise!Updates /\ Pending[s] # None
              /\ Pending[s] = [key |-> job[s].key, fn |-> job[s].fn]
<1>1. ASSUME NEW s \in updates
      PROVE  [key |-> job[s].key, fn |-> job[s].fn] \in [key : Keys, fn : Transforms]
  BY DEF IInv, TypeOK, Jobs
<1> QED
  BY <1>1, Functions, StoreAssumption DEF Pending, Promise!Updates

LEMMA OpenMaps ==
  ASSUME IInv, IInv', NEW p \in Sessions, Open(p) \/ Close(p)
  PROVE  UNCHANGED Promise!vars
<1>1. Draft = None /\ Draft' = None
  BY OneSession, DraftIs, StoreAssumption DEF Open, Close, Draft, IInv, Exclusive
<1>2. UNCHANGED <<disk, updates, job>>
  BY DEF Open, Close
<1> QED
  BY <1>1, <1>2 DEF Promise!vars, Draft

LEMMA CrashMaps ==
  ASSUME IInv, IInv', NEW p \in Sessions, Crash(p)
  PROVE  Promise!GiveUp
<1>1. Draft' = None /\ UNCHANGED disk /\ updates' = {} /\ updates \subseteq Of(p)
  BY OneSession DEF Crash, Draft, Of, IInv, TypeOK
<1>2. Pending' = [s \in Strands |-> IF s \in Strands THEN None ELSE Pending[s]]
  BY <1>1 DEF Pending
<1> QED
  BY <1>1, <1>2 DEF Promise!GiveUp, Draft, Pending

LEMMA MutateMaps ==
  ASSUME IInv, IInv', NEW s \in Strands, NEW new \in OrderedMaps, NEW old \in OrderedMaps,
         old.val = data[SessionOf[s]].val, Mutate(s, new, old),
         Promise!Changed(data[SessionOf[s]].val, new.val)
  PROVE  [Promise!Next]_(Promise!vars)
<1> DEFINE p == SessionOf[s]
<1>1. /\ p \in open /\ p \in Sessions /\ UNCHANGED <<lock, open, owner, snap, updates, job>>
      /\ data \in [Sessions -> OrderedMaps]
  BY OneSession, Functions DEF Mutate, MayAccess
<1>2. CASE owner[p] = s
  <2>1. owner[p] # None
    BY <1>2, StoreAssumption
  <2>2. data' = [data EXCEPT ![p] = new] /\ UNCHANGED disk
    BY <1>2, <2>1 DEF Mutate
  <2>3. Draft = data[p].val /\ Draft # None /\ Draft' = new.val
    BY <1>1, <2>1, <2>2, DraftIs, OneSession DEF Draft
  <2>4. Promise!Changed(Draft, Draft') /\ UNCHANGED Pending
    BY <1>1, <2>3 DEF Pending
  <2>5. Promise!WriteDraft
    BY <2>2, <2>3, <2>4 DEF Promise!WriteDraft, Draft, Pending
  <2> QED
    BY <2>5 DEF Promise!Next
<1>3. CASE owner[p] = None /\ data' = [data EXCEPT ![p] = new] /\ disk' = new
  <2>1. Draft = None /\ Draft' = None
    BY <1>1, <1>3, OneSession DEF Draft
  <2>2. disk.val = data[p].val
    BY <1>1, <1>3 DEF IInv, MemoryIsDisk
  <2>3. Promise!Changed(disk.val, disk'.val) /\ UNCHANGED Pending
    BY <1>1, <1>3, <2>2 DEF Pending
  <2>4. Promise!Write
    BY <2>1, <2>3 DEF Promise!Write, Draft, Pending
  <2> QED
    BY <2>4 DEF Promise!Next
<1>4. CASE owner[p] = None /\ UNCHANGED disk
  <2>1. Draft = None /\ Draft' = None
    BY <1>1, <1>4, OneSession DEF Draft
  <2> QED
    BY <1>1, <1>4, <2>1 DEF Promise!vars, Draft
<1> QED
  BY <1>2, <1>3, <1>4 DEF Mutate, Flushed

LEMMA PlainMaps ==
  ASSUME IInv, IInv', NEW s \in Strands, PlainStep(s)
  PROVE  [Promise!Next]_(Promise!vars)
<1> DEFINE p == SessionOf[s]
           m == data[p]
<1>1. p \in Sessions /\ m \in OrderedMaps /\ Listed(m)
  BY StoreAssumption DEF IInv, TypeOK, KeysListed
<1> HIDE DEF m
<1>2. ASSUME NEW k \in Keys, NEW v \in Vals, Set(s, k, v)
      PROVE  [Promise!Next]_(Promise!vars)
  <2>1. Mutate(s, Put(m, k, v), Unset(m, k, v))
    BY <1>2 DEF Set, m
  <2>2. /\ Put(m, k, v) \in OrderedMaps /\ Unset(m, k, v) \in OrderedMaps
        /\ Unset(m, k, v).val = m.val /\ Promise!Changed(m.val, Put(m, k, v).val)
    <3>1. Put(m, k, v).val = [m.val EXCEPT ![k] = v] /\ Put(m, k, v) \in OrderedMaps
      BY <1>1, PutOK
    <3>2. Promise!Changed(m.val, Put(m, k, v).val)
      BY <3>1 DEF Promise!Changed
    <3> QED
      BY <1>1, <3>1, <3>2, UnsetOK
  <2> QED
    BY <2>1, <2>2, MutateMaps DEF m
<1>3. ASSUME NEW k \in Keys, Delete(s, k)
      PROVE  [Promise!Next]_(Promise!vars)
  <2>1. Has(m, k) /\ Mutate(s, Remove(m, k), Put(Remove(m, k), k, m.val[k]))
    BY <1>3 DEF Delete, m
  <2>2. /\ Remove(m, k) \in OrderedMaps /\ Put(Remove(m, k), k, m.val[k]) \in OrderedMaps
        /\ Put(Remove(m, k), k, m.val[k]).val = m.val
        /\ Promise!Changed(m.val, Remove(m, k).val)
    BY <1>1, <2>1, RemoveOK, ReinsertOK DEF Promise!Changed
  <2> QED
    BY <2>1, <2>2, MutateMaps DEF m
<1>4. CASE Clear(s)
  <2>1. Mutate(s, EmptyMap, m)
    BY <1>4 DEF Clear, m
  <2>2. Promise!Changed(m.val, EmptyMap.val)
    BY DEF Promise!Changed, EmptyMap
  <2> QED
    BY <1>1, <2>1, <2>2, EmptyOK, MutateMaps DEF m
<1> QED
  BY <1>2, <1>3, <1>4 DEF PlainStep

LEMMA UpdateBeginMaps ==
  ASSUME IInv, IInv', NEW s \in Strands, NEW k \in Keys, NEW f \in Transforms,
         UpdateBegin(s, k, f)
  PROVE  Promise!Call(s)
<1> DEFINE p == SessionOf[s]
           c == [key |-> k, fn |-> f]
<1>1. /\ p \in open /\ owner[p] = None /\ s \notin updates /\ updates' = updates \cup {s}
      /\ UNCHANGED <<disk, lock, open, data, owner>>
      /\ job'[s].key = k /\ job'[s].fn = f /\ \A u \in Strands \ {s} : job'[u] = job[u]
  BY Functions DEF UpdateBegin
<1>2. Draft = None /\ Draft' = None /\ Pending[s] = None
  BY <1>1, DraftIs, PendingIs DEF Draft
<1>3. Pending' = [Pending EXCEPT ![s] = c] /\ c \in Promise!Updates
  BY <1>1 DEF Pending, Promise!Updates
<1> QED
  BY <1>1, <1>2, <1>3 DEF Promise!Call, Draft, Pending

LEMMA UpdateCommitMaps ==
  ASSUME IInv, IInv', NEW s \in Strands, UpdateCommit(s)
  PROVE  Promise!Update(s)
<1> DEFINE p == SessionOf[s]
<1>1. /\ s \in updates /\ updates' = updates \ {s} /\ UNCHANGED <<lock, open, owner>>
      /\ \A u \in Strands \ {s} : job'[u] = job[u]
      /\ p \in open /\ owner[p] = None /\ p \in Sessions /\ lock = p
  <2>1. /\ s \in updates /\ updates' = updates \ {s} /\ UNCHANGED <<lock, open, owner>>
        /\ job' = [job EXCEPT ![s] = NoJob]
    BY Functions DEF UpdateCommit, EndUpdate
  <2>2. p \in open /\ p \in Sessions /\ lock = p
    BY <2>1, Functions DEF IInv, Exclusive
  <2> QED
    BY <2>1, <2>2, Functions DEF IInv, Exclusive, Of
<1>2. Draft = None /\ Draft' = None
  BY <1>1, DraftIs DEF Draft
<1>3. Pending' = [Pending EXCEPT ![s] = None]
  BY <1>1 DEF Pending
<1>4. /\ Pending[s] # None /\ Pending[s].key = job[s].key /\ Pending[s].fn = job[s].fn
      /\ job[s].key \in Keys /\ Result(s) \in Vals
  <2>1. Pending[s] # None /\ Pending[s] = [key |-> job[s].key, fn |-> job[s].fn]
    BY <1>1, PendingIs
  <2> QED
    BY <1>1, <2>1, ResultOK
<1>5. disk' = Put(data[p], job[s].key, Result(s)) /\ s \notin stale
  BY DEF UpdateCommit, Flushed
<1>6. disk'.val = [data[p].val EXCEPT ![job[s].key] = Result(s)]
  BY <1>1, <1>4, <1>5, PutOK DEF IInv, TypeOK, KeysListed
<1>7. disk.val = data[p].val /\ job[s].base = disk.val[job[s].key]
  BY <1>1, <1>5 DEF IInv, MemoryIsDisk, FreshBase
<1>8. disk'.val = [disk.val EXCEPT ![Pending[s].key] = Pending[s].fn[disk.val[Pending[s].key]]]
  BY <1>4, <1>6, <1>7 DEF Result
<1> QED
  BY <1>2, <1>3, <1>4, <1>8 DEF Promise!Update, Draft, Pending

LEMMA UpdateFailsMaps ==
  ASSUME IInv, IInv', NEW s \in Strands,
         UpdateUndone(s) \/ UpdateBusy(s) \/ UpdateAbort(s)
  PROVE  Promise!GiveUp
<1> DEFINE p == SessionOf[s]
<1>1. /\ s \in updates /\ updates' = updates \ {s} /\ UNCHANGED <<lock, open, owner>>
      /\ \A u \in Strands \ {s} : job'[u] = job[u]
      /\ p \in open /\ owner[p] = None /\ p \in Sessions /\ lock = p
  <2>1. /\ s \in updates /\ updates' = updates \ {s} /\ UNCHANGED <<lock, open, owner>>
        /\ job' = [job EXCEPT ![s] = NoJob]
    BY Functions DEF UpdateUndone, UpdateBusy, UpdateAbort, EndUpdate
  <2>2. p \in open /\ p \in Sessions /\ lock = p
    BY <2>1, Functions DEF IInv, Exclusive
  <2> QED
    BY <2>1, <2>2, Functions DEF IInv, Exclusive, Of
<1>2. Draft = None /\ Draft' = None
  BY <1>1, DraftIs DEF Draft
<1>3. Pending' = [Pending EXCEPT ![s] = None]
  BY <1>1 DEF Pending
<1>4. UNCHANGED disk
  BY DEF UpdateUndone, UpdateBusy, UpdateAbort
<1>5. Pending' = [u \in Strands |-> IF u \in {s} THEN None ELSE Pending[u]]
  BY <1>3 DEF Pending
<1> QED
  BY <1>2, <1>4, <1>5 DEF Promise!GiveUp, Draft, Pending

LEMMA UpdateRetryMaps ==
  ASSUME IInv, IInv', NEW s \in Strands, UpdateRetry(s)
  PROVE  UNCHANGED Promise!vars
<1>1. /\ UNCHANGED <<disk, lock, data, owner, updates>>
      /\ \A u \in Strands : job'[u].key = job[u].key /\ job'[u].fn = job[u].fn
  BY Functions DEF UpdateRetry
<1>2. UNCHANGED Pending
  BY <1>1 DEF Pending
<1> QED
  BY <1>1, <1>2 DEF Promise!vars, Pending

LEMMA BatchBeginMaps ==
  ASSUME IInv, IInv', NEW s \in Strands, BatchBegin(s)
  PROVE  Promise!BeginBatch
<1> DEFINE p == SessionOf[s]
<1>1. /\ p \in open /\ p \in Sessions /\ owner[p] = None /\ lock = p /\ updates = {}
      /\ owner'[p] = s /\ s # None /\ UNCHANGED <<disk, lock, open, data, updates, job>>
  BY OneSession, Functions, StoreAssumption DEF BatchBegin
<1>2. Draft = None /\ Draft' = data[p].val
  BY <1>1, StoreAssumption DEF Draft
<1>3. disk.val = data[p].val /\ UNCHANGED Pending /\ \A u \in Strands : Pending[u] = None
  BY <1>1 DEF IInv, MemoryIsDisk, Pending
<1> QED
  BY <1>1, <1>2, <1>3 DEF Promise!BeginBatch, Draft, Pending

LEMMA BatchCommitMaps ==
  ASSUME IInv, IInv', NEW s \in Strands, BatchCommit(s)
  PROVE  Promise!Commit
<1> DEFINE p == SessionOf[s]
<1>1. /\ p \in open /\ p \in Sessions /\ owner[p] # None /\ lock = p
      /\ owner'[p] = None /\ UNCHANGED <<lock, updates, job>>
  BY OneSession, Functions, StoreAssumption DEF BatchCommit, EndBatch
<1>2. Draft = data[p].val /\ Draft # None /\ Draft' = None /\ UNCHANGED Pending
  BY <1>1, DraftIs DEF Draft, Pending
<1>3. disk'.val = data[p].val
  BY DEF BatchCommit, Flushed
<1> QED
  BY <1>2, <1>3 DEF Promise!Commit, Draft, Pending

LEMMA BatchUndoneMaps ==
  ASSUME IInv, IInv', NEW s \in Strands, BatchUndone(s)
  PROVE  Promise!GiveUp
<1> DEFINE p == SessionOf[s]
<1>1. /\ p \in open /\ p \in Sessions /\ owner[p] # None /\ lock = p
      /\ owner'[p] = None /\ UNCHANGED <<lock, updates, job>>
  BY OneSession, Functions, StoreAssumption DEF BatchUndone, EndBatch
<1>2. Draft = data[p].val /\ Draft # None /\ Draft' = None /\ UNCHANGED Pending
  BY <1>1, DraftIs DEF Draft, Pending
<1>3. UNCHANGED disk
  BY DEF BatchUndone
<1>4. \E S \in SUBSET Strands : Pending' = [u \in Strands |-> IF u \in S THEN None ELSE Pending[u]]
  <2>1. Pending' = [u \in Strands |-> IF u \in {} THEN None ELSE Pending[u]]
    BY <1>2 DEF Pending
  <2> WITNESS {} \in SUBSET Strands
  <2> QED
    BY <2>1
<1> QED
  BY <1>2, <1>3, <1>4 DEF Promise!GiveUp, Draft, Pending

LEMMA StepMaps == IInv /\ IInv' /\ [Next]_vars => [Promise!Next]_(Promise!vars)
<1> SUFFICES ASSUME IInv, IInv', [Next]_vars PROVE [Promise!Next]_(Promise!vars)
  OBVIOUS
<1>1. ASSUME NEW p \in Sessions, Open(p) \/ Close(p) \/ Crash(p)
      PROVE  [Promise!Next]_(Promise!vars)
  BY <1>1, OpenMaps, CrashMaps DEF Promise!Next
<1>2. ASSUME NEW s \in Strands, PlainStep(s)
      PROVE  [Promise!Next]_(Promise!vars)
  BY <1>2, PlainMaps
<1>3. ASSUME NEW s \in Strands, UpdateStep(s)
      PROVE  [Promise!Next]_(Promise!vars)
  BY <1>3, UpdateCommitMaps, UpdateFailsMaps, UpdateRetryMaps DEF UpdateStep, Promise!Next
<1>4. ASSUME NEW s \in Strands, BatchStep(s)
      PROVE  [Promise!Next]_(Promise!vars)
  BY <1>4, BatchBeginMaps, BatchCommitMaps, BatchUndoneMaps DEF BatchStep, Promise!Next
<1>5. ASSUME NEW s \in Strands, NEW k \in Keys, NEW f \in Transforms, UpdateBegin(s, k, f)
      PROVE  [Promise!Next]_(Promise!vars)
  BY <1>5, UpdateBeginMaps DEF Promise!Next
<1>6. CASE UNCHANGED vars
  BY <1>6 DEF vars, Promise!vars
<1> QED
  BY <1>1, <1>2, <1>3, <1>4, <1>5, <1>6 DEF Next

(* The store keeps its promise: every behaviour of store.go is one of       *)
(* AbsStore, so no update is lost, no batch is half applied, and a call     *)
(* that fails or dies leaves the durable map as it was.                     *)
THEOREM StoreKeepsPromise == Spec => ImplementsStore
<1>1. Init => Promise!Init
  BY EmptyOK DEF Init, Promise!Init, Promise!Contents, EmptyMap
<1> QED
  BY <1>1, StoreInvariant, StepMaps, PTL DEF Spec, ImplementsStore, Promise!Spec

-----------------------------------------------------------------------------
(* An update ends: the argument for UpdateEnds, short of its fairness.     *)

(* The conflicts of an update stay below the limit.                        *)
Counted == \A s \in updates : job[s].conflicts = 0 \/ job[s].conflicts < MaxRetries

(* Each step of an update ends it or is one conflict more, below the       *)
(* limit; no step of another strand gives it more to do.                   *)
Counts ==
  \A s \in updates :
    /\ UpdateStep(s) =>
         s \notin updates' \/ (job'[s].conflicts = job[s].conflicts + 1 /\ job'[s].conflicts < MaxRetries)
    /\ ~UpdateStep(s) => s \notin updates' \/ job'[s] = job[s]

UpdatesRunOut == []Counted /\ [][Counts]_vars

LEMMA RetryCounts ==
  ASSUME IInv, NEW s \in Strands, UpdateRetry(s)
  PROVE  /\ job'[s].conflicts = job[s].conflicts + 1 /\ job'[s].conflicts < MaxRetries
         /\ updates' = updates /\ \A t \in Strands \ {s} : job'[t] = job[t]
  BY DEF UpdateRetry, IInv, TypeOK

(* The strand whose job a step touches.                                    *)
LEMMA EndCounts ==
  ASSUME IInv, NEW s \in Strands, EndUpdate(s)
  PROVE  /\ s \notin updates' /\ updates' = updates \ {s}
         /\ \A t \in Strands \ {s} : job'[t] = job[t]
  BY DEF EndUpdate, IInv, TypeOK

LEMMA StepCounts == IInv /\ Counted /\ Next => Counts /\ Counted'
<1> SUFFICES ASSUME IInv, Counted, Next PROVE Counts /\ Counted'
  OBVIOUS
<1>1. updates \subseteq Strands
  BY DEF IInv, TypeOK
<1>2. ASSUME NEW s \in Strands, UpdateRetry(s) PROVE Counts /\ Counted'
  <2>1. UpdateStep(s) /\ s \in updates
    BY <1>2 DEF UpdateStep, UpdateRetry, IInv, TypeOK
  <2>2. Counts
    BY <1>1, <1>2, <2>1, RetryCounts DEF Counts, UpdateStep, UpdateCommit, UpdateUndone, UpdateBusy,
       UpdateAbort, EndUpdate
  <2> QED
    BY <1>1, <1>2, <2>2, RetryCounts DEF Counted
<1>3. ASSUME NEW s \in Strands, s \in updates,
             UpdateCommit(s) \/ UpdateUndone(s) \/ UpdateBusy(s) \/ UpdateAbort(s)
      PROVE  Counts /\ Counted'
  <2>1. UpdateStep(s) /\ EndUpdate(s)
    BY <1>3 DEF UpdateStep, UpdateCommit, UpdateUndone, UpdateBusy, UpdateAbort
  <2>2. /\ s \notin updates' /\ updates' = updates \ {s}
        /\ \A t \in Strands \ {s} : job'[t] = job[t]
    BY <2>1, EndCounts
  <2>3. ASSUME NEW t \in updates, t # s, UpdateStep(t) PROVE FALSE
    <3>1. \/ updates' = updates \ {t}
          \/ updates' = updates
      BY <2>3 DEF UpdateStep, UpdateCommit, UpdateUndone, UpdateRetry, UpdateBusy, UpdateAbort, EndUpdate
    <3> QED
      BY <1>3, <2>2, <2>3, <3>1
  <2> QED
    BY <1>1, <1>3, <2>1, <2>2, <2>3 DEF Counts, Counted
<1>4. ASSUME job' = job, updates' = updates PROVE Counts /\ Counted'
  <2>1. Counted'
    BY <1>4 DEF Counted
  <2>2. ASSUME NEW s \in updates PROVE ~UpdateStep(s)
    <3>1. ~UpdateRetry(s)
      <4>1. job[s].conflicts \in Nat
        BY DEF IInv, TypeOK, Jobs
      <4> QED
        BY <1>1, <1>4, <4>1, RetryCounts
    <3>2. ~EndUpdate(s)
      BY <1>4 DEF EndUpdate
    <3> QED
      BY <3>1, <3>2 DEF UpdateStep, UpdateCommit, UpdateUndone, UpdateBusy, UpdateAbort
  <2> QED
    BY <1>4, <2>1, <2>2 DEF Counts
<1>5. ASSUME NEW s \in Strands, NEW k \in Keys, NEW f \in Transforms, UpdateBegin(s, k, f)
      PROVE  Counts /\ Counted'
  <2>1. /\ s \notin updates /\ updates' = updates \cup {s}
        /\ job'[s].conflicts = 0 /\ \A t \in Strands \ {s} : job'[t] = job[t]
    BY <1>5 DEF UpdateBegin, IInv, TypeOK
  <2>2. ASSUME NEW t \in updates PROVE ~UpdateStep(t)
    BY <2>1 DEF UpdateStep, UpdateCommit, UpdateUndone, UpdateRetry, UpdateBusy, UpdateAbort, EndUpdate
  <2> QED
    BY <1>1, <2>1, <2>2 DEF Counts, Counted
<1>6. ASSUME NEW p \in Sessions, Crash(p) PROVE Counts /\ Counted'
  <2>1. /\ updates' = updates \ Of(p)
        /\ \A t \in Strands : t \notin Of(p) => job'[t] = job[t]
        /\ p \notin open'
    BY <1>6 DEF Crash
  <2>2. ASSUME NEW t \in updates PROVE ~UpdateStep(t) \/ t \notin updates'
    <3>1. ASSUME UpdateRetry(t) PROVE FALSE
      BY <1>6, <3>1 DEF Crash, UpdateRetry
    <3>2. ASSUME EndUpdate(t) PROVE t \notin updates'
      BY <3>2 DEF EndUpdate
    <3> QED
      BY <3>1, <3>2 DEF UpdateStep, UpdateCommit, UpdateUndone, UpdateBusy, UpdateAbort
  <2> QED
    BY <1>1, <2>1, <2>2 DEF Counts, Counted
<1>7. CASE \E p \in Sessions : Open(p) \/ Close(p)
  BY <1>4, <1>7 DEF Open, Close
<1>8. CASE \E s \in Strands : PlainStep(s)
  BY <1>4, <1>8 DEF PlainStep, Delete, Set, Clear, Mutate
<1>9. CASE \E s \in Strands : BatchStep(s)
  BY <1>4, <1>9 DEF BatchStep, BatchBegin, BatchCommit, BatchUndone, EndBatch
<1>10. ASSUME NEW s \in Strands, UpdateStep(s) PROVE s \in updates
  BY <1>10 DEF UpdateStep, UpdateCommit, UpdateUndone, UpdateRetry, UpdateBusy, UpdateAbort, IInv, TypeOK
<1> QED
  BY <1>2, <1>3, <1>5, <1>6, <1>7, <1>8, <1>9, <1>10 DEF Next, UpdateStep

(* The conflicts of a store_update are counted whatever the others write:  *)
(* its own steps end it, or bring it nearer to maxStoreUpdateRetries, and  *)
(* nothing but them, and the death of its process, touches it (update).    *)
THEOREM ConflictsRunOut == Spec => UpdatesRunOut
<1>1. Init => Counted
  BY DEF Init, Counted
<1>2. IInv /\ Counted /\ [Next]_vars => Counted' /\ [Counts]_vars
  <2>1. CASE UNCHANGED vars
    BY <2>1 DEF vars, Counted
  <2> QED
    BY <2>1, StepCounts
<1> QED
  BY <1>1, <1>2, StoreInvariant, PTL DEF Spec, UpdatesRunOut
=============================================================================

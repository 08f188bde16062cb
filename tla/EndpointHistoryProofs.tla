------------------------- MODULE EndpointHistoryProofs -------------------------
(***************************************************************************)
(* Proofs about the addresses a node remembers of its peers, for any       *)
(* addresses, any limit of a peer's history and any number of calls.       *)
(***************************************************************************)
EXTENDS MCPeerRecords, Integers, Sequences, FiniteSetTheorems, TLAPS

(* The provers of a leaf that names none, and their seconds. A leaf that   *)
(* needs arithmetic, functions or records names SMT.                       *)
USE ZenonT(30), SMTT(30)

(* First the operators of the in-memory store: its stable sort is a        *)
(* permutation that puts the newest first.                                 *)
HistoryRows == [address : Native \cup Mapped, success : Nat, failures : Nat, retry : Nat]

LEMMA RowFacts ==
    ASSUME NEW rows \in Seq(HistoryRows)
    PROVE  /\ DOMAIN rows = 1..Len(rows) /\ Len(rows) \in Nat
           /\ \A k \in DOMAIN rows : rows[k] \in HistoryRows /\ rows[k].success \in Nat
<1>1. DOMAIN rows = 1..Len(rows) /\ Len(rows) \in Nat
  BY SMTT(30)
<1>2. \A k \in 1..Len(rows) : rows[k] \in HistoryRows
  BY SMTT(30)
<1>3. \A r \in HistoryRows : r.success \in Nat
  BY DEF HistoryRows
<1>. QED
  BY <1>1, <1>2, <1>3

Rank(rows, i) == Cardinality(History!UpTo(rows, i))

LEMMA RankOrder ==
    ASSUME NEW rows \in Seq(HistoryRows), NEW i \in DOMAIN rows, NEW j \in DOMAIN rows, i # j,
           \/ rows[i].success > rows[j].success
           \/ rows[i].success = rows[j].success /\ i < j
    PROVE  Rank(rows, i) < Rank(rows, j)
<1>1. /\ DOMAIN rows = 1..Len(rows) /\ Len(rows) \in Nat
      /\ \A k \in DOMAIN rows : rows[k].success \in Nat
  BY RowFacts
<1>2. IsFiniteSet(DOMAIN rows)
  BY <1>1, FS_Interval, SMTT(30)
<1>3. /\ History!UpTo(rows, i) \subseteq History!UpTo(rows, j)
      /\ j \in History!UpTo(rows, j) /\ j \notin History!UpTo(rows, i)
  BY <1>1, SMTT(30) DEF History!UpTo
<1>4. IsFiniteSet(History!UpTo(rows, j))
  BY <1>2, FS_Subset DEF History!UpTo
<1>5. /\ IsFiniteSet(History!UpTo(rows, i)) /\ Rank(rows, i) <= Rank(rows, j)
      /\ Rank(rows, i) # Rank(rows, j)
  BY <1>3, <1>4, FS_Subset DEF Rank
<1>. QED
  BY <1>4, <1>5, FS_CardinalityType, SMTT(30) DEF Rank

LEMMA SortPermutes ==
    ASSUME NEW rows \in Seq(HistoryRows)
    PROVE  /\ \A i \in DOMAIN rows :
                 /\ Rank(rows, i) \in DOMAIN rows
                 /\ History!NewestFirst(rows)[Rank(rows, i)] = rows[i]
           /\ \A k \in DOMAIN rows : \E i \in DOMAIN rows : Rank(rows, i) = k
           /\ \A i, j \in DOMAIN rows :
                 Rank(rows, i) <= Rank(rows, j) => rows[i].success >= rows[j].success
           /\ \A i, j \in DOMAIN rows : Rank(rows, i) = Rank(rows, j) => i = j
<1> DEFINE D == DOMAIN rows
<1>1. /\ D = 1..Len(rows) /\ Len(rows) \in Nat
      /\ \A k \in D : rows[k].success \in Nat
  BY RowFacts
<1>2. IsFiniteSet(D) /\ Cardinality(D) = Len(rows)
  BY <1>1, FS_Interval, SMTT(30)
<1>3. ASSUME NEW i \in D PROVE Rank(rows, i) \in D
  <2>1. History!UpTo(rows, i) \subseteq D /\ i \in History!UpTo(rows, i)
    BY <1>1, SMTT(30) DEF History!UpTo
  <2>2. IsFiniteSet(History!UpTo(rows, i)) /\ Rank(rows, i) <= Len(rows)
    BY <1>2, <2>1, FS_Subset DEF Rank
  <2>3. Rank(rows, i) \in Nat /\ Rank(rows, i) # 0
    BY <2>1, <2>2, FS_CardinalityType, FS_EmptySet DEF Rank
  <2>. QED
    BY <1>1, <2>2, <2>3, SMTT(30)
<1>4. ASSUME NEW i \in D, NEW j \in D, i # j PROVE Rank(rows, i) # Rank(rows, j)
  <2>1. \/ rows[i].success > rows[j].success \/ rows[i].success < rows[j].success
        \/ rows[i].success = rows[j].success /\ (i < j \/ j < i)
    BY <1>1, <1>4, SMTT(30)
  <2>2. Rank(rows, i) \in Nat /\ Rank(rows, j) \in Nat
    BY <1>1, <1>3, SMTT(30)
  <2>. QED
    BY <1>1, <1>4, <2>1, <2>2, RankOrder, SMTT(30)
<1>5. ASSUME NEW i \in D, NEW j \in D, Rank(rows, i) <= Rank(rows, j)
      PROVE  rows[i].success >= rows[j].success
  <2> SUFFICES ASSUME rows[j].success > rows[i].success PROVE FALSE
    BY <1>1, SMTT(30)
  <2>1. Rank(rows, j) < Rank(rows, i)
    BY <1>1, RankOrder, SMTT(30)
  <2>2. Rank(rows, i) \in Nat /\ Rank(rows, j) \in Nat
    BY <1>1, <1>3, SMTT(30)
  <2>. QED
    BY <1>5, <2>1, <2>2, SMTT(30)
<1>6. \A k \in D : \E i \in D : Rank(rows, i) = k
  <2> DEFINE f == [i \in D |-> Rank(rows, i)]
  <2>1. f \in [D -> D]
    BY <1>3
  <2>2. \A i, j \in D : f[i] = f[j] => i = j
    BY <1>4
  <2>3. f \in Injection(D, D)
    BY <2>1, <2>2 DEF Injection, IsInjective
  <2>4. f \in Surjection(D, D)
    BY <1>2, <2>3, FS_Injection
  <2>5. \A k \in D : \E i \in D : f[i] = k
    BY <2>4 DEF Surjection
  <2>. QED
    BY <2>5
<1>7. ASSUME NEW i \in D PROVE History!NewestFirst(rows)[Rank(rows, i)] = rows[i]
  <2>1. (CHOOSE j \in D : Rank(rows, j) = Rank(rows, i)) = i
    BY <1>4
  <2>. QED
    BY <1>3, <2>1 DEF History!NewestFirst, Rank, History!Cardinality, Cardinality
<1>. QED
  BY <1>3, <1>4, <1>5, <1>6, <1>7

Unique(rows) == \A i, j \in DOMAIN rows : rows[i].address = rows[j].address => i = j

LEMMA FirstRows ==
    ASSUME NEW rows \in Seq(HistoryRows), NEW n \in Nat, n <= Len(rows)
    PROVE  /\ SubSeq(rows, 1, n) \in Seq(HistoryRows) /\ Len(SubSeq(rows, 1, n)) = n
           /\ DOMAIN SubSeq(rows, 1, n) = 1..n
           /\ \A k \in 1..n : k \in 1..Len(rows) /\ SubSeq(rows, 1, n)[k] = rows[k]
<1>1. SubSeq(rows, 1, n) \in Seq(HistoryRows)
  BY SMTT(30)
<1>2. Len(SubSeq(rows, 1, n)) = n
  BY SMTT(30)
<1>3. \A k \in 1..n : k \in 1..Len(rows)
  BY SMTT(30)
<1>4. \A k \in 1..n : SubSeq(rows, 1, n)[k] = rows[k]
  BY SMTT(30)
<1>. QED
  BY <1>1, <1>2, <1>3, <1>4, SMTT(30)

(* What is dropped at the limit is no newer than what is kept.             *)
NewestOf(rows, kept) ==
    /\ kept \in Seq(HistoryRows)
    /\ Len(kept) = IF Len(rows) > Limit THEN Limit ELSE Len(rows)
    /\ Unique(kept)
    /\ \A k \in DOMAIN kept : \E i \in DOMAIN rows : kept[k] = rows[i]
    /\ \A i \in DOMAIN rows :
          \/ \E k \in DOMAIN kept : kept[k] = rows[i]
          \/ /\ Len(kept) = Limit /\ Len(rows) > Limit
             /\ \A k \in DOMAIN kept : kept[k].success >= rows[i].success
    /\ Len(rows) > Limit => \E i \in DOMAIN rows : \A k \in DOMAIN kept : kept[k] # rows[i]

LEMMA KeepsNewest ==
    ASSUME NEW rows \in Seq(HistoryRows), Unique(rows)
    PROVE  NewestOf(rows, History!Truncated(History!NewestFirst(rows)))
<1> DEFINE kept == History!Truncated(History!NewestFirst(rows))
<1> DEFINE N == History!NewestFirst(rows)
<1>0. Len(rows) \in Nat /\ DOMAIN rows = 1..Len(rows)
  BY RowFacts
<1>1. /\ DOMAIN rows = 1..Len(rows) /\ Len(rows) \in Nat
      /\ \A k \in DOMAIN rows : rows[k] \in HistoryRows
  BY RowFacts
<1>2. PICK n \in Nat : n <= Len(rows) /\ n = IF Len(rows) > Limit THEN Limit ELSE Len(rows)
  BY <1>0, HistoryConstantsOK, SMTT(30)
<1>3. DOMAIN N = 1..Len(rows)
  BY <1>1 DEF History!NewestFirst
<1>4. \A k \in 1..Len(rows) : \E i \in DOMAIN rows : Rank(rows, i) = k /\ N[k] = rows[i]
  <2>1. /\ \A i \in DOMAIN rows : N[Rank(rows, i)] = rows[i]
        /\ \A k \in DOMAIN rows : \E i \in DOMAIN rows : Rank(rows, i) = k
    BY SortPermutes
  <2>. QED
    BY <1>0, <2>1
<1>5. N \in Seq(HistoryRows) /\ Len(N) = Len(rows)
  <2>1. \A k \in 1..Len(rows) : N[k] \in HistoryRows
    BY <1>1, <1>4
  <2>2. N = [k \in 1..Len(rows) |-> N[k]]
    BY <1>1, SMTT(30) DEF History!NewestFirst
  <2>. QED
    BY <1>1, <2>1, <2>2, SMTT(30)
<1> HIDE DEF N
<1>6. kept = SubSeq(N, 1, n)
  BY <1>2, <1>5 DEF History!Truncated, N
<1> HIDE DEF kept
<1>7. /\ kept \in Seq(HistoryRows) /\ Len(kept) = n /\ DOMAIN kept = 1..n
      /\ \A k \in 1..n : kept[k] = N[k]
  BY <1>2, <1>5, <1>6, FirstRows
<1>8. \A k \in 1..n : k \in 1..Len(rows)
  BY <1>2, FirstRows
<1>9. ASSUME NEW k \in 1..n, NEW l \in 1..n, kept[k].address = kept[l].address PROVE k = l
  <2>1. PICK i \in DOMAIN rows : Rank(rows, i) = k /\ N[k] = rows[i]
    BY <1>4, <1>8
  <2>2. PICK j \in DOMAIN rows : Rank(rows, j) = l /\ N[l] = rows[j]
    BY <1>4, <1>8
  <2>. QED
    BY <1>7, <1>9, <2>1, <2>2 DEF Unique
<1>10. ASSUME NEW i \in DOMAIN rows, ~\E k \in DOMAIN kept : kept[k] = rows[i]
       PROVE  /\ Len(kept) = Limit /\ Len(rows) > Limit
              /\ \A k \in DOMAIN kept : kept[k].success >= rows[i].success
  <2>1. Rank(rows, i) \in 1..Len(rows) /\ N[Rank(rows, i)] = rows[i]
    BY <1>1, SortPermutes DEF N
  <2>2. Rank(rows, i) > n
    <3>1. Rank(rows, i) \notin 1..n
      BY <1>7, <1>10, <2>1
    <3>2. Rank(rows, i) \in 1..Len(rows)
      BY <2>1
    <3>. QED
      BY <1>0, <3>1, <3>2, SMTT(30)
  <2>3. n = Limit /\ Len(rows) > Limit
    BY <1>0, <1>2, <2>1, <2>2, HistoryConstantsOK, SMTT(30)
  <2>4. ASSUME NEW k \in 1..n PROVE kept[k].success >= rows[i].success
    <3>1. PICK j \in DOMAIN rows : Rank(rows, j) = k /\ N[k] = rows[j]
      BY <1>4, <1>8
    <3>2. Rank(rows, j) <= Rank(rows, i)
      BY <2>1, <2>2, <3>1, SMTT(30)
    <3>3. rows[j].success >= rows[i].success
      BY <3>2, SortPermutes
    <3>. QED
      BY <1>7, <3>1, <3>3
  <2>. QED
    BY <1>7, <2>3, <2>4
<1>11. \A k \in DOMAIN kept : \E i \in DOMAIN rows : kept[k] = rows[i]
  BY <1>4, <1>7, <1>8
<1>12. ASSUME Len(rows) > Limit
       PROVE  \E i \in DOMAIN rows : \A k \in DOMAIN kept : kept[k] # rows[i]
  <2>1. n = Limit /\ n < Len(rows) /\ Len(rows) \in 1..Len(rows)
    BY <1>0, <1>2, <1>12, HistoryConstantsOK, SMTT(30)
  <2>2. PICK i \in DOMAIN rows : Rank(rows, i) = Len(rows)
    BY <1>4, <2>1
  <2>3. ASSUME NEW k \in 1..n PROVE kept[k] # rows[i]
    <3>1. PICK j \in DOMAIN rows : Rank(rows, j) = k /\ N[k] = rows[j]
      BY <1>4, <1>8
    <3>2. i # j
      BY <2>1, <2>2, <3>1, SMTT(30)
    <3>. QED
      BY <1>7, <3>1, <3>2 DEF Unique
  <2>. QED
    BY <1>7, <2>3
<1>13. NewestOf(rows, kept)
  BY <1>2, <1>7, <1>9, <1>10, <1>11, <1>12 DEF Unique, NewestOf
<1>. QED
  BY <1>13 DEF kept

-----------------------------------------------------------------------------
HistoryCalls == [ok : BOOLEAN, host : Native \cup Mapped, now : Nat]

HistoryTypes ==
    /\ clock \in Nat /\ forgetting \in BOOLEAN
    /\ memory \in Seq(HistoryRows) /\ Len(memory) <= Limit
    /\ sqlite \subseteq HistoryRows
    /\ phase \in [Dials -> {"idle", "checked", "racing"}]
    /\ listed \in [Dials -> SUBSET (Native \cup Mapped)]
    /\ call \in [History!Writers -> HistoryCalls \cup {NoCall}]
    /\ report \in [Native \cup Mapped -> Int]

(* The in-memory list has the row, or it is full of rows that are no       *)
(* older, unless a late success has aged one of them since.                *)
Kept(r) ==
    \/ \E i \in DOMAIN memory : memory[i].address = r.address
    \/ /\ Len(memory) = Limit
       /\ ~late => \A i \in DOMAIN memory : memory[i].success >= r.success

(* An address has one row in each store, the same in both.                 *)
StoresInv ==
    /\ Unique(memory)
    /\ \A r, q \in sqlite : r.address = q.address => r = q
    /\ \A r \in sqlite, i \in DOMAIN memory : memory[i].address = r.address => memory[i] = r
    /\ \A r \in sqlite : Kept(r)

(* The rows say what was reported.                                         *)
ReportInv ==
    /\ ~known => sqlite = {} /\ \A a \in Native \cup Mapped : report[a] = History!Unknown
    /\ \A a \in Native : report[a] >= 0 =>
          /\ \A r \in sqlite : r.address = a => r.retry >= report[a] + 2
          /\ \A i \in DOMAIN memory : memory[i].address = a => memory[i].retry >= report[a] + 2
    /\ \A r \in sqlite : report[r.address] = History!Fresh => r.retry = 0

HistoryInv == HistoryTypes /\ StoresInv /\ ReportInv


-----------------------------------------------------------------------------
(* What the calls do to the in-memory store.                               *)
Holds(m, r) ==
    \/ \E k \in DOMAIN m : m[k] = r
    \/ Len(m) = Limit /\ \A k \in DOMAIN m : m[k].success >= r.success

LEMMA NewRow ==
    ASSUME NEW a \in Native \cup Mapped, NEW now \in Nat
    PROVE  /\ History!Row(a, now) \in HistoryRows /\ History!Row(a, now).address = a
           /\ History!Row(a, now).success = now /\ History!Row(a, now).retry = 0
BY DEF History!Row, HistoryRows

(* The list with the row of an address replaced, or with one added.        *)
ReplacedIn(rows, new, m) ==
    /\ m \in Seq(HistoryRows) /\ Len(m) = Len(rows) /\ DOMAIN m = DOMAIN rows /\ Unique(m)
    /\ \A i \in DOMAIN rows : rows[i].address # new.address => m[i] = rows[i]
    /\ \A i \in DOMAIN rows : rows[i].address = new.address => m[i] = new

LEMMA Replaced ==
    ASSUME NEW rows \in Seq(HistoryRows), Unique(rows), NEW new \in HistoryRows
    PROVE  ReplacedIn(rows, new, [i \in DOMAIN rows |->
                                    IF rows[i].address = new.address THEN new ELSE rows[i]])
<1> DEFINE m == [i \in DOMAIN rows |-> IF rows[i].address = new.address THEN new ELSE rows[i]]
<1>1. /\ DOMAIN rows = 1..Len(rows) /\ Len(rows) \in Nat
      /\ \A k \in DOMAIN rows : rows[k] \in HistoryRows
  BY RowFacts
<1>2. \A i \in DOMAIN rows : m[i] \in HistoryRows
  BY <1>1
<1>3. m = [i \in 1..Len(rows) |-> m[i]] /\ DOMAIN m = DOMAIN rows
  BY <1>1
<1>4. m \in Seq(HistoryRows) /\ Len(m) = Len(rows)
  BY <1>1, <1>2, <1>3, SMTT(30)
<1>5. \A i \in DOMAIN rows : m[i].address = rows[i].address
  OBVIOUS
<1>6. /\ \A i \in DOMAIN rows : rows[i].address # new.address => m[i] = rows[i]
      /\ \A i \in DOMAIN rows : rows[i].address = new.address => m[i] = new
  OBVIOUS
<1> HIDE DEF m
<1>7. Unique(m)
  BY <1>3, <1>5 DEF Unique
<1>8. ReplacedIn(rows, new, m)
  BY <1>3, <1>4, <1>6, <1>7 DEF ReplacedIn
<1>. QED
  BY <1>8 DEF m

AddedTo(rows, new, m) ==
    /\ m \in Seq(HistoryRows) /\ Len(m) = Len(rows) + 1 /\ Unique(m)
    /\ Len(rows) + 1 \in DOMAIN m /\ m[Len(rows) + 1] = new
    /\ \A i \in DOMAIN rows : i \in DOMAIN m /\ m[i] = rows[i]
    /\ \A k \in DOMAIN m : k = Len(rows) + 1 \/ k \in DOMAIN rows

LEMMA Added ==
    ASSUME NEW rows \in Seq(HistoryRows), Unique(rows),
           NEW new \in HistoryRows, \A i \in DOMAIN rows : rows[i].address # new.address
    PROVE  AddedTo(rows, new, Append(rows, new))
<1> DEFINE m == Append(rows, new)
<1>1. /\ DOMAIN rows = 1..Len(rows) /\ Len(rows) \in Nat
      /\ \A k \in DOMAIN rows : rows[k] \in HistoryRows
  BY RowFacts
<1>2. m \in Seq(HistoryRows) /\ Len(m) = Len(rows) + 1 /\ m[Len(rows) + 1] = new
  BY <1>1, SMTT(30)
<1>3. DOMAIN m = 1..(Len(rows) + 1)
  BY <1>1, <1>2, SMTT(30)
<1>4. \A i \in DOMAIN rows : i \in DOMAIN m /\ m[i] = rows[i]
  BY <1>1, <1>3, SMTT(30)
<1>5. /\ \A k \in DOMAIN m : k = Len(rows) + 1 \/ k \in DOMAIN rows
      /\ Len(rows) + 1 \in DOMAIN m
  BY <1>1, <1>3, SMTT(30)
<1> HIDE DEF m
<1>6. AddedTo(rows, new, m)
  BY <1>2, <1>4, <1>5 DEF Unique, AddedTo
<1>. QED
  BY <1>6 DEF m

LEMMA Cut ==
    ASSUME NEW n \in Nat, n <= Limit, NEW l, l = IF n + 1 > Limit THEN Limit ELSE n + 1
    PROVE  l <= Limit /\ l # 0 /\ (n = Limit => l = Limit)
<1>1. Limit \in Nat /\ Limit # 0
  BY HistoryConstantsOK
<1>2. CASE n + 1 > Limit
  BY <1>1, <1>2, SMTT(30)
<1>3. CASE ~(n + 1 > Limit)
  BY <1>1, <1>3, SMTT(30)
<1>. QED
  BY <1>2, <1>3

(* record_authenticated: the new row and the other rows are kept, or the   *)
(* list is full of rows that are no older; a full list only takes a new    *)
(* address in by dropping an address with no newer success.                *)
LEMMA Remembers ==
    ASSUME HistoryTypes, Unique(memory), NEW a \in Native \cup Mapped, NEW now \in Nat,
           NEW m, m = History!MemoryAuthenticated(a, now)
    PROVE  /\ m \in Seq(HistoryRows) /\ Len(m) <= Limit /\ Len(m) # 0 /\ Unique(m)
           /\ Len(memory) = Limit => Len(m) = Limit
           /\ \A k \in DOMAIN m :
                 \/ m[k] = History!Row(a, now)
                 \/ \E i \in DOMAIN memory : memory[i].address # a /\ m[k] = memory[i]
           /\ Holds(m, History!Row(a, now))
           /\ \A i \in DOMAIN memory : memory[i].address # a => Holds(m, memory[i])
           /\ \/ \E i \in DOMAIN memory : memory[i].address = a /\ \E k \in DOMAIN m : m[k] = History!Row(a, now)
              \/ Len(memory) # Limit
              \/ \A k \in DOMAIN m : m[k] # History!Row(a, now)
              \/ \E i \in DOMAIN memory : now >= memory[i].success
<1> DEFINE new == History!Row(a, now)
<1>0. new \in HistoryRows /\ new.address = a /\ new.success = now
  BY NewRow
<1>1. /\ memory \in Seq(HistoryRows) /\ Len(memory) <= Limit /\ Len(memory) \in Nat
      /\ DOMAIN memory = 1..Len(memory) /\ Limit \in Nat /\ Limit # 0
  BY RowFacts, HistoryConstantsOK DEF HistoryTypes
<1>2. a \in History!AddressesOf(History!Range(memory)) <=> \E i \in DOMAIN memory : memory[i].address = a
  BY DEF History!AddressesOf, History!Range, Range
<1> HIDE DEF new
<1>3. CASE \E i \in DOMAIN memory : memory[i].address = a
  <2> DEFINE rows == [i \in DOMAIN memory |->
                        IF memory[i].address = new.address THEN new ELSE memory[i]]
  <2>1. m = History!Truncated(History!NewestFirst(rows))
    BY <1>0, <1>2, <1>3 DEF History!MemoryAuthenticated, new
  <2>2. ReplacedIn(memory, new, rows)
    BY <1>0, <1>1, Replaced
  <2> HIDE DEF rows
  <2>3. NewestOf(rows, m)
    BY <2>1, <2>2, KeepsNewest DEF ReplacedIn
  <2>4. /\ Len(rows) = Len(memory) /\ DOMAIN rows = DOMAIN memory
        /\ \A i \in DOMAIN memory : memory[i].address # new.address => rows[i] = memory[i]
        /\ \A i \in DOMAIN memory : memory[i].address = new.address => rows[i] = new
    BY <2>2 DEF ReplacedIn
  <2>5. ~(Len(rows) > Limit)
    BY <1>1, <2>4, SMTT(30)
  <2>6. /\ m \in Seq(HistoryRows) /\ Unique(m) /\ Len(m) = Len(rows)
        /\ \A k \in DOMAIN m : \E i \in DOMAIN rows : m[k] = rows[i]
        /\ \A i \in DOMAIN rows : \E k \in DOMAIN m : m[k] = rows[i]
    BY <2>3, <2>5 DEF NewestOf
  <2>7. Len(m) = Len(memory) /\ Len(m) <= Limit /\ Len(m) # 0
    <3>1. Len(m) = Len(memory)
      BY <2>4, <2>5, <2>6
    <3>. QED
      BY <1>1, <1>3, <3>1, SMTT(30)
  <2>8. \A k \in DOMAIN m : m[k] = new \/ \E i \in DOMAIN memory : memory[i].address # a /\ m[k] = memory[i]
    <3> SUFFICES ASSUME NEW k \in DOMAIN m
                 PROVE  m[k] = new \/ \E i \in DOMAIN memory : memory[i].address # a /\ m[k] = memory[i]
      OBVIOUS
    <3>1. PICK i \in DOMAIN memory : m[k] = rows[i]
      BY <2>4, <2>6
    <3>. QED
      BY <1>0, <2>4, <3>1
  <2>9. \E i \in DOMAIN memory : memory[i].address = a /\ \E k \in DOMAIN m : m[k] = new
    <3>1. PICK i \in DOMAIN memory : memory[i].address = a
      BY <1>3
    <3>2. rows[i] = new /\ i \in DOMAIN rows
      BY <1>0, <2>4, <3>1
    <3>. QED
      BY <2>5, <2>6, <3>1, <3>2
  <2>10. ASSUME NEW i \in DOMAIN memory, memory[i].address # a PROVE Holds(m, memory[i])
    <3>1. rows[i] = memory[i] /\ i \in DOMAIN rows
      BY <1>0, <2>4, <2>10
    <3>. QED
      BY <2>5, <2>6, <3>1, ZenonT(30) DEF Holds
  <2>. QED
    BY <2>6, <2>7, <2>8, <2>9, <2>10 DEF Holds, new
<1>4. CASE \A i \in DOMAIN memory : memory[i].address # a
  <2> DEFINE rows == Append(memory, new)
  <2>1. m = History!Truncated(History!NewestFirst(rows))
    BY <1>2, <1>4 DEF History!MemoryAuthenticated, new
  <2>2. AddedTo(memory, new, rows)
    BY <1>0, <1>1, <1>4, Added
  <2> HIDE DEF rows
  <2>3. NewestOf(rows, m)
    BY <2>1, <2>2, KeepsNewest DEF AddedTo
  <2>a. /\ Len(rows) = Len(memory) + 1
        /\ Len(memory) + 1 \in DOMAIN rows /\ rows[Len(memory) + 1] = new
        /\ \A i \in DOMAIN memory : i \in DOMAIN rows /\ rows[i] = memory[i]
        /\ \A k \in DOMAIN rows : k = Len(memory) + 1 \/ k \in DOMAIN memory
    BY <2>2 DEF AddedTo
  <2>b. /\ m \in Seq(HistoryRows) /\ Unique(m)
        /\ \A k \in DOMAIN m : \E i \in DOMAIN rows : m[k] = rows[i]
        /\ \A i \in DOMAIN rows : Holds(m, rows[i])
        /\ Len(rows) > Limit => \E i \in DOMAIN rows : \A k \in DOMAIN m : m[k] # rows[i]
    BY <2>3 DEF NewestOf, Holds
  <2>4. Len(m) <= Limit /\ Len(m) # 0 /\ (Len(memory) = Limit => Len(m) = Limit)
    <3>1. Len(m) = IF Len(rows) > Limit THEN Limit ELSE Len(rows)
      BY <2>3 DEF NewestOf
    <3>2. Len(rows) = Len(memory) + 1
      BY <2>a
    <3>. QED
      BY <1>1, <3>1, <3>2, Cut
  <2>5. \A k \in DOMAIN m : m[k] = new \/ \E i \in DOMAIN memory : memory[i].address # a /\ m[k] = memory[i]
    <3> SUFFICES ASSUME NEW k \in DOMAIN m
                 PROVE  m[k] = new \/ \E i \in DOMAIN memory : memory[i].address # a /\ m[k] = memory[i]
      OBVIOUS
    <3>1. PICK i \in DOMAIN rows : m[k] = rows[i]
      BY <2>b
    <3>. QED
      BY <1>4, <2>a, <3>1
  <2>6. Holds(m, new)
    BY <2>a, <2>b
  <2>7. \A i \in DOMAIN memory : Holds(m, memory[i])
    BY <2>a, <2>b
  <2>8. ASSUME Len(memory) = Limit, NEW k \in DOMAIN m, m[k] = new
        PROVE  \E i \in DOMAIN memory : now >= memory[i].success
    <3>1. Len(rows) > Limit
      BY <1>1, <2>a, <2>8, SMTT(30)
    <3>2. PICK i \in DOMAIN rows : \A l \in DOMAIN m : m[l] # rows[i]
      BY <2>b, <3>1
    <3>3. m[k].success >= rows[i].success
      BY <2>b, <3>2 DEF Holds
    <3>4. i \in DOMAIN memory /\ rows[i] = memory[i]
      BY <2>a, <2>8, <3>2
    <3>. QED
      BY <1>0, <2>8, <3>3, <3>4
  <2>. QED
    BY <2>b, <2>4, <2>5, <2>6, <2>7, <2>8 DEF new
<1>. QED
  BY <1>3, <1>4


(* record_failure: the backoff is at least two seconds and, in the SQL     *)
(* statement, never at its cap, so that both stores write the same row.    *)
Failed(r, now) == [r EXCEPT !.failures = r.failures + 1,
                            !.retry = now + 2^History!Exponent(r.failures + 1)]
AfterFailure(r, a, now) == IF r.address # a THEN r ELSE Failed(r, now)

LEMMA Backoff ==
    ASSUME NEW n \in Nat \ {0}
    PROVE  2^History!Exponent(n) \in Nat /\ 2 <= 2^History!Exponent(n) /\ 2^History!Exponent(n) <= DelayCap
<1>1. MaxExponent \in Nat \ {0} /\ DelayCap \in Nat
  BY HistoryConstantsOK
<1>2. History!Exponent(n) \in 1..MaxExponent
  BY <1>1, SMTT(30) DEF History!Exponent
<1>3. 2^History!Exponent(n) \in 2..DelayCap
  BY <1>2, HistoryConstantsOK
<1> DEFINE delay == 2^History!Exponent(n)
<1> HIDE DEF delay
<1>4. delay \in 2..DelayCap => delay \in Nat /\ 2 <= delay /\ delay <= DelayCap
  BY <1>1, SMTT(30)
<1>. QED
  BY <1>3, <1>4 DEF delay

LEMMA FailedRow ==
    ASSUME NEW r \in HistoryRows, NEW a, NEW now \in Nat
    PROVE  /\ Failed(r, now) \in HistoryRows
           /\ Failed(r, now).address = r.address /\ Failed(r, now).success = r.success
           /\ Failed(r, now).retry >= now + 2
           /\ AfterFailure(r, a, now) \in HistoryRows
           /\ AfterFailure(r, a, now).address = r.address
           /\ AfterFailure(r, a, now).success = r.success
<1> DEFINE delay == 2^History!Exponent(r.failures + 1)
<1>1. r.failures + 1 \in Nat \ {0} /\ r.failures \in Nat
  BY SMTT(30) DEF HistoryRows
<1>2. delay \in Nat /\ 2 <= delay
  BY <1>1, Backoff
<1> HIDE DEF delay
<1>3. Failed(r, now) = [r EXCEPT !.failures = r.failures + 1, !.retry = now + delay]
  BY DEF Failed, delay
<1>4. /\ Failed(r, now) \in HistoryRows
      /\ Failed(r, now).address = r.address /\ Failed(r, now).success = r.success
      /\ Failed(r, now).retry = now + delay
  <2> DEFINE retry == now + delay
             count == r.failures + 1
  <2>1. retry \in Nat /\ count \in Nat
    BY <1>1, <1>2, SMTT(30)
  <2>2. Failed(r, now) = [r EXCEPT !.failures = count, !.retry = retry]
    BY <1>3
  <2> HIDE DEF retry, count
  <2> DEFINE q == [r EXCEPT !.failures = count]
  <2>3. q \in HistoryRows /\ q.address = r.address /\ q.success = r.success
    BY <2>1 DEF HistoryRows
  <2>4. Failed(r, now) = [q EXCEPT !.retry = retry]
    BY <2>2
  <2> HIDE DEF q
  <2>5. /\ [q EXCEPT !.retry = retry] \in HistoryRows
        /\ [q EXCEPT !.retry = retry].address = q.address
        /\ [q EXCEPT !.retry = retry].success = q.success
        /\ [q EXCEPT !.retry = retry].retry = retry
    BY <2>1, <2>3 DEF HistoryRows
  <2>. QED
    BY <2>3, <2>4, <2>5 DEF retry
<1>5. now + delay >= now + 2
  BY <1>2, SMTT(30)
<1>. QED
  BY <1>4, <1>5 DEF AfterFailure

LEMMA MemoryFails ==
    ASSUME HistoryTypes, NEW a, NEW now \in Nat,
           NEW m, m = History!MemoryFailure(a, now)
    PROVE  /\ m \in Seq(HistoryRows) /\ Len(m) = Len(memory) /\ DOMAIN m = DOMAIN memory
           /\ \A i \in DOMAIN memory : m[i] = AfterFailure(memory[i], a, now)
<1>1. /\ memory \in Seq(HistoryRows) /\ DOMAIN memory = 1..Len(memory) /\ Len(memory) \in Nat
      /\ \A i \in DOMAIN memory : memory[i] \in HistoryRows
  BY RowFacts DEF HistoryTypes
<1>2. m = [i \in DOMAIN memory |-> AfterFailure(memory[i], a, now)]
  BY DEF History!MemoryFailure, AfterFailure, Failed
<1>3. \A i \in DOMAIN memory : m[i] = AfterFailure(memory[i], a, now) /\ m[i] \in HistoryRows
  BY <1>1, <1>2, FailedRow, SMTT(30)
<1>4. DOMAIN m = DOMAIN memory /\ m = [i \in 1..Len(memory) |-> m[i]]
  BY <1>1, <1>2
<1>5. m \in Seq(HistoryRows) /\ Len(m) = Len(memory)
  BY <1>1, <1>3, <1>4, SMTT(30)
<1>. QED
  BY <1>3, <1>4, <1>5

LEMMA SqliteFails ==
    ASSUME HistoryTypes, NEW a, NEW now \in Nat
    PROVE  History!SqliteFailure(a, now) = {AfterFailure(r, a, now) : r \in sqlite}
<1>1. ASSUME NEW r \in sqlite
      PROVE  LET delay == 2^History!Exponent(r.failures + 1)
             IN (IF delay > DelayCap THEN DelayCap ELSE delay) = delay
  <2> DEFINE delay == 2^History!Exponent(r.failures + 1)
  <2>1. r.failures + 1 \in Nat \ {0}
    BY SMTT(30) DEF HistoryTypes, HistoryRows
  <2>2. delay \in Nat /\ delay <= DelayCap /\ DelayCap \in Nat
    BY <2>1, Backoff, HistoryConstantsOK
  <2> HIDE DEF delay
  <2>3. ~(delay > DelayCap)
    BY <2>2, SMTT(30)
  <2>. QED
    BY <2>3 DEF delay
<1>. QED
  BY <1>1 DEF History!SqliteFailure, AfterFailure, Failed


-----------------------------------------------------------------------------
(* Each call keeps the stores in step with each other and with the         *)
(* reports.  What the history variable late says of a step:                *)
LateStep ==
    memory' # <<>> /\ ~late' =>
      /\ ~late
      /\ \A i \in DOMAIN memory, k \in DOMAIN memory' :
            memory[i].address = memory'[k].address => ~(memory'[k].success < memory[i].success)

LEMMA AuthenticatedStores ==
    ASSUME HistoryTypes, StoresInv, known, LateStep,
           NEW a \in Native \cup Mapped, NEW now \in Nat,
           memory' = History!MemoryAuthenticated(a, now),
           sqlite' = History!SqliteAuthenticated(a, now)
    PROVE  /\ memory' \in Seq(HistoryRows) /\ Len(memory') <= Limit /\ sqlite' \subseteq HistoryRows
           /\ StoresInv'
<1> DEFINE new == History!Row(a, now)
<1>1. new \in HistoryRows /\ new.address = a /\ new.success = now
  BY NewRow
<1>2. sqlite' = {r \in sqlite : r.address # a} \cup {new}
  BY DEF History!SqliteAuthenticated
<1>3. /\ memory' \in Seq(HistoryRows) /\ Len(memory') <= Limit /\ Len(memory') # 0 /\ Unique(memory')
      /\ Len(memory) = Limit => Len(memory') = Limit
      /\ \A k \in DOMAIN memory' :
            \/ memory'[k] = new
            \/ \E i \in DOMAIN memory : memory[i].address # a /\ memory'[k] = memory[i]
      /\ Holds(memory', new)
      /\ \A i \in DOMAIN memory : memory[i].address # a => Holds(memory', memory[i])
      /\ \/ \E i \in DOMAIN memory : memory[i].address = a /\ \E k \in DOMAIN memory' : memory'[k] = new
         \/ Len(memory) # Limit
         \/ \A k \in DOMAIN memory' : memory'[k] # new
         \/ \E i \in DOMAIN memory : now >= memory[i].success
  BY Remembers, SMTT(30) DEF StoresInv
<1> HIDE DEF new
<1>4. /\ memory' # <<>>
      /\ \A i \in DOMAIN memory : memory[i] \in HistoryRows /\ memory[i].success \in Nat
      /\ \A k \in DOMAIN memory' : memory'[k] \in HistoryRows /\ memory'[k].success \in Nat
  BY <1>3, RowFacts DEF HistoryTypes
<1>5. sqlite' \subseteq HistoryRows
  BY <1>1, <1>2 DEF HistoryTypes
<1>6. \A r, q \in sqlite' : r.address = q.address => r = q
  BY <1>1, <1>2 DEF StoresInv
<1>7. ASSUME NEW r \in sqlite', NEW k \in DOMAIN memory', memory'[k].address = r.address
      PROVE  memory'[k] = r
  <2>1. CASE r = new
    BY <1>1, <1>3, <1>7, <2>1
  <2>2. CASE r \in sqlite /\ r.address # a
    <3>1. memory'[k] # new
      BY <1>1, <1>7, <2>2
    <3>2. PICK i \in DOMAIN memory : memory'[k] = memory[i]
      BY <1>3, <3>1
    <3>3. memory[i].address = r.address
      BY <1>7, <3>2
    <3>. QED
      BY <2>2, <3>2, <3>3 DEF StoresInv
  <2>. QED
    BY <1>2, <2>1, <2>2
<1>8. ASSUME NEW r \in HistoryRows, Holds(memory', r) PROVE Kept(r)'
  BY <1>4, <1>8 DEF Holds, Kept
<1>9. ASSUME NEW r \in sqlite, r.address # a PROVE Kept(r)'
  <2>1. CASE \E i \in DOMAIN memory : memory[i].address = r.address
    <3>1. PICK i \in DOMAIN memory : memory[i] = r
      BY <2>1 DEF StoresInv
    <3>. QED
      BY <1>3, <1>8, <1>9, <3>1 DEF HistoryTypes
  <2>2. CASE /\ Len(memory) = Limit
             /\ ~late => \A i \in DOMAIN memory : memory[i].success >= r.success
    <3>1. r.success \in Nat
      BY DEF HistoryTypes, HistoryRows
    <3>2. ASSUME ~late', NEW k \in DOMAIN memory' PROVE memory'[k].success >= r.success
      <4>1. \A i \in DOMAIN memory : memory[i].success >= r.success
        BY <1>4, <2>2, <3>2 DEF LateStep
      <4>2. CASE \E i \in DOMAIN memory : memory'[k] = memory[i]
        BY <4>1, <4>2
      <4>3. CASE memory'[k] = new
        <5>1. CASE \E i \in DOMAIN memory : memory[i].address = a
          <6>1. PICK i \in DOMAIN memory : memory[i].address = a
            BY <5>1
          <6>2. ~(memory'[k].success < memory[i].success)
            BY <1>1, <1>4, <3>2, <4>3, <6>1 DEF LateStep
          <6>3. memory[i].success >= r.success /\ memory[i].success \in Nat /\ memory'[k].success \in Nat
            BY <1>4, <4>1
          <6>. QED
            BY <3>1, <6>2, <6>3, SMTT(30)
        <5>2. CASE \E i \in DOMAIN memory : now >= memory[i].success
          <6>1. PICK i \in DOMAIN memory : now >= memory[i].success
            BY <5>2
          <6>2. memory[i].success >= r.success /\ memory[i].success \in Nat
            BY <1>4, <4>1
          <6>3. now >= r.success
            BY <3>1, <6>1, <6>2, SMTT(30)
          <6>. QED
            BY <1>1, <4>3, <6>3
        <5>. QED
          BY <1>3, <2>2, <4>3, <5>1, <5>2
      <4>. QED
        BY <1>3, <4>2, <4>3
    <3>. QED
      BY <1>3, <2>2, <3>2 DEF Kept
  <2>. QED
    BY <2>1, <2>2 DEF StoresInv, Kept
<1>10. \A r \in sqlite' : Kept(r)'
  BY <1>1, <1>2, <1>3, <1>8, <1>9
<1>. QED
  BY <1>3, <1>5, <1>6, <1>7, <1>10 DEF StoresInv

LEMMA FailureStores ==
    ASSUME HistoryTypes, StoresInv, LateStep, NEW a, NEW now \in Nat,
           memory' = History!MemoryFailure(a, now),
           sqlite' = History!SqliteFailure(a, now)
    PROVE  /\ memory' \in Seq(HistoryRows) /\ Len(memory') <= Limit /\ sqlite' \subseteq HistoryRows
           /\ StoresInv'
           /\ DOMAIN memory' = DOMAIN memory
           /\ \A i \in DOMAIN memory : memory'[i] = AfterFailure(memory[i], a, now)
           /\ sqlite' = {AfterFailure(r, a, now) : r \in sqlite}
<1>1. /\ memory' \in Seq(HistoryRows) /\ Len(memory') = Len(memory) /\ DOMAIN memory' = DOMAIN memory
      /\ \A i \in DOMAIN memory : memory'[i] = AfterFailure(memory[i], a, now)
  BY MemoryFails
<1>2. sqlite' = {AfterFailure(r, a, now) : r \in sqlite}
  BY SqliteFails
<1>3. /\ \A i \in DOMAIN memory : memory[i] \in HistoryRows
      /\ \A r \in sqlite : r \in HistoryRows
  BY RowFacts DEF HistoryTypes
<1>4. /\ \A i \in DOMAIN memory : memory'[i].address = memory[i].address
                                  /\ memory'[i].success = memory[i].success
      /\ \A r \in sqlite : /\ AfterFailure(r, a, now) \in HistoryRows
                           /\ AfterFailure(r, a, now).address = r.address
                           /\ AfterFailure(r, a, now).success = r.success
  BY <1>1, <1>3, FailedRow, SMTT(30)
<1>5. sqlite' \subseteq HistoryRows
  BY <1>2, <1>4
<1>6. Unique(memory')
  <2>1. \A i, j \in DOMAIN memory : memory[i].address = memory[j].address => i = j
    BY DEF StoresInv, Unique
  <2>2. \A i \in DOMAIN memory : memory'[i].address = memory[i].address
    BY <1>4
  <2>. QED
    BY <1>1, <2>1, <2>2 DEF Unique
<1>7. ASSUME NEW r \in sqlite', NEW q \in sqlite', r.address = q.address PROVE r = q
  <2>1. PICK r0 \in sqlite : r = AfterFailure(r0, a, now)
    BY <1>2
  <2>2. PICK q0 \in sqlite : q = AfterFailure(q0, a, now)
    BY <1>2
  <2>3. r0.address = q0.address
    BY <1>4, <1>7, <2>1, <2>2
  <2>4. r0 = q0
    BY <2>3 DEF StoresInv
  <2>. QED
    BY <2>1, <2>2, <2>4
<1>8. ASSUME NEW r \in sqlite', NEW i \in DOMAIN memory, memory'[i].address = r.address
      PROVE  memory'[i] = r
  <2>1. PICK q \in sqlite : r = AfterFailure(q, a, now)
    BY <1>2
  <2>2. memory[i].address = q.address
    BY <1>4, <1>8, <2>1
  <2>3. memory[i] = q
    BY <2>2 DEF StoresInv
  <2>. QED
    BY <1>1, <2>1, <2>3
<1>9. ASSUME NEW r \in sqlite' PROVE Kept(r)'
  <2>1. PICK q \in sqlite : r = AfterFailure(q, a, now)
    BY <1>2
  <2>2. Kept(q) /\ r.address = q.address /\ r.success = q.success
    BY <1>4, <2>1 DEF StoresInv
  <2>3. CASE \E i \in DOMAIN memory : memory[i].address = q.address
    BY <1>1, <1>4, <2>2, <2>3 DEF Kept
  <2>4. CASE /\ Len(memory) = Limit
             /\ ~late => \A i \in DOMAIN memory : memory[i].success >= q.success
    <3>1. memory' # <<>>
      BY <1>1, <2>4, HistoryConstantsOK
    <3>2. ~late' => ~late
      BY <3>1 DEF LateStep
    <3>. QED
      BY <1>1, <1>4, <2>2, <2>4, <3>2 DEF Kept
  <2>. QED
    BY <2>2, <2>3, <2>4 DEF Kept
<1>10. Len(memory') <= Limit
  BY <1>1 DEF HistoryTypes
<1>. QED
  BY <1>1, <1>2, <1>5, <1>6, <1>7, <1>8, <1>9, <1>10 DEF StoresInv


(* What the history variables record in a step of the endpoint history.    *)
LEMMA LateSteps ==
    ASSUME History!MCNext
    PROVE  LateStep
<1> SUFFICES ASSUME memory' # <<>>, ~late'
             PROVE  /\ ~late
                    /\ \A i \in DOMAIN memory, k \in DOMAIN memory' :
                          memory[i].address = memory'[k].address =>
                            ~(memory'[k].success < memory[i].success)
  BY DEF LateStep
<1>1. late' = (late \/ \E r \in History!Range(memory), q \in History!Range(memory') :
                          r.address = q.address /\ q.success < r.success)
  BY DEF History!MCNext
<1>2. /\ ~late
      /\ ~\E r \in History!Range(memory), q \in History!Range(memory') :
            r.address = q.address /\ q.success < r.success
  BY <1>1
<1>. QED
  BY <1>2 DEF History!Range, Range

LEMMA NothingReported ==
    ASSUME HistoryTypes, History!MCNext, forgetting' = forgetting,
           \A t \in History!Writers : call[t] # NoCall => call'[t] # NoCall
    PROVE  report' = report
<1>1. \A a \in Native \cup Mapped : History!ReportedBy(a) = {}
  BY DEF History!ReportedBy
<1>2. report' = [a \in Native \cup Mapped |-> report[a]]
  BY <1>1 DEF History!MCNext, History!Addresses
<1>. QED
  BY <1>2 DEF HistoryTypes

LEMMA CallReported ==
    ASSUME HistoryTypes, History!MCNext, forgetting' = forgetting,
           NEW t \in History!Writers, call[t] # NoCall, call' = [call EXCEPT ![t] = NoCall]
    PROVE  /\ report' \in [Native \cup Mapped -> Int]
           /\ \A a \in Native \cup Mapped : a # call[t].host => report'[a] = report[a]
           /\ report'[call[t].host] =
                IF call[t].ok THEN IF known THEN History!Fresh ELSE report[call[t].host]
                ELSE IF report[call[t].host] = History!Unknown THEN History!Unknown ELSE call[t].now
<1> DEFINE c == call[t]
<1>1. c \in HistoryCalls /\ c.host \in Native \cup Mapped /\ c.now \in Nat
  BY DEF HistoryTypes, HistoryCalls
<1>2. \A u \in History!Writers : call'[u] = IF u = t THEN NoCall ELSE call[u]
  BY DEF HistoryTypes
<1>3. \A a \in Native \cup Mapped : a # c.host => History!ReportedBy(a) = {}
  BY <1>2 DEF History!ReportedBy
<1>4. History!ReportedBy(c.host) = {t}
  BY <1>2 DEF History!ReportedBy
<1>5. /\ History!ReportedBy(c.host) # {}
      /\ (CHOOSE u \in History!ReportedBy(c.host) : TRUE) = t
  BY <1>4
<1> HIDE DEF c
<1>6. report' = [a \in Native \cup Mapped |->
         IF forgetting' # forgetting THEN History!Unknown
         ELSE IF History!ReportedBy(a) = {} THEN report[a]
         ELSE LET d == call[CHOOSE u \in History!ReportedBy(a) : TRUE] IN
              IF d.ok THEN IF known THEN History!Fresh ELSE report[a]
              ELSE IF report[a] = History!Unknown THEN History!Unknown ELSE d.now]
  BY DEF History!MCNext, History!Addresses
<1>7. \A a \in Native \cup Mapped : a # c.host => report'[a] = report[a]
  BY <1>3, <1>6
<1>8. report'[c.host] =
        IF c.ok THEN IF known THEN History!Fresh ELSE report[c.host]
        ELSE IF report[c.host] = History!Unknown THEN History!Unknown ELSE c.now
  BY <1>1, <1>5, <1>6 DEF c
<1>9. \A a \in Native \cup Mapped : report[a] \in Int /\ report'[a] \in Int
  BY <1>1, <1>7, <1>8, SMTT(30) DEF HistoryTypes, History!Fresh, History!Unknown
<1>10. report' \in [Native \cup Mapped -> Int]
  BY <1>6, <1>9
<1>. QED
  BY <1>7, <1>8, <1>10 DEF c

LEMMA QuietStores ==
    ASSUME HistoryInv, LateStep, UNCHANGED <<memory, sqlite, report>>,
           known' = known \/ ~known
    PROVE  StoresInv' /\ ReportInv'
<1>1. ASSUME NEW r \in sqlite PROVE Kept(r)'
  <2>1. Kept(r)
    BY DEF HistoryInv, StoresInv
  <2>2. CASE \E i \in DOMAIN memory : memory[i].address = r.address
    BY <2>2 DEF Kept
  <2>3. CASE /\ Len(memory) = Limit
             /\ ~late => \A i \in DOMAIN memory : memory[i].success >= r.success
    <3>1. memory' # <<>>
      BY <2>3, HistoryConstantsOK
    <3>2. ~late' => ~late
      BY <3>1 DEF LateStep
    <3>. QED
      BY <2>3, <3>2 DEF Kept
  <2>. QED
    BY <2>1, <2>2, <2>3 DEF Kept
<1>2. StoresInv'
  BY <1>1 DEF HistoryInv, StoresInv, Unique
<1>3. ReportInv'
  BY DEF HistoryInv, ReportInv
<1>. QED
  BY <1>2, <1>3


-----------------------------------------------------------------------------
(* The candidates of an answer are stored rows whose backoff is over.      *)
LEMMA OfferedRows ==
    ASSUME HistoryTypes, NEW list \in History!Answers, NEW a \in list
    PROVE  /\ a \in Native \cup Mapped
           /\ \/ \E r \in sqlite : r.address = a /\ r.retry <= clock
              \/ \E i \in DOMAIN memory : memory[i].address = a /\ memory[i].retry <= clock
<1>1. /\ \A i \in DOMAIN memory : memory[i].address \in Native \cup Mapped
      /\ \A r \in sqlite : r.address \in Native \cup Mapped
  <2>1. /\ \A i \in DOMAIN memory : memory[i] \in HistoryRows
        /\ \A r \in sqlite : r \in HistoryRows
    BY RowFacts DEF HistoryTypes
  <2>. QED
    BY <2>1 DEF HistoryRows
<1>2. CASE list = History!MemoryAnswer
  BY <1>1, <1>2 DEF History!MemoryAnswer, History!AddressesOf, History!Range, Range
<1>3. CASE list \in History!SqliteAnswers
  BY <1>1, <1>3, SMTT(30) DEF History!SqliteAnswers, History!AddressesOf
<1>. QED
  BY <1>2, <1>3 DEF History!Answers

LEMMA ApplyAuthenticated ==
    ASSUME HistoryInv, History!MCNext, NEW t \in History!Writers, History!Apply(t), call[t].ok
    PROVE  HistoryInv'
<1> DEFINE a == call[t].host
           now == call[t].now
<1>1. /\ call[t] # NoCall /\ call' = [call EXCEPT ![t] = NoCall]
      /\ memory' = History!MemoryAuthenticated(a, now)
      /\ sqlite' = History!SqliteAuthenticated(a, now)
      /\ UNCHANGED <<clock, known, phase, listed, forgetting>>
  BY DEF History!Apply, History!dials
<1>2. a \in Native \cup Mapped /\ now \in Nat
  BY <1>1 DEF HistoryInv, HistoryTypes, HistoryCalls
<1>3. LateStep
  BY LateSteps
<1>4. call' \in [History!Writers -> HistoryCalls \cup {NoCall}]
  BY <1>1 DEF HistoryInv, HistoryTypes
<1>5. /\ report' \in [Native \cup Mapped -> Int]
      /\ \A b \in Native \cup Mapped : b # a => report'[b] = report[b]
      /\ report'[a] = IF known THEN History!Fresh ELSE report[a]
  BY <1>1, CallReported DEF HistoryInv
<1> HIDE DEF a, now
<1>6. CASE known
  <2>1. /\ memory' \in Seq(HistoryRows) /\ Len(memory') <= Limit /\ sqlite' \subseteq HistoryRows
        /\ StoresInv'
    BY <1>1, <1>2, <1>3, <1>6, AuthenticatedStores DEF HistoryInv
  <2>2. HistoryTypes'
    BY <1>1, <1>4, <1>5, <2>1 DEF HistoryInv, HistoryTypes
  <2>3. \A r \in sqlite' : r = History!Row(a, now) \/ (r \in sqlite /\ r.address # a)
    BY <1>1, <1>6 DEF History!SqliteAuthenticated
  <2>4. \A k \in DOMAIN memory' :
          \/ memory'[k] = History!Row(a, now)
          \/ \E i \in DOMAIN memory : memory[i].address # a /\ memory'[k] = memory[i]
    <3>1. HistoryTypes /\ Unique(memory) /\ memory' = History!MemoryAuthenticated(a, now)
      BY <1>1 DEF HistoryInv, StoresInv
    <3>. QED
      BY ONLY <1>2, <3>1, Remembers
  <2>5. History!Row(a, now).address = a /\ History!Row(a, now).retry = 0
    BY <1>2, NewRow
  <2>6. report'[a] = History!Fresh /\ ~(History!Fresh >= 0)
    BY <1>5, <1>6, SMTT(30) DEF History!Fresh
  <2>7. ASSUME NEW b \in Native, report'[b] >= 0
        PROVE  /\ \A r \in sqlite' : r.address = b => r.retry >= report'[b] + 2
               /\ \A i \in DOMAIN memory' : memory'[i].address = b => memory'[i].retry >= report'[b] + 2
    <3>1. b # a
      BY <2>6, <2>7
    <3>2. report'[b] = report[b]
      BY <1>5, <3>1
    <3>3. /\ \A r \in sqlite : r.address = b => r.retry >= report[b] + 2
          /\ \A i \in DOMAIN memory : memory[i].address = b => memory[i].retry >= report[b] + 2
      BY <2>7, <3>2 DEF HistoryInv, ReportInv
    <3>. QED
      BY <2>3, <2>4, <2>5, <3>1, <3>2, <3>3
  <2>8. ASSUME NEW r \in sqlite', report'[r.address] = History!Fresh PROVE r.retry = 0
    <3>1. CASE r = History!Row(a, now)
      BY <2>5, <3>1
    <3>2. CASE r \in sqlite /\ r.address # a
      <4>1. r.address \in Native \cup Mapped
        BY <3>2 DEF HistoryInv, HistoryTypes, HistoryRows
      <4>. QED
        BY <1>5, <2>8, <3>2, <4>1 DEF HistoryInv, ReportInv
    <3>. QED
      BY <2>3, <3>1, <3>2
  <2>9. ReportInv'
    BY <1>1, <1>6, <2>7, <2>8 DEF ReportInv
  <2>. QED
    BY <2>1, <2>2, <2>9 DEF HistoryInv
<1>7. CASE ~known
  <2>1. sqlite = {} /\ sqlite' = {} /\ ~known'
    BY <1>1, <1>7 DEF History!SqliteAuthenticated, HistoryInv, ReportInv
  <2>2. memory' \in Seq(HistoryRows) /\ Len(memory') <= Limit /\ Unique(memory')
    BY <1>1, <1>2, Remembers DEF HistoryInv, StoresInv
  <2>3. HistoryTypes'
    BY <1>1, <1>4, <1>5, <2>1, <2>2 DEF HistoryInv, HistoryTypes
  <2>4. \A b \in Native \cup Mapped : report'[b] = History!Unknown /\ ~(report'[b] >= 0)
    <3>1. \A b \in Native \cup Mapped : report'[b] = History!Unknown
      BY <1>2, <1>5, <1>7 DEF HistoryInv, ReportInv
    <3>. QED
      BY <3>1, SMTT(30) DEF History!Unknown
  <2>5. ReportInv'
    BY <2>1, <2>4 DEF ReportInv
  <2>6. StoresInv'
    BY <2>1, <2>2 DEF StoresInv
  <2>. QED
    BY <2>3, <2>5, <2>6 DEF HistoryInv
<1>. QED
  BY <1>6, <1>7

LEMMA ApplyFailure ==
    ASSUME HistoryInv, History!MCNext, NEW t \in History!Writers, History!Apply(t), ~call[t].ok
    PROVE  HistoryInv'
<1> DEFINE a == call[t].host
           now == call[t].now
           b == History!Canonical(a)
<1>1. /\ call[t] # NoCall /\ call' = [call EXCEPT ![t] = NoCall]
      /\ memory' = History!MemoryFailure(b, now)
      /\ sqlite' = History!SqliteFailure(b, now)
      /\ UNCHANGED <<clock, known, phase, listed, forgetting>>
  BY DEF History!Apply, History!dials
<1>2. a \in Native \cup Mapped /\ now \in Nat
  BY <1>1 DEF HistoryInv, HistoryTypes, HistoryCalls
<1>3. LateStep
  BY LateSteps
<1>4. call' \in [History!Writers -> HistoryCalls \cup {NoCall}]
  BY <1>1 DEF HistoryInv, HistoryTypes
<1>5. /\ report' \in [Native \cup Mapped -> Int]
      /\ \A c \in Native \cup Mapped : c # a => report'[c] = report[c]
      /\ report'[a] = IF report[a] = History!Unknown THEN History!Unknown ELSE now
  BY <1>1, CallReported DEF HistoryInv
<1>6. a \in Native => b = a
  BY HistoryConstantsOK DEF History!Canonical
<1>7. \A c \in Native \cup Mapped : c = b => c = a
  BY <1>2, HistoryConstantsOK DEF History!Canonical
<1> HIDE DEF a, now, b
<1>8. /\ memory' \in Seq(HistoryRows) /\ Len(memory') <= Limit /\ sqlite' \subseteq HistoryRows
      /\ StoresInv'
      /\ DOMAIN memory' = DOMAIN memory
      /\ \A i \in DOMAIN memory : memory'[i] = AfterFailure(memory[i], b, now)
      /\ sqlite' = {AfterFailure(r, b, now) : r \in sqlite}
  BY <1>1, <1>2, <1>3, FailureStores DEF HistoryInv
<1>9. HistoryTypes'
  BY <1>1, <1>4, <1>5, <1>8 DEF HistoryInv, HistoryTypes
<1>10. /\ \A i \in DOMAIN memory : memory[i] \in HistoryRows
       /\ \A r \in sqlite : r \in HistoryRows
  BY RowFacts DEF HistoryInv, HistoryTypes
<1>11. now \in Nat /\ now # History!Fresh /\ History!Unknown # History!Fresh /\ ~(History!Unknown >= 0)
  BY <1>2, SMTT(30) DEF History!Fresh, History!Unknown
<1>12. ASSUME NEW c \in Native, report'[c] >= 0, NEW r \in HistoryRows, r.address = c,
              report[c] >= 0 => r.retry >= report[c] + 2
       PROVE  AfterFailure(r, b, now).retry >= report'[c] + 2
  <2>1. CASE c = a
    <3>1. report'[c] = now
      BY <1>5, <1>11, <1>12, <2>1
    <3>2. AfterFailure(r, b, now) = Failed(r, now)
      BY <1>6, <1>12, <2>1 DEF AfterFailure
    <3>. QED
      BY <1>2, <3>1, <3>2, FailedRow
  <2>2. CASE c # a
    <3>1. report'[c] = report[c]
      BY <1>5, <2>2
    <3>2. AfterFailure(r, b, now) = r
      BY <1>7, <1>12, <2>2 DEF AfterFailure
    <3>. QED
      BY <1>12, <3>1, <3>2
  <2>. QED
    BY <2>1, <2>2
<1>13. ASSUME NEW c \in Native, report'[c] >= 0
       PROVE  /\ \A r \in sqlite' : r.address = c => r.retry >= report'[c] + 2
              /\ \A i \in DOMAIN memory' : memory'[i].address = c => memory'[i].retry >= report'[c] + 2
  <2>1. ASSUME NEW r \in sqlite', r.address = c PROVE r.retry >= report'[c] + 2
    <3>1. PICK q \in sqlite : r = AfterFailure(q, b, now)
      BY <1>8
    <3>2. q \in HistoryRows /\ q.address = c
      BY <1>2, <1>10, <2>1, <3>1, FailedRow
    <3>3. report[c] >= 0 => q.retry >= report[c] + 2
      BY <3>2 DEF HistoryInv, ReportInv
    <3>. QED
      BY <1>12, <1>13, <3>1, <3>2, <3>3
  <2>2. ASSUME NEW i \in DOMAIN memory', memory'[i].address = c PROVE memory'[i].retry >= report'[c] + 2
    <3>1. i \in DOMAIN memory /\ memory'[i] = AfterFailure(memory[i], b, now)
      BY <1>8
    <3>2. memory[i] \in HistoryRows /\ memory[i].address = c
      BY <1>2, <1>10, <2>2, <3>1, FailedRow, SMTT(30)
    <3>3. report[c] >= 0 => memory[i].retry >= report[c] + 2
      BY <3>1, <3>2 DEF HistoryInv, ReportInv
    <3>. QED
      BY <1>12, <1>13, <3>1, <3>2, <3>3
  <2>. QED
    BY <2>1, <2>2
<1>14. ASSUME NEW r \in sqlite', report'[r.address] = History!Fresh PROVE r.retry = 0
  <2>1. PICK q \in sqlite : r = AfterFailure(q, b, now)
    BY <1>8
  <2>2. q \in HistoryRows /\ q.address = r.address
    BY <1>2, <1>10, <2>1, FailedRow
  <2>3. q.address \in Native \cup Mapped
    BY <2>2 DEF HistoryRows
  <2>4. q.address # a
    BY <1>5, <1>11, <1>14, <2>2
  <2>5. r = q
    BY <1>7, <2>1, <2>3, <2>4 DEF AfterFailure
  <2>6. report[q.address] = History!Fresh
    BY <1>5, <1>14, <2>2, <2>3, <2>4
  <2>. QED
    BY <2>5, <2>6 DEF HistoryInv, ReportInv
<1>15. ASSUME ~known' PROVE sqlite' = {} /\ \A c \in Native \cup Mapped : report'[c] = History!Unknown
  <2>1. sqlite = {} /\ \A c \in Native \cup Mapped : report[c] = History!Unknown
    BY <1>1, <1>15 DEF HistoryInv, ReportInv
  <2>. QED
    BY <1>2, <1>5, <1>8, <2>1
<1>16. ReportInv'
  BY <1>13, <1>14, <1>15 DEF ReportInv
<1>. QED
  BY <1>8, <1>9, <1>16 DEF HistoryInv


LEMMA HistoryStep ==
    ASSUME HistoryInv, History!MCNext
    PROVE  HistoryInv'
<1>0. LateStep /\ HistoryTypes
  BY LateSteps DEF HistoryInv
(* A step that leaves the stores alone and finishes no call.               *)
<1>1. ASSUME UNCHANGED <<memory, sqlite, forgetting>>, known' = known \/ ~known,
             clock' \in Nat,
             \A t \in History!Writers : call[t] # NoCall => call'[t] # NoCall,
             call' \in [History!Writers -> HistoryCalls \cup {NoCall}],
             phase' \in [Dials -> {"idle", "checked", "racing"}],
             listed' \in [Dials -> SUBSET (Native \cup Mapped)]
      PROVE  HistoryInv'
  <2>1. report' = report
    BY <1>0, <1>1, NothingReported
  <2>2. StoresInv' /\ ReportInv'
    BY <1>0, <1>1, <2>1, QuietStores
  <2>3. HistoryTypes'
    BY <1>0, <1>1, <2>1 DEF HistoryTypes
  <2>. QED
    BY <2>2, <2>3 DEF HistoryInv
<1>2. /\ clock \in Nat /\ call \in [History!Writers -> HistoryCalls \cup {NoCall}]
      /\ phase \in [Dials -> {"idle", "checked", "racing"}]
      /\ listed \in [Dials -> SUBSET (Native \cup Mapped)]
      /\ Dials \subseteq History!Writers
  BY <1>0 DEF HistoryTypes, History!Writers
<1>3. ASSUME NEW d \in Dials, NEW ok \in BOOLEAN, NEW a \in Native \cup Mapped
      PROVE  [ok |-> ok, host |-> a, now |-> clock] \in HistoryCalls
  BY <1>2 DEF HistoryCalls
<1>4. ASSUME NEW d \in Dials, History!ConnectRemembered(d) PROVE HistoryInv'
  BY <1>1, <1>2, <1>4 DEF History!ConnectRemembered
<1>5. ASSUME NEW d \in Dials, History!ReadEndpoints(d) PROVE HistoryInv'
  <2>1. PICK list \in History!Answers :
           /\ phase' = [phase EXCEPT ![d] = IF list = {} THEN "idle" ELSE "racing"]
           /\ listed' = [listed EXCEPT ![d] = list]
    BY <1>5 DEF History!ReadEndpoints
  <2>2. list \subseteq Native \cup Mapped
    BY <1>0, OfferedRows
  <2>3. /\ phase' \in [Dials -> {"idle", "checked", "racing"}]
        /\ listed' \in [Dials -> SUBSET (Native \cup Mapped)]
    BY <1>2, <2>1, <2>2
  <2>. QED
    BY <1>1, <1>2, <1>5, <2>3 DEF History!ReadEndpoints
<1>6. ASSUME NEW d \in Dials, History!RaceFails(d) PROVE HistoryInv'
  <2>1. /\ phase' \in [Dials -> {"idle", "checked", "racing"}]
        /\ listed' \in [Dials -> SUBSET (Native \cup Mapped)]
    BY <1>2, <1>6 DEF History!RaceFails
  <2>. QED
    BY <1>1, <1>2, <1>6, <2>1 DEF History!RaceFails
<1>7. ASSUME NEW d \in History!Writers, call[d] = NoCall, NEW c \in HistoryCalls \cup {NoCall},
             call' = [call EXCEPT ![d] = c]
      PROVE  /\ call' \in [History!Writers -> HistoryCalls \cup {NoCall}]
             /\ \A t \in History!Writers : call[t] # NoCall => call'[t] # NoCall
  BY <1>2, <1>7
<1>8. ASSUME NEW d \in Dials, NEW a \in Native \cup Mapped, History!CandidateFails(d, a)
      PROVE  HistoryInv'
  <2> DEFINE c == [ok |-> FALSE, host |-> a, now |-> clock]
  <2>1. c \in HistoryCalls
    BY <1>3
  <2>2. call[d] = NoCall /\ call' = [call EXCEPT ![d] = c]
    BY <1>8 DEF History!CandidateFails
  <2>3. /\ call' \in [History!Writers -> HistoryCalls \cup {NoCall}]
        /\ \A t \in History!Writers : call[t] # NoCall => call'[t] # NoCall
    BY <1>2, <1>7, <2>1, <2>2
  <2>. QED
    BY <1>1, <1>2, <1>8, <2>3 DEF History!CandidateFails
<1>9. ASSUME NEW d \in Dials, NEW a \in Native \cup Mapped, History!CandidateWins(d, a)
      PROVE  HistoryInv'
  <2> DEFINE c == IF known THEN [ok |-> TRUE, host |-> a, now |-> clock] ELSE call[d]
  <2>1. c \in HistoryCalls \cup {NoCall}
    BY <1>2, <1>3
  <2>2. call[d] = NoCall /\ call' = [call EXCEPT ![d] = c]
    BY <1>9 DEF History!CandidateWins
  <2>3. /\ call' \in [History!Writers -> HistoryCalls \cup {NoCall}]
        /\ \A t \in History!Writers : call[t] # NoCall => call'[t] # NoCall
    BY <1>2, <1>7, <2>1, <2>2
  <2>4. /\ phase' \in [Dials -> {"idle", "checked", "racing"}]
        /\ listed' \in [Dials -> SUBSET (Native \cup Mapped)]
    BY <1>2, <1>9 DEF History!CandidateWins
  <2>. QED
    BY <1>1, <1>2, <1>9, <2>3, <2>4 DEF History!CandidateWins
<1>10. ASSUME NEW a \in Native \cup Mapped, History!InboundSession(a) PROVE HistoryInv'
  <2> DEFINE c == [ok |-> TRUE, host |-> a, now |-> clock]
  <2>1. c \in HistoryCalls /\ History!Inbound \in History!Writers
    BY <1>2 DEF HistoryCalls, History!Writers
  <2>2. call[History!Inbound] = NoCall /\ call' = [call EXCEPT ![History!Inbound] = c]
    BY <1>10 DEF History!InboundSession
  <2>3. /\ call' \in [History!Writers -> HistoryCalls \cup {NoCall}]
        /\ \A t \in History!Writers : call[t] # NoCall => call'[t] # NoCall
    BY <1>7, <2>1, <2>2
  <2>. QED
    BY <1>1, <1>2, <1>10, <2>3 DEF History!InboundSession, History!dials
<1>11. ASSUME NEW t \in History!Writers, History!Apply(t) PROVE HistoryInv'
  BY <1>11, ApplyAuthenticated, ApplyFailure
(* Forgetting empties the stores and the reports.                          *)
<1>12. ASSUME History!ForgetPeer \/ History!ForgetEndpoints PROVE HistoryInv'
  <2>1. /\ forgetting' \in BOOLEAN /\ forgetting' # forgetting /\ sqlite' = {}
        /\ memory' = memory \/ memory' = <<>>
        /\ UNCHANGED <<clock, phase, listed, call>>
    BY <1>0, <1>12 DEF History!ForgetPeer, History!ForgetEndpoints, History!dials, HistoryTypes
  <2>2. report' = [a \in Native \cup Mapped |-> History!Unknown]
    BY <2>1 DEF History!MCNext, History!Addresses
  <2>3. /\ report' \in [Native \cup Mapped -> Int]
        /\ \A a \in Native \cup Mapped : report'[a] = History!Unknown /\ ~(report'[a] >= 0)
    BY <2>2, SMTT(30) DEF History!Unknown
  <2>4. memory' \in Seq(HistoryRows) /\ Len(memory') <= Limit /\ Unique(memory')
    <3>1. CASE memory' = memory
      BY <1>0, <3>1 DEF HistoryInv, HistoryTypes, StoresInv
    <3>2. CASE memory' = <<>>
      BY <3>2, HistoryConstantsOK, SMTT(30) DEF Unique
    <3>. QED
      BY <2>1, <3>1, <3>2
  <2>5. HistoryTypes'
    BY <1>0, <2>1, <2>3, <2>4 DEF HistoryTypes
  <2>6. StoresInv'
    BY <2>1, <2>4 DEF StoresInv
  <2>7. ReportInv'
    BY <2>1, <2>3 DEF ReportInv
  <2>. QED
    BY <2>5, <2>6, <2>7 DEF HistoryInv
<1>13. ASSUME History!Pair PROVE HistoryInv'
  BY <1>1, <1>2, <1>13 DEF History!Pair, History!dials
<1>14. ASSUME History!Tick PROVE HistoryInv'
  <2>1. clock' \in Nat
    BY <1>2, <1>14, SMTT(30) DEF History!Tick
  <2>. QED
    BY <1>1, <1>2, <1>14, <2>1 DEF History!Tick, History!dials
<1>15. History!Next
  BY DEF History!MCNext
<1>. QED
  BY <1>4, <1>5, <1>6, <1>8, <1>9, <1>10, <1>11, <1>12, <1>13, <1>14, <1>15
  DEF History!Next, History!Addresses

(* The endpoint history keeps its invariant in every scenario.             *)
LEMMA HistoryAlways == MCSpec => []HistoryInv
<1>1. MCInit => HistoryInv
  <2> SUFFICES ASSUME History!MCInit PROVE HistoryInv
    BY DEF MCInit
  <2>1. HistoryTypes
    <3>1. <<>> \in Seq(HistoryRows) /\ Len(<<>>) <= Limit
      BY HistoryConstantsOK, SMTT(30)
    <3>2. /\ clock \in Nat /\ forgetting \in BOOLEAN /\ sqlite \subseteq HistoryRows /\ memory = <<>>
          /\ phase \in [Dials -> {"idle", "checked", "racing"}]
          /\ listed \in [Dials -> SUBSET (Native \cup Mapped)]
          /\ call \in [History!Writers -> HistoryCalls \cup {NoCall}]
      BY DEF History!MCInit, History!Init
    <3>3. report \in [Native \cup Mapped -> Int]
      BY SMTT(30) DEF History!MCInit, History!Addresses, History!Unknown
    <3>. QED
      BY <3>1, <3>2, <3>3 DEF HistoryTypes
  <2>2. StoresInv
    BY SMTT(30) DEF History!MCInit, History!Init, StoresInv, Unique
  <2>3. ReportInv
    BY SMTT(30) DEF History!MCInit, History!Init, ReportInv, History!Addresses, History!Unknown
  <2>. QED
    BY <2>1, <2>2, <2>3 DEF HistoryInv
<1>2. ASSUME HistoryInv, UNCHANGED historyVars PROVE HistoryInv'
  BY <1>2 DEF HistoryInv, HistoryTypes, StoresInv, ReportInv, historyVars, Kept, Unique
<1>3. HistoryInv /\ [MCNext]_<<scenario, trustVars, historyVars>> => HistoryInv'
  BY <1>2, HistoryStep DEF MCNext
<1>. QED
  BY <1>1, <1>3, PTL DEF MCSpec


-----------------------------------------------------------------------------
(* Rows with different addresses are as many as their addresses.           *)
LEMMA CountRows ==
    ASSUME NEW rows \in SUBSET HistoryRows, NEW addresses \in SUBSET (Native \cup Mapped),
           \A r, q \in rows : r.address = q.address => r = q,
           \A r \in rows : r.address \in addresses
    PROVE  /\ IsFiniteSet(rows) /\ IsFiniteSet(addresses)
           /\ Cardinality(rows) \in Nat /\ Cardinality(addresses) \in Nat
           /\ Cardinality(rows) <= Cardinality(addresses)
<1> DEFINE f == [r \in rows |-> r.address]
<1>1. IsFiniteSet(addresses)
  BY HistoryConstantsOK, FS_Subset
<1>2. f \in [rows -> addresses] /\ \A r, q \in rows : f[r] = f[q] => r = q
  OBVIOUS
<1>3. f \in Injection(rows, addresses)
  BY <1>2 DEF Injection, IsInjective
<1>4. IsFiniteSet(rows) /\ Cardinality(rows) <= Cardinality(addresses)
  BY <1>1, <1>3, FS_Injection
<1>. QED
  BY <1>1, <1>4, FS_CardinalityType

(* The rows of the in-memory list.                                         *)
LEMMA CountMemory ==
    ASSUME HistoryTypes, Unique(memory),
           NEW rows, rows = {memory[i] : i \in DOMAIN memory}
    PROVE  /\ rows \in SUBSET HistoryRows /\ IsFiniteSet(rows) /\ Cardinality(rows) = Len(memory)
           /\ \A r, q \in rows : r.address = q.address => r = q
<1>1. /\ DOMAIN memory = 1..Len(memory) /\ Len(memory) \in Nat
      /\ \A i \in DOMAIN memory : memory[i] \in HistoryRows
  BY RowFacts DEF HistoryTypes
<1>2. IsFiniteSet(1..Len(memory)) /\ Cardinality(1..Len(memory)) = Len(memory)
  BY <1>1, FS_Interval, SMTT(30)
<1> DEFINE f == [i \in 1..Len(memory) |-> memory[i]]
<1>3. f \in [1..Len(memory) -> rows]
  BY <1>1
<1>4. \A i, j \in 1..Len(memory) : f[i] = f[j] => i = j
  BY <1>1 DEF Unique
<1>5. \A r \in rows : \E i \in 1..Len(memory) : f[i] = r
  BY <1>1
<1> HIDE DEF f
<1>6. f \in Bijection(1..Len(memory), rows)
  BY <1>3, <1>4, <1>5 DEF Bijection, Injection, Surjection, IsInjective
<1>7. ExistsBijection(1..Len(memory), rows)
  BY <1>6 DEF ExistsBijection
<1>8. IsFiniteSet(rows) /\ Cardinality(rows) = Len(memory)
  BY <1>2, <1>7, FS_Bijection
<1>9. \A r, q \in rows : r.address = q.address => r = q
  BY SMTT(30) DEF Unique
<1>. QED
  BY <1>1, <1>8, <1>9

(* The two implementations of EndpointRepository answer alike              *)
(* (repository.rs), whatever calls overlapped: HistoryInv makes the        *)
(* in-memory list the table itself while the table has at most Limit rows. *)
THEOREM StoresAlwaysAgree == MCSpec => []StoresAgree
<1>1. ASSUME HistoryInv PROVE StoresAgree
  <2> SUFFICES ASSUME Cardinality(sqlite) <= Limit,
                      History!AddressesOf(History!Range(memory)) \subseteq History!AddressesOf(sqlite)
               PROVE  History!SqliteAnswers =
                        {History!MemoryAnswer \ History!AddressesOf({r \in sqlite : r.success < clock - MaxAge})}
    BY DEF StoresAgree, History!StoresAgree, History!Cardinality, Cardinality
  <2> DEFINE rows == {memory[i] : i \in DOMAIN memory}
             eligible == {r \in sqlite : r.retry <= clock /\ r.success >= clock - MaxAge}
             old == {r \in sqlite : r.success < clock - MaxAge}
  <2>1. /\ HistoryTypes /\ Unique(memory) /\ sqlite \in SUBSET HistoryRows
        /\ \A r, q \in sqlite : r.address = q.address => r = q
        /\ \A r \in sqlite, i \in DOMAIN memory : memory[i].address = r.address => memory[i] = r
    BY <1>1 DEF HistoryInv, StoresInv, HistoryTypes
  <2>2. /\ Limit \in Nat /\ MaxAge \in Nat /\ clock \in Nat
        /\ \A r \in sqlite : r.success \in Nat /\ r.address \in Native \cup Mapped
    BY <2>1, HistoryConstantsOK DEF HistoryTypes, HistoryRows
  <2>3. IsFiniteSet(sqlite) /\ Cardinality(sqlite) \in Nat
    BY <2>1, <2>2, CountRows
  <2>4. IsFiniteSet(rows) /\ Cardinality(rows) = Len(memory)
    BY <2>1, CountMemory
  <2>5. rows \subseteq sqlite
    <3> SUFFICES ASSUME NEW i \in DOMAIN memory PROVE memory[i] \in sqlite
      OBVIOUS
    <3>1. \E r \in sqlite : r.address = memory[i].address
      BY DEF History!AddressesOf, History!Range, Range
    <3>. QED
      BY <2>1, <3>1
  <2>6. ASSUME NEW r \in sqlite PROVE r \in rows
    <3>1. CASE \E i \in DOMAIN memory : memory[i].address = r.address
      BY <2>1, <3>1
    <3>2. CASE Len(memory) = Limit /\ r \notin rows
      <4>1. IsFiniteSet(rows \cup {r}) /\ Cardinality(rows \cup {r}) = Limit + 1
        BY <2>4, <3>2, FS_AddElement
      <4>2. rows \cup {r} \subseteq sqlite
        BY <2>5
      <4>3. Cardinality(rows \cup {r}) <= Cardinality(sqlite)
        BY <2>3, <4>2, FS_Subset
      <4>. QED
        BY <2>2, <2>3, <4>1, <4>3, SMTT(30)
    <3>. QED
      BY <1>1, <3>1, <3>2 DEF HistoryInv, StoresInv, Kept
  <2>7. History!Range(memory) = sqlite
    BY <2>5, <2>6 DEF History!Range, Range
  <2>8. History!MemoryAnswer \ History!AddressesOf(old) = History!AddressesOf(eligible)
    <3>1. History!MemoryAnswer = {r.address : r \in {q \in sqlite : q.retry <= clock}}
      BY <2>7 DEF History!MemoryAnswer, History!AddressesOf
    <3>2. \A r \in sqlite : r.success < clock - MaxAge <=> ~(r.success >= clock - MaxAge)
      BY <2>2, SMTT(30)
    <3>. QED
      BY <2>1, <3>1, <3>2, SMTT(30) DEF History!AddressesOf
  <2>9. IsFiniteSet(eligible) /\ Cardinality(eligible) \in Nat /\ Cardinality(eligible) <= Limit
    <3>1. IsFiniteSet(eligible) /\ Cardinality(eligible) <= Cardinality(sqlite)
      BY <2>3, FS_Subset
    <3>. QED
      BY <2>2, <2>3, <3>1, FS_CardinalityType, SMTT(30)
  <2>10. ASSUME NEW s \in SUBSET eligible, s # eligible PROVE Cardinality(s) # Limit
    <3>1. IsFiniteSet(s) /\ Cardinality(s) <= Cardinality(eligible) /\ Cardinality(s) # Cardinality(eligible)
      BY <2>9, <2>10, FS_Subset
    <3>2. Cardinality(s) \in Nat
      BY <3>1, FS_CardinalityType
    <3>. QED
      BY <2>2, <2>9, <3>1, <3>2, SMTT(30)
  <2>11. History!SqliteAnswers = {History!AddressesOf(s) : s \in
           {u \in SUBSET eligible :
              /\ Cardinality(u) <= Limit
              /\ u # eligible => Cardinality(u) = Limit
              /\ \A r \in u, q \in eligible \ u : r.success >= q.success}}
    BY DEF History!SqliteAnswers, History!Cardinality, Cardinality
  <2> HIDE DEF eligible, rows, old
  <2>12. {u \in SUBSET eligible :
              /\ Cardinality(u) <= Limit
              /\ u # eligible => Cardinality(u) = Limit
              /\ \A r \in u, q \in eligible \ u : r.success >= q.success} = {eligible}
    BY <2>9, <2>10
  <2>13. History!SqliteAnswers = {History!AddressesOf(eligible)}
    BY <2>11, <2>12
  <2>. QED
    BY <2>8, <2>13 DEF old
<1>. QED
  BY <1>1, HistoryAlways, PTL

(* An address whose last report is a success is offered by both stores     *)
(* (endpoints), unless Limit others are as new: a row left out of either   *)
(* answer would have Limit rows with other addresses before it.            *)
THEOREM FreshAlwaysOffered == MCSpec => []FreshIsOffered
<1>1. ASSUME HistoryInv PROVE FreshIsOffered
  <2> SUFFICES ASSUME NEW r \in sqlite, report[r.address] = History!Fresh,
                      Cardinality(History!AddressesOf({q \in sqlite \cup History!Range(memory) :
                                    q.address # r.address /\ q.success >= r.success})) < Limit
               PROVE  /\ r.success >= clock - MaxAge => \A list \in History!SqliteAnswers : r.address \in list
                      /\ ~late => r.address \in History!MemoryAnswer
    BY DEF FreshIsOffered, History!FreshIsOffered, History!Cardinality, Cardinality
  <2> DEFINE before == {q \in sqlite \cup History!Range(memory) :
                          q.address # r.address /\ q.success >= r.success}
             newer == History!AddressesOf(before)
             rows == {memory[i] : i \in DOMAIN memory}
             eligible == {q \in sqlite : q.retry <= clock /\ q.success >= clock - MaxAge}
  <2>1. /\ HistoryTypes /\ Unique(memory) /\ sqlite \in SUBSET HistoryRows
        /\ \A q, u \in sqlite : q.address = u.address => q = u
        /\ \A q \in sqlite, i \in DOMAIN memory : memory[i].address = q.address => memory[i] = q
        /\ Kept(r) /\ r.retry = 0
    BY <1>1 DEF HistoryInv, StoresInv, HistoryTypes, ReportInv
  <2>2. /\ rows \in SUBSET HistoryRows /\ IsFiniteSet(rows) /\ Cardinality(rows) = Len(memory)
        /\ \A q, u \in rows : q.address = u.address => q = u
    BY <2>1, CountMemory
  <2>3. /\ Limit \in Nat /\ clock \in Nat /\ r.retry <= clock
    <3>1. Limit \in Nat
      BY HistoryConstantsOK
    <3>2. clock \in Nat
      BY <2>1 DEF HistoryTypes
    <3>. QED
      BY <2>1, <3>1, <3>2, SMTT(30)
  <2>4. History!Range(memory) = rows
    BY DEF History!Range, Range
  <2>5. newer \in SUBSET (Native \cup Mapped) /\ \A q \in before : q.address \in newer
    BY <2>1, <2>2, <2>4, SMTT(30) DEF History!AddressesOf, HistoryRows
  <2>6. Cardinality(newer) < Limit
    OBVIOUS
  (* There are not Limit rows with other addresses and no older success.   *)
  <2>7. ASSUME NEW s \in SUBSET HistoryRows, s \subseteq before,
               \A q, u \in s : q.address = u.address => q = u, Cardinality(s) = Limit
        PROVE  FALSE
    <3>1. \A q \in s : q.address \in newer
      BY <2>5, <2>7
    <3>2. Cardinality(s) <= Cardinality(newer) /\ Cardinality(newer) \in Nat
      BY <2>5, <2>7, <3>1, CountRows
    <3>. QED
      BY <2>3, <2>6, <2>7, <3>2, SMTT(30)
  <2>8. ASSUME r.success >= clock - MaxAge, NEW list \in History!SqliteAnswers, r.address \notin list
        PROVE  FALSE
    <3>1. PICK s \in SUBSET eligible :
             /\ s # eligible => Cardinality(s) = Limit
             /\ \A q \in s, u \in eligible \ s : q.success >= u.success
             /\ list = History!AddressesOf(s)
      BY DEF History!SqliteAnswers, History!Cardinality, Cardinality
    <3>2. r \in eligible
      BY <2>3, <2>8
    <3>3. \A q \in s : q.address # r.address
      BY <2>8, <3>1 DEF History!AddressesOf
    <3>4. r \notin s
      BY <3>3
    <3>5. Cardinality(s) = Limit /\ \A q \in s : q.success >= r.success
      BY <3>1, <3>2, <3>4
    <3>6. s \subseteq before /\ s \in SUBSET HistoryRows
      BY <2>1, <3>3, <3>5
    <3>7. \A q, u \in s : q.address = u.address => q = u
      BY <2>1
    <3>. QED
      BY <2>7, <3>5, <3>6, <3>7
  <2>9. ASSUME ~late PROVE r.address \in History!MemoryAnswer
    <3>1. CASE \E i \in DOMAIN memory : memory[i].address = r.address
      <4>1. r \in rows
        BY <2>1, <3>1
      <4>. QED
        BY <2>3, <2>4, <4>1 DEF History!MemoryAnswer, History!AddressesOf
    <3>2. CASE /\ \A i \in DOMAIN memory : memory[i].address # r.address
               /\ Len(memory) = Limit
               /\ \A i \in DOMAIN memory : memory[i].success >= r.success
      <4>1. rows \subseteq before
        BY <2>4, <3>2
      <4>. QED
        BY <2>2, <2>7, <3>2, <4>1
    <3>. QED
      BY <2>1, <2>9, <3>1, <3>2 DEF Kept
  <2>. QED
    BY <2>8, <2>9
<1>. QED
  BY <1>1, HistoryAlways, PTL

(* connect_remembered is given no address within the first backoff of a    *)
(* failure recorded after its last success: the row of such an address     *)
(* has the failure's backoff in both stores.                               *)
THEOREM BackoffRespected == MCSpec => NoEarlyRedial
<1> DEFINE Waits == \A d \in Dials, a \in Native :
                      History!ListedNow(d, a) /\ report[a] >= 0 => clock >= report[a] + 2
<1>1. ASSUME HistoryInv, History!Next PROVE Waits
  <2> SUFFICES ASSUME NEW d \in Dials, NEW a \in Native, History!ListedNow(d, a), report[a] >= 0
               PROVE  clock >= report[a] + 2
    OBVIOUS
  <2>1. phase[d] = "checked" /\ phase'[d] = "racing" /\ a \in listed'[d]
    BY DEF History!ListedNow
  <2>2. /\ HistoryTypes /\ clock \in Nat /\ report[a] \in Int
        /\ phase \in [Dials -> {"idle", "checked", "racing"}]
        /\ listed \in [Dials -> SUBSET (Native \cup Mapped)]
    BY <1>1 DEF HistoryInv, HistoryTypes
  <2>3. History!ReadEndpoints(d)
    BY <1>1, <2>1, <2>2
    DEF History!Next, History!ConnectRemembered, History!ReadEndpoints, History!RaceFails,
        History!CandidateFails, History!CandidateWins, History!InboundSession, History!Apply,
        History!ForgetPeer, History!ForgetEndpoints, History!Pair, History!Tick, History!dials
  <2>4. PICK list \in History!Answers : listed' = [listed EXCEPT ![d] = list]
    BY <2>3 DEF History!ReadEndpoints
  <2>5. a \in list
    BY <2>1, <2>2, <2>4
  <2>6. \/ \E r \in sqlite : r.address = a /\ r.retry <= clock
        \/ \E i \in DOMAIN memory : memory[i].address = a /\ memory[i].retry <= clock
    BY <2>2, <2>5, OfferedRows
  <2>7. /\ \A r \in sqlite : r.retry \in Nat
        /\ \A i \in DOMAIN memory : memory[i].retry \in Nat
    <3>1. /\ \A i \in DOMAIN memory : memory[i] \in HistoryRows
          /\ \A r \in sqlite : r \in HistoryRows
      BY <2>2, RowFacts DEF HistoryTypes
    <3>. QED
      BY <3>1 DEF HistoryRows
  <2>8. /\ \A r \in sqlite : r.address = a => r.retry >= report[a] + 2
        /\ \A i \in DOMAIN memory : memory[i].address = a => memory[i].retry >= report[a] + 2
    BY <1>1 DEF HistoryInv, ReportInv
  <2>9. PICK retry \in Nat : retry <= clock /\ retry >= report[a] + 2
    BY <2>6, <2>7, <2>8
  <2>. QED
    BY <2>2, <2>9, SMTT(30)
<1>2. HistoryInv /\ [MCNext]_<<scenario, trustVars, historyVars>>
        => [Waits]_<<History!vars, report, late>>
  <2>1. ASSUME UNCHANGED historyVars PROVE UNCHANGED <<History!vars, report, late>>
    BY <2>1 DEF historyVars, History!vars, History!dials
  <2> HIDE DEF Waits
  <2>. QED
    BY <1>1, <2>1 DEF MCNext, History!MCNext
<1>. QED
  BY <1>2, HistoryAlways, PTL DEF MCSpec, NoEarlyRedial, History!NoEarlyRedial
=============================================================================

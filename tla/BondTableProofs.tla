--------------------------- MODULE BondTableProofs --------------------------
(***************************************************************************)
(* Proofs about the dongle's bond table, for every number of remotes, of   *)
(* places in the table and of areas in the sector, and for power cuts      *)
(* between any two flash operations: the table in RAM is what the log      *)
(* reloads to, no address is programmed over another, and the bonds that   *)
(* survive a cut are those of BondSet.                                     *)
(*                                                                         *)
(* The inductive invariant says where in the log each operation is: the    *)
(* log is a stretch of used areas followed by blank ones, the index is at  *)
(* its end, and the valid areas, in their order, are the areas of the      *)
(* oldest bonds of the table - of all of them while the log is in its      *)
(* sector, of those from k on while unpairing deletes them, of the first   *)
(* k - 1 while start-up rewrites them.                                     *)
(***************************************************************************)
EXTENDS BondTable, FiniteSetTheorems, SequenceTheorems, TLAPS

\* q lists the areas of V in order.
IsList(q, V) ==
  /\ q \in Seq(Slots) /\ \A i, j \in 1 .. Len(q) : i < j => q[i] < q[j]
  /\ V = {q[i] : i \in 1 .. Len(q)}

(* The log as a function of the flash. *)
FlashAreas == [mark : {"ff", "01", "00"}, addr : Stored]

EndOf(f) == IF \E s \in Sector : f[s].mark = "ff"
              THEN CHOOSE s \in Sector : /\ f[s].mark = "ff"
                                         /\ \A t \in Sector : t < s => f[t].mark # "ff"
              ELSE SectorSlots
ValidOf(f) == {s \in 0 .. (EndOf(f) - 1) : f[s].mark = "01"}

\* f holds a log of e areas whose valid ones are those of q.
LogOf(f, e, q) ==
  /\ f \in [Slots -> FlashAreas] /\ e \in 0 .. SectorSlots
  /\ \A s \in Sector : s < e <=> f[s].mark # "ff"
  /\ \A s \in Sector : s >= e => f[s].addr = "ff"
  /\ \A s \in Sector : f[s].addr # "mix"
  /\ IsList(q, {s \in 0 .. e - 1 : f[s].mark = "01"}) /\ Len(q) <= MaxNum

-----------------------------------------------------------------------------
(* The invariant. *)

LogInv == LogOf(flash, LogEnd, Areas)

\* The index is at the end of the log, unless it has left the sector.
IdxInv ==
  /\ pc # "hang"
  /\ pc # "off" => LogEnd = IF idx < SectorSlots THEN idx + 1 ELSE SectorSlots
  /\ pc \in {"replace", "addMark"} => idx + 1 \in Slots
  /\ pc = "replace" => Len(tbl) = MaxNum
  /\ pc \in {"addMark", "addAddr"} => Len(tbl) < MaxNum
  /\ pc = "addAddr" => idx >= 0
  /\ pc = "unpair" => k \in 1 .. Len(tbl) + 1
  /\ pc = "cleanErase" => idx < SectorSlots
  /\ pc = "cleanMark" => k \in 1 .. Len(tbl) /\ idx = k - 2
  /\ pc = "cleanAddr" => k \in 1 .. Len(tbl) /\ idx = k - 1
  /\ pc \in {"cleanErase", "cleanMark", "cleanAddr"} => Len(tbl) <= SectorSlots

\* Bond j of the table is bond i of the log.
Same(i, j) == tbl[j] = [addr |-> flash[Areas[i]].addr, idx |-> Areas[i]]

\* The n bonds of the log follow d others in the table, and what follows them there is
\* past the sector.
Matches(n, d) ==
  /\ n + d <= Len(tbl) /\ \A i \in 1 .. n : Same(i, i + d)
  /\ \A j \in n + d + 1 .. Len(tbl) : SectorSlots <= tbl[j].idx /\ tbl[j].idx <= idx

\* The first n areas of the log hold the first n bonds of the table.
Moved(n) == \A i \in 1 .. n : Areas[i] = i - 1 /\ Same(i, i)

\* The log has one area more than the table, with no address yet.
Begun ==
  /\ Len(Areas) = Len(tbl) + 1 /\ Areas[Len(Areas)] = idx /\ flash[idx].addr = "ff"
  /\ \A i \in 1 .. Len(tbl) : Same(i, i)

\* Bond k has its area and no address yet.
MovedBut == Len(Areas) = k /\ Areas[k] = k - 1 /\ flash[k - 1].addr = "ff" /\ Moved(k - 1)

Unmixed == \A j \in 1 .. Len(tbl) : tbl[j].addr # "mix"

TableInv ==
  /\ pc \in {"run", "replace", "addMark", "cleanErase"} => Matches(Len(Areas), 0)
  /\ pc = "addAddr" /\ idx < SectorSlots => Begun
  /\ pc = "addAddr" /\ idx >= SectorSlots => Matches(Len(Areas), 0)
  /\ pc = "unpair" => Matches(Len(Areas), k - 1)
  /\ pc \in {"cleanErase", "cleanMark", "cleanAddr"} => Unmixed
  /\ pc = "cleanMark" => Len(Areas) = k - 1 /\ Moved(k - 1)
  /\ pc = "cleanAddr" => MovedBut

IInv == TypeOK /\ LogInv /\ IdxInv /\ TableInv

-----------------------------------------------------------------------------
(* Sequences and ascending lists. *)
LEMMA Sizes ==
  /\ SectorSlots \in Nat /\ SectorSlots >= 1 /\ CleanSlots \in Nat /\ CleanSlots < SectorSlots
  /\ FlashSlots \in Nat /\ SectorSlots <= FlashSlots /\ MaxNum \in Nat /\ MaxNum >= 1
  /\ Sector \subseteq Slots /\ Slots \subseteq Nat
  BY SlotsAssumption, MaxAssumption DEF Sector, Slots

LEMMA ListOf ==
  ASSUME NEW n \in Nat, NEW S, NEW q \in [1 .. n -> S]
  PROVE  q \in Seq(S) /\ Len(q) = n
  OBVIOUS

LEMMA RemoveAtIs ==
  ASSUME NEW S, NEW q \in Seq(S), NEW j \in 1 .. Len(q)
  PROVE  /\ RemoveAt(q, j) \in Seq(S) /\ Len(RemoveAt(q, j)) = Len(q) - 1
         /\ \A i \in 1 .. Len(q) - 1 : RemoveAt(q, j)[i] = IF i < j THEN q[i] ELSE q[i + 1]
  <1> DEFINE a == SubSeq(q, 1, j - 1)
             b == SubSeq(q, j + 1, Len(q))
  <1>1. Len(q) \in Nat /\ j \in Int /\ 1 <= j /\ j <= Len(q)
    OBVIOUS
  <1>2. a \in Seq(S) /\ Len(a) = j - 1 /\ \A i \in 1 .. j - 1 : a[i] = q[i]
    <2>1. \A i \in 1 .. j - 1 : q[i] \in S
      BY <1>1
    <2>2. QED
      BY <1>1, <2>1
  <1>3. b \in Seq(S) /\ Len(b) = Len(q) - j /\ \A i \in 1 .. Len(q) - j : b[i] = q[j + i]
    <2>1. \A i \in j + 1 .. Len(q) : q[i] \in S
      BY <1>1
    <2>2. QED
      BY <1>1, <2>1
  <1> HIDE DEF a, b
  <1>4. RemoveAt(q, j) = a \o b
    BY DEF RemoveAt, a, b
  <1>5. /\ a \o b \in Seq(S) /\ Len(a \o b) = Len(a) + Len(b)
        /\ \A i \in 1 .. Len(a) + Len(b) :
             (a \o b)[i] = IF i <= Len(a) THEN a[i] ELSE b[i - Len(a)]
    BY <1>2, <1>3, ConcatProperties
  <1>6. Len(a) + Len(b) = Len(q) - 1
    BY <1>1, <1>2, <1>3
  <1>7. ASSUME NEW i \in 1 .. Len(q) - 1
        PROVE  (a \o b)[i] = IF i < j THEN q[i] ELSE q[i + 1]
    <2>1. CASE i < j
      BY <1>1, <1>2, <1>5, <1>6, <2>1
    <2>2. CASE ~(i < j)
      <3>1. i - Len(a) \in 1 .. Len(q) - j /\ ~(i <= Len(a)) /\ j + (i - Len(a)) = i + 1
        BY <1>1, <1>2, <2>2
      <3>2. b[i - Len(a)] = q[i + 1]
        BY <1>3, <3>1
      <3>3. QED
        BY <1>1, <1>5, <1>6, <2>2, <3>1, <3>2
    <2>3. QED
      BY <2>1, <2>2
  <1>8. QED
    BY <1>4, <1>5, <1>6, <1>7

\* The place of a number in the list is how many of the set are not above it.
LEMMA ListRank ==
  ASSUME NEW V, NEW q, IsList(q, V)
  PROVE  /\ IsFiniteSet(V) /\ Cardinality(V) = Len(q) /\ Len(q) \in Nat
         /\ \A j \in 1 .. Len(q) : q[j] \in V /\ Cardinality({t \in V : t <= q[j]}) = j
  <1>1. /\ Len(q) \in Nat /\ \A i \in 1 .. Len(q) : q[i] \in Nat
        /\ \A i, j \in 1 .. Len(q) : i < j => q[i] < q[j]
        /\ V = {q[i] : i \in 1 .. Len(q)}
    <2>1. q \in Seq(Slots) /\ V = {q[i] : i \in 1 .. Len(q)}
          /\ \A i, j \in 1 .. Len(q) : i < j => q[i] < q[j]
      BY DEF IsList
    <2>2. Len(q) \in Nat /\ \A i \in 1 .. Len(q) : q[i] \in Slots
      BY <2>1
    <2>3. QED
      BY <2>1, <2>2, Sizes
  <1>2. ASSUME NEW n \in 0 .. Len(q)
        PROVE  LET W == {q[i] : i \in 1 .. n} IN IsFiniteSet(W) /\ Cardinality(W) = n
    <2> DEFINE W == {q[i] : i \in 1 .. n}
               h == [i \in 1 .. n |-> q[i]]
    <2>1. h \in [1 .. n -> W] /\ \A w \in W : \E i \in 1 .. n : h[i] = w
      OBVIOUS
    <2>2. \A i, j \in 1 .. n : h[i] = h[j] => i = j
      <3>1. ASSUME NEW i \in 1 .. n, NEW j \in 1 .. n, h[i] = h[j] PROVE i = j
        <4>1. i \in 1 .. Len(q) /\ j \in 1 .. Len(q) /\ q[i] = q[j] /\ q[i] \in Nat
          BY <1>1, <3>1
        <4>2. ~(i < j) /\ ~(j < i)
          BY <1>1, <4>1
        <4>3. QED
          BY <4>2
      <3>2. QED
        BY <3>1
    <2>3. DOMAIN h = 1 .. n
      OBVIOUS
    <2> HIDE DEF h, W
    <2>4. h \in Bijection(1 .. n, W)
      BY <2>1, <2>2, <2>3 DEF Bijection, Injection, Surjection, IsInjective
    <2>5. ExistsBijection(1 .. n, W)
      BY <2>4 DEF ExistsBijection
    <2>6. IsFiniteSet(1 .. n) /\ Cardinality(1 .. n) = n
      <3>1. 1 \in Int /\ n \in Int
        OBVIOUS
      <3>2. IsFiniteSet(1 .. n) /\ Cardinality(1 .. n) = IF 1 > n THEN 0 ELSE n - 1 + 1
        BY <3>1, FS_Interval
      <3>3. QED
        BY <3>2
    <2>7. IsFiniteSet(W) /\ Cardinality(W) = n
      BY <2>5, <2>6, FS_Bijection
    <2>8. QED
      BY <2>7 DEF W
  <1>3. IsFiniteSet(V) /\ Cardinality(V) = Len(q)
    <2>1. Len(q) \in 0 .. Len(q)
      BY <1>1
    <2>2. QED
      BY <1>1, <1>2, <2>1
  <1>4. ASSUME NEW j \in 1 .. Len(q)
        PROVE  q[j] \in V /\ Cardinality({t \in V : t <= q[j]}) = j
    <2>1. {t \in V : t <= q[j]} = {q[i] : i \in 1 .. j}
      <3>1. ASSUME NEW i \in 1 .. Len(q) PROVE q[i] <= q[j] <=> i <= j
        <4>1. q[i] \in Nat /\ q[j] \in Nat /\ (i < j => q[i] < q[j]) /\ (j < i => q[j] < q[i])
          BY <1>1
        <4>2. CASE i = j
          BY <4>1, <4>2
        <4>3. CASE i # j
          BY <4>1, <4>3
        <4>4. QED
          BY <4>2, <4>3
      <3>2. ASSUME NEW t \in V, t <= q[j] PROVE t \in {q[i] : i \in 1 .. j}
        <4>1. PICK i \in 1 .. Len(q) : t = q[i]
          BY <1>1
        <4>2. i \in 1 .. j
          BY <3>1, <3>2, <4>1
        <4>3. QED
          BY <4>1, <4>2
      <3>3. ASSUME NEW i \in 1 .. j PROVE q[i] \in V /\ q[i] <= q[j]
        <4>1. i \in 1 .. Len(q) /\ i <= j
          BY <1>1
        <4>2. QED
          BY <1>1, <3>1, <4>1
      <3>4. QED
        BY <3>2, <3>3
    <2>2. j \in 0 .. Len(q)
      BY <1>1
    <2>3. QED
      BY <1>1, <1>2, <2>1, <2>2
  <1>5. QED
    BY <1>1, <1>3, <1>4

LEMMA AscendingIs ==
  ASSUME NEW V, NEW q, IsList(q, V)
  PROVE  Ascending(V) = q
  <1>1. /\ Cardinality(V) = Len(q) /\ Len(q) \in Nat
        /\ \A j \in 1 .. Len(q) : q[j] \in V /\ Cardinality({t \in V : t <= q[j]}) = j
    BY ListRank
  <1>2. V = {q[i] : i \in 1 .. Len(q)} /\ q \in Seq(Slots)
    BY DEF IsList
  <1>3. ASSUME NEW j \in 1 .. Len(q)
        PROVE  (CHOOSE s \in V : Cardinality({t \in V : t <= s}) = j) = q[j]
    <2>1. ASSUME NEW s \in V, Cardinality({t \in V : t <= s}) = j PROVE s = q[j]
      <3>1. PICK i \in 1 .. Len(q) : s = q[i]
        BY <1>2
      <3>2. i = j
        BY <1>1, <2>1, <3>1
      <3>3. QED
        BY <3>1, <3>2
    <2>2. \E s \in V : Cardinality({t \in V : t <= s}) = j
      BY <1>1
    <2>3. QED
      BY <2>1, <2>2
  <1>4. q = [j \in 1 .. Len(q) |-> q[j]]
    BY <1>1, <1>2
  <1>5. QED
    BY <1>1, <1>3, <1>4 DEF Ascending

-----------------------------------------------------------------------------
(* The operations on the log. *)

Marked(f, s, m) == [f EXCEPT ![s].mark = m]
Written(f, s, a) == [f EXCEPT ![s].addr = a]

LEMMA EndIs ==
  ASSUME NEW f, NEW e, NEW q, LogOf(f, e, q)
  PROVE  EndOf(f) = e /\ ValidOf(f) = {s \in 0 .. e - 1 : f[s].mark = "01"}
         /\ Ascending(ValidOf(f)) = q
  <1>1. /\ e \in 0 .. SectorSlots /\ \A s \in Sector : s < e <=> f[s].mark # "ff"
        /\ IsList(q, {s \in 0 .. e - 1 : f[s].mark = "01"})
    BY DEF LogOf
  <1>2. EndOf(f) = e
    <2>1. CASE e = SectorSlots
      <3>1. \A s \in Sector : f[s].mark # "ff"
        BY <1>1, <2>1, Sizes DEF Sector
      <3>2. QED
        BY <2>1, <3>1 DEF EndOf
    <2>2. CASE e # SectorSlots
      <3>1. e \in Sector /\ f[e].mark = "ff"
        BY <1>1, <2>2, Sizes DEF Sector
      <3>2. \A t \in Sector : t < e => f[t].mark # "ff"
        BY <1>1
      <3>3. ASSUME NEW s \in Sector, f[s].mark = "ff", \A t \in Sector : t < s => f[t].mark # "ff"
            PROVE  s = e
        BY <1>1, <3>1, <3>2, <3>3, Sizes DEF Sector
      <3>4. QED
        BY <3>1, <3>2, <3>3 DEF EndOf
    <2>3. QED
      BY <2>1, <2>2
  <1>3. ValidOf(f) = {s \in 0 .. e - 1 : f[s].mark = "01"}
    BY <1>2 DEF ValidOf
  <1>4. QED
    BY <1>1, <1>2, <1>3, AscendingIs

\* The areas of a log are in the sector and valid.
LEMMA ListInLog ==
  ASSUME NEW f, NEW e, NEW q, LogOf(f, e, q)
  PROVE  /\ q \in Seq(Slots) /\ Len(q) \in Nat /\ Len(q) <= e /\ Len(q) <= MaxNum
         /\ \A i \in 1 .. Len(q) : q[i] \in 0 .. e - 1 /\ q[i] \in Sector /\ f[q[i]].mark = "01"
         /\ \A i, j \in 1 .. Len(q) : i < j => q[i] < q[j]
  <1> DEFINE V == {s \in 0 .. e - 1 : f[s].mark = "01"}
  <1>1. e \in 0 .. SectorSlots /\ IsList(q, V) /\ Len(q) <= MaxNum
    BY DEF LogOf
  <1>2. Cardinality(V) = Len(q) /\ Len(q) \in Nat /\ \A j \in 1 .. Len(q) : q[j] \in V
    BY <1>1, ListRank
  <1>3. Cardinality(V) <= e
    <2>1. 0 \in Int /\ e - 1 \in Int /\ e \in Nat
      BY <1>1, Sizes
    <2>2. IsFiniteSet(0 .. e - 1) /\ Cardinality(0 .. e - 1) = IF 0 > e - 1 THEN 0 ELSE e - 1 - 0 + 1
      BY <2>1, FS_Interval
    <2>3. V \in SUBSET (0 .. e - 1)
      OBVIOUS
    <2>4. Cardinality(V) <= Cardinality(0 .. e - 1)
      BY <2>2, <2>3, FS_Subset
    <2>5. QED
      BY <2>1, <2>2, <2>4
  <1>4. \A i \in 1 .. Len(q) : q[i] \in Sector
    BY <1>1, <1>2, Sizes DEF Sector
  <1>5. q \in Seq(Slots) /\ \A i, j \in 1 .. Len(q) : i < j => q[i] < q[j]
    BY <1>1 DEF IsList
  <1>6. QED
    BY <1>1, <1>2, <1>3, <1>4, <1>5

\* A valid mark at the end of the log adds an area to the list.
LEMMA MarkedNext ==
  ASSUME NEW f, NEW e, NEW q, LogOf(f, e, q), e < SectorSlots, Len(q) < MaxNum,
         NEW g, g = Marked(f, e, "01")
  PROVE  /\ LogOf(g, e + 1, Append(q, e)) /\ g[e].addr = "ff"
         /\ Append(q, e) \in Seq(Slots) /\ Len(Append(q, e)) = Len(q) + 1
         /\ Append(q, e)[Len(q) + 1] = e /\ \A i \in 1 .. Len(q) : Append(q, e)[i] = q[i]
         /\ \A s \in Slots : g[s].addr = f[s].addr
  <1> DEFINE p == Append(q, e)
  <1>1. /\ f \in [Slots -> FlashAreas] /\ e \in 0 .. SectorSlots
        /\ \A s \in Sector : s < e <=> f[s].mark # "ff"
        /\ \A s \in Sector : s >= e => f[s].addr = "ff"
        /\ \A s \in Sector : f[s].addr # "mix"
        /\ {s \in 0 .. e - 1 : f[s].mark = "01"} = {q[i] : i \in 1 .. Len(q)}
    BY DEF LogOf, IsList
  <1>2. e \in Sector /\ e \in Slots /\ e \in Nat /\ \A s \in Sector : s \in Slots /\ s \in Nat
    BY <1>1, Sizes DEF Sector
  <1>3. /\ q \in Seq(Slots) /\ Len(q) \in Nat
        /\ \A i \in 1 .. Len(q) : q[i] \in 0 .. e - 1
        /\ \A i, j \in 1 .. Len(q) : i < j => q[i] < q[j]
    BY ListInLog
  <1>4. p \in Seq(Slots) /\ Len(p) = Len(q) + 1 /\ p[Len(q) + 1] = e
        /\ \A i \in 1 .. Len(q) : p[i] = q[i]
    BY <1>2, <1>3, AppendProperties
  <1> HIDE DEF p
  <1>5. /\ \A s \in Slots : g[s].addr = f[s].addr /\ (s # e => g[s] = f[s]) /\ g[s] \in FlashAreas
        /\ g[e].mark = "01" /\ g \in [Slots -> FlashAreas]
    BY <1>1, <1>2 DEF FlashAreas, Marked
  <1>6. e + 1 \in 0 .. SectorSlots /\ \A s \in Sector : s < e + 1 <=> g[s].mark # "ff"
    <2>1. e + 1 \in 0 .. SectorSlots
      BY <1>1, Sizes
    <2>2. ASSUME NEW s \in Sector PROVE s < e + 1 <=> g[s].mark # "ff"
      <3>1. CASE s = e
        BY <1>2, <1>5, <3>1
      <3>2. CASE s # e
        <4>1. s \in Slots /\ s \in Nat
          BY <1>2
        <4>2. g[s] = f[s]
          BY <1>5, <3>2, <4>1
        <4>3. s < e + 1 <=> s < e
          BY <1>2, <3>2, <4>1
        <4>4. QED
          BY <1>1, <4>2, <4>3
      <3>3. QED
        BY <3>1, <3>2
    <2>3. QED
      BY <2>1, <2>2
  <1>7. \A s \in Sector : (s >= e + 1 => g[s].addr = "ff") /\ g[s].addr # "mix"
    BY <1>1, <1>2, <1>5
  <1>8. {s \in 0 .. (e + 1) - 1 : g[s].mark = "01"} = {p[i] : i \in 1 .. Len(p)}
    <2>1. ASSUME NEW s \in 0 .. (e + 1) - 1, g[s].mark = "01" PROVE \E i \in 1 .. Len(p) : s = p[i]
      <3>1. CASE s = e
        BY <1>3, <1>4, <3>1
      <3>2. CASE s # e
        <4>1. s \in 0 .. e - 1 /\ s \in Slots
          BY <1>1, <1>2, <3>2, Sizes DEF Slots
        <4>2. f[s].mark = "01"
          BY <1>5, <2>1, <3>2, <4>1
        <4>3. PICK i \in 1 .. Len(q) : s = q[i]
          BY <1>1, <4>1, <4>2
        <4>4. QED
          BY <1>3, <1>4, <4>3
      <3>3. QED
        BY <3>1, <3>2
    <2>2. ASSUME NEW i \in 1 .. Len(p) PROVE p[i] \in 0 .. (e + 1) - 1 /\ g[p[i]].mark = "01"
      <3>1. CASE i = Len(q) + 1
        BY <1>2, <1>4, <1>5, <3>1
      <3>2. CASE i # Len(q) + 1
        <4>1. i \in 1 .. Len(q) /\ p[i] = q[i]
          BY <1>3, <1>4, <3>2
        <4>2. q[i] \in 0 .. e - 1 /\ q[i] \in Slots /\ q[i] # e /\ f[q[i]].mark = "01"
          BY <1>1, <1>3, <4>1
        <4>3. QED
          BY <1>2, <1>5, <4>1, <4>2
      <3>3. QED
        BY <3>1, <3>2
    <2>3. QED
      BY <2>1, <2>2
  <1>9. \A i, j \in 1 .. Len(p) : i < j => p[i] < p[j]
    <2>1. ASSUME NEW i \in 1 .. Len(p), NEW j \in 1 .. Len(p), i < j PROVE p[i] < p[j]
      <3>1. i \in 1 .. Len(q) /\ p[i] = q[i] /\ q[i] < e
        BY <1>2, <1>3, <1>4, <2>1
      <3>2. CASE j = Len(q) + 1
        BY <1>4, <3>1, <3>2
      <3>3. CASE j # Len(q) + 1
        <4>1. j \in 1 .. Len(q) /\ p[j] = q[j]
          BY <1>3, <1>4, <3>3
        <4>2. QED
          BY <1>3, <2>1, <3>1, <4>1
      <3>4. QED
        BY <3>2, <3>3
    <2>2. QED
      BY <2>1
  <1>10. Len(p) <= MaxNum
    BY <1>3, <1>4, Sizes
  <1>11. LogOf(g, e + 1, p)
    BY <1>4, <1>5, <1>6, <1>7, <1>8, <1>9, <1>10 DEF LogOf, IsList
  <1>12. QED
    BY <1>1, <1>2, <1>4, <1>5, <1>11 DEF p

\* The zero mark at the area of bond j takes it off the list.
LEMMA MarkedDeleted ==
  ASSUME NEW f, NEW e, NEW q, LogOf(f, e, q), NEW j \in 1 .. Len(q),
         NEW g, g = Marked(f, q[j], "00")
  PROVE  /\ LogOf(g, e, RemoveAt(q, j))
         /\ RemoveAt(q, j) \in Seq(Slots) /\ Len(RemoveAt(q, j)) = Len(q) - 1
         /\ \A i \in 1 .. Len(q) - 1 : RemoveAt(q, j)[i] = IF i < j THEN q[i] ELSE q[i + 1]
         /\ \A s \in Slots : g[s].addr = f[s].addr
  <1> DEFINE p == RemoveAt(q, j)
             d == q[j]
  <1>1. /\ f \in [Slots -> FlashAreas] /\ e \in 0 .. SectorSlots
        /\ \A s \in Sector : s < e <=> f[s].mark # "ff"
        /\ \A s \in Sector : s >= e => f[s].addr = "ff"
        /\ \A s \in Sector : f[s].addr # "mix"
        /\ {s \in 0 .. e - 1 : f[s].mark = "01"} = {q[i] : i \in 1 .. Len(q)}
    BY DEF LogOf, IsList
  <1>2. /\ q \in Seq(Slots) /\ Len(q) \in Nat /\ Len(q) <= MaxNum
        /\ \A i \in 1 .. Len(q) : q[i] \in 0 .. e - 1 /\ q[i] \in Sector /\ f[q[i]].mark = "01"
        /\ \A i, m \in 1 .. Len(q) : i < m => q[i] < q[m]
    BY ListInLog
  <1>3. d \in Sector /\ d \in Slots /\ d \in 0 .. e - 1 /\ f[d].mark = "01"
        /\ \A s \in Sector : s \in Slots /\ s \in Nat
    BY <1>2, Sizes
  <1>4. p \in Seq(Slots) /\ Len(p) = Len(q) - 1
        /\ \A i \in 1 .. Len(q) - 1 : p[i] = IF i < j THEN q[i] ELSE q[i + 1]
    BY <1>2, RemoveAtIs
  <1> HIDE DEF p
  <1>5. g = [f EXCEPT ![d].mark = "00"]
    BY DEF Marked
  <1> HIDE DEF d
  <1>6. /\ \A s \in Slots : g[s].addr = f[s].addr /\ (s # d => g[s] = f[s])
        /\ g[d].mark = "00" /\ g \in [Slots -> FlashAreas]
    BY <1>1, <1>3, <1>5 DEF FlashAreas
  <1>7. ASSUME NEW s \in Sector
        PROVE  (s < e <=> g[s].mark # "ff") /\ (s >= e => g[s].addr = "ff") /\ g[s].addr # "mix"
    <2>1. CASE s = d
      BY <1>1, <1>3, <1>6, <2>1
    <2>2. CASE s # d
      BY <1>1, <1>3, <1>6, <2>2
    <2>3. QED
      BY <2>1, <2>2
  <1>8. ASSUME NEW i \in 1 .. Len(q) - 1
        PROVE  \E m \in 1 .. Len(q) : /\ p[i] = q[m] /\ m # j
                                      /\ (i < j /\ m = i) \/ (i >= j /\ m = i + 1)
    <2>1. i \in 1 .. Len(q) /\ i + 1 \in 1 .. Len(q)
      BY <1>2
    <2>2. CASE i < j
      BY <1>2, <1>4, <2>1, <2>2
    <2>3. CASE ~(i < j)
      <3>1. i + 1 # j /\ i >= j
        BY <2>3
      <3>2. QED
        BY <1>4, <2>1, <2>3, <3>1
    <2>4. QED
      BY <2>2, <2>3
  <1>9. \A m \in 1 .. Len(q) : m # j => q[m] # d
    <2>1. ASSUME NEW m \in 1 .. Len(q), m # j PROVE q[m] # d
      <3>1. m < j \/ j < m
        BY <2>1
      <3>2. q[m] \in Nat /\ q[j] \in Nat
        BY <1>2, <1>3
      <3>3. QED
        BY <1>2, <3>1, <3>2 DEF d
    <2>2. QED
      BY <2>1
  <1>10. {s \in 0 .. e - 1 : g[s].mark = "01"} = {p[i] : i \in 1 .. Len(p)}
    <2>1. ASSUME NEW s \in 0 .. e - 1, g[s].mark = "01" PROVE \E i \in 1 .. Len(p) : s = p[i]
      <3>1. s \in Slots /\ s # d
        BY <1>1, <1>6, <2>1, Sizes DEF Slots
      <3>2. f[s].mark = "01"
        BY <1>6, <2>1, <3>1
      <3>3. PICK m \in 1 .. Len(q) : s = q[m]
        BY <1>1, <3>2
      <3>4. m # j
        BY <3>1, <3>3 DEF d
      <3>5. CASE m < j
        <4>1. m \in 1 .. Len(q) - 1
          BY <1>2, <3>5
        <4>2. QED
          BY <1>4, <3>3, <3>5, <4>1
      <3>6. CASE m > j
        <4>1. m - 1 \in 1 .. Len(q) - 1 /\ ~(m - 1 < j) /\ (m - 1) + 1 = m
          BY <1>2, <3>6
        <4>2. p[m - 1] = q[m]
          BY <1>4, <4>1
        <4>3. QED
          BY <1>4, <3>3, <4>1, <4>2
      <3>7. QED
        BY <3>4, <3>5, <3>6
    <2>2. ASSUME NEW i \in 1 .. Len(p) PROVE p[i] \in 0 .. e - 1 /\ g[p[i]].mark = "01"
      <3>1. PICK m \in 1 .. Len(q) : p[i] = q[m] /\ m # j
        BY <1>4, <1>8
      <3>2. q[m] # d /\ q[m] \in Slots /\ q[m] \in 0 .. e - 1 /\ f[q[m]].mark = "01"
        BY <1>2, <1>3, <1>9, <3>1
      <3>3. QED
        BY <1>6, <3>1, <3>2
    <2>3. QED
      BY <2>1, <2>2
  <1>11. \A i, m \in 1 .. Len(p) : i < m => p[i] < p[m]
    <2>1. ASSUME NEW i \in 1 .. Len(p), NEW m \in 1 .. Len(p), i < m PROVE p[i] < p[m]
      <3>1. i \in 1 .. Len(q) - 1 /\ m \in 1 .. Len(q) - 1
        BY <1>4
      <3>2. PICK i2 \in 1 .. Len(q) : /\ p[i] = q[i2]
                                      /\ (i < j /\ i2 = i) \/ (i >= j /\ i2 = i + 1)
        BY <1>8, <3>1
      <3>3. PICK m2 \in 1 .. Len(q) : /\ p[m] = q[m2]
                                      /\ (m < j /\ m2 = m) \/ (m >= j /\ m2 = m + 1)
        BY <1>8, <3>1
      <3>4. i2 < m2
        BY <2>1, <3>1, <3>2, <3>3
      <3>5. QED
        BY <1>2, <3>2, <3>3, <3>4
    <2>2. QED
      BY <2>1
  <1>12. Len(p) <= MaxNum
    BY <1>2, <1>4, Sizes
  <1>13. LogOf(g, e, p)
    BY <1>1, <1>4, <1>6, <1>7, <1>10, <1>11, <1>12 DEF LogOf, IsList
  <1>14. QED
    BY <1>4, <1>6, <1>13 DEF p

\* What is written past the sector does not concern the log.
LEMMA SectorKept ==
  ASSUME NEW f, NEW e, NEW q, LogOf(f, e, q),
         NEW g \in [Slots -> FlashAreas], \A s \in Sector : g[s] = f[s]
  PROVE  LogOf(g, e, q)
  <1>1. \A s \in 0 .. e - 1 : s \in Sector
    BY Sizes DEF LogOf, Sector
  <1>2. {s \in 0 .. e - 1 : g[s].mark = "01"} = {s \in 0 .. e - 1 : f[s].mark = "01"}
    BY <1>1
  <1>3. QED
    BY <1>2 DEF LogOf

\* The address of an area of the log that has none yet.
LEMMA Addressed ==
  ASSUME NEW f, NEW e, NEW q, LogOf(f, e, q), NEW s \in 0 .. e - 1, f[s].addr = "ff",
         NEW a \in Stored, a # "mix",
         NEW g, g = Written(f, s, a)
  PROVE  LogOf(g, e, q) /\ g[s].addr = a /\ \A t \in Slots : t # s => g[t] = f[t]
  <1>1. /\ f \in [Slots -> FlashAreas] /\ e \in 0 .. SectorSlots
        /\ \A t \in Sector : t < e <=> f[t].mark # "ff"
        /\ \A t \in Sector : t >= e => f[t].addr = "ff"
        /\ \A t \in Sector : f[t].addr # "mix"
    BY DEF LogOf
  <1>2. s \in Sector /\ s \in Slots /\ s < e /\ \A t \in Sector : t \in Slots
    BY <1>1, Sizes DEF Sector
  <1>3. /\ \A t \in Slots : g[t].mark = f[t].mark /\ (t # s => g[t] = f[t])
        /\ g[s].addr = a /\ g \in [Slots -> FlashAreas]
    BY <1>1, <1>2 DEF FlashAreas, Written
  <1>4. \A t \in 0 .. e - 1 : t \in Slots
    BY <1>1, Sizes DEF Slots
  <1>5. {t \in 0 .. e - 1 : g[t].mark = "01"} = {t \in 0 .. e - 1 : f[t].mark = "01"}
    BY <1>3, <1>4
  <1>6. ASSUME NEW t \in Sector
        PROVE  (t < e <=> g[t].mark # "ff") /\ (t >= e => g[t].addr = "ff") /\ g[t].addr # "mix"
    <2>1. CASE t = s
      BY <1>1, <1>2, <1>3, <2>1, Sizes DEF Sector
    <2>2. CASE t # s
      BY <1>1, <1>2, <1>3, <2>2
    <2>3. QED
      BY <2>1, <2>2
  <1>7. QED
    BY <1>1, <1>3, <1>5, <1>6 DEF LogOf

LEMMA Erased ==
  ASSUME NEW g \in [Slots -> FlashAreas], \A s \in Sector : g[s] = Blank
  PROVE  LogOf(g, 0, <<>>)
  <1>1. \A s \in Sector : g[s].mark = "ff" /\ g[s].addr = "ff" /\ s >= 0 /\ ~(s < 0)
    BY Sizes DEF Blank, Sector
  <1>2. {s \in 0 .. 0 - 1 : g[s].mark = "01"} = {}
    OBVIOUS
  <1>3. <<>> \in Seq(Slots) /\ Len(<<>>) = 0 /\ {<<>>[i] : i \in 1 .. 0} = {}
    OBVIOUS
  <1>4. IsList(<<>>, {s \in 0 .. 0 - 1 : g[s].mark = "01"})
    BY <1>2, <1>3 DEF IsList
  <1>5. QED
    BY <1>1, <1>3, <1>4, Sizes DEF LogOf

-----------------------------------------------------------------------------
(* Steps of the list of bonds. *)

TblAddrs == [j \in DOMAIN tbl |-> tbl[j].addr]
Bonds == IF Cleaning THEN TblAddrs ELSE DurableBonds

Refines == [BS!Next]_(BS!vars)

LEMMA RefineStutter == Bonds' = Bonds /\ Cleaning' = Cleaning => Refines
  BY DEF Bonds, TblAddrs, Refines, BS!vars

LEMMA RefineMove == Bonds' = Bonds /\ Cleaning' = ~Cleaning => Refines
  BY DEF Bonds, TblAddrs, Refines, BS!Next, BS!Move

LEMMA RefineBegin ==
  ~Cleaning /\ ~Cleaning' /\ Len(Bonds) < MaxNum /\ Bonds' = Append(Bonds, "ff") => Refines
  BY DEF Bonds, TblAddrs, Refines, BS!Next, BS!Change, BS!Begin, Cleaning

LEMMA RefineComplete ==
  /\ ~Cleaning /\ ~Cleaning' /\ Bonds # <<>> /\ Last(Bonds) = "ff"
  /\ \E a \in Addr : Bonds' = Append(Front(Bonds), a)
  => Refines
  <1>1. ASSUME ~Cleaning, ~Cleaning', Bonds # <<>>, Last(Bonds) = "ff",
               NEW a \in Addr, Bonds' = Append(Front(Bonds), a)
        PROVE  Refines
    <2>1. DurableBonds' = Append(Front(DurableBonds), a) /\ DurableBonds # <<>>
          /\ Last(DurableBonds) = "ff"
      BY <1>1 DEF Bonds
    <2>2. BS!Last(DurableBonds) = "ff" /\ DurableBonds' = Append(BS!Front(DurableBonds), a)
      BY <2>1 DEF BS!Last, BS!Front, Last, Front
    <2>3. BS!Complete
      BY <1>1, <2>1, <2>2 DEF BS!Complete
    <2>4. Cleaning' = Cleaning
      BY <1>1 DEF Cleaning
    <2>5. QED
      BY <1>1, <2>3, <2>4 DEF Refines, BS!Next, BS!Change
  <1>2. QED
    BY <1>1

LEMMA RefineForget ==
  ~Cleaning /\ ~Cleaning' /\ (\E j \in DOMAIN Bonds : Bonds' = RemoveAt(Bonds, j)) => Refines
  <1>1. ASSUME ~Cleaning, ~Cleaning', NEW j \in DOMAIN Bonds, Bonds' = RemoveAt(Bonds, j)
        PROVE  Refines
    <2>1. DurableBonds' = RemoveAt(DurableBonds, j) /\ j \in DOMAIN DurableBonds
      BY <1>1 DEF Bonds
    <2>2. DurableBonds' = BS!RemoveAt(DurableBonds, j)
      BY <2>1 DEF BS!RemoveAt, RemoveAt
    <2>3. BS!Forget
      BY <1>1, <2>1, <2>2 DEF BS!Forget
    <2>4. Cleaning' = Cleaning
      BY <1>1 DEF Cleaning
    <2>5. QED
      BY <1>1, <2>3, <2>4 DEF Refines, BS!Next, BS!Change
  <1>2. QED
    BY <1>1

LEMMA RefineLose ==
  /\ Cleaning /\ ~Cleaning'
  /\ \E n \in 0 .. Len(Bonds) - 1 :
       Bonds' = SubSeq(Bonds, 1, n) \/ Bonds' = Append(SubSeq(Bonds, 1, n), "ff")
  => Refines
  <1>1. ASSUME Cleaning, ~Cleaning', NEW n \in 0 .. Len(Bonds) - 1,
               Bonds' = SubSeq(Bonds, 1, n) \/ Bonds' = Append(SubSeq(Bonds, 1, n), "ff")
        PROVE  Refines
    <2>1. Bonds = TblAddrs /\ Bonds' = DurableBonds'
      BY <1>1 DEF Bonds
    <2>2. Cleaning' = FALSE
      BY <1>1 DEF Cleaning
    <2>3. TblAddrs = (IF Cleaning THEN [j \in DOMAIN tbl |-> tbl[j].addr] ELSE DurableBonds)
      BY <1>1 DEF TblAddrs
    <2>4. DurableBonds' = (IF Cleaning THEN [j \in DOMAIN tbl |-> tbl[j].addr] ELSE DurableBonds)'
      BY <1>1
    <2>5. /\ n \in 0 .. Len(TblAddrs) - 1
          /\ \/ DurableBonds' = SubSeq(TblAddrs, 1, n)
             \/ DurableBonds' = Append(SubSeq(TblAddrs, 1, n), "ff")
      BY <1>1, <2>1
    <2>6. BS!LoseNewest
      BY <1>1, <2>2, <2>3, <2>4, <2>5 DEF BS!LoseNewest
    <2>7. QED
      BY <2>6 DEF Refines, BS!Next
  <1>2. QED
    BY <1>1

-----------------------------------------------------------------------------
(* The bonds in the log, and how the operations change them. *)

Addrs(f, q) == [i \in 1 .. Len(q) |-> f[q[i]].addr]

LEMMA AddrsAre ==
  ASSUME NEW f, NEW e, NEW q, LogOf(f, e, q)
  PROVE  /\ Addrs(f, q) \in Seq(Stored) /\ Len(Addrs(f, q)) = Len(q) /\ Len(q) \in Nat
         /\ DOMAIN Addrs(f, q) = 1 .. Len(q)
         /\ \A i \in 1 .. Len(q) : Addrs(f, q)[i] = f[q[i]].addr /\ f[q[i]].addr \in Stored \ {"mix"}
  <1>1. f \in [Slots -> FlashAreas] /\ \A s \in Sector : f[s].addr # "mix"
    BY DEF LogOf
  <1>2. Len(q) \in Nat /\ \A i \in 1 .. Len(q) : q[i] \in Sector /\ q[i] \in Slots
    BY ListInLog, Sizes
  <1>3. \A i \in 1 .. Len(q) : f[q[i]].addr \in Stored \ {"mix"}
    BY <1>1, <1>2 DEF FlashAreas
  <1>4. QED
    BY <1>2, <1>3 DEF Addrs

LEMMA AddrsBegun ==
  ASSUME NEW f, NEW e, NEW q, LogOf(f, e, q), e < SectorSlots, Len(q) < MaxNum,
         NEW g, g = Marked(f, e, "01")
  PROVE  Addrs(g, Append(q, e)) = Append(Addrs(f, q), "ff")
  <1> DEFINE p == Append(q, e)
             b == Addrs(f, q)
  <1>1. /\ LogOf(g, e + 1, p) /\ g[e].addr = "ff" /\ Len(p) = Len(q) + 1 /\ p[Len(q) + 1] = e
        /\ \A i \in 1 .. Len(q) : p[i] = q[i]
        /\ \A s \in Slots : g[s].addr = f[s].addr
    BY MarkedNext
  <1>2. b \in Seq(Stored) /\ Len(b) = Len(q) /\ Len(q) \in Nat /\ \A i \in 1 .. Len(q) : b[i] = f[q[i]].addr
    BY AddrsAre
  <1>3. \A i \in 1 .. Len(q) : q[i] \in Slots
    BY ListInLog, Sizes
  <1> HIDE DEF p, b
  <1>4. Append(b, "ff") = [i \in 1 .. Len(q) + 1 |-> IF i = Len(q) + 1 THEN "ff" ELSE b[i]]
    <2> DEFINE c == Append(b, "ff")
    <2>1. c \in Seq(Stored) /\ Len(c) = Len(q) + 1 /\ c[Len(q) + 1] = "ff"
          /\ \A i \in 1 .. Len(q) : c[i] = b[i]
      BY <1>2, AppendProperties DEF Stored
    <2> HIDE DEF c
    <2>2. c = [i \in 1 .. Len(q) + 1 |-> c[i]]
      BY <2>1
    <2>3. \A i \in 1 .. Len(q) + 1 : c[i] = IF i = Len(q) + 1 THEN "ff" ELSE b[i]
      BY <1>2, <2>1
    <2>4. QED
      BY <2>2, <2>3 DEF c
  <1>5. Addrs(g, p) = [i \in 1 .. Len(q) + 1 |-> g[p[i]].addr]
    BY <1>1 DEF Addrs
  <1>6. \A i \in 1 .. Len(q) + 1 : g[p[i]].addr = IF i = Len(q) + 1 THEN "ff" ELSE b[i]
    BY <1>1, <1>2, <1>3
  <1>7. QED
    BY <1>4, <1>5, <1>6 DEF p, b

LEMMA AddrsForgotten ==
  ASSUME NEW f, NEW e, NEW q, LogOf(f, e, q), NEW j \in 1 .. Len(q),
         NEW g, g = Marked(f, q[j], "00")
  PROVE  Addrs(g, RemoveAt(q, j)) = RemoveAt(Addrs(f, q), j)
  <1> DEFINE p == RemoveAt(q, j)
             b == Addrs(f, q)
             c == RemoveAt(b, j)
  <1>1. /\ Len(p) = Len(q) - 1 /\ \A s \in Slots : g[s].addr = f[s].addr
        /\ \A i \in 1 .. Len(q) - 1 : p[i] = IF i < j THEN q[i] ELSE q[i + 1]
    BY MarkedDeleted
  <1>2. b \in Seq(Stored) /\ Len(b) = Len(q) /\ Len(q) \in Nat /\ \A i \in 1 .. Len(q) : b[i] = f[q[i]].addr
    BY AddrsAre
  <1>3. \A i \in 1 .. Len(q) : q[i] \in Slots
    BY ListInLog, Sizes
  <1> HIDE DEF p, b
  <1>4. c \in Seq(Stored) /\ Len(c) = Len(q) - 1
        /\ \A i \in 1 .. Len(q) - 1 : c[i] = IF i < j THEN b[i] ELSE b[i + 1]
    <2>1. j \in 1 .. Len(b)
      BY <1>2
    <2>2. QED
      BY <1>2, <2>1, RemoveAtIs
  <1> HIDE DEF c
  <1>5. c = [i \in 1 .. Len(q) - 1 |-> c[i]]
    BY <1>4
  <1>6. Addrs(g, p) = [i \in 1 .. Len(q) - 1 |-> g[p[i]].addr]
    BY <1>1 DEF Addrs
  <1>7. ASSUME NEW i \in 1 .. Len(q) - 1 PROVE g[p[i]].addr = c[i]
    <2>1. i \in 1 .. Len(q) /\ i + 1 \in 1 .. Len(q)
      BY <1>2
    <2>2. QED
      BY <1>1, <1>2, <1>3, <1>4, <2>1
  <1>8. QED
    BY <1>5, <1>6, <1>7 DEF p, b, c

LEMMA AddrsCompleted ==
  ASSUME NEW f, NEW e, NEW q, LogOf(f, e, q), Len(q) >= 1, NEW s, s = q[Len(q)], f[s].addr = "ff",
         NEW a \in Stored, a # "mix", NEW g, g = Written(f, s, a)
  PROVE  /\ Addrs(f, q) # <<>> /\ Last(Addrs(f, q)) = "ff"
         /\ Addrs(g, q) = Append(Front(Addrs(f, q)), a)
         /\ s \in 0 .. e - 1 /\ \A i \in 1 .. Len(q) - 1 : g[q[i]] = f[q[i]]
  <1> DEFINE b == Addrs(f, q)
             c == Front(b)
  <1>1. /\ Len(q) \in Nat /\ \A i \in 1 .. Len(q) : q[i] \in 0 .. e - 1 /\ q[i] \in Slots
        /\ \A i, j \in 1 .. Len(q) : i < j => q[i] < q[j]
    BY ListInLog, Sizes
  <1>2. s \in 0 .. e - 1 /\ s \in Slots /\ s \in Nat
    BY <1>1
  <1>3. b \in Seq(Stored) /\ Len(b) = Len(q) /\ \A i \in 1 .. Len(q) : b[i] = f[q[i]].addr
    BY AddrsAre
  <1>4. g[s].addr = a /\ \A t \in Slots : t # s => g[t] = f[t]
    BY <1>2, Addressed
  <1>5. \A i \in 1 .. Len(q) - 1 : q[i] # s
    <2>1. ASSUME NEW i \in 1 .. Len(q) - 1 PROVE q[i] # s
      <3>1. i \in 1 .. Len(q) /\ Len(q) \in 1 .. Len(q) /\ i < Len(q)
        BY <1>1
      <3>2. q[i] < q[Len(q)] /\ q[i] \in 0 .. e - 1
        BY <1>1, <3>1
      <3>3. QED
        BY <1>2, <3>2
    <2>2. QED
      BY <2>1
  <1>6. \A i \in 1 .. Len(q) - 1 : g[q[i]] = f[q[i]]
    <2>1. \A i \in 1 .. Len(q) - 1 : i \in 1 .. Len(q)
      BY <1>1
    <2>2. QED
      BY <1>1, <1>4, <1>5, <2>1
  <1> HIDE DEF b
  <1>7. b # <<>> /\ Last(b) = "ff"
    BY <1>1, <1>3 DEF Last
  <1>8. c \in Seq(Stored) /\ Len(c) = Len(q) - 1 /\ \A i \in 1 .. Len(q) - 1 : c[i] = b[i]
    <2>1. \A i \in 1 .. Len(b) - 1 : b[i] \in Stored
      BY <1>3
    <2>2. c = SubSeq(b, 1, Len(b) - 1)
      BY DEF Front
    <2>3. QED
      BY <1>1, <1>3, <2>1, <2>2
  <1> HIDE DEF c
  <1>9. Append(c, a) = [i \in 1 .. Len(q) |-> IF i = Len(q) THEN a ELSE c[i]]
    <2> DEFINE d == Append(c, a)
    <2>1. d \in Seq(Stored) /\ Len(d) = Len(q) /\ d[Len(q)] = a
          /\ \A i \in 1 .. Len(q) - 1 : d[i] = c[i]
      <3>1. Len(c) + 1 = Len(q)
        BY <1>1, <1>8
      <3>2. QED
        BY <1>8, <3>1, AppendProperties
    <2> HIDE DEF d
    <2>2. d = [i \in 1 .. Len(q) |-> d[i]]
      BY <1>1, <2>1
    <2>3. \A i \in 1 .. Len(q) : d[i] = IF i = Len(q) THEN a ELSE c[i]
      BY <1>1, <2>1
    <2>4. QED
      BY <2>2, <2>3 DEF d
  <1>10. ASSUME NEW i \in 1 .. Len(q) PROVE g[q[i]].addr = IF i = Len(q) THEN a ELSE c[i]
    <2>1. CASE i = Len(q)
      BY <1>4, <2>1
    <2>2. CASE i # Len(q)
      <3>1. i \in 1 .. Len(q) - 1
        BY <1>1, <2>2
      <3>2. QED
        BY <1>3, <1>6, <1>8, <2>2, <3>1
    <2>3. QED
      BY <2>1, <2>2
  <1>11. Addrs(g, q) = Append(c, a)
    BY <1>9, <1>10 DEF Addrs
  <1>12. QED
    BY <1>2, <1>6, <1>7, <1>11 DEF b, c

\* The log of the next state, from what the step did to the flash.
LEMMA LogNext ==
  ASSUME NEW g, flash' = g, NEW e, NEW q, LogOf(g, e, q)
  PROVE  LogEnd' = e /\ Areas' = q /\ DurableBonds' = Addrs(g, q) /\ LogInv'
  <1>1. LogEnd' = EndOf(flash')
    BY DEF LogEnd, EndOf
  <1>2. Areas' = Ascending(ValidOf(flash'))
    BY DEF Areas, Valid, ValidOf, LogEnd, EndOf
  <1>3. LogEnd' = e /\ Areas' = q
    BY <1>1, <1>2, EndIs
  <1>4. q \in Seq(Slots)
    BY ListInLog
  <1>5. DurableBonds' = Addrs(g, q)
    BY <1>3, <1>4 DEF DurableBonds, Loaded, Addrs
  <1>6. QED
    BY <1>3, <1>5 DEF LogInv

LEMMA LogNow == LogInv => DurableBonds = Addrs(flash, Areas)
  <1>1. SUFFICES ASSUME LogInv PROVE DurableBonds = Addrs(flash, Areas)
    OBVIOUS
  <1>2. Areas \in Seq(Slots)
    BY <1>1, ListInLog DEF LogInv
  <1>3. QED
    BY <1>2 DEF DurableBonds, Loaded, Addrs

-----------------------------------------------------------------------------
(* Writing to the flash. *)

Area == [addr : Stored, idx : Slots]

LEMMA MarkWritten ==
  ASSUME LogInv, NEW s \in Slots, NEW m \in {"01", "00"}, WriteMark(s, m)
  PROVE  /\ flash' \in [Slots -> FlashAreas]
         /\ \A t \in Slots : flash'[t].addr = flash[t].addr /\ (t # s => flash'[t] = flash[t])
         /\ flash[s].mark = "ff" \/ m = "00" => flash' = Marked(flash, s, m)
  <1>1. flash \in [Slots -> FlashAreas]
    BY DEF LogInv, LogOf
  <1>2. flash' = [flash EXCEPT ![s].mark = IF flash[s].mark = "ff" \/ m = "00" THEN m ELSE flash[s].mark]
    BY <1>1 DEF WriteMark
  <1>3. QED
    BY <1>1, <1>2 DEF FlashAreas, Marked

LEMMA AddrWritten ==
  ASSUME LogInv, NEW s \in Slots, NEW a \in Stored, WriteAddr(s, a)
  PROVE  /\ flash' \in [Slots -> FlashAreas]
         /\ \A t \in Slots : t # s => flash'[t] = flash[t]
         /\ flash[s].addr = "ff" => flash' = Written(flash, s, a)
  <1>1. flash \in [Slots -> FlashAreas]
    BY DEF LogInv, LogOf
  <1>2. flash' = [flash EXCEPT ![s].addr = IF flash[s].addr \in {"ff", a} THEN a ELSE "mix"]
    BY <1>1 DEF WriteAddr
  <1>3. QED
    BY <1>1, <1>2 DEF FlashAreas, Written, Stored

LEMMA LogSame ==
  ASSUME LogInv, flash' = flash
  PROVE  LogEnd' = LogEnd /\ Areas' = Areas /\ DurableBonds' = DurableBonds /\ LogInv'
  <1>1. LogOf(flash, LogEnd, Areas)
    BY DEF LogInv
  <1>2. LogEnd' = LogEnd /\ Areas' = Areas /\ DurableBonds' = Addrs(flash, Areas) /\ LogInv'
    BY <1>1, LogNext
  <1>3. QED
    BY <1>2, LogNow

-----------------------------------------------------------------------------
(* Every step keeps the invariant and is a step of the list of bonds. *)

LEMMA LogFacts ==
  ASSUME LogInv
  PROVE  /\ LogEnd \in 0 .. SectorSlots /\ LogEnd \in Nat
         /\ Areas \in Seq(Slots) /\ Len(Areas) \in Nat /\ Len(Areas) <= LogEnd /\ Len(Areas) <= MaxNum
         /\ \A i \in 1 .. Len(Areas) :
              /\ Areas[i] \in 0 .. LogEnd - 1 /\ Areas[i] \in Sector /\ Areas[i] \in Slots
              /\ Areas[i] < SectorSlots /\ flash[Areas[i]].mark = "01"
              /\ flash[Areas[i]].addr \in Stored /\ flash[Areas[i]].addr # "mix"
         /\ \A i, j \in 1 .. Len(Areas) : i < j => Areas[i] < Areas[j]
         /\ Len(Areas) = Cardinality(Valid)
         /\ \A s \in Sector : s >= LogEnd => flash[s].mark = "ff" /\ flash[s].addr = "ff"
         /\ \A s \in Slots : flash[s].addr \in Stored
         /\ flash \in [Slots -> FlashAreas]
  <1>1. LogOf(flash, LogEnd, Areas)
    BY DEF LogInv
  <1>2. /\ LogEnd \in 0 .. SectorSlots /\ flash \in [Slots -> FlashAreas]
        /\ \A s \in Sector : s < LogEnd <=> flash[s].mark # "ff"
        /\ \A s \in Sector : s >= LogEnd => flash[s].addr = "ff"
        /\ \A s \in Sector : flash[s].addr # "mix"
    BY <1>1 DEF LogOf
  <1>3. IsList(Areas, Valid)
    BY <1>1 DEF LogOf, Valid
  <1>4. Len(Areas) = Cardinality(Valid)
    BY <1>3, ListRank
  <1>5. /\ Areas \in Seq(Slots) /\ Len(Areas) \in Nat /\ Len(Areas) <= LogEnd /\ Len(Areas) <= MaxNum
        /\ \A i \in 1 .. Len(Areas) : /\ Areas[i] \in 0 .. LogEnd - 1 /\ Areas[i] \in Sector
                                      /\ flash[Areas[i]].mark = "01"
        /\ \A i, j \in 1 .. Len(Areas) : i < j => Areas[i] < Areas[j]
    BY <1>1, ListInLog
  <1>6. ASSUME NEW s \in Slots PROVE flash[s].addr \in Stored
    BY <1>2 DEF FlashAreas
  <1>7. ASSUME NEW s \in Sector PROVE s \in Slots /\ s < SectorSlots /\ s \in Nat
    BY Sizes DEF Sector
  <1>8. \A s \in Sector : s >= LogEnd => flash[s].mark = "ff" /\ flash[s].addr = "ff"
    BY <1>2, <1>7, Sizes
  <1>9. ASSUME NEW i \in 1 .. Len(Areas)
        PROVE  /\ Areas[i] \in Slots /\ Areas[i] < SectorSlots
               /\ flash[Areas[i]].addr \in Stored /\ flash[Areas[i]].addr # "mix"
    BY <1>2, <1>5, <1>6, <1>7
  <1>10. LogEnd \in Nat
    BY <1>2, Sizes
  <1>11. QED
    BY <1>2, <1>4, <1>5, <1>6, <1>8, <1>9, <1>10

LEMMA InitIInv == Init => IInv /\ BS!Init
  <1>1. SUFFICES ASSUME Init PROVE IInv /\ BS!Init
    OBVIOUS
  <1>2. flash \in [Slots -> FlashAreas] /\ \A s \in Sector : flash[s] = Blank
    BY <1>1, Sizes DEF Init, FlashAreas, Blank, Stored
  <1>3. LogOf(flash, 0, <<>>)
    BY <1>2, Erased
  <1>4. LogEnd = 0 /\ Areas = <<>>
    <2>1. EndOf(flash) = 0 /\ Ascending(ValidOf(flash)) = <<>>
      BY <1>3, EndIs
    <2>2. QED
      BY <2>1 DEF LogEnd, EndOf, Areas, Valid, ValidOf
  <1>5. LogInv
    BY <1>3, <1>4 DEF LogInv
  <1>6. TypeOK
    <2>1. tbl \in Seq([addr : Stored, idx : Slots]) /\ Len(tbl) <= MaxNum
      BY <1>1, Sizes DEF Init
    <2>2. idx \in -1 .. (FlashSlots - 1) /\ k \in 1 .. (MaxNum + 1)
      BY <1>1, Sizes DEF Init
    <2>3. adds \in 0 .. MaxAdds /\ cuts \in 0 .. MaxCuts
      BY <1>1, BoundAssumption DEF Init
    <2>4. QED
      BY <1>1, <1>2, <2>1, <2>2, <2>3 DEF Init, TypeOK, FlashAreas
  <1>7. IdxInv /\ TableInv
    BY <1>1 DEF Init, IdxInv, TableInv
  <1>8. BS!Init
    <2>1. DurableBonds = <<>>
      BY <1>4 DEF DurableBonds, Loaded
    <2>2. ~Cleaning /\ Cleaning = FALSE
      BY <1>1 DEF Init, Cleaning
    <2>3. QED
      BY <2>1, <2>2 DEF BS!Init
  <1>9. QED
    BY <1>5, <1>6, <1>7, <1>8 DEF IInv

LEMMA ConfigInitStep == IInv /\ ConfigInit => IInv' /\ Refines
  <1>1. SUFFICES ASSUME IInv, ConfigInit PROVE IInv' /\ Refines
    OBVIOUS
  <1>2. TypeOK /\ LogInv /\ pc = "off" /\ flash' = flash
        /\ adr' = adr /\ k' = k /\ adds' = adds /\ cuts' = cuts
    BY <1>1 DEF IInv, ConfigInit
  <1>3. LogEnd' = LogEnd /\ Areas' = Areas /\ DurableBonds' = DurableBonds /\ LogInv'
    BY <1>2, LogSame
  <1> DEFINE n == Len(Areas)
  <1>4. /\ n \in Nat /\ n <= LogEnd /\ n <= MaxNum /\ LogEnd \in Nat /\ LogEnd <= SectorSlots
        /\ Areas \in Seq(Slots) /\ n = Cardinality(Valid)
        /\ \A i \in 1 .. n : Areas[i] \in Slots /\ flash[Areas[i]].addr \in Stored
    BY <1>2, LogFacts, Sizes
  <1>5. /\ tbl' = Loaded /\ idx' = LogEnd - 1
        /\ pc' = IF idx' < CleanSlots THEN "run" ELSE "cleanErase"
    <2>1. ~(Cardinality(Valid) > MaxNum)
      BY <1>4, Sizes
    <2>2. QED
      BY <1>1, <2>1 DEF ConfigInit
  <1>6. tbl' = [j \in 1 .. n |-> [addr |-> flash[Areas[j]].addr, idx |-> Areas[j]]]
    BY <1>4, <1>5 DEF Loaded
  <1>7. tbl' \in Seq([addr : Stored, idx : Slots]) /\ Len(tbl') = n
        /\ \A j \in 1 .. n : tbl'[j] = [addr |-> flash'[Areas'[j]].addr, idx |-> Areas'[j]]
    <2>1. \A j \in 1 .. n : [addr |-> flash[Areas[j]].addr, idx |-> Areas[j]] \in [addr : Stored, idx : Slots]
      BY <1>4
    <2>2. tbl' \in Seq([addr : Stored, idx : Slots]) /\ Len(tbl') = n
      <3>1. tbl' \in [1 .. n -> [addr : Stored, idx : Slots]]
        BY <1>6, <2>1
      <3>2. QED
        BY <1>4, <3>1, ListOf
    <2>3. \A j \in 1 .. n : tbl'[j] = [addr |-> flash[Areas[j]].addr, idx |-> Areas[j]]
      BY <1>6
    <2>4. QED
      BY <1>2, <1>3, <2>2, <2>3
  <1>8. idx' < SectorSlots /\ idx' + 1 = LogEnd /\ idx' \in -1 .. (FlashSlots - 1)
    BY <1>4, <1>5, Sizes
  <1>9. TypeOK'
    BY <1>2, <1>4, <1>5, <1>7, <1>8, Sizes DEF TypeOK
  <1>10. IdxInv'
    BY <1>3, <1>4, <1>5, <1>7, <1>8, Sizes DEF IdxInv
  <1>11. TableInv'
    <2>1. Matches(n, 0)'
      BY <1>3, <1>4, <1>7 DEF Matches, Same
    <2>2. \A j \in 1 .. n : flash[Areas[j]].addr # "mix"
      BY <1>2, LogFacts
    <2>3. \A j \in 1 .. Len(tbl') : tbl'[j].addr # "mix"
      <3>1. ASSUME NEW j \in 1 .. n PROVE tbl'[j].addr # "mix"
        BY <1>6, <2>2
      <3>2. QED
        BY <1>7, <3>1
    <2>4. QED
      BY <1>3, <1>5, <2>1, <2>3 DEF TableInv, Unmixed
  <1>12. Bonds' = Bonds
    <2>1. Bonds = DurableBonds
      BY <1>2 DEF Bonds, Cleaning
    <2>2. Addrs(flash, Areas) = TblAddrs'
      BY <1>4, <1>6 DEF Addrs, TblAddrs
    <2>3. QED
      BY <1>2, <1>3, <2>1, <2>2, LogNow DEF Bonds
  <1>13. Refines
    <2>1. CASE pc' = "run"
      <3>1. Cleaning' = Cleaning
        BY <1>2, <2>1 DEF Cleaning
      <3>2. QED
        BY <1>12, <3>1, RefineStutter
    <2>2. CASE pc' = "cleanErase"
      <3>1. Cleaning' = ~Cleaning
        BY <1>2, <2>2 DEF Cleaning
      <3>2. QED
        BY <1>12, <3>1, RefineMove
    <2>3. QED
      BY <1>5, <2>1, <2>2
  <1>14. QED
    BY <1>3, <1>9, <1>10, <1>11, <1>13 DEF IInv

LEMMA AddStep == ASSUME NEW a \in Addr PROVE IInv /\ Add(a) => IInv' /\ Refines
  <1>1. SUFFICES ASSUME IInv, Add(a) PROVE IInv' /\ Refines
    OBVIOUS
  <1>2. /\ TypeOK /\ LogInv /\ IdxInv /\ TableInv /\ pc = "run" /\ idx + 1 \in Slots
        /\ adds < MaxAdds /\ adr' = a /\ adds' = adds + 1
        /\ pc' = IF Len(tbl) >= MaxNum THEN "replace" ELSE "addMark"
        /\ flash' = flash /\ tbl' = tbl /\ idx' = idx /\ k' = k /\ cuts' = cuts
    BY <1>1 DEF IInv, Add
  <1>3. LogEnd' = LogEnd /\ Areas' = Areas /\ DurableBonds' = DurableBonds /\ LogInv'
    BY <1>2, LogSame
  <1>4. TypeOK'
    BY <1>2, BoundAssumption DEF TypeOK
  <1>5. IdxInv'
    <2>1. tbl \in Seq(Area) /\ Len(tbl) <= MaxNum
      BY <1>2 DEF TypeOK, Area
    <2>2. Len(tbl) \in Nat /\ (Len(tbl) >= MaxNum => Len(tbl) = MaxNum)
          /\ (~(Len(tbl) >= MaxNum) => Len(tbl) < MaxNum)
      BY <2>1, Sizes
    <2>3. QED
      BY <1>2, <1>3, <2>2 DEF IdxInv
  <1>6. TableInv'
    <2>1. Matches(Len(Areas), 0)
      BY <1>2 DEF TableInv
    <2>2. Matches(Len(Areas), 0)'
      BY <1>2, <1>3, <2>1 DEF Matches, Same
    <2>3. QED
      BY <1>2, <1>3, <2>2 DEF TableInv
  <1>7. Bonds' = Bonds /\ Cleaning' = Cleaning
    BY <1>2, <1>3 DEF Bonds, Cleaning
  <1>8. QED
    BY <1>2, <1>3, <1>4, <1>5, <1>6, <1>7, RefineStutter DEF IInv

LEMMA UnpairStart == IInv /\ Unpair => IInv' /\ Refines
  <1>1. SUFFICES ASSUME IInv, Unpair PROVE IInv' /\ Refines
    OBVIOUS
  <1>2. /\ TypeOK /\ LogInv /\ IdxInv /\ TableInv /\ pc = "run" /\ pc' = "unpair" /\ k' = 1
        /\ flash' = flash /\ tbl' = tbl /\ idx' = idx /\ adr' = adr /\ adds' = adds /\ cuts' = cuts
    BY <1>1 DEF IInv, Unpair
  <1>3. LogEnd' = LogEnd /\ Areas' = Areas /\ DurableBonds' = DurableBonds /\ LogInv'
    BY <1>2, LogSame
  <1>4. TypeOK'
    BY <1>2, Sizes DEF TypeOK
  <1>5. IdxInv'
    <2>1. tbl \in Seq(Area)
      BY <1>2 DEF TypeOK, Area
    <2>2. 1 \in 1 .. Len(tbl) + 1
      BY <2>1
    <2>3. QED
      BY <1>2, <1>3, <2>2 DEF IdxInv
  <1>6. TableInv'
    <2>1. Matches(Len(Areas), 0)
      BY <1>2 DEF TableInv
    <2>2. Matches(Len(Areas), 0)'
      BY <1>2, <1>3, <2>1 DEF Matches, Same
    <2>3. k' - 1 = 0
      BY <1>2
    <2>4. Matches(Len(Areas), k - 1)'
      BY <2>2, <2>3 DEF Matches, Same
    <2>5. QED
      BY <1>2, <1>3, <2>4 DEF TableInv
  <1>7. Bonds' = Bonds /\ Cleaning' = Cleaning
    BY <1>2, <1>3 DEF Bonds, Cleaning
  <1>8. QED
    BY <1>2, <1>3, <1>4, <1>5, <1>6, <1>7, RefineStutter DEF IInv

LEMMA UnpairEnd == IInv /\ UnpairDone => IInv' /\ Refines
  <1>1. SUFFICES ASSUME IInv, UnpairDone PROVE IInv' /\ Refines
    OBVIOUS
  <1>2. /\ TypeOK /\ LogInv /\ IdxInv /\ TableInv /\ pc = "unpair" /\ pc' = "run" /\ k' = 1
        /\ k > Len(tbl) /\ tbl' = <<>>
        /\ flash' = flash /\ idx' = idx /\ adr' = adr /\ adds' = adds /\ cuts' = cuts
    BY <1>1 DEF IInv, UnpairDone
  <1>3. LogEnd' = LogEnd /\ Areas' = Areas /\ DurableBonds' = DurableBonds /\ LogInv'
    BY <1>2, LogSame
  <1>4. Len(tbl') = 0 /\ tbl' \in Seq(Area)
    BY <1>2
  <1>5. TypeOK'
    BY <1>2, <1>4, Sizes DEF TypeOK, Area
  <1>6. IdxInv'
    BY <1>2, <1>3, <1>4 DEF IdxInv
  <1>7. Len(Areas) = 0
    <2>1. k \in 1 .. Len(tbl) + 1 /\ Len(Areas) + (k - 1) <= Len(tbl) /\ Len(tbl) \in Nat
      BY <1>2 DEF TypeOK, IdxInv, TableInv, Matches
    <2>2. Len(Areas) \in Nat
      BY <1>2, LogFacts
    <2>3. QED
      BY <1>2, <2>1, <2>2
  <1>8. TableInv'
    <2>1. Matches(Len(Areas), 0)'
      BY <1>3, <1>4, <1>7 DEF Matches
    <2>2. QED
      BY <1>2, <1>3, <2>1 DEF TableInv
  <1>9. Bonds' = Bonds /\ Cleaning' = Cleaning
    BY <1>2, <1>3 DEF Bonds, Cleaning
  <1>10. QED
    BY <1>2, <1>3, <1>5, <1>6, <1>8, <1>9, RefineStutter DEF IInv

\* Marking the area of bond j of the table deleted takes at most that bond off the log.
LEMMA Deleted ==
  ASSUME TypeOK, LogInv, ~Cleaning, ~Cleaning', NEW d \in Nat, Matches(Len(Areas), d),
         NEW j \in d + 1 .. Len(tbl), WriteMark(tbl[j].idx, "00")
  PROVE  /\ LogInv' /\ LogEnd' = LogEnd /\ flash' \in [Slots -> FlashAreas] /\ Refines
         /\ \A s \in Slots : flash'[s].addr = flash[s].addr
         /\ \/ /\ j - d <= Len(Areas) /\ Len(Areas') = Len(Areas) - 1
               /\ \A i \in 1 .. Len(Areas) - 1 :
                    Areas'[i] = IF i < j - d THEN Areas[i] ELSE Areas[i + 1]
            \/ j - d > Len(Areas) /\ Areas' = Areas
  <1>1. PICK f, e, q : f = flash /\ e = LogEnd /\ q = Areas
    OBVIOUS
  <1>2. PICK g, m : g = flash' /\ m = j - d
    OBVIOUS
  <1>3. /\ LogOf(f, e, q) /\ q \in Seq(Slots) /\ Len(q) \in Nat
        /\ \A i \in 1 .. Len(q) : q[i] \in Slots /\ q[i] < SectorSlots
        /\ f \in [Slots -> FlashAreas]
    BY <1>1, LogFacts DEF LogInv
  <1>4. tbl \in Seq(Area) /\ Len(tbl) \in Nat /\ \A i \in 1 .. Len(tbl) : tbl[i].idx \in Slots
    <2>1. tbl \in Seq(Area)
      BY DEF TypeOK, Area
    <2>2. Len(tbl) \in Nat /\ \A i \in 1 .. Len(tbl) : tbl[i] \in Area
      BY <2>1
    <2>3. QED
      BY <2>1, <2>2 DEF Area
  <1>5. m \in Nat /\ m >= 1 /\ j \in 1 .. Len(tbl) /\ j = m + d
    BY <1>2, <1>4
  <1>6. tbl[j].idx \in Slots
    BY <1>4, <1>5
  <1>7. /\ g \in [Slots -> FlashAreas] /\ \A s \in Slots : g[s].addr = f[s].addr
        /\ g = Marked(f, tbl[j].idx, "00") /\ \A s \in Slots : s # tbl[j].idx => g[s] = f[s]
    BY <1>1, <1>2, <1>6, MarkWritten
  <1>8. DurableBonds = Addrs(f, q) /\ Bonds = Addrs(f, q) /\ Bonds' = DurableBonds'
    BY <1>1, LogNow DEF Bonds
  <1>9. Cleaning' = Cleaning
    BY DEF Cleaning
  <1>10. CASE m <= Len(q)
    <2>1. m \in 1 .. Len(q)
      BY <1>3, <1>5, <1>10
    <2>2. tbl[j].idx = q[m]
      <3>1. Same(m, m + d)
        BY <1>1, <2>1 DEF Matches
      <3>2. QED
        BY <1>1, <1>5, <3>1 DEF Same
    <2>3. g = Marked(f, q[m], "00")
      BY <1>7, <2>2
    <2>4. /\ LogOf(g, e, RemoveAt(q, m)) /\ Len(RemoveAt(q, m)) = Len(q) - 1
          /\ \A i \in 1 .. Len(q) - 1 : RemoveAt(q, m)[i] = IF i < m THEN q[i] ELSE q[i + 1]
      BY <1>3, <2>1, <2>3, MarkedDeleted
    <2>5. LogEnd' = e /\ Areas' = RemoveAt(q, m) /\ DurableBonds' = Addrs(g, RemoveAt(q, m)) /\ LogInv'
      BY <1>2, <2>4, LogNext
    <2>6. Addrs(g, RemoveAt(q, m)) = RemoveAt(Addrs(f, q), m)
      BY <1>3, <2>1, <2>3, AddrsForgotten
    <2>7. m \in DOMAIN Addrs(f, q)
      BY <1>3, <2>1, AddrsAre
    <2>8. Refines
      BY <1>8, <2>5, <2>6, <2>7, RefineForget
    <2>9. QED
      BY <1>1, <1>2, <1>7, <1>10, <2>4, <2>5, <2>8
  <1>11. CASE m > Len(q)
    <2>1. SectorSlots <= tbl[j].idx
      <3>1. j \in Len(q) + d + 1 .. Len(tbl)
        BY <1>3, <1>5, <1>11
      <3>2. QED
        BY <1>1, <3>1 DEF Matches
    <2>2. \A s \in Sector : g[s] = f[s]
      <3>1. \A s \in Sector : s \in Slots /\ s < SectorSlots /\ s \in Nat
        BY Sizes DEF Sector
      <3>2. \A s \in Sector : s # tbl[j].idx
        BY <1>6, <2>1, <3>1, Sizes
      <3>3. QED
        BY <1>7, <3>1, <3>2
    <2>3. LogOf(g, e, q)
      BY <1>3, <1>7, <2>2, SectorKept
    <2>4. LogEnd' = e /\ Areas' = q /\ DurableBonds' = Addrs(g, q) /\ LogInv'
      BY <1>2, <2>3, LogNext
    <2>5. Addrs(g, q) = Addrs(f, q)
      BY <1>3, <1>7 DEF Addrs
    <2>6. Refines
      BY <1>8, <1>9, <2>4, <2>5, RefineStutter
    <2>7. QED
      BY <1>1, <1>2, <1>7, <1>11, <2>4, <2>6
  <1>12. QED
    BY <1>3, <1>5, <1>10, <1>11

\* Without its bond j the table matches the log again.
LEMMA Shortened ==
  ASSUME TypeOK, LogInv, ~Cleaning, ~Cleaning', Matches(Len(Areas), 0),
         NEW j \in 1 .. Len(tbl), WriteMark(tbl[j].idx, "00"), tbl' = RemoveAt(tbl, j), idx' = idx
  PROVE  /\ LogInv' /\ LogEnd' = LogEnd /\ flash' \in [Slots -> FlashAreas] /\ Refines
         /\ Matches(Len(Areas), 0)'
         /\ tbl' \in Seq([addr : Stored, idx : Slots]) /\ Len(tbl') = Len(tbl) - 1
  <1>1. PICK n, m, r : n = Len(Areas) /\ m = Len(Areas') /\ r = tbl'
    OBVIOUS
  <1>2. /\ LogInv' /\ LogEnd' = LogEnd /\ flash' \in [Slots -> FlashAreas] /\ Refines
        /\ \A s \in Slots : flash'[s].addr = flash[s].addr
        /\ \/ /\ j <= n /\ m = n - 1
              /\ \A i \in 1 .. n - 1 : Areas'[i] = IF i < j THEN Areas[i] ELSE Areas[i + 1]
           \/ j > n /\ Areas' = Areas
    <2>1. 0 \in Nat /\ j \in 0 + 1 .. Len(tbl) /\ j - 0 = j
      OBVIOUS
    <2>2. QED
      BY <1>1, <2>1, Deleted
  <1>3. /\ n \in Nat /\ \A i \in 1 .. n : Areas[i] \in Slots
    BY <1>1, LogFacts
  <1>4. tbl \in Seq([addr : Stored, idx : Slots]) /\ Len(tbl) \in Nat
    BY DEF TypeOK
  <1>5. r \in Seq([addr : Stored, idx : Slots]) /\ Len(r) = Len(tbl) - 1
        /\ \A i \in 1 .. Len(tbl) - 1 : r[i] = IF i < j THEN tbl[i] ELSE tbl[i + 1]
    BY <1>1, <1>4, RemoveAtIs
  <1>6. /\ n <= Len(tbl)
        /\ \A i \in 1 .. n : tbl[i] = [addr |-> flash[Areas[i]].addr, idx |-> Areas[i]]
        /\ \A i \in n + 1 .. Len(tbl) : SectorSlots <= tbl[i].idx /\ tbl[i].idx <= idx
    BY <1>1, <1>3, <1>4 DEF Matches, Same
  <1>7. CASE j <= n /\ m = n - 1
    <2>1. \A i \in 1 .. n - 1 : Areas'[i] = IF i < j THEN Areas[i] ELSE Areas[i + 1]
      BY <1>2, <1>3, <1>7
    <2>2. m <= Len(r)
      BY <1>3, <1>4, <1>5, <1>6, <1>7
    <2>3. ASSUME NEW i \in 1 .. m
          PROVE  r[i] = [addr |-> flash'[Areas'[i]].addr, idx |-> Areas'[i]]
      <3>1. i \in 1 .. n - 1 /\ i \in 1 .. n /\ i + 1 \in 1 .. n /\ i \in 1 .. Len(tbl) - 1
        BY <1>3, <1>4, <1>6, <1>7
      <3>2. CASE i < j
        BY <1>2, <1>3, <1>5, <1>6, <2>1, <3>1, <3>2
      <3>3. CASE ~(i < j)
        <4>1. Areas'[i] = Areas[i + 1] /\ Areas[i + 1] \in Slots
          BY <1>3, <2>1, <3>1, <3>3
        <4>2. r[i] = tbl[i + 1]
          BY <1>5, <3>1, <3>3
        <4>3. tbl[i + 1] = [addr |-> flash[Areas[i + 1]].addr, idx |-> Areas[i + 1]]
          BY <1>6, <3>1
        <4>4. flash'[Areas[i + 1]].addr = flash[Areas[i + 1]].addr
          BY <1>2, <4>1
        <4>5. QED
          BY <4>1, <4>2, <4>3, <4>4
      <3>4. QED
        BY <3>2, <3>3
    <2>4. ASSUME NEW i \in m + 1 .. Len(r) PROVE SectorSlots <= r[i].idx /\ r[i].idx <= idx
      <3>1. i \in 1 .. Len(tbl) - 1 /\ ~(i < j) /\ i + 1 \in n + 1 .. Len(tbl)
        BY <1>3, <1>4, <1>5, <1>7
      <3>2. QED
        BY <1>5, <1>6, <3>1
    <2>5. QED
      BY <1>1, <1>2, <1>3, <1>5, <1>7, <2>2, <2>3, <2>4 DEF Matches, Same
  <1>8. CASE j > n /\ Areas' = Areas
    <2>1. m = n /\ m <= Len(r)
      BY <1>1, <1>3, <1>4, <1>5, <1>8
    <2>2. ASSUME NEW i \in 1 .. m
          PROVE  r[i] = [addr |-> flash'[Areas'[i]].addr, idx |-> Areas'[i]]
      <3>1. i \in 1 .. n /\ i < j /\ i \in 1 .. Len(tbl) - 1
        BY <1>3, <1>4, <1>8, <2>1
      <3>2. QED
        BY <1>2, <1>3, <1>5, <1>6, <1>8, <3>1
    <2>3. ASSUME NEW i \in m + 1 .. Len(r) PROVE SectorSlots <= r[i].idx /\ r[i].idx <= idx
      <3>1. i \in 1 .. Len(tbl) - 1 /\ i \in n + 1 .. Len(tbl) /\ i + 1 \in n + 1 .. Len(tbl)
        BY <1>3, <1>4, <1>5, <2>1
      <3>2. QED
        BY <1>5, <1>6, <3>1
    <2>4. QED
      BY <1>1, <1>2, <1>3, <1>5, <2>1, <2>2, <2>3 DEF Matches, Same
  <1>9. QED
    BY <1>2, <1>7, <1>8

LEMMA ReplaceStep == IInv /\ Replace => IInv' /\ Refines
  <1>1. SUFFICES ASSUME IInv, Replace PROVE IInv' /\ Refines
    OBVIOUS
  <1>2. /\ TypeOK /\ LogInv /\ IdxInv /\ TableInv /\ pc = "replace" /\ pc' = "addMark"
        /\ WriteMark(tbl[1].idx, "00") /\ tbl' = Tail(tbl)
        /\ idx' = idx /\ adr' = adr /\ k' = k /\ adds' = adds /\ cuts' = cuts
    BY <1>1 DEF IInv, Replace
  <1>3. ~Cleaning /\ ~Cleaning' /\ Matches(Len(Areas), 0)
    BY <1>2 DEF Cleaning, TableInv
  <1>4. tbl \in Seq([addr : Stored, idx : Slots]) /\ Len(tbl) = MaxNum /\ 1 \in 1 .. Len(tbl)
    BY <1>2, Sizes DEF TypeOK, IdxInv
  <1>5. tbl' = RemoveAt(tbl, 1)
    <2>1. /\ RemoveAt(tbl, 1) \in Seq([addr : Stored, idx : Slots]) /\ Len(RemoveAt(tbl, 1)) = Len(tbl) - 1
          /\ \A i \in 1 .. Len(tbl) - 1 : RemoveAt(tbl, 1)[i] = tbl[i + 1]
      BY <1>4, RemoveAtIs
    <2>2. /\ tbl' \in Seq([addr : Stored, idx : Slots]) /\ Len(tbl') = Len(tbl) - 1
          /\ \A i \in 1 .. Len(tbl) - 1 : tbl'[i] = tbl[i + 1]
      BY <1>2, <1>4
    <2>3. QED
      BY <2>1, <2>2, SeqEqual
  <1>6. /\ LogInv' /\ LogEnd' = LogEnd /\ flash' \in [Slots -> FlashAreas] /\ Refines
        /\ Matches(Len(Areas), 0)'
        /\ tbl' \in Seq([addr : Stored, idx : Slots]) /\ Len(tbl') = Len(tbl) - 1
    BY <1>2, <1>3, <1>4, <1>5, Shortened
  <1>7. Len(tbl') < MaxNum
    BY <1>4, <1>6, Sizes
  <1>8. TypeOK'
    BY <1>2, <1>6, <1>7, Sizes DEF TypeOK, FlashAreas
  <1>9. IdxInv'
    BY <1>2, <1>6, <1>7 DEF IdxInv
  <1>10. TableInv'
    BY <1>2, <1>6 DEF TableInv
  <1>11. QED
    BY <1>6, <1>8, <1>9, <1>10 DEF IInv

LEMMA DeleteStep == ASSUME NEW a \in Addr PROVE IInv /\ DeleteByAdr(a) => IInv' /\ Refines
  <1>1. SUFFICES ASSUME IInv, DeleteByAdr(a) PROVE IInv' /\ Refines
    OBVIOUS
  <1>2. /\ TypeOK /\ LogInv /\ IdxInv /\ TableInv /\ pc = "run" /\ pc' = pc
        /\ idx' = idx /\ adr' = adr /\ k' = k /\ adds' = adds /\ cuts' = cuts
    BY <1>1 DEF IInv, DeleteByAdr
  <1>3. PICK j \in DOMAIN tbl : WriteMark(tbl[j].idx, "00") /\ tbl' = RemoveAt(tbl, j)
    BY <1>1 DEF DeleteByAdr
  <1>4. ~Cleaning /\ ~Cleaning' /\ Matches(Len(Areas), 0)
    BY <1>2 DEF Cleaning, TableInv
  <1>5. tbl \in Seq([addr : Stored, idx : Slots]) /\ Len(tbl) <= MaxNum /\ j \in 1 .. Len(tbl)
    BY <1>2 DEF TypeOK
  <1>6. /\ LogInv' /\ LogEnd' = LogEnd /\ flash' \in [Slots -> FlashAreas] /\ Refines
        /\ Matches(Len(Areas), 0)'
        /\ tbl' \in Seq([addr : Stored, idx : Slots]) /\ Len(tbl') = Len(tbl) - 1
    BY <1>2, <1>3, <1>4, <1>5, Shortened
  <1>7. Len(tbl') <= MaxNum
    BY <1>5, <1>6, Sizes
  <1>8. TypeOK'
    BY <1>2, <1>6, <1>7, Sizes DEF TypeOK, FlashAreas
  <1>9. IdxInv'
    BY <1>2, <1>6, <1>7 DEF IdxInv
  <1>10. TableInv'
    BY <1>2, <1>6 DEF TableInv
  <1>11. QED
    BY <1>6, <1>8, <1>9, <1>10 DEF IInv

LEMMA UnpairOne == IInv /\ UnpairStep => IInv' /\ Refines
  <1>1. SUFFICES ASSUME IInv, UnpairStep PROVE IInv' /\ Refines
    OBVIOUS
  <1>2. /\ TypeOK /\ LogInv /\ IdxInv /\ TableInv /\ pc = "unpair" /\ pc' = pc
        /\ k <= Len(tbl) /\ WriteMark(tbl[k].idx, "00") /\ k' = k + 1
        /\ tbl' = tbl /\ idx' = idx /\ adr' = adr /\ adds' = adds /\ cuts' = cuts
    BY <1>1 DEF IInv, UnpairStep
  <1>3. PICK d, n, m : d = k - 1 /\ n = Len(Areas) /\ m = Len(Areas')
    OBVIOUS
  <1>4. ~Cleaning /\ ~Cleaning' /\ Matches(n, d)
    BY <1>2, <1>3 DEF Cleaning, TableInv, Matches, Same
  <1>5. tbl \in Seq([addr : Stored, idx : Slots]) /\ Len(tbl) \in Nat /\ Len(tbl) <= MaxNum
        /\ k \in 1 .. Len(tbl) /\ d \in Nat /\ k = d + 1
    BY <1>2, <1>3 DEF TypeOK, IdxInv
  <1>6. /\ LogInv' /\ LogEnd' = LogEnd /\ flash' \in [Slots -> FlashAreas] /\ Refines
        /\ \A s \in Slots : flash'[s].addr = flash[s].addr
        /\ \/ /\ 1 <= n /\ m = n - 1 /\ \A i \in 1 .. n - 1 : Areas'[i] = Areas[i + 1]
           \/ 1 > n /\ Areas' = Areas
    <2>1. k \in d + 1 .. Len(tbl) /\ k - d = 1 /\ \A i \in 1 .. n - 1 : ~(i < 1)
      BY <1>5
    <2>2. Matches(Len(Areas), d)
      BY <1>3, <1>4
    <2>3. /\ LogInv' /\ LogEnd' = LogEnd /\ flash' \in [Slots -> FlashAreas] /\ Refines
          /\ \A s \in Slots : flash'[s].addr = flash[s].addr
          /\ \/ /\ k - d <= n /\ m = n - 1
                /\ \A i \in 1 .. n - 1 : Areas'[i] = IF i < k - d THEN Areas[i] ELSE Areas[i + 1]
             \/ k - d > n /\ Areas' = Areas
      BY <1>2, <1>3, <1>4, <1>5, <2>1, <2>2, Deleted
    <2>4. QED
      BY <2>1, <2>3
  <1>7. /\ n \in Nat /\ \A i \in 1 .. n : Areas[i] \in Slots
    BY <1>2, <1>3, LogFacts
  <1>8. /\ n + d <= Len(tbl)
        /\ \A i \in 1 .. n : tbl[i + d] = [addr |-> flash[Areas[i]].addr, idx |-> Areas[i]]
        /\ \A i \in (n + d) + 1 .. Len(tbl) : SectorSlots <= tbl[i].idx /\ tbl[i].idx <= idx
    BY <1>4 DEF Matches, Same
  <1>9. /\ m + k <= Len(tbl)
        /\ \A i \in 1 .. m : tbl[i + k] = [addr |-> flash'[Areas'[i]].addr, idx |-> Areas'[i]]
        /\ \A i \in (m + k) + 1 .. Len(tbl) : SectorSlots <= tbl[i].idx /\ tbl[i].idx <= idx
    <2>1. CASE 1 <= n /\ m = n - 1
      <3>1. m + k = n + d
        BY <1>5, <1>7, <2>1
      <3>2. ASSUME NEW i \in 1 .. m
            PROVE  tbl[i + k] = [addr |-> flash'[Areas'[i]].addr, idx |-> Areas'[i]]
        <4>1. i + 1 \in 1 .. n /\ i + k = (i + 1) + d /\ i \in 1 .. n - 1
          BY <1>5, <1>7, <2>1
        <4>2. Areas'[i] = Areas[i + 1] /\ Areas[i + 1] \in Slots
          BY <1>6, <1>7, <2>1, <4>1
        <4>3. tbl[i + k] = [addr |-> flash[Areas[i + 1]].addr, idx |-> Areas[i + 1]]
          BY <1>8, <4>1
        <4>4. QED
          BY <1>6, <4>2, <4>3
      <3>3. QED
        BY <1>8, <3>1, <3>2
    <2>2. CASE 1 > n /\ Areas' = Areas
      <3>1. n = 0 /\ m = 0 /\ \A i \in 1 .. m : FALSE
        BY <1>3, <1>7, <2>2
      <3>2. m + k <= Len(tbl) /\ \A i \in (m + k) + 1 .. Len(tbl) : i \in (n + d) + 1 .. Len(tbl)
        BY <1>5, <3>1
      <3>3. QED
        BY <1>8, <3>1, <3>2
    <2>3. QED
      BY <1>6, <2>1, <2>2
  <1>10. TypeOK'
    <2>1. k' \in 1 .. MaxNum + 1
      BY <1>2, <1>5, Sizes
    <2>2. QED
      BY <1>2, <1>6, <2>1 DEF TypeOK, FlashAreas
  <1>11. IdxInv'
    <2>1. k' \in 1 .. Len(tbl) + 1
      BY <1>2, <1>5
    <2>2. QED
      BY <1>2, <1>6, <2>1 DEF IdxInv
  <1>12. TableInv'
    <2>1. k' - 1 = k
      BY <1>2, <1>5
    <2>2. Matches(Len(Areas), k - 1)'
      BY <1>2, <1>3, <1>9, <2>1 DEF Matches, Same
    <2>3. QED
      BY <1>2, <2>2 DEF TableInv
  <1>13. QED
    BY <1>6, <1>10, <1>11, <1>12 DEF IInv

LEMMA PastSector ==
  ASSUME LogInv, flash' \in [Slots -> FlashAreas], NEW s \in Slots, SectorSlots <= s,
         \A t \in Slots : t # s => flash'[t] = flash[t]
  PROVE  /\ LogInv' /\ LogEnd' = LogEnd /\ Areas' = Areas /\ DurableBonds' = DurableBonds
         /\ \A i \in 1 .. Len(Areas) : flash'[Areas[i]] = flash[Areas[i]]
  <1>1. PICK g : g = flash'
    OBVIOUS
  <1>2. /\ LogOf(flash, LogEnd, Areas) /\ Len(Areas) \in Nat
        /\ \A i \in 1 .. Len(Areas) : Areas[i] \in Slots /\ Areas[i] < SectorSlots
    BY LogFacts DEF LogInv
  <1>3. \A t \in Slots : t < SectorSlots => g[t] = flash[t]
    BY <1>1, Sizes
  <1>4. \A t \in Sector : g[t] = flash[t]
    BY <1>3, Sizes DEF Sector
  <1>5. LogOf(g, LogEnd, Areas)
    BY <1>1, <1>2, <1>4, SectorKept
  <1>6. LogEnd' = LogEnd /\ Areas' = Areas /\ DurableBonds' = Addrs(g, Areas) /\ LogInv'
    BY <1>1, <1>5, LogNext
  <1>7. Addrs(g, Areas) = Addrs(flash, Areas)
    BY <1>2, <1>3 DEF Addrs
  <1>8. QED
    BY <1>1, <1>2, <1>3, <1>6, <1>7, LogNow

\* In the sector, the table and the log have the same bonds.
LEMMA MatchesAll ==
  ASSUME TypeOK, LogInv, Matches(Len(Areas), 0), idx < SectorSlots
  PROVE  Len(tbl) = Len(Areas) /\ \A i \in 1 .. Len(Areas) : Same(i, i)
  <1>1. tbl \in Seq(Area)
    BY DEF TypeOK, Area
  <1>2. /\ Len(tbl) \in Nat /\ \A i \in 1 .. Len(tbl) : tbl[i].idx \in Nat
        /\ Len(Areas) \in Nat /\ idx \in Int
    <2>1. Len(tbl) \in Nat /\ \A i \in 1 .. Len(tbl) : tbl[i] \in Area
      BY <1>1
    <2>2. \A i \in 1 .. Len(tbl) : tbl[i].idx \in Nat
      BY <2>1, Sizes DEF Area
    <2>3. idx \in Int
      BY Sizes DEF TypeOK
    <2>4. QED
      BY <2>1, <2>2, <2>3, LogFacts
  <1>3. /\ Len(Areas) <= Len(tbl)
        /\ \A j \in Len(Areas) + 1 .. Len(tbl) : SectorSlots <= tbl[j].idx /\ tbl[j].idx <= idx
        /\ \A i \in 1 .. Len(Areas) : Same(i, i)
    BY <1>2 DEF Matches, Same
  <1>4. ASSUME Len(Areas) < Len(tbl) PROVE FALSE
    <2>1. Len(tbl) \in Len(Areas) + 1 .. Len(tbl) /\ Len(tbl) \in 1 .. Len(tbl)
      BY <1>2, <1>4
    <2>2. SectorSlots <= tbl[Len(tbl)].idx /\ tbl[Len(tbl)].idx <= idx /\ tbl[Len(tbl)].idx \in Nat
      BY <1>2, <1>3, <2>1
    <2>3. QED
      BY <1>2, <2>2, Sizes
  <1>5. QED
    BY <1>2, <1>3, <1>4

LEMMA AddMarkStep == IInv /\ AddMark => IInv' /\ Refines
  <1>1. SUFFICES ASSUME IInv, AddMark PROVE IInv' /\ Refines
    OBVIOUS
  <1>2. /\ TypeOK /\ LogInv /\ IdxInv /\ TableInv /\ pc = "addMark" /\ pc' = "addAddr"
        /\ idx' = idx + 1 /\ WriteMark(idx + 1, "01")
        /\ tbl' = tbl /\ adr' = adr /\ k' = k /\ adds' = adds /\ cuts' = cuts
    BY <1>1 DEF IInv, AddMark
  <1>3. ~Cleaning /\ ~Cleaning' /\ Cleaning' = Cleaning /\ Matches(Len(Areas), 0)
    BY <1>2 DEF Cleaning, TableInv
  <1>4. PICK e, n, s : e = LogEnd /\ n = Len(Areas) /\ s = idx + 1
    OBVIOUS
  <1>5. /\ tbl \in Seq([addr : Stored, idx : Slots]) /\ Len(tbl) \in Nat /\ Len(tbl) < MaxNum
        /\ s \in Slots /\ s \in Nat /\ s < FlashSlots /\ idx = s - 1
        /\ e = IF idx < SectorSlots THEN idx + 1 ELSE SectorSlots
    BY <1>2, <1>4, Sizes DEF TypeOK, IdxInv, Slots
  <1>6. /\ flash' \in [Slots -> FlashAreas]
        /\ \A t \in Slots : t # s => flash'[t] = flash[t]
        /\ flash[s].mark = "ff" => flash' = Marked(flash, s, "01")
    BY <1>2, <1>4, <1>5, MarkWritten
  <1>7. TypeOK'
    <2>1. idx' \in -1 .. (FlashSlots - 1)
      BY <1>2, <1>4, <1>5, Sizes
    <2>2. QED
      BY <1>2, <1>6, <2>1 DEF TypeOK, FlashAreas
  <1>8. /\ n \in Nat /\ \A i \in 1 .. n : Areas[i] \in Slots
        /\ \A t \in Sector : t >= e => flash[t].mark = "ff"
    BY <1>2, <1>4, LogFacts
  <1>9. CASE s < SectorSlots
    <2>1. e = s /\ s \in Sector /\ idx < SectorSlots /\ s >= e
      BY <1>5, <1>9, Sizes DEF Sector
    <2>2. Len(tbl) = n /\ \A i \in 1 .. n : Same(i, i)
      BY <1>2, <1>3, <1>4, <2>1, MatchesAll
    <2>3. flash' = Marked(flash, s, "01")
      BY <1>6, <1>8, <2>1
    <2>4. PICK f, q, g : f = flash /\ q = Areas /\ g = flash'
      OBVIOUS
    <2>5. LogOf(f, e, q) /\ e < SectorSlots /\ Len(q) < MaxNum /\ g = Marked(f, e, "01")
      BY <1>2, <1>4, <1>5, <1>9, <2>1, <2>2, <2>3, <2>4 DEF LogInv
    <2>6. /\ LogOf(g, e + 1, Append(q, e)) /\ g[e].addr = "ff"
          /\ Len(Append(q, e)) = Len(q) + 1
          /\ Append(q, e)[Len(q) + 1] = e /\ \A i \in 1 .. Len(q) : Append(q, e)[i] = q[i]
          /\ \A t \in Slots : g[t].addr = f[t].addr
      BY <2>5, MarkedNext
    <2>7. /\ LogEnd' = e + 1 /\ Areas' = Append(q, e) /\ LogInv'
          /\ DurableBonds' = Addrs(g, Append(q, e))
      BY <2>4, <2>6, LogNext
    <2>8. IdxInv'
      BY <1>2, <1>4, <1>5, <1>9, <2>1, <2>7 DEF IdxInv
    <2>9. TableInv'
      <3>1. Len(Areas') = Len(tbl) + 1 /\ Areas'[Len(Areas')] = idx' /\ flash'[idx'].addr = "ff"
        BY <1>2, <1>4, <2>1, <2>2, <2>4, <2>6, <2>7
      <3>2. ASSUME NEW i \in 1 .. Len(tbl) PROVE Same(i, i)'
        <4>1. i \in 1 .. n /\ i \in 1 .. Len(q) /\ Same(i, i) /\ Areas'[i] = Areas[i] /\ Areas[i] \in Slots
          BY <1>4, <1>8, <2>2, <2>4, <2>6, <2>7
        <4>2. flash'[Areas[i]].addr = flash[Areas[i]].addr
          BY <2>4, <2>6, <4>1
        <4>3. QED
          BY <1>2, <4>1, <4>2 DEF Same
      <3>3. \A i \in 1 .. Len(tbl') : Same(i, i)'
        BY <1>2, <3>2
      <3>4. pc' = "addAddr" /\ idx' < SectorSlots /\ ~(idx' >= SectorSlots)
        BY <1>2, <1>4, <1>5, <1>9, Sizes
      <3>5. QED
        <4>1. Begun'
          BY <1>2, <3>1, <3>3 DEF Begun
        <4>2. QED
          BY <3>4, <4>1 DEF TableInv
    <2>10. Refines
      <3>1. Bonds = Addrs(f, q) /\ Len(Addrs(f, q)) = Len(q) /\ Bonds' = Addrs(g, Append(q, e))
        BY <1>2, <1>3, <2>4, <2>5, <2>7, LogNow, AddrsAre DEF Bonds
      <3>2. Bonds' = Append(Bonds, "ff") /\ Len(Bonds) < MaxNum
        BY <2>5, <3>1, AddrsBegun
      <3>3. QED
        BY <1>3, <3>2, RefineBegin
    <2>11. QED
      BY <1>7, <2>7, <2>8, <2>9, <2>10 DEF IInv
  <1>10. CASE SectorSlots <= s
    <2>1. e = SectorSlots
      BY <1>5, <1>10, Sizes
    <2>2. /\ LogInv' /\ LogEnd' = LogEnd /\ Areas' = Areas /\ DurableBonds' = DurableBonds
          /\ \A i \in 1 .. Len(Areas) : flash'[Areas[i]] = flash[Areas[i]]
      BY <1>2, <1>5, <1>6, <1>10, PastSector
    <2>3. IdxInv'
      <3>1. ~(idx' < SectorSlots) /\ LogEnd' = SectorSlots /\ idx' >= 0
        <4>1. idx' = s /\ LogEnd' = e
          BY <1>2, <1>4, <2>2
        <4>2. QED
          BY <1>5, <1>10, <2>1, <4>1, Sizes
      <3>2. QED
        BY <1>2, <1>5, <3>1 DEF IdxInv
    <2>4. Matches(Len(Areas), 0)'
      <3>1. /\ n + 0 <= Len(tbl) /\ \A i \in 1 .. n : Same(i, i + 0)
            /\ \A j \in n + 0 + 1 .. Len(tbl) : SectorSlots <= tbl[j].idx /\ tbl[j].idx <= idx
        BY <1>3, <1>4 DEF Matches
      <3>2. \A i \in 1 .. n : Same(i, i + 0)'
        BY <1>2, <1>4, <2>2, <3>1 DEF Same
      <3>3. \A j \in n + 0 + 1 .. Len(tbl) : tbl[j].idx <= idx'
        <4>1. ASSUME NEW j \in n + 0 + 1 .. Len(tbl) PROVE tbl[j].idx <= idx'
          <5>1. j \in 1 .. Len(tbl)
            BY <1>5, <1>8
          <5>2. tbl[j] \in Area
            <6>1. tbl \in Seq(Area)
              BY <1>5 DEF Area
            <6>2. QED
              BY <5>1, <6>1
          <5>3. tbl[j].idx \in Nat /\ tbl[j].idx <= idx
            BY <3>1, <5>2, Sizes DEF Area
          <5>4. QED
            BY <1>2, <1>5, <5>3
        <4>2. QED
          BY <4>1
      <3>4. QED
        BY <1>2, <1>4, <2>2, <3>1, <3>2, <3>3 DEF Matches
    <2>5. TableInv'
      BY <1>2, <1>4, <1>5, <1>10, <2>4, Sizes DEF TableInv
    <2>6. Bonds' = Bonds
      BY <1>3, <2>2 DEF Bonds
    <2>7. QED
      BY <1>3, <1>7, <2>2, <2>3, <2>5, <2>6, RefineStutter DEF IInv
  <1>11. QED
    BY <1>5, <1>9, <1>10, Sizes

LEMMA AddAddrStep == IInv /\ AddAddr => IInv' /\ Refines
  <1>1. SUFFICES ASSUME IInv, AddAddr PROVE IInv' /\ Refines
    OBVIOUS
  <1>2. /\ TypeOK /\ LogInv /\ IdxInv /\ TableInv /\ pc = "addAddr" /\ pc' = "run"
        /\ WriteAddr(idx, adr) /\ tbl' = Append(tbl, [addr |-> adr, idx |-> idx])
        /\ idx' = idx /\ adr' = adr /\ k' = k /\ adds' = adds /\ cuts' = cuts
    BY <1>1 DEF IInv, AddAddr
  <1>3. ~Cleaning /\ ~Cleaning' /\ Cleaning' = Cleaning
    BY <1>2 DEF Cleaning
  <1>4. PICK n, c : n = Len(Areas) /\ c = tbl'
    OBVIOUS
  <1>5. adr \in Addr /\ adr \in Stored /\ adr # "ff" /\ adr # "mix"
    BY <1>2, AddrAssumption DEF TypeOK, Stored
  <1>6. idx \in Slots /\ idx \in Nat
    BY <1>2, Sizes DEF TypeOK, IdxInv, Slots
  <1>7. tbl \in Seq(Area) /\ Len(tbl) \in Nat /\ Len(tbl) < MaxNum
    BY <1>2 DEF TypeOK, IdxInv, Area
  <1>8. c \in Seq(Area) /\ Len(c) = Len(tbl) + 1 /\ c[Len(tbl) + 1] = [addr |-> adr, idx |-> idx]
        /\ \A i \in 1 .. Len(tbl) : c[i] = tbl[i]
    <2>1. [addr |-> adr, idx |-> idx] \in Area
      BY <1>5, <1>6 DEF Area
    <2>2. QED
      BY <1>2, <1>4, <1>7, <2>1, AppendProperties
  <1>9. /\ flash' \in [Slots -> FlashAreas]
        /\ \A t \in Slots : t # idx => flash'[t] = flash[t]
        /\ flash[idx].addr = "ff" => flash' = Written(flash, idx, adr)
    BY <1>2, <1>5, <1>6, AddrWritten
  <1>10. TypeOK'
    <2>1. tbl' \in Seq([addr : Stored, idx : Slots]) /\ Len(tbl') <= MaxNum
      BY <1>4, <1>7, <1>8, Sizes DEF Area
    <2>2. QED
      BY <1>2, <1>9, <2>1 DEF TypeOK, FlashAreas
  <1>11. n \in Nat /\ \A i \in 1 .. n : Areas[i] \in Slots
    BY <1>2, <1>4, LogFacts
  <1>12. CASE idx < SectorSlots
    <2>1. /\ n = Len(tbl) + 1 /\ Areas[n] = idx /\ flash[idx].addr = "ff"
          /\ \A i \in 1 .. Len(tbl) : tbl[i] = [addr |-> flash[Areas[i]].addr, idx |-> Areas[i]]
      BY <1>2, <1>4, <1>12 DEF TableInv, Begun, Same
    <2>2. PICK f, e, q, g, s : f = flash /\ e = LogEnd /\ q = Areas /\ g = flash' /\ s = idx
      OBVIOUS
    <2>3. LogOf(f, e, q) /\ Len(q) >= 1 /\ s = q[Len(q)] /\ f[s].addr = "ff" /\ g = Written(f, s, adr)
          /\ Len(q) = n
      <3>1. LogOf(f, e, q) /\ Len(q) = n /\ g = Written(f, s, adr) /\ f[s].addr = "ff" /\ q[n] = s
        BY <1>2, <1>4, <1>9, <2>1, <2>2 DEF LogInv
      <3>2. n >= 1
        BY <1>7, <2>1
      <3>3. QED
        BY <3>1, <3>2
    <2>4. PICK a : a = adr
      OBVIOUS
    <2>5. /\ Addrs(f, q) # <<>> /\ Last(Addrs(f, q)) = "ff"
          /\ Addrs(g, q) = Append(Front(Addrs(f, q)), a)
          /\ s \in 0 .. e - 1 /\ \A i \in 1 .. Len(q) - 1 : g[q[i]] = f[q[i]]
      BY <1>5, <2>3, <2>4, AddrsCompleted
    <2>6. LogOf(g, e, q) /\ g[s].addr = a
      BY <1>5, <2>3, <2>4, <2>5, Addressed
    <2>7. LogEnd' = e /\ Areas' = q /\ LogInv' /\ DurableBonds' = Addrs(g, q)
      BY <2>2, <2>6, LogNext
    <2>8. Refines
      <3>1. Bonds = Addrs(f, q) /\ Bonds' = Addrs(g, q)
        BY <1>2, <1>3, <2>2, <2>7, LogNow DEF Bonds
      <3>2. Bonds # <<>> /\ Last(Bonds) = "ff" /\ Bonds' = Append(Front(Bonds), a) /\ a \in Addr
        BY <1>5, <2>4, <2>5, <3>1
      <3>3. QED
        BY <1>3, <3>2, RefineComplete
    <2>9. ASSUME NEW i \in 1 .. n
          PROVE  c[i] = [addr |-> flash'[Areas'[i]].addr, idx |-> Areas'[i]]
      <3>1. CASE i = n
        <4>1. c[i] = [addr |-> adr, idx |-> idx]
          BY <1>8, <2>1, <3>1
        <4>2. Areas'[i] = idx /\ flash'[idx].addr = adr
          BY <2>1, <2>2, <2>4, <2>6, <2>7, <3>1
        <4>3. QED
          BY <4>1, <4>2
      <3>2. CASE i # n
        <4>1. i \in 1 .. Len(tbl) /\ i \in 1 .. Len(q) - 1
          BY <1>7, <2>1, <2>3, <3>2
        <4>2. c[i] = [addr |-> f[q[i]].addr, idx |-> q[i]]
          BY <1>8, <2>1, <2>2, <4>1
        <4>3. QED
          BY <2>2, <2>5, <2>7, <4>1, <4>2
      <3>3. QED
        BY <3>1, <3>2
    <2>10. Matches(Len(Areas), 0)'
      <3>1. Len(Areas') = n /\ Len(tbl') = n /\ tbl' = c /\ n + 0 <= n
        BY <1>4, <1>8, <1>11, <2>1, <2>3, <2>7
      <3>2. \A j \in n + 0 + 1 .. n : FALSE
        BY <1>11
      <3>3. QED
        BY <1>11, <2>9, <3>1, <3>2 DEF Matches, Same
    <2>11. IdxInv' /\ TableInv'
      BY <1>2, <2>2, <2>7, <2>10 DEF IdxInv, TableInv
    <2>12. QED
      BY <1>10, <2>7, <2>8, <2>11 DEF IInv
  <1>13. CASE SectorSlots <= idx
    <2>1. ~(idx < SectorSlots) /\ idx >= SectorSlots
      BY <1>6, <1>13, Sizes
    <2>2. /\ LogInv' /\ LogEnd' = LogEnd /\ Areas' = Areas /\ DurableBonds' = DurableBonds
          /\ \A i \in 1 .. Len(Areas) : flash'[Areas[i]] = flash[Areas[i]]
      BY <1>2, <1>6, <1>9, <1>13, PastSector
    <2>3. /\ n <= Len(tbl)
          /\ \A i \in 1 .. n : tbl[i] = [addr |-> flash[Areas[i]].addr, idx |-> Areas[i]]
          /\ \A j \in n + 1 .. Len(tbl) : SectorSlots <= tbl[j].idx /\ tbl[j].idx <= idx
      <3>1. Matches(Len(Areas), 0)
        BY <1>2, <2>1 DEF TableInv
      <3>2. QED
        BY <1>4, <1>7, <1>11, <3>1 DEF Matches, Same
    <2>4. ASSUME NEW i \in 1 .. n
          PROVE  c[i] = [addr |-> flash'[Areas'[i]].addr, idx |-> Areas'[i]]
      <3>1. i \in 1 .. Len(tbl)
        BY <1>7, <1>11, <2>3
      <3>2. QED
        BY <1>4, <1>8, <2>2, <2>3, <3>1
    <2>5. ASSUME NEW j \in n + 1 .. Len(c) PROVE SectorSlots <= c[j].idx /\ c[j].idx <= idx
      <3>1. CASE j = Len(tbl) + 1
        BY <1>6, <1>8, <1>13, <3>1
      <3>2. CASE j # Len(tbl) + 1
        <4>1. j \in 1 .. Len(tbl) /\ j \in n + 1 .. Len(tbl)
          BY <1>7, <1>8, <1>11, <3>2
        <4>2. QED
          BY <1>8, <2>3, <4>1
      <3>3. QED
        BY <3>1, <3>2
    <2>6. Matches(Len(Areas), 0)'
      <3>1. Len(Areas') = n /\ tbl' = c /\ n + 0 = n /\ n + 0 <= Len(c)
        BY <1>4, <1>7, <1>8, <1>11, <2>2, <2>3
      <3>2. \A i \in 1 .. n : i + 0 = i
        BY <1>11
      <3>3. QED
        BY <1>2, <2>4, <2>5, <3>1, <3>2 DEF Matches, Same
    <2>7. IdxInv' /\ TableInv'
      BY <1>2, <2>2, <2>6 DEF IdxInv, TableInv
    <2>8. Bonds' = Bonds
      BY <1>3, <2>2 DEF Bonds
    <2>9. QED
      BY <1>3, <1>10, <2>2, <2>7, <2>8, RefineStutter DEF IInv
  <1>14. QED
    BY <1>6, <1>12, <1>13, Sizes

LEMMA CleanEraseStep == IInv /\ CleanErase => IInv' /\ Refines
  <1>1. SUFFICES ASSUME IInv, CleanErase PROVE IInv' /\ Refines
    OBVIOUS
  <1>2. /\ TypeOK /\ LogInv /\ IdxInv /\ TableInv /\ pc = "cleanErase"
        /\ flash' = [s \in Slots |-> IF s \in Sector THEN Blank ELSE flash[s]]
        /\ idx' = -1 /\ k' = 1 /\ pc' = (IF tbl = <<>> THEN "run" ELSE "cleanMark")
        /\ tbl' = tbl /\ adr' = adr /\ adds' = adds /\ cuts' = cuts
    BY <1>1 DEF IInv, CleanErase
  <1>3. PICK g : g = flash'
    OBVIOUS
  <1>4. g \in [Slots -> FlashAreas] /\ \A s \in Sector : g[s] = Blank
    <2>1. flash \in [Slots -> FlashAreas] /\ Blank \in FlashAreas
      BY <1>2, LogFacts DEF Blank, FlashAreas, Stored
    <2>2. QED
      BY <1>2, <1>3, <2>1, Sizes
  <1>5. LogEnd' = 0 /\ Areas' = <<>> /\ LogInv' /\ DurableBonds' = <<>>
    <2>1. LogOf(g, 0, <<>>)
      BY <1>4, Erased
    <2>2. LogEnd' = 0 /\ Areas' = <<>> /\ LogInv' /\ DurableBonds' = Addrs(g, <<>>)
      BY <1>3, <2>1, LogNext
    <2>3. Addrs(g, <<>>) = <<>>
      BY DEF Addrs
    <2>4. QED
      BY <2>2, <2>3
  <1>6. tbl \in Seq(Area) /\ Len(tbl) \in Nat /\ (tbl # <<>> => 1 \in 1 .. Len(tbl)) /\ Len(tbl) <= SectorSlots
    BY <1>2 DEF TypeOK, Area, IdxInv
  <1>7. TypeOK'
    BY <1>2, <1>3, <1>4, Sizes DEF TypeOK, FlashAreas
  <1>8. IdxInv'
    <2>1. idx' < SectorSlots /\ idx' + 1 = 0 /\ k' - 2 = -1
      BY <1>2, Sizes
    <2>2. QED
      BY <1>2, <1>5, <1>6, <2>1 DEF IdxInv
  <1>9. TableInv'
    <2>1. CASE tbl = <<>>
      <3>1. Matches(Len(Areas), 0)'
        BY <1>2, <1>5, <2>1 DEF Matches
      <3>2. QED
        BY <1>2, <2>1, <3>1 DEF TableInv
    <2>2. CASE tbl # <<>>
      <3>1. Unmixed'
        BY <1>2 DEF TableInv, Unmixed
      <3>2. Len(Areas') = 0 /\ k' - 1 = 0
        BY <1>2, <1>5
      <3>3. Moved(k - 1)'
        BY <3>2 DEF Moved
      <3>4. QED
        BY <1>2, <2>2, <3>1, <3>2, <3>3 DEF TableInv
    <2>3. QED
      BY <2>1, <2>2
  <1>10. Refines
    <2>1. CASE tbl = <<>>
      <3>1. TblAddrs = <<>> /\ Cleaning /\ ~Cleaning' /\ Cleaning' = ~Cleaning
        BY <1>2, <2>1 DEF TblAddrs, Cleaning
      <3>2. Bonds' = Bonds
        BY <1>5, <3>1 DEF Bonds
      <3>3. QED
        BY <3>1, <3>2, RefineMove
    <2>2. CASE tbl # <<>>
      <3>1. Cleaning /\ Cleaning' /\ Cleaning' = Cleaning
        BY <1>2, <2>2 DEF Cleaning
      <3>2. Bonds' = Bonds
        BY <1>2, <3>1 DEF Bonds, TblAddrs
      <3>3. QED
        BY <3>1, <3>2, RefineStutter
    <2>3. QED
      BY <2>1, <2>2
  <1>11. QED
    BY <1>5, <1>7, <1>8, <1>9, <1>10 DEF IInv

LEMMA CleanMarkStep == IInv /\ CleanMark => IInv' /\ Refines
  <1>1. SUFFICES ASSUME IInv, CleanMark PROVE IInv' /\ Refines
    OBVIOUS
  <1>2. /\ TypeOK /\ LogInv /\ IdxInv /\ TableInv /\ pc = "cleanMark" /\ pc' = "cleanAddr"
        /\ idx' = idx + 1 /\ WriteMark(idx + 1, "01")
        /\ tbl' = tbl /\ adr' = adr /\ k' = k /\ adds' = adds /\ cuts' = cuts
    BY <1>1 DEF IInv, CleanMark
  <1>3. PICK f, e, q, g, s : f = flash /\ e = LogEnd /\ q = Areas /\ g = flash' /\ s = idx + 1
    OBVIOUS
  <1>4. /\ k \in 1 .. Len(tbl) /\ idx = k - 2 /\ Len(tbl) <= SectorSlots /\ Len(tbl) <= MaxNum
        /\ Len(tbl) \in Nat /\ k \in Nat
        /\ e = IF idx < SectorSlots THEN idx + 1 ELSE SectorSlots
    <2>1. tbl \in Seq(Area)
      BY <1>2 DEF TypeOK, Area
    <2>2. Len(tbl) \in Nat
      BY <2>1
    <2>3. QED
      BY <1>2, <1>3, <2>2 DEF TypeOK, IdxInv
  <1>5. s = k - 1 /\ e = k - 1 /\ e < SectorSlots /\ s \in Sector /\ s \in Slots /\ s >= e
    BY <1>3, <1>4, Sizes DEF Sector
  <1>6. Len(q) = k - 1 /\ Len(q) < MaxNum /\ LogOf(f, e, q)
    BY <1>2, <1>3, <1>4, Sizes DEF TableInv, LogInv
  <1>7. g = Marked(f, e, "01") /\ g \in [Slots -> FlashAreas]
    <2>1. flash[s].mark = "ff"
      BY <1>2, <1>3, <1>5, LogFacts
    <2>2. QED
      BY <1>2, <1>3, <1>5, <2>1, MarkWritten
  <1>8. /\ LogOf(g, e + 1, Append(q, e)) /\ g[e].addr = "ff"
        /\ Len(Append(q, e)) = Len(q) + 1
        /\ Append(q, e)[Len(q) + 1] = e /\ \A i \in 1 .. Len(q) : Append(q, e)[i] = q[i]
        /\ \A t \in Slots : g[t].addr = f[t].addr
    BY <1>5, <1>6, <1>7, MarkedNext
  <1>9. LogEnd' = e + 1 /\ Areas' = Append(q, e) /\ LogInv'
    BY <1>3, <1>8, LogNext
  <1>10. TypeOK'
    <2>1. idx' \in -1 .. (FlashSlots - 1)
      BY <1>2, <1>3, <1>4, <1>5, Sizes DEF Slots
    <2>2. QED
      BY <1>2, <1>3, <1>7, <2>1 DEF TypeOK, FlashAreas
  <1>11. IdxInv'
    <2>1. idx' = k - 1 /\ idx' < SectorSlots /\ LogEnd' = idx' + 1
      BY <1>2, <1>3, <1>4, <1>5, <1>9
    <2>2. QED
      BY <1>2, <1>4, <2>1 DEF IdxInv
  <1>12. TableInv'
    <2>1. Unmixed'
      BY <1>2 DEF TableInv, Unmixed
    <2>2. Len(Areas') = k /\ Areas'[k] = k - 1 /\ flash'[k - 1].addr = "ff"
      <3>1. Len(q) + 1 = k
        BY <1>4, <1>6
      <3>2. QED
        BY <1>3, <1>5, <1>8, <1>9, <3>1
    <2>3. ASSUME NEW i \in 1 .. k - 1
          PROVE  Areas'[i] = i - 1 /\ tbl[i] = [addr |-> flash'[Areas'[i]].addr, idx |-> Areas'[i]]
      <3>1. Areas[i] = i - 1 /\ tbl[i] = [addr |-> flash[Areas[i]].addr, idx |-> Areas[i]]
        BY <1>2 DEF TableInv, Moved, Same
      <3>2. i \in 1 .. Len(q) /\ Areas'[i] = Areas[i]
        BY <1>3, <1>6, <1>8, <1>9
      <3>3. i - 1 \in Slots
        BY <1>4, Sizes DEF Slots
      <3>4. QED
        BY <1>3, <1>8, <3>1, <3>2, <3>3
    <2>4. MovedBut'
      BY <1>2, <2>2, <2>3 DEF MovedBut, Moved, Same
    <2>5. QED
      BY <1>2, <2>1, <2>4 DEF TableInv
  <1>13. Refines
    <2>1. Cleaning /\ Cleaning' /\ Cleaning' = Cleaning
      BY <1>2 DEF Cleaning
    <2>2. Bonds' = Bonds
      BY <1>2, <2>1 DEF Bonds, TblAddrs
    <2>3. QED
      BY <2>1, <2>2, RefineStutter
  <1>14. QED
    BY <1>9, <1>10, <1>11, <1>12, <1>13 DEF IInv

LEMMA CleanAddrStep == IInv /\ CleanAddr => IInv' /\ Refines
  <1>1. SUFFICES ASSUME IInv, CleanAddr PROVE IInv' /\ Refines
    OBVIOUS
  <1>2. /\ TypeOK /\ LogInv /\ IdxInv /\ TableInv /\ pc = "cleanAddr"
        /\ pc' = (IF k < Len(tbl) THEN "cleanMark" ELSE "run")
        /\ WriteAddr(idx, tbl[k].addr) /\ tbl' = [tbl EXCEPT ![k].idx = idx] /\ k' = k + 1
        /\ idx' = idx /\ adr' = adr /\ adds' = adds /\ cuts' = cuts
    BY <1>1 DEF IInv, CleanAddr
  <1>3. PICK f, e, q, g, s, a : f = flash /\ e = LogEnd /\ q = Areas /\ g = flash' /\ s = idx
                                /\ a = tbl[k].addr
    OBVIOUS
  <1>4. tbl \in Seq(Area) /\ Len(tbl) \in Nat /\ \A j \in 1 .. Len(tbl) : tbl[j] \in Area
    <2>1. tbl \in Seq(Area)
      BY <1>2 DEF TypeOK, Area
    <2>2. QED
      BY <2>1
  <1>5. /\ k \in 1 .. Len(tbl) /\ idx = k - 1 /\ Len(tbl) <= SectorSlots /\ Len(tbl) <= MaxNum
        /\ k \in Nat /\ e = IF idx < SectorSlots THEN idx + 1 ELSE SectorSlots
    BY <1>2, <1>3, <1>4 DEF TypeOK, IdxInv
  <1>6. s = k - 1 /\ e = k /\ s < SectorSlots /\ s \in Slots /\ s \in 0 .. e - 1
    BY <1>3, <1>5, Sizes DEF Slots
  <1>7. /\ Len(q) = k /\ q[k] = k - 1 /\ f[s].addr = "ff" /\ LogOf(f, e, q)
        /\ \A i \in 1 .. k - 1 : q[i] = i - 1 /\ tbl[i] = [addr |-> f[q[i]].addr, idx |-> q[i]]
    BY <1>2, <1>3, <1>6 DEF TableInv, MovedBut, Moved, Same, LogInv
  <1>8. a \in Stored /\ a # "mix"
    BY <1>2, <1>3, <1>4, <1>5 DEF TableInv, Unmixed, Area
  <1>9. g = Written(f, s, a) /\ g \in [Slots -> FlashAreas]
    BY <1>2, <1>3, <1>6, <1>7, <1>8, AddrWritten
  <1>10. LogOf(g, e, q) /\ g[s].addr = a /\ \A t \in Slots : t # s => g[t] = f[t]
    BY <1>6, <1>7, <1>8, <1>9, Addressed
  <1>11. LogEnd' = e /\ Areas' = q /\ LogInv' /\ DurableBonds' = Addrs(g, q)
    BY <1>3, <1>10, LogNext
  <1>12. /\ tbl' \in Seq(Area) /\ Len(tbl') = Len(tbl) /\ tbl'[k] = [addr |-> a, idx |-> k - 1]
         /\ \A j \in 1 .. Len(tbl) : tbl'[j].addr = tbl[j].addr /\ (j # k => tbl'[j] = tbl[j])
    <2>1. tbl' = [tbl EXCEPT ![k] = [addr |-> a, idx |-> k - 1]]
      <3>1. tbl[k] \in Area /\ k \in DOMAIN tbl
        BY <1>4, <1>5
      <3>2. [tbl[k] EXCEPT !.idx = idx] = [addr |-> a, idx |-> k - 1]
        BY <1>3, <1>5, <3>1 DEF Area
      <3>3. tbl' = [tbl EXCEPT ![k] = [tbl[k] EXCEPT !.idx = idx]]
        BY <1>2
      <3>4. QED
        BY <3>2, <3>3
    <2>2. [addr |-> a, idx |-> k - 1] \in Area
      BY <1>6, <1>8 DEF Area
    <2>3. tbl' \in Seq(Area) /\ Len(tbl') = Len(tbl)
      BY <1>4, <1>5, <2>1, <2>2
    <2>4. tbl'[k] = [addr |-> a, idx |-> k - 1] /\ \A j \in 1 .. Len(tbl) : j # k => tbl'[j] = tbl[j]
      BY <1>4, <1>5, <2>1
    <2>5. QED
      BY <1>3, <2>3, <2>4
  <1>13. \A i \in 1 .. k : q[i] = i - 1 /\ tbl'[i] = [addr |-> g[q[i]].addr, idx |-> q[i]]
    <2>1. ASSUME NEW i \in 1 .. k PROVE q[i] = i - 1 /\ tbl'[i] = [addr |-> g[q[i]].addr, idx |-> q[i]]
      <3>1. CASE i = k
        BY <1>6, <1>7, <1>10, <1>12, <3>1
      <3>2. CASE i # k
        <4>1. i \in 1 .. k - 1 /\ i \in 1 .. Len(tbl) /\ i - 1 \in Slots /\ i - 1 # s
          BY <1>5, <1>6, <3>2, Sizes DEF Slots
        <4>2. QED
          BY <1>7, <1>10, <1>12, <3>2, <4>1
      <3>3. QED
        BY <3>1, <3>2
    <2>2. QED
      BY <2>1
  <1>14. TypeOK'
    <2>1. k' \in 1 .. MaxNum + 1
      BY <1>2, <1>5, Sizes
    <2>2. tbl' \in Seq([addr : Stored, idx : Slots]) /\ Len(tbl') <= MaxNum
      BY <1>5, <1>12 DEF Area
    <2>3. QED
      BY <1>2, <1>3, <1>9, <2>1, <2>2 DEF TypeOK, FlashAreas
  <1>15. TblAddrs' = TblAddrs
    BY <1>4, <1>12 DEF TblAddrs
  <1>16. CASE k < Len(tbl)
    <2>1. pc' = "cleanMark" /\ k' \in 1 .. Len(tbl) /\ idx' = k' - 2 /\ k' - 1 = k
      BY <1>2, <1>5, <1>16
    <2>2. IdxInv'
      BY <1>2, <1>3, <1>5, <1>11, <1>12, <2>1 DEF IdxInv
    <2>3. Moved(k - 1)'
      BY <1>3, <1>11, <1>13, <2>1 DEF Moved, Same
    <2>4. Unmixed'
      BY <1>2, <1>12 DEF TableInv, Unmixed
    <2>5. TableInv'
      BY <1>7, <1>11, <2>1, <2>3, <2>4 DEF TableInv
    <2>6. Cleaning /\ Cleaning' /\ Cleaning' = Cleaning
      BY <1>2, <2>1 DEF Cleaning
    <2>7. Bonds' = Bonds
      BY <1>15, <2>6 DEF Bonds
    <2>8. QED
      BY <1>11, <1>14, <2>2, <2>5, <2>6, <2>7, RefineStutter DEF IInv
  <1>17. CASE ~(k < Len(tbl))
    <2>1. pc' = "run" /\ k = Len(tbl)
      BY <1>2, <1>5, <1>17
    <2>2. IdxInv'
      BY <1>2, <1>3, <1>11, <2>1 DEF IdxInv
    <2>3. Matches(Len(Areas), 0)'
      <3>1. Len(Areas') = k /\ Len(tbl') = k /\ k + 0 <= k /\ \A j \in k + 0 + 1 .. k : FALSE
        BY <1>5, <1>7, <1>11, <1>12, <2>1
      <3>2. \A i \in 1 .. k : i + 0 = i
        BY <1>5
      <3>3. QED
        BY <1>3, <1>11, <1>13, <3>1, <3>2 DEF Matches, Same
    <2>4. TableInv'
      BY <2>1, <2>3 DEF TableInv
    <2>5. Cleaning /\ ~Cleaning' /\ Cleaning' = ~Cleaning
      BY <1>2, <2>1 DEF Cleaning
    <2>6. Addrs(g, q) = TblAddrs'
      <3>1. PICK c : c = tbl'
        OBVIOUS
      <3>2. TblAddrs' = [j \in 1 .. k |-> c[j].addr]
        BY <1>5, <1>12, <2>1, <3>1 DEF TblAddrs
      <3>3. ASSUME NEW j \in 1 .. k PROVE c[j].addr = g[q[j]].addr
        <4>1. c[j] = [addr |-> g[q[j]].addr, idx |-> q[j]]
          BY <1>13, <3>1
        <4>2. QED
          BY <4>1
      <3>4. QED
        BY <1>7, <3>2, <3>3 DEF Addrs
    <2>7. Bonds' = Bonds
      BY <1>11, <1>15, <2>5, <2>6 DEF Bonds
    <2>8. QED
      BY <1>11, <1>14, <2>2, <2>4, <2>5, <2>7, RefineMove DEF IInv
  <1>18. QED
    BY <1>16, <1>17

LEMMA PowerCutStep == IInv /\ PowerCut => IInv' /\ Refines
  <1>1. SUFFICES ASSUME IInv, PowerCut PROVE IInv' /\ Refines
    OBVIOUS
  <1>2. /\ TypeOK /\ LogInv /\ IdxInv /\ TableInv /\ pc # "off" /\ cuts < MaxCuts /\ cuts' = cuts + 1
        /\ tbl' = <<>> /\ idx' = -1 /\ pc' = "off" /\ k' = 1
        /\ flash' = flash /\ adr' = adr /\ adds' = adds
    BY <1>1 DEF IInv, PowerCut
  <1>3. LogEnd' = LogEnd /\ Areas' = Areas /\ DurableBonds' = DurableBonds /\ LogInv'
    BY <1>2, LogSame
  <1>4. TypeOK'
    <2>1. tbl' \in Seq([addr : Stored, idx : Slots]) /\ Len(tbl') <= MaxNum
      BY <1>2, Sizes
    <2>2. idx' \in -1 .. (FlashSlots - 1) /\ k' \in 1 .. (MaxNum + 1) /\ cuts' \in 0 .. MaxCuts
      BY <1>2, Sizes, BoundAssumption DEF TypeOK
    <2>3. QED
      BY <1>2, <2>1, <2>2 DEF TypeOK
  <1>5. IdxInv' /\ TableInv'
    BY <1>2 DEF IdxInv, TableInv
  <1>6. PICK q, b : q = Areas /\ b = TblAddrs
    OBVIOUS
  <1>7. /\ tbl \in Seq(Area) /\ Len(tbl) \in Nat /\ Len(q) \in Nat
        /\ \A j \in 1 .. Len(tbl) : tbl[j].addr \in Stored
    <2>1. tbl \in Seq(Area)
      BY <1>2 DEF TypeOK, Area
    <2>2. Len(tbl) \in Nat /\ \A j \in 1 .. Len(tbl) : tbl[j] \in Area
      BY <2>1
    <2>3. QED
      BY <1>2, <1>6, <2>1, <2>2, LogFacts DEF Area
  <1>8. b = [j \in 1 .. Len(tbl) |-> tbl[j].addr] /\ b \in Seq(Stored) /\ Len(b) = Len(tbl)
    <2>1. b = [j \in 1 .. Len(tbl) |-> tbl[j].addr]
      BY <1>6, <1>7 DEF TblAddrs
    <2>2. b \in [1 .. Len(tbl) -> Stored]
      BY <1>7, <2>1
    <2>3. QED
      BY <1>7, <2>1, <2>2, ListOf
  <1>9. ~Cleaning' /\ Bonds' = Addrs(flash, q)
    <2>1. ~Cleaning'
      BY <1>2 DEF Cleaning
    <2>2. QED
      BY <1>2, <1>3, <1>6, <2>1, LogNow DEF Bonds
  <1>10. CASE ~Cleaning
    <2>1. Cleaning' = Cleaning
      BY <1>2, <1>10 DEF Cleaning
    <2>2. Bonds' = Bonds
      BY <1>3, <1>9, <1>10 DEF Bonds
    <2>3. QED
      BY <1>3, <1>4, <1>5, <2>1, <2>2, RefineStutter DEF IInv
  <1>11. CASE pc = "cleanErase"
    <2>1. Cleaning /\ Cleaning' = ~Cleaning
      BY <1>2, <1>11 DEF Cleaning
    <2>2. Len(tbl) = Len(q) /\ \A i \in 1 .. Len(q) : Same(i, i)
      BY <1>2, <1>6, <1>11, MatchesAll DEF IdxInv, TableInv
    <2>3. \A i \in 1 .. Len(q) : tbl[i].addr = flash[q[i]].addr
      <3>1. ASSUME NEW i \in 1 .. Len(q) PROVE tbl[i].addr = flash[q[i]].addr
        <4>1. tbl[i] = [addr |-> flash[Areas[i]].addr, idx |-> Areas[i]]
          BY <2>2 DEF Same
        <4>2. QED
          BY <1>6, <4>1
      <3>2. QED
        BY <3>1
    <2>4. Addrs(flash, q) = b
      BY <1>8, <2>2, <2>3 DEF Addrs
    <2>5. Bonds' = Bonds
      BY <1>6, <1>9, <2>1, <2>4 DEF Bonds
    <2>6. QED
      BY <1>3, <1>4, <1>5, <2>1, <2>5, RefineMove DEF IInv
  <1>12. CASE pc \in {"cleanMark", "cleanAddr"}
    <2>1. Cleaning /\ Bonds = b
      BY <1>6, <1>12 DEF Cleaning, Bonds
    <2>2. PICK n : n = k - 1
      OBVIOUS
    <2>3. n \in 0 .. Len(b) - 1
      BY <1>2, <1>7, <1>8, <1>12, <2>2 DEF IdxInv
    <2>4. \A i \in 1 .. n : tbl[i].addr = flash[q[i]].addr
      <3>1. ASSUME NEW i \in 1 .. n PROVE tbl[i].addr = flash[q[i]].addr
        <4>1. tbl[i] = [addr |-> flash[Areas[i]].addr, idx |-> Areas[i]]
          BY <1>2, <1>12, <2>2 DEF TableInv, MovedBut, Moved, Same
        <4>2. QED
          BY <1>6, <4>1
      <3>2. QED
        BY <3>1
    <2>5. SubSeq(b, 1, n) = [i \in 1 .. n |-> b[i]]
      BY <1>8, <2>3
    <2>6. \A i \in 1 .. n : b[i] = flash[q[i]].addr
      BY <1>7, <1>8, <2>3, <2>4
    <2>7. Addrs(flash, q) = SubSeq(b, 1, n) \/ Addrs(flash, q) = Append(SubSeq(b, 1, n), "ff")
      <3>1. CASE pc = "cleanMark"
        <4>1. Len(q) = n
          BY <1>2, <1>6, <2>2, <3>1 DEF TableInv
        <4>2. QED
          BY <2>5, <2>6, <4>1 DEF Addrs
      <3>2. CASE pc = "cleanAddr"
        <4>1. Len(q) = n + 1 /\ flash[q[n + 1]].addr = "ff"
          <5>1. k = n + 1 /\ k - 1 = n
            BY <1>2, <2>2, Sizes DEF TypeOK
          <5>2. QED
            BY <1>2, <1>6, <3>2, <5>1 DEF TableInv, MovedBut
        <4>2. PICK c : c = SubSeq(b, 1, n)
          OBVIOUS
        <4>3. c \in Seq(Stored) /\ Len(c) = n /\ \A i \in 1 .. n : c[i] = flash[q[i]].addr
          <5>1. \A i \in 1 .. n : b[i] \in Stored
            BY <1>7, <1>8, <2>3
          <5>2. QED
            BY <2>3, <2>5, <2>6, <4>2, <5>1, ListOf
        <4>4. PICK d : d = Append(c, "ff")
          OBVIOUS
        <4>5. d \in Seq(Stored) /\ Len(d) = n + 1 /\ d[n + 1] = "ff" /\ \A i \in 1 .. n : d[i] = c[i]
          BY <4>3, <4>4, AppendProperties DEF Stored
        <4>6. d = [i \in 1 .. n + 1 |-> d[i]]
          BY <4>5
        <4>7. \A i \in 1 .. n + 1 : d[i] = flash[q[i]].addr
          BY <2>3, <4>1, <4>3, <4>5
        <4>8. Addrs(flash, q) = d
          BY <4>1, <4>6, <4>7 DEF Addrs
        <4>9. QED
          BY <4>2, <4>4, <4>8
      <3>3. QED
        BY <1>12, <3>1, <3>2
    <2>8. Refines
      BY <1>9, <2>1, <2>3, <2>7, RefineLose
    <2>9. QED
      BY <1>3, <1>4, <1>5, <2>8 DEF IInv
  <1>13. QED
    BY <1>10, <1>11, <1>12 DEF Cleaning

LEMMA Step == IInv /\ [Next]_vars => IInv' /\ Refines
  <1>1. SUFFICES ASSUME IInv, [Next]_vars PROVE IInv' /\ Refines
    OBVIOUS
  <1>2. CASE UNCHANGED vars
    <2>1. /\ TypeOK /\ LogInv /\ IdxInv /\ TableInv /\ flash' = flash /\ tbl' = tbl /\ idx' = idx
          /\ pc' = pc /\ adr' = adr /\ k' = k /\ adds' = adds /\ cuts' = cuts
      BY <1>1, <1>2 DEF IInv, vars
    <2>2. LogEnd' = LogEnd /\ Areas' = Areas /\ DurableBonds' = DurableBonds /\ LogInv'
      BY <2>1, LogSame
    <2>3. TypeOK'
      BY <2>1 DEF TypeOK
    <2>4. IdxInv'
      BY <2>1, <2>2 DEF IdxInv
    <2>5. TableInv'
      BY <2>1, <2>2 DEF TableInv, Matches, Same, Begun, Moved, MovedBut, Unmixed
    <2>6. Cleaning' = Cleaning /\ Bonds' = Bonds
      BY <2>1, <2>2 DEF Cleaning, Bonds, TblAddrs
    <2>7. QED
      BY <2>2, <2>3, <2>4, <2>5, <2>6, RefineStutter DEF IInv
  <1>3. CASE Clean
    BY <1>1, <1>3, CleanEraseStep, CleanMarkStep, CleanAddrStep DEF Clean
  <1>4. ASSUME NEW a \in Addr, Add(a) \/ DeleteByAdr(a) PROVE IInv' /\ Refines
    BY <1>1, <1>4, AddStep, DeleteStep
  <1>5. CASE ConfigInit \/ Replace \/ AddMark \/ AddAddr
    BY <1>1, <1>5, ConfigInitStep, ReplaceStep, AddMarkStep, AddAddrStep
  <1>6. CASE Unpair \/ UnpairStep \/ UnpairDone \/ PowerCut
    BY <1>1, <1>6, UnpairStart, UnpairOne, UnpairEnd, PowerCutStep
  <1>7. QED
    BY <1>1, <1>2, <1>3, <1>4, <1>5, <1>6 DEF Next

LEMMA Invariant == Spec => []IInv
  <1>1. Init => IInv
    BY InitIInv
  <1>2. IInv /\ [Next]_vars => IInv'
    BY Step
  <1>3. QED
    BY <1>1, <1>2, PTL DEF Spec

-----------------------------------------------------------------------------
(* The variables have their types: never a bond more than the table holds,  *)
(* and never an area past those the model has (tbl_slave_mac_ functions).   *)
THEOREM TypeCorrect == Spec => []TypeOK
  <1>1. IInv => TypeOK
    BY DEF IInv
  <1>2. QED
    BY <1>1, Invariant, PTL

(* Between two operations the log reloads to the table in RAM, area by area *)
(* and in the same order (bond_slave_flash_config_init after a power cut).  *)
THEOREM TableReloads == Spec => []TableIsDurable
  <1>1. ASSUME IInv, pc = "run", idx < SectorSlots PROVE Loaded = tbl /\ LogEnd = idx + 1
    <2>1. TypeOK /\ LogInv /\ IdxInv /\ TableInv
      BY <1>1 DEF IInv
    <2>2. Len(tbl) = Len(Areas) /\ \A i \in 1 .. Len(Areas) : Same(i, i)
      BY <1>1, <2>1, MatchesAll DEF TableInv
    <2>3. tbl \in Seq(Area) /\ Areas \in Seq(Slots) /\ Len(Areas) \in Nat
      BY <2>1, LogFacts DEF TypeOK, Area
    <2>4. tbl = [i \in 1 .. Len(Areas) |-> tbl[i]]
      BY <2>2, <2>3
    <2>5. \A i \in 1 .. Len(Areas) : tbl[i] = [addr |-> flash[Areas[i]].addr, idx |-> Areas[i]]
      BY <2>2 DEF Same
    <2>6. Loaded = [i \in 1 .. Len(Areas) |-> [addr |-> flash[Areas[i]].addr, idx |-> Areas[i]]]
      BY <2>3 DEF Loaded
    <2>7. Loaded = tbl
      BY <2>4, <2>5, <2>6
    <2>8. QED
      BY <1>1, <2>1, <2>7 DEF IdxInv
  <1>2. IInv => TableIsDurable
    BY <1>1 DEF TableIsDurable
  <1>3. QED
    BY <1>2, Invariant, PTL

(* No area gets two addresses: the index is past every area that has one,   *)
(* whatever was cut short before (bond_slave_flash_add, ..._clean).         *)
THEOREM NothingMixed == Spec => []NoMixedAddress
  <1>1. IInv => NoMixedAddress
    BY DEF IInv, LogInv, LogOf, NoMixedAddress
  <1>2. QED
    BY <1>1, Invariant, PTL

(* The log implements the list of bonds: every flash write adds a bond,     *)
(* completes the newest, removes one or changes none, a power cut loses     *)
(* none but the newest while start-up moves them, and the next start-up     *)
(* finds what was left - with the room for all of it in the table.          *)
THEOREM BondsImplemented == Spec => ImplementsBondSet
  <1>1. Init => BS!Init
    BY InitIInv
  <1>2. IInv /\ [Next]_vars => [BS!Next]_(BS!vars)
    BY Step DEF Refines
  <1>3. QED
    BY <1>1, <1>2, Invariant, PTL DEF Spec, ImplementsBondSet, BS!Spec

-----------------------------------------------------------------------------
(* An operation ends. *)

\* Steps of the main loop until the dongle is ready for the next operation.
StepsLeft ==
  CASE pc = "off" -> 2 * MaxNum + 4
    [] pc = "cleanErase" -> 2 * MaxNum + 3
    [] pc = "cleanMark" -> 2 * (MaxNum - k) + 2
    [] pc = "cleanAddr" -> 2 * (MaxNum - k) + 1
    [] pc = "replace" -> 3
    [] pc = "addMark" -> 2
    [] pc = "addAddr" -> 1
    [] pc = "unpair" -> MaxNum + 2 - k
    [] OTHER -> 0

(* Start-up, cleaning, pairing and unpairing end: the dongle is ready or    *)
(* has a natural number of steps left, and a step of an operation leaves it *)
(* fewer - unless it is one of the power cuts.  It is never in the loop for *)
(* a table that is too small (bond_slave_flash_cfg_init).                   *)
Busy ==
  /\ pc # "hang" /\ StepsLeft \in Nat
  /\ pc # "run" => StepsLeft > 0
GoesOn == pc # "run" => cuts' > cuts \/ (cuts' = cuts /\ StepsLeft' < StepsLeft)

LEMMA StepsLeftIs ==
  /\ pc = "off" => StepsLeft = 2 * MaxNum + 4
  /\ pc = "cleanErase" => StepsLeft = 2 * MaxNum + 3
  /\ pc = "cleanMark" => StepsLeft = 2 * (MaxNum - k) + 2
  /\ pc = "cleanAddr" => StepsLeft = 2 * (MaxNum - k) + 1
  /\ pc = "replace" => StepsLeft = 3
  /\ pc = "addMark" => StepsLeft = 2
  /\ pc = "addAddr" => StepsLeft = 1
  /\ pc = "unpair" => StepsLeft = MaxNum + 2 - k
  /\ pc = "run" => StepsLeft = 0
  BY DEF StepsLeft

LEMMA IsBusy == IInv => Busy
  <1>1. SUFFICES ASSUME IInv PROVE Busy
    OBVIOUS
  <1>2. /\ pc \in {"off", "run", "replace", "addMark", "addAddr", "unpair",
                   "cleanErase", "cleanMark", "cleanAddr"}
        /\ Len(tbl) \in Nat /\ Len(tbl) <= MaxNum /\ k \in Nat /\ MaxNum \in Nat
    BY <1>1, MaxAssumption, LenProperties DEF IInv, TypeOK, IdxInv
  <1>3. /\ pc = "unpair" => k <= Len(tbl) + 1
        /\ pc \in {"cleanMark", "cleanAddr"} => k <= Len(tbl)
    BY <1>1, <1>2 DEF IInv, IdxInv
  <1>4. QED
    BY <1>2, <1>3, StepsLeftIs DEF Busy

LEMMA GoesOnStep == IInv /\ IInv' /\ [Next]_vars => [GoesOn]_vars
  <1>1. SUFFICES ASSUME IInv, IInv', Next, pc # "run" PROVE GoesOn
    BY DEF GoesOn
  <1>2. /\ MaxNum \in Nat \ {0} /\ Len(tbl) \in Nat /\ Len(tbl) <= MaxNum
        /\ k \in 1 .. MaxNum + 1 /\ cuts \in Nat /\ pc' # "hang"
    BY <1>1, MaxAssumption, LenProperties DEF IInv, TypeOK, IdxInv
  <1>3. /\ pc \in {"cleanMark", "cleanAddr"} => k <= Len(tbl)
        /\ pc = "unpair" => k <= Len(tbl) + 1
    BY <1>1, <1>2 DEF IInv, IdxInv
  <1>4. /\ pc' = "cleanErase" => StepsLeft' = 2 * MaxNum + 3
        /\ pc' = "cleanMark" => StepsLeft' = 2 * (MaxNum - k') + 2
        /\ pc' = "cleanAddr" => StepsLeft' = 2 * (MaxNum - k') + 1
        /\ pc' = "addMark" => StepsLeft' = 2
        /\ pc' = "addAddr" => StepsLeft' = 1
        /\ pc' = "unpair" => StepsLeft' = MaxNum + 2 - k'
        /\ pc' = "run" => StepsLeft' = 0
    BY DEF StepsLeft
  <1>5. CASE ConfigInit
    <2>1. pc = "off" /\ pc' \in {"run", "cleanErase"} /\ cuts' = cuts
      BY <1>2, <1>5 DEF ConfigInit
    <2>2. QED
      BY <1>2, <1>4, <2>1, StepsLeftIs DEF GoesOn
  <1>6. CASE CleanErase
    <2>1. pc = "cleanErase" /\ pc' \in {"run", "cleanMark"} /\ cuts' = cuts /\ k' = 1
      BY <1>6 DEF CleanErase
    <2>2. QED
      BY <1>2, <1>4, <2>1, StepsLeftIs DEF GoesOn
  <1>7. CASE CleanMark
    <2>1. pc = "cleanMark" /\ pc' = "cleanAddr" /\ cuts' = cuts /\ k' = k
      BY <1>7 DEF CleanMark
    <2>2. QED
      BY <1>2, <1>4, <2>1, StepsLeftIs DEF GoesOn
  <1>8. CASE CleanAddr
    <2>1. pc = "cleanAddr" /\ pc' \in {"run", "cleanMark"} /\ cuts' = cuts /\ k' = k + 1
      BY <1>8 DEF CleanAddr
    <2>2. QED
      BY <1>2, <1>3, <1>4, <2>1, StepsLeftIs DEF GoesOn
  <1>9. CASE Replace
    BY <1>4, <1>9, StepsLeftIs DEF Replace, GoesOn
  <1>10. CASE AddMark
    BY <1>4, <1>10, StepsLeftIs DEF AddMark, GoesOn
  <1>11. CASE AddAddr
    BY <1>4, <1>11, StepsLeftIs DEF AddAddr, GoesOn
  <1>12. CASE UnpairStep
    <2>1. pc = "unpair" /\ pc' = "unpair" /\ cuts' = cuts /\ k' = k + 1
      BY <1>12 DEF UnpairStep
    <2>2. QED
      BY <1>2, <1>3, <1>4, <2>1, StepsLeftIs DEF GoesOn
  <1>13. CASE UnpairDone
    <2>1. pc = "unpair" /\ pc' = "run" /\ cuts' = cuts
      BY <1>13 DEF UnpairDone
    <2>2. QED
      BY <1>2, <1>3, <1>4, <2>1, StepsLeftIs DEF GoesOn
  <1>14. CASE PowerCut
    BY <1>2, <1>14 DEF PowerCut, GoesOn
  <1>15. CASE Unpair \/ \E a \in Addr : Add(a) \/ DeleteByAdr(a)
    BY <1>1, <1>15 DEF Unpair, Add, DeleteByAdr
  <1>16. QED
    BY <1>1, <1>5, <1>6, <1>7, <1>8, <1>9, <1>10, <1>11, <1>12, <1>13, <1>14, <1>15 DEF Next, Clean

(* What start-up and the operations have left to do decreases: with the     *)
(* main loop going on, the dongle is ready again after at most              *)
(* 2 * PAIR_SLAVE_MAX_NUM + 4 flash operations without a power cut.         *)
THEOREM OperationsEnd == Spec => []Busy /\ [][GoesOn]_vars
  BY Invariant, IsBusy, GoesOnStep, PTL DEF Spec
=============================================================================

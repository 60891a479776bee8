------------------------- MODULE TlvSettings_proofs -------------------------
(***************************************************************************)
(* Proofs about TlvSettings, for any keys, values, sizes and indices: the  *)
(* records of a key stay adjacent, no update is left out of the file, a    *)
(* requested reset loses nothing, the buffer with its lazy save is a store *)
(* of lists of values, and the records always fit.                         *)
(***************************************************************************)
EXTENDS TlvSettings, Recursion, FiniteSetTheorems, SequenceTheorems, TLAPS

\* First is the first record of the key.
LEMMA FirstIsFirst ==
  ASSUME NEW b \in Seq(Record), NEW k, Has(b, k)
  PROVE  /\ First(b, k) \in 1 .. Len(b)
         /\ b[First(b, k)].key = k
         /\ \A j \in 1 .. First(b, k) - 1 : b[j].key # k
<1> DEFINE T == {i \in 1 .. Len(b) : b[i].key = k}
<1>1. DOMAIN b = 1 .. Len(b)
  OBVIOUS
<1>2. T \subseteq Nat /\ T # {}
  BY <1>1 DEF Has
<1> HIDE DEF T
<1>3. PICK x \in T : \A y \in T : x <= y
  BY <1>2, LeastNatural
<1>4. x \in DOMAIN b /\ b[x].key = k /\ \A j \in 1 .. x - 1 : b[j].key # k
  BY <1>1, <1>3 DEF T
<1> QED
  BY <1>1, <1>4 DEF First

\* RunEnd is the end of the run of records that First begins.
LEMMA RunEndIsEnd ==
  ASSUME NEW b \in Seq(Record), NEW k, Has(b, k)
  PROVE  /\ RunEnd(b, k) \in First(b, k) + 1 .. Len(b) + 1
         /\ \A j \in First(b, k) .. RunEnd(b, k) - 1 : b[j].key = k
         /\ RunEnd(b, k) <= Len(b) => b[RunEnd(b, k)].key # k
<1> DEFINE f == First(b, k)
           T == {j \in f .. Len(b) : b[j].key # k} \cup {Len(b) + 1}
<1>1. f \in 1 .. Len(b) /\ b[f].key = k
  BY FirstIsFirst
<1> HIDE DEF f
<1>2. T \subseteq Nat /\ T # {} /\ Len(b) \in Nat
  BY <1>1
<1>3. \E x \in T : \A y \in T : x <= y
  BY <1>2, LeastNatural
<1>4. Min(T) \in T /\ \A y \in T : Min(T) <= y
  BY <1>3 DEF Min
<1>5. RunEnd(b, k) = Min(T)
  BY DEF RunEnd, f
<1> DEFINE e == Min(T)
<1> HIDE DEF e
<1>6. e \in f + 1 .. Len(b) + 1 /\ (e <= Len(b) => b[e].key # k)
  BY <1>1, <1>2, <1>4 DEF e
<1>7. \A j \in f .. e - 1 : b[j].key = k
  BY <1>1, <1>2, <1>4, <1>6 DEF e
<1> QED
  BY <1>5, <1>6, <1>7 DEF f, e

-----------------------------------------------------------------------------
(* The buffers the settings calls leave behind.                            *)

\* The parts of a concatenation.
LEMMA Joined ==
  ASSUME NEW x \in Seq(Record), NEW y \in Seq(Record)
  PROVE  /\ x \o y \in Seq(Record)
         /\ Len(x \o y) = Len(x) + Len(y)
         /\ \A i \in 1 .. Len(x) : (x \o y)[i] = x[i]
         /\ \A i \in 1 .. Len(y) : (x \o y)[Len(x) + i] = y[i]
<1> DEFINE z == x \o y
<1>1. /\ z \in Seq(Record)
      /\ Len(z) = Len(x) + Len(y)
      /\ \A i \in 1 .. Len(x) + Len(y) : z[i] = IF i <= Len(x) THEN x[i] ELSE y[i - Len(x)]
  BY ConcatProperties, Zenon
<1>2. Len(x) \in Nat /\ Len(y) \in Nat
  OBVIOUS
<1> HIDE DEF z
<1>3. ASSUME NEW i \in 1 .. Len(x)
      PROVE  z[i] = x[i]
  BY <1>1, <1>2
<1>4. ASSUME NEW i \in 1 .. Len(y)
      PROVE  z[Len(x) + i] = y[i]
  <2>1. Len(x) + i \in 1 .. Len(x) + Len(y) /\ ~(Len(x) + i <= Len(x)) /\ Len(x) + i - Len(x) = i
    BY <1>2
  <2> QED
    BY <1>1, <2>1
<1> QED
  BY <1>1, <1>3, <1>4 DEF z

\* The parts of a cut: the first p - 1 records, and those from q on.
LEMMA CutLeft ==
  ASSUME NEW b \in Seq(Record), NEW p \in 1 .. Len(b) + 1
  PROVE  /\ SubSeq(b, 1, p - 1) \in Seq(Record)
         /\ Len(SubSeq(b, 1, p - 1)) = p - 1
         /\ \A i \in 1 .. p - 1 : SubSeq(b, 1, p - 1)[i] = b[i]
<1>1. \A i \in 1 .. p - 1 : b[i] \in Record
  OBVIOUS
<1> QED
  BY <1>1, SubSeqProperties

\* The right part of a buffer.
LEMMA CutRight ==
  ASSUME NEW b \in Seq(Record), NEW q \in 1 .. Len(b) + 1
  PROVE  /\ SubSeq(b, q, Len(b)) \in Seq(Record)
         /\ Len(SubSeq(b, q, Len(b))) = Len(b) + 1 - q
         /\ \A i \in 1 .. Len(b) + 1 - q : SubSeq(b, q, Len(b))[i] = b[q + i - 1]
<1>1. \A i \in q .. Len(b) : b[i] \in Record
  OBVIOUS
<1> QED
  BY <1>1, SubSeqProperties

\* Dropping the records from p to q - 1 keeps the others in order.
LEMMA DropKeepsAdjacent ==
  ASSUME NEW b \in Seq(Record), Adjacent(b),
         NEW p \in 1 .. Len(b) + 1, NEW q \in p .. Len(b) + 1
  PROVE  LET c == SubSeq(b, 1, p - 1) \o SubSeq(b, q, Len(b))
         IN  c \in Seq(Record) /\ Adjacent(c)
<1> DEFINE x == SubSeq(b, 1, p - 1)
           y == SubSeq(b, q, Len(b))
           c == x \o y
           g(i) == IF i < p THEN i ELSE i + (q - p)
<1>1. x \in Seq(Record) /\ Len(x) = p - 1 /\ \A i \in 1 .. p - 1 : x[i] = b[i]
  BY CutLeft
<1>2. y \in Seq(Record) /\ Len(y) = Len(b) + 1 - q
      /\ \A i \in 1 .. Len(b) + 1 - q : y[i] = b[q + i - 1]
  BY CutRight
<1> HIDE DEF x, y
<1>3. /\ c \in Seq(Record) /\ Len(c) = Len(x) + Len(y)
      /\ \A i \in 1 .. Len(x) : c[i] = x[i]
      /\ \A i \in 1 .. Len(y) : c[Len(x) + i] = y[i]
  BY <1>1, <1>2, Joined
<1> HIDE DEF c
<1>4. Len(b) \in Nat /\ DOMAIN b = 1 .. Len(b) /\ DOMAIN c = 1 .. Len(c)
  BY <1>3
<1>5. ASSUME NEW i \in 1 .. Len(c)
      PROVE  g(i) \in 1 .. Len(b) /\ c[i] = b[g(i)]
  <2>1. CASE i < p
    BY <2>1, <1>1, <1>2, <1>3, <1>4, SMTT(20)
  <2>2. CASE i >= p
    <3> DEFINE j == i - (p - 1)
    <3>a. Len(x) = p - 1 /\ Len(y) = Len(b) + 1 - q /\ i <= Len(x) + Len(y)
      BY <1>1, <1>2, <1>3
    <3>1. j \in 1 .. Len(y) /\ i = Len(x) + j
      BY <3>a, <2>2, <1>4
    <3>2. c[i] = y[j]
      BY <3>1, <1>3
    <3>3. y[j] = b[q + j - 1]
      BY <3>1, <1>2
    <3> QED
      BY <3>1, <3>2, <3>3, <2>2, <1>2, <1>4
  <2> QED
    BY <2>1, <2>2, <1>4
<1>6. Adjacent(c)
  <2> SUFFICES ASSUME NEW i \in 1 .. Len(c), NEW j \in 1 .. Len(c), c[i].key = c[j].key,
                      NEW l \in i .. j
               PROVE  c[l].key = c[i].key
    BY <1>4 DEF Adjacent
  <2>1. l \in 1 .. Len(c)
    BY <1>4, <1>3
  <2>2. g(l) \in g(i) .. g(j)
    BY <2>1, <1>4, <1>3
  <2>3. g(i) \in 1 .. Len(b) /\ g(j) \in 1 .. Len(b) /\ b[g(i)].key = b[g(j)].key
    BY <1>5
  <2> HIDE DEF g
  <2>4. b[g(l)].key = b[g(i)].key
    BY <2>2, <2>3, <1>4 DEF Adjacent
  <2>5. c[l] = b[g(l)] /\ c[i] = b[g(i)]
    BY <2>1, <1>5
  <2> QED
    BY <2>4, <2>5
<1> QED
  BY <1>3, <1>6 DEF c, x, y

\* A new record at the end of its key's run, or anywhere if the key is new,
\* splits no run.
LEMMA InsertKeepsAdjacent ==
  ASSUME NEW b \in Seq(Record), Adjacent(b), NEW e \in 1 .. Len(b) + 1, NEW r \in Record,
         \/ e = Len(b) + 1 /\ \A i \in 1 .. Len(b) : b[i].key # r.key
         \/ /\ e > 1 /\ b[e - 1].key = r.key
            /\ e <= Len(b) => b[e].key # r.key,
         NEW c \in Seq(Record), Len(c) = Len(b) + 1,
         \A i \in 1 .. e - 1 : c[i] = b[i], c[e] = r,
         \A i \in e .. Len(b) : c[i + 1] = b[i]
  PROVE  Adjacent(c)
<1>1. Len(b) \in Nat /\ DOMAIN b = 1 .. Len(b) /\ DOMAIN c = 1 .. Len(b) + 1
  OBVIOUS
<1>2. \A i \in e + 1 .. Len(b) + 1 : c[i] = b[i - 1]
  <2> TAKE i \in e + 1 .. Len(b) + 1
  <2>1. i - 1 \in e .. Len(b) /\ i - 1 + 1 = i
    BY <1>1
  <2> QED
    BY <2>1
<1>3. \A i, j \in 1 .. Len(b) : b[i].key = b[j].key => \A l \in i .. j : b[l].key = b[i].key
  BY <1>1 DEF Adjacent
<1>4. \A i \in e .. Len(b) : b[i].key # r.key
  <2> TAKE i \in e .. Len(b)
  <2>1. CASE e > 1 /\ b[e - 1].key = r.key /\ e <= Len(b) /\ b[e].key # r.key
    <3> SUFFICES ASSUME b[i].key = r.key PROVE FALSE
      OBVIOUS
    <3>1. e - 1 \in 1 .. Len(b) /\ i \in 1 .. Len(b) /\ e \in e - 1 .. i
      BY <1>1
    <3> QED
      BY <3>1, <2>1, <1>3
  <2> QED
    BY <2>1, <1>1
<1> SUFFICES ASSUME NEW i \in 1 .. Len(b) + 1, NEW j \in 1 .. Len(b) + 1,
                    c[i].key = c[j].key, NEW l \in i .. j
             PROVE  c[l].key = c[i].key
  BY <1>1 DEF Adjacent
<1> DEFINE g(n) == IF n < e THEN n ELSE n - 1
<1>5. \A n \in 1 .. Len(b) + 1 : n # e => g(n) \in 1 .. Len(b) /\ c[n] = b[g(n)]
  BY <1>1, <1>2
<1>6. CASE i # e /\ j # e
  <2>1. g(i) \in 1 .. Len(b) /\ g(j) \in 1 .. Len(b) /\ b[g(i)].key = b[g(j)].key
    BY <1>5, <1>6
  <2>2. CASE l # e
    <3>1. l \in 1 .. Len(b) + 1 /\ g(l) \in g(i) .. g(j)
      BY <1>1, <1>6, <2>2
    <3> HIDE DEF g
    <3>2. b[g(l)].key = b[g(i)].key
      BY <3>1, <2>1, <1>3
    <3>3. c[l] = b[g(l)] /\ c[i] = b[g(i)]
      BY <3>1, <2>2, <1>5, <1>6
    <3> QED
      BY <3>2, <3>3
  <2>3. CASE l = e
    <3>1. i < e /\ e < j /\ g(i) = i /\ g(j) = j - 1 /\ e \in 1 .. Len(b)
      BY <1>1, <1>6, <2>3
    <3>2. e \in i .. j - 1 /\ e - 1 \in i .. j - 1
      BY <3>1, <1>1
    <3>3. b[e].key = b[i].key /\ b[e - 1].key = b[i].key
      <4>1. i \in 1 .. Len(b) /\ j - 1 \in 1 .. Len(b) /\ b[i].key = b[j - 1].key
        BY <2>1, <3>1
      <4> HIDE DEF g
      <4> QED BY <4>1, <3>2, <1>3
    <3>4. b[e - 1].key = r.key /\ b[e].key # r.key
      BY <3>1, <1>1
    <3> QED
      BY <3>3, <3>4
  <2> QED
    BY <2>2, <2>3
<1>7. CASE i = e
  <2>1. j = e
    <3> SUFFICES ASSUME j # e PROVE FALSE
      OBVIOUS
    <3>1. j - 1 \in e .. Len(b) /\ c[j] = b[j - 1]
      BY <1>1, <1>2, <1>7
    <3> QED
      BY <3>1, <1>4, <1>7
  <2> QED
    BY <2>1, <1>7, <1>1
<1>8. CASE i # e /\ j = e
  <2>1. i < e /\ c[i] = b[i] /\ b[i].key = r.key
    BY <1>1, <1>8
  <2>2. e - 1 \in 1 .. Len(b) /\ i \in 1 .. Len(b) /\ b[e - 1].key = r.key
    BY <2>1, <1>1
  <2>3. CASE l # e
    <3>1. l \in i .. e - 1 /\ c[l] = b[l]
      BY <2>3, <2>1, <1>8, <1>1
    <3> QED
      BY <3>1, <2>1, <2>2, <1>3
  <2> QED
    BY <2>1, <2>3
<1> QED
  BY <1>6, <1>7, <1>8
-----------------------------------------------------------------------------
(* The inductive invariant.                                                *)

Good(b) == b \in Seq(Record) /\ Adjacent(b)

IInv ==
  /\ Good(buffer) /\ Good(file)
  /\ idleBuf \in Seq(Record) /\ idleLen \in Nat
  /\ ipc = "write" => Good(SubSeq(idleBuf, 1, idleLen))
  /\ SaveInv

\* Add and Set put a record of a new key at the end.
LEMMA AppendIsGood ==
  ASSUME NEW b, Good(b), NEW k \in Key, NEW v \in Value, ~Has(b, k)
  PROVE  Good(Append(b, [key |-> k, val |-> v]))
<1> DEFINE r == [key |-> k, val |-> v]
           c == Append(b, r)
<1>1. b \in Seq(Record) /\ Adjacent(b) /\ r \in Record
  BY DEF Good, Record
<1>2. Len(b) \in Nat /\ \A i \in 1 .. Len(b) : b[i].key # r.key
  BY <1>1 DEF Has
<1>3. /\ c \in Seq(Record) /\ Len(c) = Len(b) + 1 /\ c[Len(b) + 1] = r
      /\ \A i \in 1 .. Len(b) : c[i] = b[i]
  BY <1>1, AppendProperties
<1> DEFINE e == Len(b) + 1
<1>4. /\ e \in 1 .. Len(b) + 1
      /\ \A i \in 1 .. e - 1 : c[i] = b[i]
      /\ \A i \in e .. Len(b) : c[i + 1] = b[i]
  BY <1>2, <1>3
<1> HIDE DEF c, r
<1>5. Adjacent(c)
  BY <1>1, <1>2, <1>3, <1>4, InsertKeepsAdjacent
<1> QED
  BY <1>3, <1>5 DEF Good, c, r

\* c is b with the record r inserted as its record e.
IsInsert(c, b, e, r) ==
  /\ c \in Seq(Record) /\ Len(c) = Len(b) + 1
  /\ \A i \in 1 .. e - 1 : c[i] = b[i]
  /\ c[e] = r
  /\ \A i \in e .. Len(b) : c[i + 1] = b[i]

\* InsertAt puts a record before record e, or at the end.
LEMMA InsertedRecords ==
  ASSUME NEW b \in Seq(Record), NEW e \in 1 .. Len(b) + 1, NEW r \in Record
  PROVE  IsInsert(InsertAt(b, e, r), b, e, r)
<1>0. PICK x, u, y : x = SubSeq(b, 1, e - 1) /\ u = <<r>> /\ y = SubSeq(b, e, Len(b))
  OBVIOUS
<1>1. Len(b) \in Nat
  OBVIOUS
<1>2. x \in Seq(Record) /\ Len(x) = e - 1 /\ \A i \in 1 .. e - 1 : x[i] = b[i]
  BY <1>0, CutLeft
<1>3. y \in Seq(Record) /\ Len(y) = Len(b) + 1 - e
      /\ \A i \in 1 .. Len(b) + 1 - e : y[i] = b[e + i - 1]
  BY <1>0, CutRight
<1>4. u \in Seq(Record) /\ Len(u) = 1 /\ u[1] = r
  BY <1>0
<1>5. PICK z : z = x \o u
  OBVIOUS
<1>6. /\ z \in Seq(Record) /\ Len(z) = e
      /\ \A i \in 1 .. e - 1 : z[i] = b[i]
      /\ z[e] = r
  <2>1. /\ z \in Seq(Record) /\ Len(z) = Len(x) + Len(u)
        /\ \A i \in 1 .. Len(x) : z[i] = x[i]
        /\ \A i \in 1 .. Len(u) : z[Len(x) + i] = u[i]
    BY <1>2, <1>4, <1>5, Joined
  <2>2. Len(x) + 1 = e /\ 1 \in 1 .. Len(u)
    BY <1>2, <1>4
  <2> QED BY <1>2, <1>4, <2>1, <2>2
<1>7. PICK t : t = z \o y
  OBVIOUS
<1>8. /\ t \in Seq(Record) /\ Len(t) = Len(z) + Len(y)
      /\ \A i \in 1 .. Len(z) : t[i] = z[i]
      /\ \A i \in 1 .. Len(y) : t[Len(z) + i] = y[i]
  BY <1>3, <1>6, <1>7, Joined
<1>9. /\ Len(t) = Len(b) + 1
      /\ \A i \in 1 .. e - 1 : t[i] = b[i]
      /\ t[e] = r
  BY <1>1, <1>3, <1>6, <1>8
<1>10. \A i \in e .. Len(b) : t[i + 1] = b[i]
  <2> TAKE i \in e .. Len(b)
  <2>1. PICK j : j = i + 1 - e
    OBVIOUS
  <2>2. j \in 1 .. Len(y) /\ Len(z) + j = i + 1 /\ e + j - 1 = i /\ j \in 1 .. Len(b) + 1 - e
    BY <1>1, <1>3, <1>6, <2>1
  <2> QED BY <1>3, <1>8, <2>2
<1>11. IsInsert(t, b, e, r)
  BY <1>8, <1>9, <1>10 DEF IsInsert
<1>12. InsertAt(b, e, r) = t
  BY <1>0, <1>5, <1>7 DEF InsertAt
<1> QED BY <1>11, <1>12

\* Add puts a record of a known key at the end of its run.
LEMMA InsertIsGood ==
  ASSUME NEW b, Good(b), NEW k \in Key, NEW v \in Value, Has(b, k)
  PROVE  Good(InsertAt(b, RunEnd(b, k), [key |-> k, val |-> v]))
<1>0. PICK e, r, c : /\ e = RunEnd(b, k) /\ r = [key |-> k, val |-> v]
                     /\ c = InsertAt(b, e, r)
  OBVIOUS
<1>1. b \in Seq(Record) /\ Adjacent(b) /\ Len(b) \in Nat
  BY DEF Good
<1>2. r \in Record /\ r.key = k
  BY <1>0 DEF Record
<1>3. First(b, k) \in 1 .. Len(b)
  BY <1>1, FirstIsFirst
<1>4. /\ e \in First(b, k) + 1 .. Len(b) + 1
      /\ \A j \in First(b, k) .. e - 1 : b[j].key = k
      /\ e <= Len(b) => b[e].key # k
  BY <1>0, <1>1, RunEndIsEnd
<1>5. e \in 1 .. Len(b) + 1 /\ e > 1 /\ b[e - 1].key = k
  BY <1>1, <1>3, <1>4
<1>6. /\ c \in Seq(Record) /\ Len(c) = Len(b) + 1
      /\ \A i \in 1 .. e - 1 : c[i] = b[i]
      /\ c[e] = r
      /\ \A i \in e .. Len(b) : c[i + 1] = b[i]
  <2>1. c = InsertAt(b, e, r)
    BY <1>0
  <2>2. b \in Seq(Record) /\ e \in 1 .. Len(b) + 1 /\ r \in Record
    BY <1>1, <1>2, <1>5
  <2>3. IsInsert(c, b, e, r)
    BY <2>1, <2>2, InsertedRecords
  <2> QED BY <2>3 DEF IsInsert
<1>7. Adjacent(c)
  BY <1>1, <1>2, <1>4, <1>5, <1>6, InsertKeepsAdjacent
<1>8. Good(c)
  BY <1>6, <1>7 DEF Good
<1> QED BY <1>0, <1>8

\* Set changes no key.
LEMMA ReplaceIsGood ==
  ASSUME NEW b, Good(b), NEW n, NEW v \in Value
  PROVE  Good([b EXCEPT ![n].val = v])
<1> DEFINE c == [b EXCEPT ![n].val = v]
<1>1. b \in Seq(Record) /\ DOMAIN b = 1 .. Len(b) /\ Adjacent(b) /\ Len(b) \in Nat
  BY DEF Good
<1>2. DOMAIN c = 1 .. Len(b)
  BY <1>1
<1>3. \A i \in 1 .. Len(b) : c[i] \in Record /\ c[i].key = b[i].key
  <2> TAKE i \in 1 .. Len(b)
  <2>1. b[i] \in Record
    BY <1>1
  <2>2. c[i] = IF i = n THEN [b[i] EXCEPT !.val = v] ELSE b[i]
    BY <1>1
  <2> HIDE DEF c
  <2> QED
    BY <2>1, <2>2 DEF Record
<1>4. c \in Seq(Record)
  <2>1. c = [i \in 1 .. Len(b) |-> c[i]]
    BY <1>1
  <2> HIDE DEF c
  <2>2. c \in [1 .. Len(b) -> Record]
    BY <1>3, <2>1
  <2> QED
    BY <1>1, <2>2, SeqDef
<1> HIDE DEF c
<1>5. Adjacent(c)
  <2> SUFFICES ASSUME NEW i \in 1 .. Len(b), NEW j \in 1 .. Len(b), c[i].key = c[j].key,
                      NEW l \in i .. j
               PROVE  c[l].key = c[i].key
    BY <1>2 DEF Adjacent
  <2>1. l \in 1 .. Len(b) /\ b[i].key = b[j].key
    BY <1>1, <1>3
  <2>2. b[l].key = b[i].key
    BY <2>1, <1>1 DEF Adjacent
  <2> QED
    BY <2>1, <2>2, <1>3
<1> QED
  BY <1>4, <1>5 DEF Good, c
\* Delete drops one record or one run.
LEMMA DropIsGood ==
  ASSUME NEW b, Good(b), NEW k, Has(b, k), NEW i \in Index,
         NEW from, NEW end, from = First(b, k), end = RunEnd(b, k)
  PROVE  /\ from + i \in from .. end - 1 => Good(RemoveAt(b, from + i))
         /\ Good(SubSeq(b, 1, from - 1) \o SubSeq(b, end, Len(b)))
<1>1. b \in Seq(Record) /\ Adjacent(b) /\ Len(b) \in Nat /\ i \in Int
  BY SettingsAssumption DEF Good, Index
<1>2. from \in 1 .. Len(b) /\ end \in from + 1 .. Len(b) + 1
  BY <1>1, FirstIsFirst, RunEndIsEnd
<1>3. Good(SubSeq(b, 1, from - 1) \o SubSeq(b, end, Len(b)))
  <2>1. from \in 1 .. Len(b) + 1 /\ end \in from .. Len(b) + 1
    BY <1>1, <1>2
  <2> QED
    BY <1>1, <2>1, DropKeepsAdjacent DEF Good
<1>4. ASSUME from + i \in from .. end - 1
      PROVE  Good(RemoveAt(b, from + i))
  <2> DEFINE p == from + i
             q == p + 1
  <2>1. p \in 1 .. Len(b) + 1 /\ q \in p .. Len(b) + 1
    BY <1>1, <1>2, <1>4
  <2>2. RemoveAt(b, p) = SubSeq(b, 1, p - 1) \o SubSeq(b, q, Len(b))
    BY DEF RemoveAt
  <2> HIDE DEF p, q
  <2>3. Good(SubSeq(b, 1, p - 1) \o SubSeq(b, q, Len(b)))
    BY <1>1, <2>1, DropKeepsAdjacent DEF Good
  <2> QED
    BY <2>2, <2>3 DEF p
<1> QED
  BY <1>3, <1>4

\* Every settings call is an update to a buffer in which keys are adjacent.
LEMMA CallsAreGood ==
  ASSUME Good(buffer), OtCall, ~Reset
  PROVE  \E b : Good(b) /\ Update(b)
<1>1. ASSUME NEW k \in Key, NEW v \in Value, Add(k, v)
      PROVE  \E b : Good(b) /\ Update(b)
  BY <1>1, AppendIsGood, InsertIsGood DEF Add
<1>2. ASSUME NEW k \in Key, NEW v \in Value, Set(k, v)
      PROVE  \E b : Good(b) /\ Update(b)
  <2>1. CASE Has(buffer, k)
    BY <1>2, <2>1, ReplaceIsGood DEF Set
  <2>2. CASE ~Has(buffer, k)
    BY <1>2, <2>2, AppendIsGood DEF Set
  <2> QED
    BY <2>1, <2>2
<1>3. ASSUME NEW k \in Key, NEW i \in Index, Delete(k, i)
      PROVE  \E b : Good(b) /\ Update(b)
  BY <1>3, DropIsGood DEF Delete
<1>4. ASSUME Wipe
      PROVE  \E b : Good(b) /\ Update(b)
  <2>1. Good(<< >>)
    BY DEF Good, Adjacent
  <2> QED
    BY <1>4, <2>1 DEF Wipe
<1> QED
  BY <1>1, <1>2, <1>3, <1>4 DEF OtCall

\* The copy under the mutex is the buffer.
LEMMA CopyIsBuffer ==
  ASSUME NEW b \in Seq(Record), NEW old \in Seq(Record)
  PROVE  LET c == b \o SubSeq(old, Len(b) + 1, Len(old))
         IN  c \in Seq(Record) /\ SubSeq(c, 1, Len(b)) = b
<1> DEFINE rest == SubSeq(old, Len(b) + 1, Len(old))
           c == b \o rest
           d == SubSeq(c, 1, Len(b))
<1>1. Len(b) \in Nat /\ Len(old) \in Nat
  OBVIOUS
<1>2. rest \in Seq(Record)
  <2>1. \A i \in Len(b) + 1 .. Len(old) : old[i] \in Record
    BY <1>1
  <2> QED
    BY <1>1, <2>1, SubSeqProperties
<1> HIDE DEF rest
<1>3. c \in Seq(Record) /\ \A i \in 1 .. Len(b) : c[i] = b[i]
  BY <1>2, Joined
<1> HIDE DEF c
<1>4. /\ d \in Seq(Record) /\ Len(d) = Len(b)
      /\ \A i \in 1 .. Len(b) : d[i] = c[i]
  <2>1. \A i \in 1 .. Len(b) : c[i] \in Record
    BY <1>3
  <2> QED
    BY <1>1, <2>1, SubSeqProperties
<1> HIDE DEF d
<1>5. d = b
  BY <1>1, <1>3, <1>4
<1> QED
  BY <1>3, <1>5 DEF c, d, rest

\* The invariant holds of an empty buffer.
LEMMA IInvInit == Init => IInv
BY DEF Init, IInv, SaveInv, UpToDate, Good, Adjacent

\* Each kind of step keeps the inductive invariant.
LEMMA IInvNext == IInv /\ [Next]_vars => IInv'
<1> SUFFICES ASSUME IInv, [Next]_vars PROVE IInv'
  OBVIOUS
<1> USE DEF IInv, SaveInv, UpToDate
<1>1. CASE OtCall /\ ~Reset
  <2>1. PICK b : Good(b) /\ Update(b)
    BY <1>1, CallsAreGood
  <2> QED
    BY <2>1 DEF Update, idleVars
<1>2. CASE Reset
  BY <1>2 DEF Reset, idleVars
<1>3. CASE IdleTest
  BY <1>3 DEF IdleTest, Goes, Saved
<1>4. CASE IdleClear
  BY <1>4 DEF IdleClear, Goes
<1>5. CASE IdleLock
  BY <1>5 DEF IdleLock, Goes
<1>6. CASE IdleLen
  BY <1>6 DEF IdleLen, Goes
<1>7. CASE IdleBytes
  <2>1. idleBuf' \in Seq(Record) /\ SubSeq(idleBuf', 1, Len(buffer)) = buffer
    BY <1>7, CopyIsBuffer DEF IdleBytes, Good
  <2>2. SubSeq(idleBuf', 1, idleLen') = buffer
    BY <1>7, <2>1 DEF IdleBytes
  <2>3. /\ UNCHANGED <<buffer, saveFlag, file, idleLen, irqOff>>
        /\ mutex' = FALSE /\ ipc = "bytes" /\ ipc' = "write"
    BY <1>7 DEF IdleBytes, Goes
  <2>4. SaveInv'
    BY <2>2, <2>3
  <2> QED
    BY <2>1, <2>2, <2>3, <2>4
<1>8. CASE IdleWrite
  <2>1. /\ Good(file') /\ Good(buffer') /\ idleBuf' \in Seq(Record) /\ idleLen' \in Nat
        /\ ipc' \in {"boot", "reset"} /\ (ipc' = "boot" <=> irqOff) /\ irqOff' = irqOff
        /\ ~saveFlag' => file' = buffer'
        /\ mutex' = mutex /\ ~mutex
    BY <1>8 DEF IdleWrite, Goes, Saved
  <2>2. irqOff => ~saveFlag /\ ~saveFlag'
    BY <1>8 DEF IdleWrite
  <2> QED
    BY <2>1, <2>2
<1>9. CASE IdleReset
  BY <1>9 DEF IdleReset, Goes
<1>10. CASE Restart
  BY <1>10 DEF Restart
<1>11. CASE UNCHANGED vars
  BY <1>11 DEF vars, idleVars
<1> QED
  BY <1>1, <1>2, <1>3, <1>4, <1>5, <1>6, <1>7, <1>8, <1>9, <1>10, <1>11
     DEF Next, OtCall, IdleStep, SystemReset, PowerLoss

\* The invariant always holds.
LEMMA IInvHolds == Spec => []IInv
BY IInvInit, IInvNext, PTL DEF Spec

-----------------------------------------------------------------------------
\* The records of a key are adjacent in the buffer and in the file, after any
\* sequence of Add, Set, Delete and Wipe and across resets and power losses,
\* so the scans that stop at the end of a run see every value of the key.
THEOREM KeysStayAdjacent == Spec => []KeysAdjacent
<1>1. IInv => KeysAdjacent
  BY DEF IInv, KeysAdjacent, Good
<1> QED
  BY <1>1, IInvHolds, PTL

\* No update is left out of the file: with no save asked for and none under
\* way, file and buffer agree, however the OpenThread task preempts
\* otPlatSaveSettingsIdle.
THEOREM FileIsUpToDate == Spec => []UpToDate
<1>1. IInv => UpToDate
  BY DEF IInv, SaveInv
<1> QED
  BY <1>1, IInvHolds, PTL

\* A reset through otPlatReset finds after it the settings it had before.
THEOREM ResetKeepsSettings == Spec => ResetKeeps
<1>1. IInv /\ [Next]_vars => [SystemReset => buffer' = buffer]_vars
  <2> SUFFICES ASSUME IInv, SystemReset PROVE buffer' = buffer
    OBVIOUS
  <2>1. ipc = "boot" /\ buffer' = file
    BY DEF SystemReset, Restart
  <2>2. irqOff /\ ~saveFlag
    BY <2>1 DEF IInv, SaveInv
  <2> QED
    BY <2>1, <2>2 DEF IInv, SaveInv, UpToDate
<1> QED
  BY <1>1, IInvHolds, PTL DEF Spec, ResetKeeps

-----------------------------------------------------------------------------
(* The lists of values in a buffer.                                        *)

\* How many numbers an interval has.
LEMMA CountInterval ==
  ASSUME NEW f \in Nat, NEW n \in Nat
  PROVE  Cardinality(f .. f + n - 1) = n
<1> DEFINE g == [i \in 1 .. n |-> f + i - 1]
<1>1. g \in [1 .. n -> f .. f + n - 1]
  OBVIOUS
<1>2. \A i, j \in 1 .. n : g[i] = g[j] => i = j
  OBVIOUS
<1>3. \A x \in f .. f + n - 1 : \E i \in 1 .. n : g[i] = x
  <2> SUFFICES ASSUME NEW x \in f .. f + n - 1 PROVE \E i \in 1 .. n : g[i] = x
    OBVIOUS
  <2>1. x - f + 1 \in 1 .. n /\ f + (x - f + 1) - 1 = x
    OBVIOUS
  <2> QED BY <2>1
<1> HIDE DEF g
<1>4. g \in Bijection(1 .. n, f .. f + n - 1)
  BY <1>1, <1>2, <1>3 DEF Bijection, Injection, Surjection, IsInjective
<1> QED BY <1>4, FS_CountingElements DEF ExistsBijection

\* The records of key k are those from f to e - 1: none if f = e.
IsRun(b, k, f, e) ==
  /\ f \in 1 .. Len(b) + 1 /\ e \in f .. Len(b) + 1
  /\ \A i \in 1 .. Len(b) : b[i].key = k <=> f <= i /\ i < e

\* The values from f to e - 1.
ValuesIn(b, f, e) == [n \in 1 .. e - f |-> b[f + n - 1].val]

\* The list of a key are the values in its run.
LEMMA RunHasValues ==
  ASSUME NEW b \in Seq(Record), NEW k \in Key, NEW f, NEW e, IsRun(b, k, f, e)
  PROVE  ValuesOf(b)[k] = ValuesIn(b, f, e)
<1>1. f \in Nat /\ e \in Nat /\ e - f \in Nat
  BY DEF IsRun
<1>2. Positions(b, k) = f .. e - 1
  BY DEF IsRun, Positions
<1>3. Cardinality(Positions(b, k)) = e - f
  <2>1. f .. e - 1 = f .. f + (e - f) - 1
    BY <1>1
  <2> QED BY <1>1, <1>2, <2>1, CountInterval
<1>4. ASSUME NEW i \in f .. e - 1
      PROVE  Cardinality({j \in Positions(b, k) : j <= i}) = i - f + 1
  <2>1. {j \in Positions(b, k) : j <= i} = f .. f + (i - f + 1) - 1
    BY <1>1, <1>2
  <2>2. i - f + 1 \in Nat
    BY <1>1
  <2>3. Cardinality(f .. f + (i - f + 1) - 1) = i - f + 1
    BY <1>1, <2>2, CountInterval
  <2> QED BY <2>1, <2>3
<1>5. ASSUME NEW n \in 1 .. e - f
      PROVE  NthOf(b, k, n) = f + n - 1
  <2>1. f + n - 1 \in Positions(b, k)
    BY <1>1, <1>2
  <2>2. \A i \in Positions(b, k) :
          Cardinality({j \in Positions(b, k) : j <= i}) = n <=> i = f + n - 1
    <3> SUFFICES ASSUME NEW i \in Positions(b, k)
                 PROVE  Cardinality({j \in Positions(b, k) : j <= i}) = n <=> i = f + n - 1
      OBVIOUS
    <3>1. i \in f .. e - 1
      BY <1>2
    <3>2. Cardinality({j \in Positions(b, k) : j <= i}) = i - f + 1
      BY <1>4, <3>1
    <3> QED BY <1>1, <3>1, <3>2
  <2> QED BY <2>1, <2>2 DEF NthOf
<1> QED BY <1>3, <1>5 DEF ValuesOf, ValuesIn

\* A key whose records are adjacent has a run.
LEMMA RunOf ==
  ASSUME NEW b, Good(b), NEW k
  PROVE  /\ ~Has(b, k) => IsRun(b, k, Len(b) + 1, Len(b) + 1) /\ IsRun(b, k, 1, 1)
         /\ Has(b, k) => IsRun(b, k, First(b, k), RunEnd(b, k)) /\ First(b, k) < RunEnd(b, k)
<1>1. b \in Seq(Record) /\ Adjacent(b) /\ Len(b) \in Nat /\ DOMAIN b = 1 .. Len(b)
  BY DEF Good
<1>2. CASE ~Has(b, k)
  BY <1>1, <1>2 DEF Has, IsRun
<1>3. CASE Has(b, k)
  <2>1. PICK f, e : f = First(b, k) /\ e = RunEnd(b, k)
    OBVIOUS
  <2>2. f \in 1 .. Len(b) /\ b[f].key = k /\ \A j \in 1 .. f - 1 : b[j].key # k
    BY <1>1, <1>3, <2>1, FirstIsFirst
  <2>3. /\ e \in f + 1 .. Len(b) + 1
        /\ \A j \in f .. e - 1 : b[j].key = k
        /\ e <= Len(b) => b[e].key # k
    BY <1>1, <1>3, <2>1, RunEndIsEnd
  <2>4. ASSUME NEW i \in 1 .. Len(b), b[i].key = k
        PROVE  f <= i /\ i < e
    <3>1. f <= i
      BY <1>1, <2>2, <2>4
    <3>2. ASSUME e <= i PROVE FALSE
      <4>1. e \in f .. i /\ e <= Len(b)
        BY <1>1, <2>2, <2>3, <3>2
      <4>2. b[e].key = k
        BY <1>1, <2>2, <2>4, <4>1 DEF Adjacent
      <4> QED BY <2>3, <4>1, <4>2
    <3> QED BY <1>1, <2>2, <2>3, <3>1, <3>2
  <2>5. ASSUME NEW i \in 1 .. Len(b), f <= i, i < e
        PROVE  b[i].key = k
    BY <1>1, <2>2, <2>3, <2>5
  <2>6. IsRun(b, k, f, e) /\ f < e
    BY <1>1, <2>2, <2>3, <2>4, <2>5 DEF IsRun
  <2> QED BY <1>3, <2>1, <2>6
<1> QED BY <1>2, <1>3

\* The values in a run are a list of values.
LEMMA ValuesInIs ==
  ASSUME NEW b \in Seq(Record), NEW f \in 1 .. Len(b) + 1, NEW e \in f .. Len(b) + 1
  PROVE  ValuesIn(b, f, e) \in Seq(Value) /\ Len(ValuesIn(b, f, e)) = e - f
<1>1. ASSUME NEW n \in 1 .. e - f PROVE b[f + n - 1].val \in Value
  <2>1. f + n - 1 \in 1 .. Len(b)
    OBVIOUS
  <2>2. b[f + n - 1] \in Record
    BY <2>1
  <2> QED BY <2>2 DEF Record
<1>2. e - f \in Nat
  OBVIOUS
<1> QED BY <1>1, <1>2 DEF ValuesIn

\* Every key has a list of values.
LEMMA ListsOfValues ==
  ASSUME NEW b, Good(b)
  PROVE  ValuesOf(b) \in [Key -> Seq(Value)]
<1>1. ASSUME NEW k \in Key PROVE ValuesOf(b)[k] \in Seq(Value)
  <2>1. b \in Seq(Record)
    BY DEF Good
  <2>2. PICK f, e : IsRun(b, k, f, e)
    BY RunOf
  <2>3. ValuesOf(b)[k] = ValuesIn(b, f, e)
    BY <2>1, <2>2, RunHasValues
  <2>4. ValuesIn(b, f, e) \in Seq(Value)
    BY <2>1, <2>2, ValuesInIs DEF IsRun
  <2> QED BY <2>3, <2>4
<1>2. ValuesOf(b) = [k \in Key |-> ValuesOf(b)[k]]
  BY DEF ValuesOf
<1> QED BY <1>1, <1>2

\* Runs of different keys are apart.
LEMMA RunsApart ==
  ASSUME NEW b, NEW k, NEW f, NEW e, IsRun(b, k, f, e),
         NEW l, NEW g, NEW h, IsRun(b, l, g, h), k # l, f < e, g < h, Len(b) \in Nat
  PROVE  h <= f \/ e <= g
<1> SUFFICES ASSUME f < h, g < e PROVE FALSE
  BY DEF IsRun
<1>1. CASE f <= g
  BY <1>1 DEF IsRun
<1>2. CASE g <= f
  BY <1>2 DEF IsRun
<1> QED BY <1>1, <1>2 DEF IsRun

\* c is s without its elements from p to q - 1.
IsCut(c, s, p, q) ==
  /\ Len(c) = Len(s) - (q - p)
  /\ \A i \in 1 .. Len(c) : c[i] = IF i < p THEN s[i] ELSE s[i + (q - p)]

\* What is left of a sequence when elements are cut out.
LEMMA CutOut ==
  ASSUME NEW T, NEW s \in Seq(T), NEW p \in 1 .. Len(s) + 1, NEW q \in p .. Len(s) + 1
  PROVE  LET c == SubSeq(s, 1, p - 1) \o SubSeq(s, q, Len(s))
         IN  c \in Seq(T) /\ IsCut(c, s, p, q)
<1>0. PICK x, y : x = SubSeq(s, 1, p - 1) /\ y = SubSeq(s, q, Len(s))
  OBVIOUS
<1>1. Len(s) \in Nat /\ \A i \in 1 .. Len(s) : s[i] \in T
  OBVIOUS
<1>2. x \in Seq(T) /\ Len(x) = p - 1 /\ \A i \in 1 .. p - 1 : x[i] = s[i]
  <2>1. 1 \in Int /\ p - 1 \in Int /\ \A i \in 1 .. p - 1 : s[i] \in T
    BY <1>1
  <2> QED BY <1>0, <1>1, <2>1, SubSeqProperties
<1>3. y \in Seq(T) /\ Len(y) = Len(s) - q + 1 /\ \A i \in 1 .. Len(s) - q + 1 : y[i] = s[q + i - 1]
  <2>1. q \in Int /\ Len(s) \in Int /\ \A i \in q .. Len(s) : s[i] \in T
    BY <1>1
  <2> QED BY <1>0, <1>1, <2>1, SubSeqProperties
<1>4. PICK z : z = x \o y
  OBVIOUS
<1>5. /\ z \in Seq(T) /\ Len(z) = Len(x) + Len(y)
      /\ \A i \in 1 .. Len(x) + Len(y) : z[i] = IF i <= Len(x) THEN x[i] ELSE y[i - Len(x)]
  BY <1>2, <1>3, <1>4, ConcatProperties, Zenon
<1>6. PICK m : m = Len(s)
  OBVIOUS
<1>7. m \in Nat /\ p \in 1 .. m + 1 /\ q \in p .. m + 1
  BY <1>1, <1>6
<1>8. Len(x) = p - 1 /\ Len(y) = m - q + 1 /\ Len(z) = m - (q - p)
  BY <1>2, <1>3, <1>5, <1>6, <1>7
<1>9. ASSUME NEW i \in 1 .. Len(z)
      PROVE  z[i] = IF i < p THEN s[i] ELSE s[i + (q - p)]
  <2>0. i \in 1 .. Len(x) + Len(y) /\ i \in Nat
    BY <1>5
  <2>1. CASE i < p
    BY <1>2, <1>5, <1>7, <1>8, <2>0, <2>1
  <2>2. CASE i >= p
    <3>1. PICK j : j = i - Len(x)
      OBVIOUS
    <3>2. j \in 1 .. m - q + 1 /\ q + j - 1 = i + (q - p) /\ ~(i <= Len(x))
      BY <1>7, <1>8, <2>0, <2>2, <3>1
    <3>3. z[i] = y[j]
      BY <1>5, <2>0, <3>1, <3>2
    <3>4. y[j] = s[q + j - 1]
      BY <1>3, <1>6, <3>2
    <3> QED BY <1>7, <2>0, <2>2, <3>2, <3>3, <3>4, SMTT(20)
  <2> QED BY <1>7, <2>0, <2>1, <2>2
<1>10. IsCut(z, s, p, q)
  BY <1>6, <1>8, <1>9 DEF IsCut
<1> QED BY <1>0, <1>4, <1>5, <1>10

\* From b to c the list of k becomes s, and every other list stays as it was.
Lists(b, c, k, s) == ValuesOf(c) = [ValuesOf(b) EXCEPT ![k] = s]

\* A value more at the end of the run of its key.
LEMMA ListGrows ==
  ASSUME NEW b, Good(b), NEW r \in Record, NEW f, NEW e, IsRun(b, r.key, f, e),
         f < e \/ e = Len(b) + 1,
         NEW c \in Seq(Record), Len(c) = Len(b) + 1,
         \A i \in 1 .. e - 1 : c[i] = b[i], c[e] = r,
         \A i \in e .. Len(b) : c[i + 1] = b[i]
  PROVE  Lists(b, c, r.key, Append(ValuesOf(b)[r.key], r.val))
<1>1. b \in Seq(Record) /\ Len(b) \in Nat /\ r.key \in Key /\ r.val \in Value
  BY DEF Good, Record
<1>2. f \in 1 .. Len(b) + 1 /\ e \in f .. Len(b) + 1
  BY DEF IsRun
<1>3. \A i \in e + 1 .. Len(b) + 1 : c[i] = b[i - 1]
  <2> TAKE i \in e + 1 .. Len(b) + 1
  <2>1. i - 1 \in e .. Len(b) /\ (i - 1) + 1 = i
    BY <1>1, <1>2
  <2> QED BY <2>1
<1>4. ValuesOf(c)[r.key] = Append(ValuesOf(b)[r.key], r.val)
  <2>1. PICK x, y : x = ValuesIn(b, f, e) /\ y = ValuesIn(c, f, e + 1)
    OBVIOUS
  <2>2. IsRun(c, r.key, f, e + 1)
    <3> SUFFICES ASSUME NEW i \in 1 .. Len(b) + 1
                 PROVE  c[i].key = r.key <=> f <= i /\ i < e + 1
      BY <1>1, <1>2 DEF IsRun
    <3>1. CASE i < e
      BY <1>1, <1>2, <3>1 DEF IsRun
    <3>2. CASE i = e
      BY <1>1, <1>2, <3>2
    <3>3. CASE i > e
      <4>1. i - 1 \in 1 .. Len(b) /\ ~(i - 1 < e) /\ c[i] = b[i - 1]
        BY <1>1, <1>2, <1>3, <3>3
      <4>2. b[i - 1].key # r.key
        BY <4>1 DEF IsRun
      <4> QED BY <1>2, <3>3, <4>1, <4>2
    <3> QED BY <1>1, <1>2, <3>1, <3>2, <3>3
  <2>3. ValuesOf(b)[r.key] = x /\ ValuesOf(c)[r.key] = y
    BY <1>1, <2>1, <2>2, RunHasValues
  <2>4. x \in Seq(Value) /\ Len(x) = e - f
    BY <1>1, <1>2, <2>1, ValuesInIs
  <2>5. y \in Seq(Value) /\ Len(y) = e - f + 1
    <3>1. f \in 1 .. Len(c) + 1 /\ e + 1 \in f .. Len(c) + 1
      BY <1>1, <1>2
    <3>2. ValuesIn(c, f, e + 1) \in Seq(Value) /\ Len(ValuesIn(c, f, e + 1)) = (e + 1) - f
      BY <3>1, ValuesInIs
    <3> QED BY <1>1, <1>2, <2>1, <3>2
  <2>6. ASSUME NEW n \in 1 .. Len(y) PROVE y[n] = Append(x, r.val)[n]
    <3>0. n \in 1 .. e - f + 1
      BY <2>5
    <3>1. y[n] = c[f + n - 1].val
      BY <1>1, <1>2, <2>1, <3>0 DEF ValuesIn
    <3>2. CASE n <= e - f
      <4>1. x[n] = b[f + n - 1].val
        <5>1. n \in 1 .. e - f
          BY <1>1, <1>2, <3>0, <3>2
        <5> QED BY <2>1, <5>1 DEF ValuesIn
      <4>2. c[f + n - 1] = b[f + n - 1]
        BY <1>1, <1>2, <3>0, <3>2
      <4>3. Append(x, r.val)[n] = x[n]
        BY <1>1, <1>2, <2>4, <3>0, <3>2, AppendProperties
      <4> QED BY <3>1, <4>1, <4>2, <4>3
    <3>3. CASE n = e - f + 1
      <4>1. f + n - 1 = e
        BY <1>1, <1>2, <3>3
      <4>2. Append(x, r.val)[n] = r.val
        BY <1>1, <2>4, <3>3, AppendProperties
      <4> QED BY <3>1, <4>1, <4>2
    <3>4. n <= e - f \/ n = e - f + 1
      BY <1>1, <1>2, <3>0
    <3> QED BY <3>2, <3>3, <3>4
  <2>7. Append(x, r.val) \in Seq(Value) /\ Len(Append(x, r.val)) = Len(y)
    BY <1>1, <2>4, <2>5, AppendProperties
  <2>8. y = Append(x, r.val)
    BY <2>5, <2>6, <2>7, SeqEqual
  <2> QED BY <2>3, <2>8
<1>5. ASSUME NEW l \in Key, l # r.key
      PROVE  ValuesOf(c)[l] = ValuesOf(b)[l]
  <2>1. CASE ~Has(b, l)
    <3>1. \A i \in 1 .. Len(b) + 1 : c[i].key # l
      <4> TAKE i \in 1 .. Len(b) + 1
      <4>1. \A j \in 1 .. Len(b) : b[j].key # l
        BY <1>1, <2>1 DEF Has
      <4>2. CASE i < e
        BY <1>1, <1>2, <4>1, <4>2
      <4>3. CASE i = e
        BY <1>5, <4>3
      <4>4. CASE i > e
        <5>1. i - 1 \in 1 .. Len(b) /\ c[i] = b[i - 1]
          BY <1>1, <1>2, <1>3, <4>4
        <5> QED BY <4>1, <5>1
      <4> QED BY <1>1, <1>2, <4>2, <4>3, <4>4
    <3>2. IsRun(b, l, 1, 1) /\ IsRun(c, l, 1, 1)
      BY <1>1, <2>1, <3>1, RunOf DEF IsRun
    <3>3. ValuesOf(b)[l] = ValuesIn(b, 1, 1) /\ ValuesOf(c)[l] = ValuesIn(c, 1, 1)
      BY <1>1, <3>2, RunHasValues
    <3> QED BY <3>3 DEF ValuesIn
  <2>2. CASE Has(b, l)
    <3>1. PICK g, h : IsRun(b, l, g, h) /\ g < h
      BY <2>2, RunOf
    <3>2. g \in 1 .. Len(b) + 1 /\ h \in g .. Len(b) + 1
      BY <3>1 DEF IsRun
    <3>3. h <= e \/ e <= g
      <4>1. CASE f < e
        <5>1. h <= f \/ e <= g
          BY <1>1, <1>5, <3>1, <4>1, RunsApart
        <5> QED BY <1>1, <1>2, <3>2, <5>1
      <4>2. CASE e = Len(b) + 1
        BY <3>2, <4>2
      <4> QED BY <4>1, <4>2
    <3>4. CASE h <= e
      <4>1. IsRun(c, l, g, h)
        <5> SUFFICES ASSUME NEW i \in 1 .. Len(b) + 1
                     PROVE  c[i].key = l <=> g <= i /\ i < h
          BY <1>1, <3>2 DEF IsRun
        <5>1. CASE i < e
          BY <1>1, <1>2, <3>1, <5>1 DEF IsRun
        <5>2. CASE i = e
          BY <1>1, <1>5, <3>4, <5>2, <3>2, <1>2
        <5>3. CASE i > e
          <6>1. i - 1 \in 1 .. Len(b) /\ ~(i - 1 < h) /\ c[i] = b[i - 1]
            BY <1>1, <1>2, <1>3, <3>2, <3>4, <5>3
          <6>2. b[i - 1].key # l
            BY <3>1, <6>1 DEF IsRun
          <6> QED BY <1>2, <3>2, <3>4, <5>3, <6>1, <6>2
        <5> QED BY <1>1, <1>2, <5>1, <5>2, <5>3
      <4>2. ValuesOf(b)[l] = ValuesIn(b, g, h) /\ ValuesOf(c)[l] = ValuesIn(c, g, h)
        BY <1>1, <3>1, <4>1, RunHasValues
      <4>3. ASSUME NEW n \in 1 .. h - g PROVE c[g + n - 1] = b[g + n - 1]
        <5>1. g + n - 1 \in 1 .. e - 1
          BY <1>1, <1>2, <3>2, <3>4
        <5> QED BY <5>1
      <4> QED BY <4>2, <4>3 DEF ValuesIn
    <3>5. CASE e <= g
      <4>1. IsRun(c, l, g + 1, h + 1)
        <5> SUFFICES ASSUME NEW i \in 1 .. Len(b) + 1
                     PROVE  c[i].key = l <=> g + 1 <= i /\ i < h + 1
          BY <1>1, <3>2 DEF IsRun
        <5>1. CASE i < e
          BY <1>1, <1>2, <3>1, <3>2, <3>5, <5>1 DEF IsRun
        <5>2. CASE i = e
          BY <1>1, <1>2, <1>5, <3>2, <3>5, <5>2
        <5>3. CASE i > e
          <6>1. i - 1 \in 1 .. Len(b) /\ c[i] = b[i - 1]
            BY <1>1, <1>2, <1>3, <5>3
          <6>2. b[i - 1].key = l <=> g <= i - 1 /\ i - 1 < h
            BY <3>1, <6>1 DEF IsRun
          <6> QED BY <3>2, <6>1, <6>2
        <5> QED BY <1>1, <1>2, <5>1, <5>2, <5>3
      <4>2. ValuesOf(b)[l] = ValuesIn(b, g, h) /\ ValuesOf(c)[l] = ValuesIn(c, g + 1, h + 1)
        BY <1>1, <3>1, <4>1, RunHasValues
      <4>3. ASSUME NEW n \in 1 .. h - g PROVE c[(g + 1) + n - 1] = b[g + n - 1]
        <5>1. g + n - 1 \in e .. Len(b) /\ (g + 1) + n - 1 = (g + n - 1) + 1
          BY <1>1, <1>2, <3>2, <3>5
        <5> QED BY <5>1
      <4>4. (h + 1) - (g + 1) = h - g
        BY <3>2
      <4> QED BY <4>2, <4>3, <4>4 DEF ValuesIn
    <3> QED BY <3>3, <3>4, <3>5
  <2> QED BY <2>1, <2>2
<1>6. ValuesOf(c) = [l \in Key |-> ValuesOf(c)[l]] /\ ValuesOf(b) = [l \in Key |-> ValuesOf(b)[l]]
  BY DEF ValuesOf
<1> QED BY <1>1, <1>4, <1>5, <1>6 DEF Lists

\* The run of a key stays one when records of the run are cut out.
LEMMA CutRun ==
  ASSUME NEW b \in Seq(Record), NEW c \in Seq(Record), NEW k, NEW f, NEW e,
         IsRun(b, k, f, e), NEW p \in f .. e, NEW d \in Nat, p + d <= e,
         Len(c) = Len(b) - d,
         \A i \in 1 .. Len(c) : c[i] = IF i < p THEN b[i] ELSE b[i + d]
  PROVE  IsRun(c, k, f, e - d)
<1>1. /\ Len(b) \in Nat /\ Len(c) \in Nat
      /\ f \in 1 .. Len(b) + 1 /\ e \in f .. Len(b) + 1
      /\ \A i \in 1 .. Len(b) : b[i].key = k <=> f <= i /\ i < e
  BY DEF IsRun
<1>2. f \in 1 .. Len(c) + 1 /\ e - d \in f .. Len(c) + 1
  BY <1>1
<1>3. ASSUME NEW i \in 1 .. Len(c)
      PROVE  c[i].key = k <=> f <= i /\ i < e - d
  <2>1. CASE i < p
    <3>1. i \in 1 .. Len(b) /\ c[i] = b[i]
      BY <1>1, <2>1
    <3>2. b[i].key = k <=> f <= i /\ i < e
      BY <1>1, <3>1
    <3>3. i < e - d /\ i < e
      BY <1>1, <2>1
    <3> QED BY <3>1, <3>2, <3>3
  <2>2. CASE ~(i < p)
    <3>1. i + d \in 1 .. Len(b)
      BY <1>1
    <3>2. c[i] = b[i + d]
      BY <2>2
    <3>3. b[i + d].key = k <=> f <= i + d /\ i + d < e
      BY <1>1, <3>1
    <3>4. f <= i /\ f <= i + d /\ (i + d < e <=> i < e - d)
      BY <1>1, <2>2
    <3> QED BY <3>2, <3>3, <3>4
  <2> QED BY <2>1, <2>2
<1> QED BY <1>2, <1>3 DEF IsRun

\* The values from p to q - 1 leave the list of their key.
LEMMA ListShrinks ==
  ASSUME NEW b, Good(b), NEW k \in Key, NEW f, NEW e, IsRun(b, k, f, e), f < e,
         NEW p \in f .. e, NEW q \in p .. e,
         NEW c \in Seq(Record), IsCut(c, b, p, q)
  PROVE  LET x == ValuesOf(b)[k]
         IN  Lists(b, c, k, SubSeq(x, 1, p - f) \o SubSeq(x, q - f + 1, Len(x)))
<1>0. PICK x : x = ValuesOf(b)[k]
  OBVIOUS
<1>1. b \in Seq(Record) /\ Len(b) \in Nat
  BY DEF Good
<1>2. /\ f \in 1 .. Len(b) + 1 /\ e \in f .. Len(b) + 1
      /\ p \in 1 .. Len(b) + 1 /\ q \in p .. Len(b) + 1
  BY <1>1 DEF IsRun
<1>3. PICK m, d : m = Len(c) /\ d = q - p
  OBVIOUS
<1>4. /\ m \in Nat /\ d \in Nat /\ m = Len(b) - d /\ p + d = q
      /\ c \in Seq(Record) /\ Len(c) = m
      /\ \A i \in 1 .. m : c[i] = IF i < p THEN b[i] ELSE b[i + d]
  BY <1>1, <1>2, <1>3 DEF IsCut
<1>5. ValuesOf(c)[k] = SubSeq(x, 1, p - f) \o SubSeq(x, q - f + 1, Len(x))
  <2>0. PICK y, z : /\ y = ValuesIn(c, f, e - d)
                    /\ z = SubSeq(x, 1, p - f) \o SubSeq(x, q - f + 1, Len(x))
    OBVIOUS
  <2>1. x = ValuesIn(b, f, e) /\ y = ValuesIn(c, f, e - d)
    BY <1>0, <1>1, <2>0, RunHasValues
  <2>2. IsRun(c, k, f, e - d)
    <3>1. p \in f .. e /\ d \in Nat /\ p + d <= e
      BY <1>2, <1>4
    <3>2. \A i \in 1 .. Len(c) : c[i] = IF i < p THEN b[i] ELSE b[i + d]
      BY <1>4
    <3>3. b \in Seq(Record) /\ c \in Seq(Record) /\ Len(c) = Len(b) - d
      BY <1>1, <1>4
    <3> QED BY <3>1, <3>2, <3>3, CutRun
  <2>3. ValuesOf(b)[k] = x /\ ValuesOf(c)[k] = y
    BY <1>1, <1>4, <2>1, <2>2, RunHasValues
  <2>4. x \in Seq(Value) /\ Len(x) = e - f
    BY <1>1, <1>2, <2>1, ValuesInIs
  <2>5. y \in Seq(Value) /\ Len(y) = (e - d) - f
    <3>1. f \in 1 .. Len(c) + 1 /\ e - d \in f .. Len(c) + 1
      BY <1>1, <1>2, <1>4
    <3> QED BY <2>1, <3>1, ValuesInIs
  <2>6. /\ z \in Seq(Value) /\ Len(z) = Len(x) - d
        /\ \A i \in 1 .. Len(z) : z[i] = IF i < p - f + 1 THEN x[i] ELSE x[i + d]
    <3>1. PICK a, u : a = p - f + 1 /\ u = q - f + 1
      OBVIOUS
    <3>2. a \in 1 .. Len(x) + 1 /\ u \in a .. Len(x) + 1 /\ a - 1 = p - f /\ u - a = d
      BY <1>1, <1>2, <1>4, <2>4, <3>1
    <3>3. z = SubSeq(x, 1, a - 1) \o SubSeq(x, u, Len(x))
      BY <2>0, <3>1, <3>2
    <3>4. z \in Seq(Value) /\ IsCut(z, x, a, u)
      BY <2>4, <3>2, <3>3, CutOut
    <3> QED BY <3>1, <3>2, <3>4 DEF IsCut
  <2>7. ASSUME NEW n \in 1 .. Len(y) PROVE y[n] = z[n]
    <3>0. n \in 1 .. (e - d) - f /\ n \in 1 .. Len(z)
      BY <1>2, <1>4, <2>4, <2>5, <2>6
    <3>1. y[n] = c[f + n - 1].val
      BY <2>1, <3>0 DEF ValuesIn
    <3>2. f + n - 1 \in 1 .. m
      BY <1>1, <1>2, <1>4, <3>0
    <3>3. CASE n < p - f + 1
      <4>1. z[n] = x[n] /\ c[f + n - 1] = b[f + n - 1]
        <5>1. f + n - 1 < p
          BY <1>2, <3>0, <3>3
        <5>2. z[n] = x[n]
          BY <2>6, <3>0, <3>3
        <5>3. c[f + n - 1] = b[f + n - 1]
          BY <1>4, <3>2, <5>1
        <5> QED BY <5>2, <5>3
      <4>2. n \in 1 .. e - f
        BY <1>2, <1>4, <3>0
      <4>3. x[n] = b[f + n - 1].val
        BY <2>1, <4>2 DEF ValuesIn
      <4> QED BY <3>1, <4>1, <4>3
    <3>4. CASE n >= p - f + 1
      <4>1. PICK j : j = n + d
        OBVIOUS
      <4>2. j \in 1 .. e - f /\ (f + n - 1) + d = f + j - 1 /\ ~(n < p - f + 1) /\ ~(f + n - 1 < p)
        BY <1>2, <1>4, <3>0, <3>4, <4>1
      <4>3. z[n] = x[j]
        BY <2>6, <3>0, <4>1, <4>2
      <4>4. c[f + n - 1] = b[f + j - 1]
        BY <1>4, <3>2, <4>2
      <4>5. x[j] = b[f + j - 1].val
        BY <2>1, <4>2 DEF ValuesIn
      <4> QED BY <3>1, <4>3, <4>4, <4>5
    <3> QED BY <1>2, <3>0, <3>3, <3>4
  <2>8. Len(y) = Len(z)
    BY <1>2, <1>4, <2>4, <2>5, <2>6
  <2>9. y = z
    BY <2>5, <2>6, <2>7, <2>8, SeqEqual
  <2> QED BY <2>0, <2>3, <2>9
<1>6. ASSUME NEW l \in Key, l # k
      PROVE  ValuesOf(c)[l] = ValuesOf(b)[l]
  <2>1. CASE ~Has(b, l)
    <3>1. ASSUME NEW i \in 1 .. m PROVE c[i].key # l
      <4>1. \A j \in 1 .. Len(b) : b[j].key # l
        BY <1>1, <2>1 DEF Has
      <4>2. CASE i < p
        BY <1>1, <1>2, <1>4, <4>1, <4>2
      <4>3. CASE i >= p
        <5>1. i + d \in 1 .. Len(b) /\ c[i] = b[i + d]
          BY <1>1, <1>2, <1>4, <4>3
        <5> QED BY <4>1, <5>1
      <4> QED BY <1>2, <4>2, <4>3
    <3>2. IsRun(b, l, 1, 1) /\ IsRun(c, l, 1, 1)
      BY <1>1, <1>4, <2>1, <3>1, RunOf DEF IsRun
    <3>3. ValuesOf(b)[l] = ValuesIn(b, 1, 1) /\ ValuesOf(c)[l] = ValuesIn(c, 1, 1)
      BY <1>1, <1>4, <3>2, RunHasValues
    <3> QED BY <3>3 DEF ValuesIn
  <2>2. CASE Has(b, l)
    <3>1. PICK g, h : IsRun(b, l, g, h) /\ g < h
      BY <2>2, RunOf
    <3>2. g \in 1 .. Len(b) + 1 /\ h \in g .. Len(b) + 1
      BY <3>1 DEF IsRun
    <3>3. h <= f \/ e <= g
      BY <1>1, <1>6, <3>1, RunsApart
    <3>4. CASE h <= f
      <4>1. IsRun(c, l, g, h)
        <5> SUFFICES ASSUME NEW i \in 1 .. m
                     PROVE  c[i].key = l <=> g <= i /\ i < h
          BY <1>1, <1>2, <1>4, <3>2, <3>4 DEF IsRun
        <5>1. CASE i < p
          BY <1>1, <1>2, <1>4, <3>1, <5>1 DEF IsRun
        <5>2. CASE i >= p
          <6>1. i + d \in 1 .. Len(b) /\ ~(i + d < h) /\ ~(i < h) /\ c[i] = b[i + d]
            <7>1. i + d \in 1 .. Len(b) /\ c[i] = b[i + d]
              BY <1>1, <1>2, <1>4, <5>2
            <7>2. ~(i + d < h) /\ ~(i < h)
              BY <1>1, <1>2, <1>4, <3>2, <3>4, <5>2
            <7> QED BY <7>1, <7>2
          <6>2. b[i + d].key # l
            BY <3>1, <6>1 DEF IsRun
          <6> QED BY <6>1, <6>2
        <5> QED BY <1>2, <5>1, <5>2
      <4>2. ValuesOf(b)[l] = ValuesIn(b, g, h) /\ ValuesOf(c)[l] = ValuesIn(c, g, h)
        BY <1>1, <1>4, <3>1, <4>1, RunHasValues
      <4>3. ASSUME NEW n \in 1 .. h - g PROVE c[g + n - 1] = b[g + n - 1]
        <5>1. g + n - 1 \in 1 .. m /\ g + n - 1 < p
          BY <1>1, <1>2, <1>4, <3>2, <3>4
        <5> QED BY <1>4, <5>1
      <4> QED BY <4>2, <4>3 DEF ValuesIn
    <3>5. CASE e <= g
      <4>1. IsRun(c, l, g - d, h - d)
        <5> SUFFICES ASSUME NEW i \in 1 .. m
                     PROVE  c[i].key = l <=> g - d <= i /\ i < h - d
          BY <1>1, <1>2, <1>4, <3>2, <3>5 DEF IsRun
        <5>1. CASE i < p
          <6>1. i \in 1 .. Len(b) /\ c[i] = b[i] /\ ~(g <= i) /\ ~(g - d <= i)
            BY <1>1, <1>2, <1>4, <3>2, <3>5, <5>1
          <6> QED BY <3>1, <6>1 DEF IsRun
        <5>2. CASE i >= p
          <6>1. i + d \in 1 .. Len(b) /\ c[i] = b[i + d]
            BY <1>1, <1>2, <1>4, <5>2
          <6>2. b[i + d].key = l <=> g <= i + d /\ i + d < h
            BY <3>1, <6>1 DEF IsRun
          <6>3. (g <= i + d <=> g - d <= i) /\ (i + d < h <=> i < h - d)
            BY <1>4, <3>2
          <6> QED BY <6>1, <6>2, <6>3
        <5> QED BY <1>2, <5>1, <5>2
      <4>2. ValuesOf(b)[l] = ValuesIn(b, g, h) /\ ValuesOf(c)[l] = ValuesIn(c, g - d, h - d)
        BY <1>1, <1>4, <3>1, <4>1, RunHasValues
      <4>3. ASSUME NEW n \in 1 .. h - g PROVE c[(g - d) + n - 1] = b[g + n - 1]
        <5>1. PICK i : i = (g - d) + n - 1
          OBVIOUS
        <5>2. i \in 1 .. m /\ ~(i < p) /\ i + d = g + n - 1
          BY <1>1, <1>2, <1>4, <3>2, <3>5, <5>1
        <5> QED BY <1>4, <5>1, <5>2
      <4>4. (h - d) - (g - d) = h - g
        BY <1>4, <3>2
      <4> QED BY <4>2, <4>3, <4>4 DEF ValuesIn
    <3> QED BY <3>3, <3>4, <3>5
  <2> QED BY <2>1, <2>2
<1>7. ValuesOf(c) = [l \in Key |-> ValuesOf(c)[l]] /\ ValuesOf(b) = [l \in Key |-> ValuesOf(b)[l]]
  BY DEF ValuesOf
<1> QED BY <1>0, <1>5, <1>6, <1>7 DEF Lists

\* Another value in the last record of a run is another last value of its key.
LEMMA ListEndsWith ==
  ASSUME NEW b, Good(b), NEW k \in Key, NEW f, NEW e, IsRun(b, k, f, e), f < e,
         NEW v \in Value, NEW c \in Seq(Record), Len(c) = Len(b), c[e - 1].val = v,
         \A i \in 1 .. Len(b) : c[i].key = b[i].key /\ (i # e - 1 => c[i] = b[i])
  PROVE  Lists(b, c, k, Append(Front(ValuesOf(b)[k]), v))
<1>1. b \in Seq(Record) /\ Len(b) \in Nat
  BY DEF Good
<1>2. f \in 1 .. Len(b) + 1 /\ e \in f + 1 .. Len(b) + 1 /\ e - 1 \in 1 .. Len(b)
  BY <1>1 DEF IsRun
<1>3. /\ Len(c) = Len(b) /\ c[e - 1].val = v
      /\ \A i \in 1 .. Len(b) : c[i].key = b[i].key /\ (i # e - 1 => c[i] = b[i])
  OBVIOUS
<1>4. ASSUME NEW l \in Key
      PROVE  ValuesOf(c)[l] = IF l = k THEN Append(Front(ValuesOf(b)[l]), v) ELSE ValuesOf(b)[l]
  <2>1. PICK g, h : IsRun(b, l, g, h) /\ (l = k => g = f /\ h = e)
    BY RunOf
  <2>2. IsRun(c, l, g, h)
    BY <1>1, <1>3, <2>1 DEF IsRun
  <2>3. g \in 1 .. Len(b) + 1 /\ h \in g .. Len(b) + 1
    BY <2>1 DEF IsRun
  <2>4. ValuesOf(b)[l] = ValuesIn(b, g, h) /\ ValuesOf(c)[l] = ValuesIn(c, g, h)
    BY <1>1, <2>1, <2>2, RunHasValues
  <2>5. CASE l # k
    <3>1. ASSUME NEW n \in 1 .. h - g PROVE c[g + n - 1] = b[g + n - 1]
      <4>1. g + n - 1 \in 1 .. Len(b) /\ g <= g + n - 1 /\ g + n - 1 < h
        BY <1>1, <2>3, SMTT(20)
      <4>2. b[g + n - 1].key = l /\ b[e - 1].key = k
        BY <1>2, <2>1, <4>1, SMTT(20) DEF IsRun
      <4> QED BY <1>3, <2>5, <4>1, <4>2
    <3> QED BY <2>4, <2>5, <3>1 DEF ValuesIn
  <2>6. CASE l = k
    <3>1. PICK x, y, z : x = ValuesIn(b, f, e) /\ y = ValuesIn(c, f, e) /\ z = Append(Front(x), v)
      OBVIOUS
    <3>2. x \in Seq(Value) /\ Len(x) = e - f /\ y \in Seq(Value) /\ Len(y) = e - f
      BY <1>1, <1>2, <1>3, <2>1, <2>3, <2>6, <3>1, ValuesInIs
    <3>3. /\ Front(x) \in Seq(Value) /\ Len(Front(x)) = e - f - 1
          /\ \A n \in 1 .. e - f - 1 : Front(x)[n] = x[n]
      <4>1. PICK j : j = Len(x) - 1
        OBVIOUS
      <4>2. j \in Nat /\ j = e - f - 1 /\ \A n \in 1 .. j : x[n] \in Value
        BY <1>1, <1>2, <3>2, <4>1
      <4>3. /\ SubSeq(x, 1, j) \in Seq(Value) /\ Len(SubSeq(x, 1, j)) = (IF 1 <= j THEN j - 1 + 1 ELSE 0)
            /\ \A n \in 1 .. j - 1 + 1 : SubSeq(x, 1, j)[n] = x[1 + n - 1]
        BY <4>2, SubSeqProperties, SMTT(30)
      <4>4. Front(x) = SubSeq(x, 1, j)
        BY <4>1 DEF Front
      <4> QED BY <4>2, <4>3, <4>4
    <3>4. /\ z \in Seq(Value) /\ Len(z) = e - f
          /\ \A n \in 1 .. e - f - 1 : z[n] = x[n]
          /\ z[e - f] = v
      BY <1>1, <1>2, <3>1, <3>3, AppendProperties
    <3>5. ASSUME NEW n \in 1 .. e - f PROVE y[n] = z[n]
      <4>1. y[n] = c[f + n - 1].val /\ x[n] = b[f + n - 1].val
        BY <3>1 DEF ValuesIn
      <4>2. CASE n = e - f
        <5>1. f + n - 1 = e - 1
          BY <1>1, <1>2, <4>2
        <5> QED BY <1>3, <3>4, <4>1, <4>2, <5>1
      <4>3. CASE n # e - f
        <5>1. n \in 1 .. e - f - 1 /\ f + n - 1 \in 1 .. Len(b) /\ f + n - 1 # e - 1
          BY <1>1, <1>2, <4>3
        <5> QED BY <1>3, <3>4, <4>1, <5>1
      <4> QED BY <4>2, <4>3
    <3>6. y = z
      BY <3>2, <3>4, <3>5, SeqEqual
    <3> QED BY <2>1, <2>4, <2>6, <3>1, <3>6
  <2> QED BY <2>5, <2>6
<1>5. ValuesOf(c) = [l \in Key |-> ValuesOf(c)[l]] /\ ValuesOf(b) = [l \in Key |-> ValuesOf(b)[l]]
  BY DEF ValuesOf
<1> QED BY <1>4, <1>5 DEF Lists

\* A first value of a key.
LEMMA ListBegins ==
  ASSUME NEW b, Good(b), NEW k \in Key, NEW v \in Value, ~Has(b, k)
  PROVE  /\ ValuesOf(b)[k] = << >>
         /\ Lists(b, Append(b, [key |-> k, val |-> v]), k, <<v>>)
<1>1. PICK r, c, e : r = [key |-> k, val |-> v] /\ c = Append(b, r) /\ e = Len(b) + 1
  OBVIOUS
<1>2. b \in Seq(Record) /\ Len(b) \in Nat
  BY DEF Good
<1>3. r \in Record /\ r.key = k /\ r.val = v
  BY <1>1 DEF Record
<1>4. IsRun(b, r.key, e, e)
  BY <1>1, <1>3, RunOf
<1>5. /\ c \in Seq(Record) /\ Len(c) = Len(b) + 1
      /\ \A i \in 1 .. Len(b) : c[i] = b[i]
      /\ c[e] = r
  BY <1>1, <1>2, <1>3, AppendProperties
<1>6. 1 .. e - 1 = 1 .. Len(b) /\ e .. Len(b) = {} /\ e = Len(b) + 1
  BY <1>1, <1>2
<1>7. Lists(b, c, r.key, Append(ValuesOf(b)[r.key], r.val))
  BY <1>3, <1>4, <1>5, <1>6, ListGrows
<1>8. ValuesOf(b)[k] = << >>
  <2>1. ValuesOf(b)[k] = ValuesIn(b, e, e)
    BY <1>2, <1>3, <1>4, RunHasValues
  <2> QED BY <1>2, <1>6, <2>1 DEF ValuesIn
<1>9. Append(<< >>, v) = <<v>>
  OBVIOUS
<1> QED BY <1>1, <1>3, <1>7, <1>8, <1>9

\* Cutting out of a run cuts out of the list.
LEMMA ListCut ==
  ASSUME NEW b, Good(b), NEW k \in Key, NEW f, NEW e, IsRun(b, k, f, e), f < e,
         NEW p \in f .. e, NEW q \in p .. e
  PROVE  LET x == ValuesOf(b)[k]
         IN  Lists(b, SubSeq(b, 1, p - 1) \o SubSeq(b, q, Len(b)), k,
                   SubSeq(x, 1, p - f) \o SubSeq(x, q - f + 1, Len(x)))
<1>1. b \in Seq(Record) /\ Len(b) \in Nat
  BY DEF Good
<1>2. p \in 1 .. Len(b) + 1 /\ q \in p .. Len(b) + 1
  BY <1>1 DEF IsRun
<1>3. PICK c : c = SubSeq(b, 1, p - 1) \o SubSeq(b, q, Len(b))
  OBVIOUS
<1>4. c \in Seq(Record) /\ IsCut(c, b, p, q)
  BY <1>1, <1>2, <1>3, CutOut
<1> DEFINE x == ValuesOf(b)[k]
<1>5. Lists(b, c, k, SubSeq(x, 1, p - f) \o SubSeq(x, q - f + 1, Len(x)))
  BY <1>4, ListShrinks
<1> QED BY <1>3, <1>5

-----------------------------------------------------------------------------
(* The buffer implements the store.                                        *)

\* The version being saved.
Snap == IF ipc = "write" THEN ValuesOf(SubSeq(idleBuf, 1, idleLen)) ELSE NoSnap

\* A call that leaves b in the buffer.
LEMMA CallPuts ==
  ASSUME NEW b, Update(b)
  PROVE  buffer' = b /\ Snap' = Snap /\ ValuesOf(file)' = ValuesOf(file)
BY DEF Update, idleVars, Snap

\* A new last value.
LEMMA AddIsAdd ==
  ASSUME IInv, NEW k \in Key, NEW v \in Value, Add(k, v)
  PROVE  Store!Add(k, v)
<1> DEFINE r == [key |-> k, val |-> v]
<1>1. Good(buffer) /\ buffer \in Seq(Record) /\ Len(buffer) \in Nat
  BY DEF IInv, Good
<1>2. r \in Record /\ r.key = k /\ r.val = v
  BY DEF Record
<1>3. ASSUME NEW f, NEW e, IsRun(buffer, k, f, e), f < e \/ e = Len(buffer) + 1,
             NEW c, Update(c), IsInsert(c, buffer, e, r)
      PROVE  Store!Add(k, v)
  <2> HIDE DEF r
  <2>1. Lists(buffer, c, r.key, Append(ValuesOf(buffer)[r.key], r.val))
    BY <1>1, <1>2, <1>3, ListGrows DEF IsInsert
  <2> QED BY <1>2, <1>3, <2>1, CallPuts DEF Store!Add, Store!Put, Snap, Lists
<1>4. CASE Has(buffer, k)
  <2>1. PICK f, e : f = First(buffer, k) /\ e = RunEnd(buffer, k)
    OBVIOUS
  <2>2. IsRun(buffer, k, f, e) /\ f < e
    BY <1>1, <1>4, <2>1, RunOf
  <2>3. e \in 1 .. Len(buffer) + 1
    BY <1>1, <2>2 DEF IsRun
  <2>4. PICK c : c = InsertAt(buffer, e, r)
    OBVIOUS
  <2>5. Update(c)
    BY <1>4, <2>1, <2>4 DEF Add
  <2>6. IsInsert(c, buffer, e, r)
    BY <1>1, <1>2, <2>3, <2>4, InsertedRecords
  <2> HIDE DEF r
  <2> QED BY <1>3, <2>2, <2>5, <2>6
<1>5. CASE ~Has(buffer, k)
  <2>1. Update(Append(buffer, r))
    BY <1>5 DEF Add
  <2>2. /\ ValuesOf(buffer)[k] = << >>
        /\ Lists(buffer, Append(buffer, r), k, <<v>>)
    BY <1>1, <1>5, ListBegins
  <2>3. Append(<< >>, v) = <<v>>
    OBVIOUS
  <2> HIDE DEF r
  <2> QED BY <2>1, <2>2, <2>3, CallPuts DEF Store!Add, Store!Put, Snap, Lists
<1> QED BY <1>4, <1>5

\* A new value in place of the last one, or a first one.
LEMMA SetIsSet ==
  ASSUME IInv, NEW k \in Key, NEW v \in Value, Set(k, v)
  PROVE  Store!Set(k, v)
<1>1. Good(buffer) /\ buffer \in Seq(Record) /\ Len(buffer) \in Nat
  BY DEF IInv, Good
<1>2. CASE Has(buffer, k)
  <2>1. PICK f, e : f = First(buffer, k) /\ e = RunEnd(buffer, k)
    OBVIOUS
  <2>2. IsRun(buffer, k, f, e) /\ f < e
    BY <1>1, <1>2, <2>1, RunOf
  <2>3. e - 1 \in 1 .. Len(buffer) /\ e - f \in Nat \ {0}
    BY <1>1, <2>2 DEF IsRun
  <2>4. PICK c : c = [buffer EXCEPT ![e - 1].val = v]
    OBVIOUS
  <2>5. Update(c)
    BY <1>2, <2>1, <2>4 DEF Set
  <2>6. c \in Seq(Record)
    BY <1>1, <2>4, ReplaceIsGood DEF Good
  <2>7. Len(c) = Len(buffer) /\ c[e - 1].val = v
        /\ \A i \in 1 .. Len(buffer) : c[i].key = buffer[i].key /\ (i # e - 1 => c[i] = buffer[i])
    <3>1. Len(c) = Len(buffer)
      BY <1>1, <2>4
    <3>2. \A i \in 1 .. Len(buffer) : c[i] = IF i = e - 1 THEN [buffer[i] EXCEPT !.val = v] ELSE buffer[i]
      BY <1>1, <2>4
    <3>3. \A i \in 1 .. Len(buffer) : buffer[i] \in Record
      BY <1>1
    <3>4. \A x \in Record : [x EXCEPT !.val = v].key = x.key /\ [x EXCEPT !.val = v].val = v
      BY DEF Record
    <3> QED BY <2>3, <3>1, <3>2, <3>3, <3>4
  <2>8. Lists(buffer, c, k, Append(Front(ValuesOf(buffer)[k]), v))
    BY <1>1, <2>2, <2>6, <2>7, ListEndsWith
  <2>9. ValuesOf(buffer)[k] # << >>
    <3>1. ValuesOf(buffer)[k] = ValuesIn(buffer, f, e)
      BY <1>1, <2>2, RunHasValues
    <3>2. Len(ValuesIn(buffer, f, e)) = e - f
      BY <1>1, <2>2, ValuesInIs DEF IsRun
    <3> QED BY <2>3, <3>1, <3>2
  <2> QED BY <2>5, <2>8, <2>9, CallPuts DEF Store!Set, Store!Put, Store!Front, Front, Snap, Lists
<1>3. CASE ~Has(buffer, k)
  <2>1. PICK c : c = Append(buffer, [key |-> k, val |-> v])
    OBVIOUS
  <2>2. Update(c)
    BY <1>3, <2>1 DEF Set
  <2>3. ValuesOf(buffer)[k] = << >> /\ Lists(buffer, c, k, <<v>>)
    BY <1>1, <1>3, <2>1, ListBegins
  <2> QED BY <2>2, <2>3, CallPuts DEF Store!Set, Store!Put, Snap, Lists
<1> QED BY <1>2, <1>3

\* A value less, or none.
LEMMA DeleteIsDelete ==
  ASSUME IInv, NEW k \in Key, NEW i \in Index, Delete(k, i)
  PROVE  Store!DeleteAll(k) \/ \E n \in DOMAIN ValuesOf(buffer)[k] : Store!Delete(k, n)
<1>1. Good(buffer) /\ buffer \in Seq(Record) /\ Len(buffer) \in Nat /\ i \in Int /\ Has(buffer, k)
  BY SettingsAssumption DEF IInv, Good, Index, Delete
<1>2. PICK f, e : f = First(buffer, k) /\ e = RunEnd(buffer, k)
  OBVIOUS
<1>3. IsRun(buffer, k, f, e) /\ f < e
  BY <1>1, <1>2, RunOf
<1>4. f \in 1 .. Len(buffer) /\ e \in f + 1 .. Len(buffer) + 1
  BY <1>1, <1>3 DEF IsRun
<1>5. PICK x : x = ValuesOf(buffer)[k]
  OBVIOUS
<1>6. x \in Seq(Value) /\ Len(x) = e - f
  <2>1. x = ValuesIn(buffer, f, e)
    BY <1>1, <1>3, <1>5, RunHasValues
  <2>2. f \in 1 .. Len(buffer) + 1 /\ e \in f .. Len(buffer) + 1
    BY <1>4
  <2> QED BY <1>1, <2>1, <2>2, ValuesInIs
<1>7. ASSUME NEW p \in f .. e, NEW q \in p .. e,
             Update(SubSeq(buffer, 1, p - 1) \o SubSeq(buffer, q, Len(buffer)))
      PROVE  Store!Put(k, SubSeq(x, 1, p - f) \o SubSeq(x, q - f + 1, Len(x)))
  <2>1. PICK c : c = SubSeq(buffer, 1, p - 1) \o SubSeq(buffer, q, Len(buffer))
    OBVIOUS
  <2>4. Lists(buffer, c, k, SubSeq(x, 1, p - f) \o SubSeq(x, q - f + 1, Len(x)))
    BY <1>1, <1>3, <1>5, <2>1, ListCut
  <2>5. Update(c)
    BY <1>7, <2>1
  <2> QED BY <1>5, <2>4, <2>5, CallPuts DEF Store!Put, Snap, Lists
<1>8. CASE f + i \in f .. e - 1
  <2>1. PICK p, q : p = f + i /\ q = p + 1
    OBVIOUS
  <2>2. p \in f .. e /\ q \in p .. e /\ p - f = i /\ q - f + 1 = i + 2 /\ i + 1 \in 1 .. Len(x)
    BY <1>1, <1>4, <1>6, <1>8, <2>1
  <2>3. Update(SubSeq(buffer, 1, p - 1) \o SubSeq(buffer, q, Len(buffer)))
    BY <1>2, <1>8, <2>1 DEF Delete, RemoveAt
  <2>4. Store!Put(k, SubSeq(x, 1, p - f) \o SubSeq(x, q - f + 1, Len(x)))
    BY <1>7, <2>2, <2>3
  <2>5. RemoveAt(x, i + 1) = SubSeq(x, 1, i) \o SubSeq(x, i + 2, Len(x))
    <3>1. (i + 1) - 1 = i /\ (i + 1) + 1 = i + 2
      BY <1>1
    <3> QED BY <3>1 DEF RemoveAt
  <2>6. Store!Put(k, RemoveAt(x, i + 1))
    BY <2>2, <2>4, <2>5
  <2>7. i + 1 \in DOMAIN ValuesOf(buffer)[k]
    BY <1>5, <1>6, <2>2
  <2>8. Store!Delete(k, i + 1)
    BY <1>5, <2>6, <2>7 DEF Store!Delete, Store!RemoveAt, RemoveAt
  <2> QED BY <2>7, <2>8
<1>9. CASE f + i \notin f .. e - 1
  <2>1. Update(SubSeq(buffer, 1, f - 1) \o SubSeq(buffer, e, Len(buffer)))
    BY <1>2, <1>9 DEF Delete
  <2>2. Store!Put(k, SubSeq(x, 1, f - f) \o SubSeq(x, e - f + 1, Len(x)))
    BY <1>4, <1>7, <2>1
  <2>3. SubSeq(x, 1, f - f) = << >> /\ SubSeq(x, e - f + 1, Len(x)) = << >>
    BY <1>4, <1>6, SubSeqEmpty
  <2>4. << >> \o << >> = << >>
    OBVIOUS
  <2> QED BY <2>2, <2>3, <2>4 DEF Store!DeleteAll
<1> QED BY <1>8, <1>9

\* An empty buffer has no values.
LEMMA NoValues == ValuesOf(<< >>) = Store!Empty
<1>1. ASSUME NEW k \in Key PROVE ValuesOf(<< >>)[k] = << >>
  <2>1. PICK b : b = << >>
    OBVIOUS
  <2>2. b \in Seq(Record) /\ IsRun(b, k, 1, 1)
    BY <2>1 DEF IsRun
  <2>3. ValuesOf(b)[k] = ValuesIn(b, 1, 1)
    BY <2>2, RunHasValues
  <2> QED BY <2>1, <2>3 DEF ValuesIn
<1>2. ValuesOf(<< >>) = [k \in Key |-> ValuesOf(<< >>)[k]]
  BY DEF ValuesOf
<1> QED BY <1>1, <1>2 DEF Store!Empty

\* Every step is one of the store, or none.
LEMMA StepIsStoreStep == IInv /\ [Next]_vars => [Store!Next]_(Store!svars)
<1> SUFFICES ASSUME IInv, [Next]_vars PROVE [Store!Next]_(Store!svars)
  OBVIOUS
<1>0. ASSUME ValuesOf(buffer)' = ValuesOf(buffer), Snap' = Snap, ValuesOf(file)' = ValuesOf(file)
      PROVE  UNCHANGED Store!svars
  BY <1>0 DEF Store!svars, Snap
<1>1. ASSUME NEW k \in Key, NEW v \in Value, Add(k, v) \/ Set(k, v)
      PROVE  Store!Next
  BY <1>1, AddIsAdd, SetIsSet DEF Store!Next
<1>2. ASSUME NEW k \in Key, NEW i \in Index, Delete(k, i)
      PROVE  Store!Next
  BY <1>2, DeleteIsDelete DEF Store!Next
<1>3. CASE Wipe
  <2>1. Update(<< >>)
    BY <1>3 DEF Wipe
  <2>2. ValuesOf(buffer)' = Store!Empty /\ Snap' = Snap /\ ValuesOf(file)' = ValuesOf(file)
    BY <2>1, CallPuts, NoValues
  <2> QED BY <2>2 DEF Store!Next, Store!Wipe, Snap
<1>4. CASE Reset
  BY <1>0, <1>4 DEF Reset, idleVars, Snap
<1>5. CASE IdleTest \/ IdleClear \/ IdleLock \/ IdleLen \/ IdleReset
  <2>1. UNCHANGED <<buffer, file>> /\ ipc # "write" /\ ipc' # "write"
    BY <1>5 DEF IdleTest, IdleClear, IdleLock, IdleLen, IdleReset, Goes, Saved
  <2> QED BY <1>0, <2>1 DEF Snap
<1>6. CASE IdleBytes
  <2>1. ipc' = "write" /\ UNCHANGED <<buffer, file, idleLen>>
        /\ idleBuf' = buffer \o SubSeq(idleBuf, Len(buffer) + 1, Len(idleBuf))
    BY <1>6 DEF IdleBytes, Goes
  <2>2. idleLen = Len(buffer) /\ buffer \in Seq(Record) /\ idleBuf \in Seq(Record)
    BY <1>6 DEF IInv, SaveInv, IdleBytes, Good
  <2>3. SubSeq(idleBuf', 1, idleLen') = buffer
    BY <2>1, <2>2, CopyIsBuffer
  <2>4. Store!Snapshot
    BY <2>1, <2>3 DEF Store!Snapshot
  <2> QED BY <2>4 DEF Store!Next
<1>7. CASE IdleWrite
  <2>1. /\ ipc = "write" /\ ipc' # "write" /\ buffer' = buffer
        /\ file' = SubSeq(idleBuf, 1, idleLen)
    BY <1>7 DEF IdleWrite, Goes, Saved
  <2>2. ValuesOf(SubSeq(idleBuf, 1, idleLen)) # NoSnap
    BY <2>1, ListsOfValues, SettingsAssumption DEF IInv
  <2>3. Store!Persist
    BY <2>1, <2>2 DEF Store!Persist
  <2> QED BY <2>3 DEF Store!Next
<1>8. CASE Restart
  <2>1. buffer' = file /\ file' = file /\ ipc' = "test"
    BY <1>8 DEF Restart
  <2>2. Store!Restart
    BY <2>1 DEF Store!Restart
  <2> QED BY <2>2 DEF Store!Next
<1>9. CASE UNCHANGED vars
  BY <1>0, <1>9 DEF vars, idleVars, Snap
<1> QED
  BY <1>1, <1>2, <1>3, <1>4, <1>5, <1>6, <1>7, <1>8, <1>9
     DEF Next, OtCall, IdleStep, SystemReset, PowerLoss

\* The buffer of records with its lazy save is a store of lists of values: each
\* call, save, reset and power loss does to the lists what SettingsStore says, or
\* nothing, and the file is always a complete version of them.
THEOREM SettingsImplementStore == Spec => ImplementsStore
<1>1. Init => Store!Init
  <2> SUFFICES ASSUME Init PROVE Store!Init
    OBVIOUS
  <2>1. buffer = << >> /\ file = << >> /\ ipc = "test"
    BY DEF Init
  <2> QED BY <2>1, NoValues DEF Store!Init
<1>2. IInv /\ [Next]_vars => [Store!Next]_(Store!svars)
  BY StepIsStoreStep
<1> QED BY <1>1, <1>2, IInvHolds, PTL DEF Spec, ImplementsStore, Store!Spec

-----------------------------------------------------------------------------
(* The bytes of the records.                                               *)

\* t[i] is the number of bytes of the first i of m records, each of which has some.
IsTotals(t, b, m) ==
  /\ t[0] = 0 /\ \A i \in 0 .. m : t[i] \in Nat
  /\ \A i \in 1 .. m : t[i] = t[i - 1] + Size(b[i].val)
  /\ \A i \in 1 .. m : Size(b[i].val) \in Nat /\ Size(b[i].val) >= 1

\* A record has bytes.
LEMMA SizeIsPositive == \A r \in Record : Size(r.val) \in Nat /\ Size(r.val) >= 1
<1> TAKE r \in Record
<1>1. r.val \in Value
  BY DEF Record
<1>2. Value \subseteq Nat \ {0} /\ Header \in Nat \ {0}
  BY SettingsAssumption, Zenon
<1>3. Header \in Nat /\ Header >= 1
  BY <1>2
<1>4. r.val \in Nat
  BY <1>1, <1>2, Zenon
<1> QED BY <1>3, <1>4 DEF Size

\* The length of a buffer is the last of its totals.
LEMMA TotalsExist ==
  ASSUME NEW b \in Seq(Record), NEW m, m = Len(b)
  PROVE  \E t : IsTotals(t, b, m) /\ t[m] = RecordLen(b)
<1>1. m \in Nat /\ \A i \in 1 .. m : Size(b[i].val) \in Nat /\ Size(b[i].val) >= 1
  <2>1. \A i \in 1 .. m : b[i] \in Record
    OBVIOUS
  <2> QED BY <2>1, SizeIsPositive
<1> DEFINE s(n) == [i \in 1 .. n |-> Size(b[i].val)]
           T(n) == SumFunction(s(n))
<1>2. \A n \in 0 .. m : s(n) \in [1 .. n -> Int]
  BY <1>1
<1>3. T(0) = 0
  <2>1. s(0) \in [1 .. 0 -> Int]
    BY <1>1, <1>2
  <2> HIDE DEF s
  <2> QED BY <2>1, SumOfNone
<1>4. ASSUME NEW n \in 0 .. m - 1
      PROVE  T(n + 1) = T(n) + Size(b[n + 1].val)
  <2>1. n \in Nat /\ n \in 0 .. m /\ n + 1 \in 0 .. m /\ n + 1 \in 1 .. n + 1
    BY <1>1
  <2>2. s(n) \in [1 .. n -> Int] /\ s(n + 1) \in [1 .. n + 1 -> Int]
    BY <1>2, <2>1
  <2>3. \A i \in 1 .. n : s(n + 1)[i] = s(n)[i]
    BY <2>1
  <2>4. s(n + 1)[n + 1] = Size(b[n + 1].val)
    BY <2>1
  <2> HIDE DEF s
  <2> QED BY <2>1, <2>2, <2>3, <2>4, SumOfOneMore
<1> DEFINE H == {n \in Nat : n <= m => T(n) \in Nat}
<1>5. 0 \in H
  BY <1>3
<1>6. ASSUME NEW n \in Nat, n \in H PROVE n + 1 \in H
  <2> SUFFICES ASSUME n + 1 <= m PROVE T(n + 1) \in Nat
    OBVIOUS
  <2>1. n \in 0 .. m - 1 /\ n + 1 \in 1 .. m /\ T(n) \in Nat
    BY <1>1, <1>6
  <2> HIDE DEF T, s
  <2> QED BY <1>1, <1>4, <2>1
<1>7. \A n \in Nat : n \in H
  <2> HIDE DEF H
  <2> QED BY <1>5, <1>6, SetInduction
<1>8. \A n \in 0 .. m : T(n) \in Nat
  BY <1>1, <1>7
<1>9. T(m) = RecordLen(b)
  <2>1. DOMAIN b = 1 .. m
    OBVIOUS
  <2> QED BY <2>1 DEF RecordLen
<1> HIDE DEF T
<1> DEFINE t == [n \in 0 .. m |-> T(n)]
<1>10. t \in [0 .. m -> Nat] /\ t[0] = 0 /\ t[m] = T(m)
  BY <1>1, <1>3, <1>8
<1>11. ASSUME NEW i \in 1 .. m PROVE t[i] = t[i - 1] + Size(b[i].val)
  <2>1. i - 1 \in 0 .. m - 1 /\ (i - 1) + 1 = i /\ i \in 0 .. m /\ i - 1 \in 0 .. m
    BY <1>1
  <2>2. T(i) = T(i - 1) + Size(b[i].val)
    BY <1>4, <2>1
  <2> QED BY <2>1, <2>2
<1>12. IsTotals(t, b, m)
  <2> HIDE DEF t
  <2> QED BY <1>1, <1>10, <1>11 DEF IsTotals
<1> QED BY <1>9, <1>10, <1>12

\* Totals grow, by at least one byte a record.
LEMMA TotalsGrow ==
  ASSUME NEW b, NEW m \in Nat, NEW t, IsTotals(t, b, m), NEW i \in 0 .. m
  PROVE  \A n \in Nat : i + n <= m => t[i] + n <= t[i + n]
<1>1. /\ \A j \in 0 .. m : t[j] \in Nat
      /\ \A j \in 1 .. m : t[j] = t[j - 1] + Size(b[j].val)
      /\ \A j \in 1 .. m : Size(b[j].val) \in Nat /\ Size(b[j].val) >= 1
  BY DEF IsTotals
<1> DEFINE H == {n \in Nat : i + n <= m => t[i] + n <= t[i + n]}
<1>2. 0 \in H
  BY <1>1
<1>3. ASSUME NEW n \in Nat, n \in H PROVE n + 1 \in H
  <2> SUFFICES ASSUME i + (n + 1) <= m PROVE t[i] + (n + 1) <= t[i + (n + 1)]
    OBVIOUS
  <2>1. PICK j : j = i + n
    OBVIOUS
  <2>2. j \in 0 .. m /\ j + 1 \in 1 .. m /\ (j + 1) - 1 = j /\ i + (n + 1) = j + 1 /\ t[i] + n <= t[j]
    BY <1>1, <1>3, <2>1
  <2>3. /\ t[j + 1] = t[j] + Size(b[j + 1].val) /\ Size(b[j + 1].val) \in Nat
        /\ Size(b[j + 1].val) >= 1 /\ t[j] \in Nat /\ t[i] \in Nat
    BY <1>1, <2>2
  <2>4. PICK x, y, z : x = t[i] /\ y = t[j] /\ z = Size(b[j + 1].val)
    OBVIOUS
  <2>5. x \in Nat /\ y \in Nat /\ z \in Nat /\ z >= 1 /\ x + n <= y /\ t[j + 1] = y + z
    BY <2>2, <2>3, <2>4
  <2>6. x + (n + 1) <= y + z
    BY <2>5
  <2> QED BY <2>2, <2>4, <2>5, <2>6
<1>4. \A n \in Nat : n \in H
  <2> HIDE DEF H
  <2> QED BY <1>2, <1>3, SetInduction
<1> QED BY <1>4

\* A buffer has at least one byte for each record.
LEMMA BytesPerRecord ==
  ASSUME NEW b \in Seq(Record)
  PROVE  RecordLen(b) \in Nat /\ Len(b) <= RecordLen(b) /\ (Len(b) = 0 => RecordLen(b) = 0)
<1>1. PICK m : m = Len(b) /\ m \in Nat
  OBVIOUS
<1>2. PICK t : IsTotals(t, b, m) /\ t[m] = RecordLen(b)
  BY <1>1, TotalsExist
<1>3. t[0] = 0 /\ t[m] \in Nat /\ 0 \in 0 .. m /\ 0 + m = m
  BY <1>1, <1>2 DEF IsTotals
<1>4. t[0] + m <= t[0 + m]
  <2>1. \A n \in Nat : 0 + n <= m => t[0] + n <= t[0 + n]
    BY <1>1, <1>2, <1>3, TotalsGrow
  <2> QED BY <1>1, <2>1
<1> QED BY <1>1, <1>2, <1>3, <1>4

\* A record more adds its bytes.
LEMMA InsertedBytes ==
  ASSUME NEW b \in Seq(Record), NEW e \in 1 .. Len(b) + 1, NEW r \in Record, NEW c, IsInsert(c, b, e, r)
  PROVE  RecordLen(c) = RecordLen(b) + Size(r.val)
<1>0. PICK m, s : m = Len(b) /\ s = Size(r.val)
  OBVIOUS
<1>1. /\ m \in Nat /\ s \in Nat /\ e \in 1 .. m + 1 /\ c \in Seq(Record) /\ Len(c) = m + 1
      /\ \A i \in 1 .. e - 1 : c[i] = b[i]
      /\ c[e] = r
      /\ \A i \in e .. m : c[i + 1] = b[i]
  BY <1>0, SizeIsPositive DEF IsInsert
<1>2. PICK t, u : /\ IsTotals(t, b, m) /\ t[m] = RecordLen(b)
                  /\ IsTotals(u, c, m + 1) /\ u[m + 1] = RecordLen(c)
  BY <1>0, <1>1, TotalsExist
<1>3. /\ t[0] = 0 /\ u[0] = 0
      /\ \A i \in 0 .. m : t[i] \in Nat
      /\ \A i \in 0 .. m + 1 : u[i] \in Nat
      /\ \A i \in 1 .. m : t[i] = t[i - 1] + Size(b[i].val)
      /\ \A i \in 1 .. m + 1 : u[i] = u[i - 1] + Size(c[i].val)
      /\ \A i \in 1 .. m : Size(b[i].val) \in Nat
  BY <1>2 DEF IsTotals
<1>4. u[e] = u[e - 1] + s
  BY <1>0, <1>1, <1>3
<1> DEFINE H == {i \in Nat : i <= m => /\ i < e => u[i] = t[i]
                                       /\ i >= e - 1 => u[i + 1] = t[i] + s}
<1>5. 0 \in H
  <2>1. 0 >= e - 1 => e = 1
    BY <1>1
  <2> QED BY <1>1, <1>3, <1>4, <2>1, SMTT(20)
<1>6. ASSUME NEW i \in Nat, i \in H PROVE i + 1 \in H
  <2> SUFFICES ASSUME i + 1 <= m
               PROVE  /\ i + 1 < e => u[i + 1] = t[i + 1]
                      /\ i + 1 >= e - 1 => u[(i + 1) + 1] = t[i + 1] + s
    OBVIOUS
  <2>0. PICK j : j = i + 1
    OBVIOUS
  <2>1. /\ j \in 1 .. m /\ j - 1 = i /\ j + 1 \in 1 .. m + 1 /\ (j + 1) - 1 = j
        /\ i < e => u[i] = t[i]
        /\ i >= e - 1 => u[j] = t[i] + s
    BY <1>1, <1>6, <2>0
  <2>2. t[j] = t[i] + Size(b[j].val) /\ t[j] \in Nat /\ t[i] \in Nat /\ Size(b[j].val) \in Nat
    BY <1>1, <1>3, <2>1, SMTT(20)
  <2>3. j < e => u[j] = t[j]
    <3> SUFFICES ASSUME j < e PROVE u[j] = t[j]
      OBVIOUS
    <3>1. u[j] = u[i] + Size(c[j].val) /\ c[j] = b[j]
      <4>1. j \in 1 .. e - 1 /\ j \in 1 .. m + 1
        BY <1>1, <2>1
      <4> QED BY <1>1, <1>3, <2>1, <4>1
    <3> QED BY <2>1, <2>2, <3>1
  <2>4. j >= e - 1 => u[j + 1] = t[j] + s
    <3>1. CASE j = e - 1
      <4>1. j < e /\ j + 1 = e
        BY <1>1, <2>1, <3>1
      <4> QED BY <1>4, <2>3, <3>1, <4>1
    <3>2. CASE j >= e
      <4>1. u[j + 1] = u[j] + Size(c[j + 1].val) /\ c[j + 1] = b[j]
        BY <1>1, <1>3, <2>1, <3>2
      <4>2. u[j + 1] = (t[i] + s) + Size(b[j].val)
        <5>1. i >= e - 1
          BY <1>1, <2>1, <3>2
        <5> QED BY <2>1, <4>1, <5>1
      <4> QED BY <1>1, <2>2, <4>2
    <3> QED BY <1>1, <2>1, <3>1, <3>2
  <2> QED BY <2>0, <2>3, <2>4
<1>7. \A i \in Nat : i \in H
  <2> HIDE DEF H
  <2> QED BY <1>5, <1>6, SetInduction
<1>8. u[m + 1] = t[m] + s
  BY <1>1, <1>7
<1> QED BY <1>0, <1>2, <1>8

\* Another record in the place of one changes the length by the difference.
LEMMA ReplacedBytes ==
  ASSUME NEW b \in Seq(Record), NEW l \in 1 .. Len(b), NEW r \in Record,
         NEW c \in Seq(Record), Len(c) = Len(b), c[l] = r, \A i \in 1 .. Len(b) : i # l => c[i] = b[i]
  PROVE  RecordLen(c) + Size(b[l].val) = RecordLen(b) + Size(r.val)
<1>0. PICK m, s, o : m = Len(b) /\ s = Size(r.val) /\ o = Size(b[l].val)
  OBVIOUS
<1>1. /\ m \in Nat /\ s \in Nat /\ o \in Nat /\ l \in 1 .. m /\ Len(c) = m
      /\ \A i \in 1 .. m : i # l => c[i] = b[i]
  BY <1>0, SizeIsPositive
<1>2. PICK t, u : /\ IsTotals(t, b, m) /\ t[m] = RecordLen(b)
                  /\ IsTotals(u, c, m) /\ u[m] = RecordLen(c)
  BY <1>0, <1>1, TotalsExist
<1>3. /\ t[0] = 0 /\ u[0] = 0
      /\ \A i \in 0 .. m : t[i] \in Nat /\ u[i] \in Nat
      /\ \A i \in 1 .. m : t[i] = t[i - 1] + Size(b[i].val)
      /\ \A i \in 1 .. m : u[i] = u[i - 1] + Size(c[i].val)
      /\ \A i \in 1 .. m : Size(b[i].val) \in Nat
  BY <1>2 DEF IsTotals
<1> DEFINE H == {i \in Nat : i <= m => /\ i < l => u[i] = t[i]
                                       /\ i >= l => u[i] + o = t[i] + s}
<1>4. 0 \in H
  BY <1>1, <1>3
<1>5. ASSUME NEW i \in Nat, i \in H PROVE i + 1 \in H
  <2>0. PICK j : j = i + 1
    OBVIOUS
  <2> SUFFICES ASSUME j <= m PROVE (j < l => u[j] = t[j]) /\ (j >= l => u[j] + o = t[j] + s)
    BY <2>0
  <2>1. /\ j \in 1 .. m /\ j - 1 = i /\ i \in 0 .. m
        /\ i < l => u[i] = t[i]
        /\ i >= l => u[i] + o = t[i] + s
    BY <1>1, <1>5, <2>0
  <2>2. /\ t[j] = t[i] + Size(b[j].val) /\ u[j] = u[i] + Size(c[j].val)
        /\ t[i] \in Nat /\ u[i] \in Nat /\ Size(b[j].val) \in Nat
    BY <1>1, <1>3, <2>1
  <2>3. CASE j = l
    <3>1. Size(b[j].val) = o /\ Size(c[j].val) = s
      BY <1>0, <2>3
    <3> QED BY <1>1, <2>1, <2>2, <2>3, <3>1
  <2>4. CASE j # l
    <3>1. c[j] = b[j]
      BY <1>1, <2>1, <2>4
    <3>2. u[j] = u[i] + Size(b[j].val)
      BY <2>2, <3>1
    <3>3. (j < l => i < l) /\ (j >= l => i >= l)
      BY <1>1, <2>1, <2>4
    <3>4. PICK x, y, z : x = t[i] /\ y = u[i] /\ z = Size(b[j].val)
      OBVIOUS
    <3>5. x \in Nat /\ y \in Nat /\ z \in Nat /\ t[j] = x + z /\ u[j] = y + z
      BY <2>2, <3>2, <3>4
    <3>6. (i < l => y = x) /\ (i >= l => y + o = x + s)
      BY <2>1, <3>4
    <3>7. (i < l => y + z = x + z) /\ (i >= l => (y + z) + o = (x + z) + s)
      <4>1. o \in Nat /\ s \in Nat
        BY <1>1
      <4>2. y + o = x + s => (y + z) + o = (x + z) + s
        BY <3>5, <4>1
      <4> QED BY <3>6, <4>2
    <3> QED BY <3>3, <3>5, <3>7
  <2> QED BY <2>3, <2>4
<1>6. \A i \in Nat : i \in H
  <2> HIDE DEF H
  <2> QED BY <1>4, <1>5, SetInduction
<1>7. u[m] + o = t[m] + s
  BY <1>1, <1>6
<1> QED BY <1>0, <1>2, <1>7

\* What is left when records are cut out is not longer.
LEMMA CutBytes ==
  ASSUME NEW b \in Seq(Record), NEW p \in 1 .. Len(b) + 1, NEW q \in p .. Len(b) + 1,
         NEW c \in Seq(Record), IsCut(c, b, p, q)
  PROVE  RecordLen(c) <= RecordLen(b)
<1>0. PICK m, d, n : m = Len(b) /\ d = q - p /\ n = Len(c)
  OBVIOUS
<1>1. /\ m \in Nat /\ d \in Nat /\ n \in Nat /\ n = m - d /\ p \in 1 .. n + 1 /\ n + d = m
      /\ \A i \in 1 .. n : c[i] = IF i < p THEN b[i] ELSE b[i + d]
  <2>1. m \in Nat /\ n \in Nat /\ p \in 1 .. m + 1 /\ q \in p .. m + 1
    BY <1>0
  <2>2. n = m - d /\ \A i \in 1 .. n : c[i] = IF i < p THEN b[i] ELSE b[i + d]
    BY <1>0 DEF IsCut
  <2> QED BY <1>0, <2>1, <2>2
<1>2. PICK t, u : /\ IsTotals(t, b, m) /\ t[m] = RecordLen(b)
                  /\ IsTotals(u, c, n) /\ u[n] = RecordLen(c)
  BY <1>0, TotalsExist
<1>3. /\ t[0] = 0 /\ u[0] = 0
      /\ \A i \in 0 .. m : t[i] \in Nat
      /\ \A i \in 0 .. n : u[i] \in Nat
      /\ \A i \in 1 .. m : t[i] = t[i - 1] + Size(b[i].val)
      /\ \A i \in 1 .. n : u[i] = u[i - 1] + Size(c[i].val)
      /\ \A i \in 1 .. m : Size(b[i].val) \in Nat
  BY <1>2 DEF IsTotals
<1>4. \A i \in 0 .. n : t[i] <= t[i + d]
  <2> TAKE i \in 0 .. n
  <2>1. i \in 0 .. m /\ i + d <= m /\ i + d \in 0 .. m
    BY <1>1
  <2>2. t[i] + d <= t[i + d]
    BY <1>1, <1>2, <2>1, TotalsGrow
  <2>3. t[i] \in Nat /\ t[i + d] \in Nat
    BY <1>3, <2>1
  <2>4. PICK x, y : x = t[i] /\ y = t[i + d]
    OBVIOUS
  <2>5. x \in Nat /\ y \in Nat /\ x + d <= y
    BY <2>2, <2>3, <2>4
  <2>6. x <= y
    BY <1>1, <2>5
  <2> QED BY <2>4, <2>6
<1> DEFINE H == {i \in Nat : i <= n => u[i] <= t[i + d] /\ (i < p => u[i] = t[i])}
<1>5. 0 \in H
  <2>1. t[0] <= t[0 + d]
    BY <1>1, <1>4
  <2> QED BY <1>3, <2>1
<1>6. ASSUME NEW i \in Nat, i \in H PROVE i + 1 \in H
  <2>0. PICK j, k : j = i + 1 /\ k = i + d
    OBVIOUS
  <2> SUFFICES ASSUME j <= n PROVE u[j] <= t[j + d] /\ (j < p => u[j] = t[j])
    BY <2>0
  <2>1. /\ j \in 1 .. n /\ j - 1 = i /\ i \in 0 .. n /\ j + d = k + 1 /\ k \in 0 .. m
        /\ j \in 1 .. m /\ k + 1 \in 1 .. m /\ (k + 1) - 1 = k /\ i \in 0 .. m
        /\ u[i] <= t[k] /\ (i < p => u[i] = t[i])
    <3>1. i <= n /\ (j + d = k + 1)
      BY <1>1, <2>0
    <3>2. u[i] <= t[k] /\ (i < p => u[i] = t[i])
      BY <1>6, <2>0, <3>1
    <3> QED BY <1>1, <2>0, <3>1, <3>2
  <2>2. /\ u[j] = u[i] + Size(c[j].val) /\ t[j] = t[i] + Size(b[j].val)
        /\ t[k + 1] = t[k] + Size(b[k + 1].val)
    BY <1>3, <2>1
  <2>3. CASE j < p
    <3>1. c[j] = b[j] /\ i < p
      BY <1>1, <2>1, <2>3
    <3>2. u[j] = t[j]
      BY <2>1, <2>2, <3>1
    <3>3. t[j] <= t[j + d]
      BY <1>4, <2>1
    <3> QED BY <3>2, <3>3
  <2>4. CASE ~(j < p)
    <3>1. c[j] = b[k + 1]
      BY <1>1, <2>1, <2>4
    <3>2. u[i] \in Nat /\ t[k] \in Nat /\ Size(b[k + 1].val) \in Nat
      BY <1>3, <2>1
    <3>3. u[j] <= t[k + 1]
      <4>1. PICK x, y, z : x = u[i] /\ y = t[k] /\ z = Size(b[k + 1].val)
        OBVIOUS
      <4>2. x \in Nat /\ y \in Nat /\ z \in Nat /\ x <= y
        BY <2>1, <3>2, <4>1
      <4>3. u[j] = x + z /\ t[k + 1] = y + z
        BY <2>2, <3>1, <4>1
      <4> QED BY <4>2, <4>3
    <3> QED BY <2>1, <2>4, <3>3
  <2> QED BY <2>3, <2>4
<1>7. \A i \in Nat : i \in H
  <2> HIDE DEF H
  <2> QED BY <1>5, <1>6, SetInduction
<1>8. u[n] <= t[n + d]
  <2>1. n \in H /\ n <= n
    BY <1>1, <1>7
  <2> QED BY <2>1
<1> QED BY <1>1, <1>2, <1>8

\* Append puts a record at the end.
LEMMA AppendedRecord ==
  ASSUME NEW b \in Seq(Record), NEW r \in Record
  PROVE  IsInsert(Append(b, r), b, Len(b) + 1, r)
<1>1. PICK c : c = Append(b, r)
  OBVIOUS
<1>2. /\ c \in Seq(Record) /\ Len(c) = Len(b) + 1 /\ c[Len(b) + 1] = r
      /\ \A i \in 1 .. Len(b) : c[i] = b[i]
  BY <1>1, AppendProperties
<1>3. Len(b) \in Nat
  OBVIOUS
<1> QED BY <1>1, <1>2, <1>3 DEF IsInsert

-----------------------------------------------------------------------------
(* The records fit.                                                        *)

FitInv ==
  /\ RecordsFit
  /\ ipc = "write" => RecordLen(SubSeq(idleBuf, 1, idleLen)) <= BufSize

\* A call keeps the records within the buffer if what it puts there fits.
LEMMA CallFits ==
  ASSUME FitInv, NEW b, Update(b), RecordLen(b) <= BufSize
  PROVE  FitInv'
BY DEF FitInv, RecordsFit, Update, idleVars

\* Add tests for the bytes of the new record.
LEMMA AddFitsIn ==
  ASSUME IInv, FitInv, NEW k \in Key, NEW v \in Value, Add(k, v)
  PROVE  FitInv'
<1>1. Good(buffer) /\ buffer \in Seq(Record) /\ Len(buffer) \in Nat /\ RecordLen(buffer) \in Nat
  BY BytesPerRecord DEF IInv, Good
<1>2. PICK r : r = [key |-> k, val |-> v]
  OBVIOUS
<1>3. r \in Record /\ r.key = k /\ r.val = v
  BY <1>2 DEF Record
<1>4. BufSize - RecordLen(buffer) >= Size(v) /\ Size(v) \in Nat /\ BufSize \in Nat
  BY <1>3, SizeIsPositive, SettingsAssumption DEF Add, Free
<1>5. ASSUME NEW e \in 1 .. Len(buffer) + 1, NEW c, IsInsert(c, buffer, e, r), Update(c)
      PROVE  FitInv'
  <2>1. RecordLen(c) = RecordLen(buffer) + Size(v)
    BY <1>1, <1>3, <1>5, InsertedBytes
  <2>2. RecordLen(c) <= BufSize
    BY <1>1, <1>4, <2>1
  <2> QED BY <1>5, <2>2, CallFits
<1>6. CASE Has(buffer, k)
  <2>1. PICK e, c : e = RunEnd(buffer, k) /\ c = InsertAt(buffer, e, r)
    OBVIOUS
  <2>2. e \in 1 .. Len(buffer) + 1
    BY <1>1, <1>6, <2>1, RunOf DEF IsRun
  <2>3. Update(c)
    BY <1>2, <1>6, <2>1 DEF Add
  <2>4. IsInsert(c, buffer, e, r)
    BY <1>1, <1>3, <2>1, <2>2, InsertedRecords
  <2> QED BY <1>5, <2>2, <2>3, <2>4
<1>7. CASE ~Has(buffer, k)
  <2>1. PICK c, e : c = Append(buffer, r) /\ e = Len(buffer) + 1
    OBVIOUS
  <2>2. Update(c)
    BY <1>2, <1>7, <2>1 DEF Add
  <2>3. IsInsert(c, buffer, e, r)
    BY <1>1, <1>3, <2>1, AppendedRecord
  <2> QED BY <1>1, <1>5, <2>1, <2>2, <2>3
<1> QED BY <1>6, <1>7

\* Set counts the bytes of the record it replaces as free.
LEMMA SetFitsIn ==
  ASSUME IInv, FitInv, NEW k \in Key, NEW v \in Value, Set(k, v)
  PROVE  FitInv'
<1>1. Good(buffer) /\ buffer \in Seq(Record) /\ Len(buffer) \in Nat /\ RecordLen(buffer) \in Nat
  BY BytesPerRecord DEF IInv, Good
<1>2. CASE Has(buffer, k)
  <2>1. PICK l : l = RunEnd(buffer, k) - 1
    OBVIOUS
  <2>2. PICK c, r : c = [buffer EXCEPT ![l].val = v] /\ r = [buffer[l] EXCEPT !.val = v]
    OBVIOUS
  <2>3. BufSize - RecordLen(buffer) + Size(buffer[l].val) >= Size(v) /\ Update(c)
    BY <1>2, <2>1, <2>2 DEF Set, Free
  <2>4. l \in 1 .. Len(buffer)
    BY <1>1, <1>2, <2>1, RunOf DEF IsRun
  <2>5. /\ c \in Seq(Record) /\ Len(c) = Len(buffer) /\ c[l] = r
        /\ \A i \in 1 .. Len(buffer) : i # l => c[i] = buffer[i]
    <3>1. c \in Seq(Record)
      BY <1>1, <2>2, ReplaceIsGood DEF Good
    <3> QED BY <1>1, <2>2, <2>4, <3>1
  <2>6. buffer[l] \in Record /\ r \in Record /\ r.val = v
    <3>1. buffer[l] \in Record
      BY <1>1, <2>4
    <3> QED BY <2>2, <3>1 DEF Record
  <2>7. RecordLen(c) + Size(buffer[l].val) = RecordLen(buffer) + Size(v)
    BY <1>1, <2>4, <2>5, <2>6, ReplacedBytes
  <2>8. Size(buffer[l].val) \in Nat /\ Size(v) \in Nat /\ RecordLen(c) \in Nat /\ BufSize \in Nat
    BY <2>5, <2>6, SizeIsPositive, BytesPerRecord, SettingsAssumption
  <2>9. RecordLen(c) <= BufSize
    BY <1>1, <2>3, <2>7, <2>8
  <2> QED BY <2>3, <2>9, CallFits
<1>3. CASE ~Has(buffer, k)
  <2>1. Add(k, v)
    BY <1>3 DEF Set, Add
  <2> QED BY <2>1, AddFitsIn
<1> QED BY <1>2, <1>3

\* Delete takes bytes out.
LEMMA DeleteFitsIn ==
  ASSUME IInv, FitInv, NEW k \in Key, NEW i \in Index, Delete(k, i)
  PROVE  FitInv'
<1>1. Good(buffer) /\ buffer \in Seq(Record) /\ Len(buffer) \in Nat /\ i \in Int /\ Has(buffer, k)
  BY SettingsAssumption DEF IInv, Good, Index, Delete
<1>2. PICK f, e : f = First(buffer, k) /\ e = RunEnd(buffer, k)
  OBVIOUS
<1>3. f \in 1 .. Len(buffer) /\ e \in f + 1 .. Len(buffer) + 1
  BY <1>1, <1>2, RunOf DEF IsRun
<1>4. ASSUME NEW p \in 1 .. Len(buffer) + 1, NEW q \in p .. Len(buffer) + 1,
             Update(SubSeq(buffer, 1, p - 1) \o SubSeq(buffer, q, Len(buffer)))
      PROVE  FitInv'
  <2>1. PICK c : c = SubSeq(buffer, 1, p - 1) \o SubSeq(buffer, q, Len(buffer))
    OBVIOUS
  <2>2. c \in Seq(Record) /\ IsCut(c, buffer, p, q)
    BY <1>1, <2>1, CutOut
  <2>3. RecordLen(c) <= RecordLen(buffer) /\ RecordLen(c) \in Nat /\ RecordLen(buffer) \in Nat
    BY <1>1, <2>2, CutBytes, BytesPerRecord
  <2>4. RecordLen(c) <= BufSize
    BY <2>3, SettingsAssumption DEF FitInv, RecordsFit
  <2> QED BY <1>4, <2>1, <2>4, CallFits
<1>5. CASE f + i \in f .. e - 1
  <2>1. PICK p, q : p = f + i /\ q = p + 1
    OBVIOUS
  <2>2. p \in 1 .. Len(buffer) + 1 /\ q \in p .. Len(buffer) + 1
    BY <1>1, <1>3, <1>5, <2>1
  <2>3. Update(SubSeq(buffer, 1, p - 1) \o SubSeq(buffer, q, Len(buffer)))
    BY <1>2, <1>5, <2>1 DEF Delete, RemoveAt
  <2> QED BY <1>4, <2>2, <2>3
<1>6. CASE f + i \notin f .. e - 1
  <2>1. Update(SubSeq(buffer, 1, f - 1) \o SubSeq(buffer, e, Len(buffer)))
    BY <1>2, <1>6 DEF Delete
  <2>2. f \in 1 .. Len(buffer) + 1 /\ e \in f .. Len(buffer) + 1
    BY <1>1, <1>3
  <2> QED BY <1>4, <2>1, <2>2
<1> QED BY <1>5, <1>6

\* No records have no bytes.
LEMMA NothingFits == RecordLen(<< >>) <= BufSize
<1>1. << >> \in Seq(Record) /\ Len(<< >>) = 0
  OBVIOUS
<1>2. RecordLen(<< >>) = 0
  BY <1>1, BytesPerRecord
<1> QED BY <1>2, SettingsAssumption

\* Each step keeps the records within the buffer, the file and the version in hand.
LEMMA FitInvNext ==
  ASSUME IInv, FitInv, [Next]_vars
  PROVE  FitInv'
<1>1. ASSUME NEW k \in Key, NEW v \in Value, Add(k, v) \/ Set(k, v)
      PROVE  FitInv'
  BY <1>1, AddFitsIn, SetFitsIn
<1>2. ASSUME NEW k \in Key, NEW i \in Index, Delete(k, i)
      PROVE  FitInv'
  BY <1>2, DeleteFitsIn
<1>3. CASE Wipe
  BY <1>3, NothingFits, CallFits DEF Wipe
<1>4. CASE Reset
  BY <1>4 DEF FitInv, RecordsFit, Reset, idleVars
<1>5. CASE IdleTest \/ IdleClear \/ IdleLock \/ IdleLen \/ IdleReset
  <2>1. UNCHANGED <<buffer, file>> /\ ipc' # "write"
    BY <1>5 DEF IdleTest, IdleClear, IdleLock, IdleLen, IdleReset, Goes, Saved
  <2> QED BY <2>1 DEF FitInv, RecordsFit
<1>6. CASE IdleBytes
  <2>1. /\ UNCHANGED <<buffer, file, idleLen>>
        /\ idleBuf' = buffer \o SubSeq(idleBuf, Len(buffer) + 1, Len(idleBuf))
    BY <1>6 DEF IdleBytes
  <2>2. idleLen = Len(buffer) /\ buffer \in Seq(Record) /\ idleBuf \in Seq(Record)
    BY <1>6 DEF IInv, SaveInv, IdleBytes, Good
  <2>3. SubSeq(idleBuf', 1, idleLen') = buffer
    BY <2>1, <2>2, CopyIsBuffer
  <2> QED BY <2>1, <2>3 DEF FitInv, RecordsFit
<1>7. CASE IdleWrite
  <2>1. /\ ipc = "write" /\ ipc' # "write" /\ buffer' = buffer
        /\ file' = SubSeq(idleBuf, 1, idleLen)
    BY <1>7 DEF IdleWrite, Goes, Saved
  <2> QED BY <2>1 DEF FitInv, RecordsFit
<1>8. CASE Restart
  <2>1. buffer' = file /\ file' = file /\ ipc' = "test"
    BY <1>8 DEF Restart
  <2> QED BY <2>1 DEF FitInv, RecordsFit
<1>9. CASE UNCHANGED vars
  BY <1>9 DEF FitInv, RecordsFit, vars, idleVars
<1> QED
  BY <1>1, <1>2, <1>3, <1>4, <1>5, <1>6, <1>7, <1>8, <1>9
     DEF Next, OtCall, IdleStep, SystemReset, PowerLoss

\* The invariant always holds.
LEMMA FitInvHolds == Spec => []FitInv
<1>1. Init => FitInv
  <2> SUFFICES ASSUME Init PROVE FitInv
    OBVIOUS
  <2>1. buffer = << >> /\ file = << >> /\ ipc = "test"
    BY DEF Init
  <2> QED BY <2>1, NothingFits DEF FitInv, RecordsFit
<1>2. IInv /\ FitInv /\ [Next]_vars => FitInv'
  BY FitInvNext
<1> QED BY <1>1, <1>2, IInvHolds, PTL DEF Spec

\* The records never exceed OT_SETTINGS_BUFFER_SIZE, in the buffer or in the file,
\* whatever OpenThread adds and sets and whenever the idle task saves or the
\* system restarts: no move of memory in moveData or Set goes past the buffer.
THEOREM RecordsAlwaysFit == Spec => []RecordsFit
<1>1. FitInv => RecordsFit
  BY DEF FitInv
<1> QED BY <1>1, FitInvHolds, PTL

\* Every call leaves records that can be found and that fit: the two together.
THEOREM RecordsStaySound == Spec => []RecordsSound
<1>1. KeysAdjacent /\ RecordsFit => RecordsSound
  BY DEF RecordsSound
<1> QED BY <1>1, KeysStayAdjacent, RecordsAlwaysFit, PTL

\* The types: the length the idle task has read is one that fits the buffer, too.
THEOREM TypesHold == Spec => []TypeOK
<1>1. Init => TypeOK
  <2> SUFFICES ASSUME Init PROVE TypeOK
    OBVIOUS
  <2>1. << >> \in Seq(Record) /\ 0 \in 0 .. BufSize
    BY SettingsAssumption
  <2> QED BY <2>1 DEF Init, TypeOK
<1>2. IInv /\ FitInv /\ TypeOK /\ [Next]_vars /\ IInv' => TypeOK'
  <2> SUFFICES ASSUME IInv, FitInv, TypeOK, [Next]_vars, IInv' PROVE TypeOK'
    OBVIOUS
  <2>1. ({buffer, file, idleBuf} \subseteq Seq(Record))'
    BY DEF IInv, Good
  <2>2. /\ ({saveFlag, mutex, resetReq, irqOff} \subseteq BOOLEAN)'
        /\ ipc' \in {"test", "clear", "lock", "len", "bytes", "write", "reset", "boot"}
        /\ idleLen' \in {0, idleLen, Len(buffer)}
    <3> USE DEF TypeOK, idleVars
    <3>1. CASE OtCall
      <4>1. ipc' = ipc /\ idleLen' = idleLen /\ mutex' = mutex /\ irqOff' = irqOff
            /\ saveFlag' \in {TRUE, saveFlag} /\ resetReq' \in {TRUE, resetReq}
        BY <3>1 DEF OtCall, Add, Set, Delete, Wipe, Reset, Update
      <4> QED BY <4>1
    <3>2. CASE IdleTest
      BY <3>2 DEF IdleTest, Goes, Saved
    <3>3. CASE IdleClear \/ IdleLock \/ IdleLen
      BY <3>3 DEF IdleClear, IdleLock, IdleLen, Goes
    <3>4. CASE IdleBytes
      BY <3>4 DEF IdleBytes, Goes
    <3>5. CASE IdleWrite
      BY <3>5 DEF IdleWrite, Goes, Saved
    <3>6. CASE IdleReset
      BY <3>6 DEF IdleReset, Goes
    <3>7. CASE Restart
      BY <3>7 DEF Restart
    <3>8. CASE UNCHANGED vars
      BY <3>8 DEF vars
    <3> QED BY <3>1, <3>2, <3>3, <3>4, <3>5, <3>6, <3>7, <3>8
               DEF Next, IdleStep, SystemReset, PowerLoss
  <2>3. Len(buffer) \in 0 .. BufSize
    <3>1. buffer \in Seq(Record) /\ RecordLen(buffer) <= BufSize
      BY DEF IInv, Good, FitInv, RecordsFit
    <3>2. Len(buffer) \in Nat /\ RecordLen(buffer) \in Nat /\ Len(buffer) <= RecordLen(buffer)
      BY <3>1, BytesPerRecord
    <3> QED BY <3>1, <3>2, SettingsAssumption
  <2>4. idleLen' \in 0 .. BufSize
    <3>1. idleLen \in 0 .. BufSize /\ 0 \in 0 .. BufSize
      BY SettingsAssumption DEF TypeOK
    <3> QED BY <2>2, <2>3, <3>1
  <2> QED BY <2>1, <2>2, <2>4 DEF TypeOK
<1> QED BY <1>1, <1>2, FitInvHolds, IInvHolds, PTL DEF Spec
=============================================================================

-------------------------- MODULE MtpHandlesProofs --------------------------
(***************************************************************************)
(* Proofs about MtpHandles, for every set of paths, number of storages and *)
(* order of operations, events and storage commands: handles are never     *)
(* given out twice, an object has one live entry where no rename was tried,*)
(* a mounted storage keeps its root, and data goes where it was announced. *)
(***************************************************************************)
EXTENDS MtpHandles, FiniteSetTheorems, SequenceTheorems, WellFoundedInduction, TLAPS

-----------------------------------------------------------------------------
(* The invariants of the database, of a sequence es of entries.            *)

EntryOf(N, W) == [handle : Nat, name : N, parent : Nat, store : Stores, dir : BOOLEAN,
                  deleted : BOOLEAN, wd : W, bucket : {Hash(n) : n \in N}, moved : Nat, tried : BOOLEAN]
Typed(es) == \E N, W : es \in Seq(EntryOf(N, W))

Taken(es) == {i \in DOMAIN es : es[i].handle # 0}

\* Every handle was given out by the counter, which is past it.
Counted(es) == \A i \in DOMAIN es : es[i].handle < NextHandle(es)
UniqueIn(es) == \A i, j \in DOMAIN es :
                  i # j /\ es[i].handle # 0 => es[i].handle # es[j].handle

\* Entries i and j stand for the same object.
Alike(es, i, j) == es[i].name = es[j].name /\ es[i].parent = es[j].parent /\ es[i].store = es[j].store
Original(es, i) == Live(es, i) /\ es[i].handle # 0 /\ ~es[i].tried
SingleIn(es) == \A i, j \in DOMAIN es :
                  i # j /\ Original(es, i) /\ Original(es, j) => ~Alike(es, i, j)

\* An entry nobody tried to rename is in the bucket of its name.
Bucketed(es) == \A i \in DOMAIN es : Original(es, i) => es[i].bucket = Hash(es[i].name)

DatabaseOK(es) == Typed(es) /\ Counted(es) /\ UniqueIn(es) /\ SingleIn(es) /\ Bucketed(es)

\* The entries of es as they were, but for watches, deletions and renames.
Retouched(es, fs) ==
  /\ Typed(fs) /\ Len(fs) = Len(es)
  /\ \A i \in DOMAIN es : /\ fs[i].handle = es[i].handle
                          /\ Original(fs, i) => Original(es, i)
                          /\ Original(fs, i) => /\ fs[i].name = es[i].name
                                                /\ fs[i].parent = es[i].parent
                                                /\ fs[i].store = es[i].store
                                                /\ fs[i].bucket = es[i].bucket

\* The entries of es, and after them some that took a handle.
Extends(es, fs) ==
  /\ Typed(fs) /\ Len(es) <= Len(fs)
  /\ \A i \in DOMAIN es : i \in DOMAIN fs /\ fs[i] = es[i]
  /\ \A i \in DOMAIN fs : i \in DOMAIN es \/ fs[i].handle # 0

-----------------------------------------------------------------------------
(* Lemmas about the operators.                                             *)

\* A set of numbers that is not empty has a smallest and, below a bound, a largest one.
LEMMA Smallest ==
  ASSUME NEW S \in SUBSET Nat, S # {}
  PROVE  First(S) \in S /\ \A j \in S : First(S) <= j
<1>1. \E x \in S : \A y \in S : ~(<<y, x>> \in OpToRel(<, Nat))
  BY NatLessThanWellFounded, WFMin
<1>2. PICK x \in S : \A y \in S : ~(<<y, x>> \in OpToRel(<, Nat))
  BY <1>1
<1>3. \A y \in S : ~(<<y, x>> \in {ss \in Nat \X Nat : ss[1] < ss[2]})
  BY <1>2, Zenon DEF OpToRel
<1>4. \A y \in S : x <= y
  <2> SUFFICES ASSUME NEW y \in S PROVE ~(y < x)
    OBVIOUS
  <2>1. <<y, x>> \in Nat \X Nat /\ <<y, x>>[1] = y /\ <<y, x>>[2] = x
    OBVIOUS
  <2>2. ~(<<y, x>> \in Nat \X Nat /\ <<y, x>>[1] < <<y, x>>[2])
    BY <1>3, Zenon
  <2> QED  BY <2>1, <2>2
<1> QED  BY <1>4 DEF First

\* The fields of an entry.
LEMMA TypedFields ==
  ASSUME NEW es, Typed(es)
  PROVE  /\ DOMAIN es = 1..Len(es) /\ Len(es) \in Nat
         /\ \A i \in DOMAIN es : /\ es[i].handle \in Nat /\ es[i].parent \in Nat
                                 /\ es[i].store \in Stores /\ es[i].moved \in Nat
                                 /\ es[i].deleted \in BOOLEAN /\ es[i].dir \in BOOLEAN
                                 /\ es[i].tried \in BOOLEAN
<1>1. PICK N, W : es \in Seq(EntryOf(N, W))
  BY DEF Typed
<1>2. /\ DOMAIN es = 1..Len(es) /\ Len(es) \in Nat
      /\ \A i \in DOMAIN es : es[i] \in EntryOf(N, W)
  BY <1>1
<1> QED  BY <1>2 DEF EntryOf

\* What find_entry returns, and that it fails only when there is no such live entry.
LEMMA Find ==
  ASSUME NEW es, Typed(es), NEW name, NEW parent, NEW store
  PROVE  LET k == find_entry(es, name, parent, store)
             Fits(i) == /\ Live(es, i) /\ es[i].bucket = Hash(name) /\ es[i].name = name
                        /\ es[i].parent = parent /\ es[i].store = store
         IN  /\ k = NoEntry => \A i \in DOMAIN es : ~Fits(i)
             /\ k # NoEntry => k \in DOMAIN es /\ Fits(k)
<1> DEFINE Fits(i) == /\ Live(es, i) /\ es[i].bucket = Hash(name) /\ es[i].name = name
                      /\ es[i].parent = parent /\ es[i].store = store
           S == {i \in DOMAIN es : Fits(i)}
           M == {es[i].moved : i \in S}
           F == {i \in S : \A j \in S : es[i].moved <= es[j].moved}
<1>1. DOMAIN es = 1..Len(es) /\ Len(es) \in Nat /\ \A i \in DOMAIN es : es[i].moved \in Nat
  BY TypedFields
<1>2. /\ S = {} => find_entry(es, name, parent, store) = NoEntry
      /\ S # {} => find_entry(es, name, parent, store) = First(F)
  BY DEF find_entry
<1>3. \A i \in S : i \in DOMAIN es /\ Fits(i)
  OBVIOUS
<1>4. S = {} => \A i \in DOMAIN es : ~Fits(i)
  OBVIOUS
<1> HIDE DEF S
<1>5. ASSUME S # {} PROVE First(F) \in S /\ First(F) # NoEntry
  <2>1. M \in SUBSET Nat /\ M # {}
    BY <1>1, <1>3, <1>5
  <2>2. First(M) \in M /\ \A j \in M : First(M) <= j
    BY <2>1, Smallest
  <2>3. F # {} /\ F \subseteq S
    BY <2>2
  <2>4. F \in SUBSET Nat /\ 0 \notin F
    BY <1>1, <1>3
  <2>5. First(F) \in F
    BY <2>3, <2>4, Smallest
  <2> QED  BY <2>3, <2>4, <2>5 DEF NoEntry
<1> QED  BY <1>2, <1>3, <1>4, <1>5

\* What find_entry does not find, no entry that was never renamed is.
LEMMA FindNone ==
  ASSUME NEW es, Typed(es), Bucketed(es), NEW name, NEW parent, NEW store,
         find_entry(es, name, parent, store) = NoEntry
  PROVE  \A i \in DOMAIN es : Original(es, i) => ~(es[i].name = name /\ es[i].parent = parent
                                                   /\ es[i].store = store)
<1>1. \A i \in DOMAIN es : ~( /\ Live(es, i) /\ es[i].bucket = Hash(name) /\ es[i].name = name
                              /\ es[i].parent = parent /\ es[i].store = store )
  BY Find
<1> QED  BY <1>1 DEF Bucketed, Original

\* SetToSeq lists the elements of a finite set, each once.
LEMMA Listed ==
  ASSUME NEW S, IsFiniteSet(S)
  PROVE  /\ SetToSeq(S) \in [1..Cardinality(S) -> S] /\ Cardinality(S) \in Nat
         /\ SetToSeq(S) \in Seq(S) /\ Len(SetToSeq(S)) = Cardinality(S)
         /\ \A a, b \in 1..Cardinality(S) : SetToSeq(S)[a] = SetToSeq(S)[b] => a = b
<1> DEFINE n == Cardinality(S)
<1>1. n \in Nat /\ ExistsBijection(1..n, S)
  BY FS_CardinalityType
<1>2. \E f \in [1..n -> S] : IsInjective(f)
  BY <1>1 DEF ExistsBijection, Bijection, Injection
<1>3. SetToSeq(S) \in [1..n -> S] /\ IsInjective(SetToSeq(S))
  BY <1>2 DEF SetToSeq
<1> QED  BY <1>1, <1>3 DEF IsInjective

\* The names on the storages are finitely many.
LEMMA NamesFinite == IsFiniteSet(Names)
<1> DEFINE f == [p \in Paths |-> Last(p)]
<1>1. f \in Surjection(Paths, Names)
  BY DEF Surjection, Names
<1> QED  BY <1>1, FS_Surjection, PathsAssumption

\* The counter stands at the number of entries that took a handle, and one.
LEMMA TakenFinite ==
  ASSUME NEW es, Typed(es)
  PROVE  /\ IsFiniteSet(Taken(es)) /\ Cardinality(Taken(es)) \in Nat
         /\ NextHandle(es) = 1 + Cardinality(Taken(es)) /\ NextHandle(es) \in Nat \ {0}
<1>1. DOMAIN es = 1..Len(es) /\ Len(es) \in Nat
  BY TypedFields
<1>2. IsFiniteSet(1..Len(es))
  BY <1>1, FS_Interval
<1>3. Taken(es) \in SUBSET (1..Len(es))
  BY <1>1 DEF Taken
<1>4. IsFiniteSet(Taken(es))
  BY <1>2, <1>3, FS_Subset
<1>5. Cardinality(Taken(es)) \in Nat
  BY <1>4, FS_CardinalityType
<1>6. NextHandle(es) = 1 + Cardinality(Taken(es))
  BY DEF NextHandle, Taken
<1> QED  BY <1>4, <1>5, <1>6

\* Entries of smaller sets of names and watches are entries of larger ones.
LEMMA Widen ==
  ASSUME NEW N, NEW W, NEW M, NEW V, NEW es \in Seq(EntryOf(N, W)), N \subseteq M, W \subseteq V
  PROVE  es \in Seq(EntryOf(M, V))
<1>1. \A e \in EntryOf(N, W) : e \in EntryOf(M, V)
  BY DEF EntryOf
<1> QED  BY <1>1

\* The entries of one sequence after those of another.
LEMMA TypedJoin ==
  ASSUME NEW es, Typed(es), NEW new, Typed(new)
  PROVE  /\ Typed(es \o new) /\ Len(es \o new) = Len(es) + Len(new)
         /\ \A i \in DOMAIN es : i \in DOMAIN (es \o new) /\ (es \o new)[i] = es[i]
         /\ \A k \in DOMAIN new : /\ Len(es) + k \in DOMAIN (es \o new)
                                  /\ (es \o new)[Len(es) + k] = new[k]
         /\ \A i \in DOMAIN (es \o new) :
              i \in DOMAIN es \/ \E k \in DOMAIN new : i = Len(es) + k
<1>1. PICK N, W : es \in Seq(EntryOf(N, W))
  BY DEF Typed
<1>2. PICK M, V : new \in Seq(EntryOf(M, V))
  BY DEF Typed
<1> DEFINE E == EntryOf(N \cup M, W \cup V)
<1>3. es \in Seq(E) /\ new \in Seq(E)
  BY <1>1, <1>2, Widen
<1>4. es \o new \in Seq(E)
  BY <1>3
<1>5. Typed(es \o new)
  BY <1>4 DEF Typed
<1> HIDE DEF E
<1>6. /\ Len(es \o new) = Len(es) + Len(new) /\ Len(es) \in Nat /\ Len(new) \in Nat
      /\ DOMAIN es = 1..Len(es) /\ DOMAIN new = 1..Len(new)
      /\ DOMAIN (es \o new) = 1..(Len(es) + Len(new))
      /\ \A i \in 1..(Len(es) + Len(new)) :
           (es \o new)[i] = IF i <= Len(es) THEN es[i] ELSE new[i - Len(es)]
  BY <1>3
<1> DEFINE m == Len(es)
           n == Len(new)
           fs == es \o new
<1>7. \A i \in 1..m : i \in 1..(m + n) /\ fs[i] = es[i]
  BY <1>6
<1>8. \A k \in 1..n : m + k \in 1..(m + n) /\ fs[m + k] = new[k]
  BY <1>6
<1>9. \A i \in 1..(m + n) : i \in 1..m \/ \E k \in 1..n : i = m + k
  <2> SUFFICES ASSUME NEW i \in 1..(m + n), i \notin 1..m PROVE \E k \in 1..n : i = m + k
    OBVIOUS
  <2>1. i - m \in 1..n /\ i = m + (i - m)
    BY <1>6
  <2> QED  BY <2>1
<1> QED  BY <1>5, <1>6, <1>7, <1>8, <1>9

\* New entries with the next handles, for objects that have none: the database is in order.
LEMMA JoinOK ==
  ASSUME NEW es, DatabaseOK(es), NEW new, Typed(new),
         \A k \in DOMAIN new : new[k].handle = NextHandle(es) + k - 1,
         \A k \in DOMAIN new : new[k].bucket = Hash(new[k].name),
         \A k \in DOMAIN new : \A i \in DOMAIN es : Original(es, i) =>
           ~(es[i].name = new[k].name /\ es[i].parent = new[k].parent /\ es[i].store = new[k].store),
         \A k, l \in DOMAIN new : k # l => new[k].name # new[l].name
  PROVE  DatabaseOK(es \o new) /\ Extends(es, es \o new)
<1> DEFINE fs == es \o new
           m == Len(es)
           n == Len(new)
           h == NextHandle(es)
<1>1. /\ Typed(es) /\ Counted(es) /\ UniqueIn(es) /\ SingleIn(es) /\ Bucketed(es)
      /\ DOMAIN es = 1..m /\ m \in Nat /\ DOMAIN new = 1..n /\ n \in Nat
      /\ \A i \in DOMAIN es : es[i].handle \in Nat
  BY TypedFields DEF DatabaseOK
<1>2. /\ Typed(fs) /\ Len(fs) = m + n
      /\ \A i \in 1..m : i \in DOMAIN fs /\ fs[i] = es[i]
      /\ \A k \in 1..n : m + k \in DOMAIN fs /\ fs[m + k] = new[k]
      /\ \A i \in DOMAIN fs : i \in 1..m \/ \E k \in 1..n : i = m + k
  <2>1. /\ Typed(fs) /\ Len(fs) = m + n
        /\ \A i \in DOMAIN es : i \in DOMAIN fs /\ fs[i] = es[i]
        /\ \A k \in DOMAIN new : m + k \in DOMAIN fs /\ fs[m + k] = new[k]
        /\ \A i \in DOMAIN fs : i \in DOMAIN es \/ \E k \in DOMAIN new : i = m + k
    BY <1>1, TypedJoin, Zenon
  <2> HIDE DEF fs, m, n
  <2> QED  BY <1>1, <2>1, Zenon
<1>3. h \in Nat \ {0} /\ IsFiniteSet(Taken(es)) /\ h = 1 + Cardinality(Taken(es))
      /\ Cardinality(Taken(es)) \in Nat
  BY <1>1, TakenFinite
<1>4. \A k \in 1..n : new[k].handle = h + k - 1 /\ h + k - 1 # 0
  BY <1>1, <1>3
<1> HIDE DEF fs, h, m, n
<1>5. NextHandle(fs) = h + n
  <2> DEFINE T == (m + 1)..(m + n)
  <2>1. Taken(fs) = Taken(es) \cup T
    <3>1. \A i \in Taken(fs) : i \in Taken(es) \/ i \in T
      BY <1>1, <1>2 DEF Taken
    <3>2. \A i \in Taken(es) : i \in Taken(fs)
      BY <1>1, <1>2 DEF Taken
    <3>3. \A i \in T : i \in Taken(fs)
      <4> SUFFICES ASSUME NEW i \in T PROVE i \in Taken(fs)
        OBVIOUS
      <4>1. i - m \in 1..n /\ i = m + (i - m)
        BY <1>1
      <4>2. i \in DOMAIN fs /\ fs[i] = new[i - m]
        BY <1>2, <4>1
      <4>3. fs[i].handle # 0
        BY <1>4, <4>1, <4>2
      <4> QED  BY <4>2, <4>3 DEF Taken
    <3> QED  BY <3>1, <3>2, <3>3
  <2>2. IsFiniteSet(T) /\ Cardinality(T) = n
    <3>1. IsFiniteSet(T) /\ Cardinality(T) = IF m + 1 > m + n THEN 0 ELSE (m + n) - (m + 1) + 1
      BY <1>1, FS_Interval
    <3> QED  BY <1>1, <3>1
  <2>3. Taken(es) \cap T = {}
    BY <1>1 DEF Taken
  <2> HIDE DEF T
  <2>4. Cardinality(Taken(es) \cup T) = Cardinality(Taken(es)) + Cardinality(T) - Cardinality({})
    BY <1>3, <2>2, <2>3, FS_Union
  <2>5. Cardinality({}) = 0
    BY FS_EmptySet
  <2>6. Cardinality(Taken(fs)) = Cardinality(Taken(es)) + n
    BY <1>1, <1>3, <2>1, <2>2, <2>4, <2>5
  <2>7. NextHandle(fs) = 1 + Cardinality(Taken(fs))
    BY <1>2, TakenFinite
  <2> QED  BY <1>1, <1>3, <2>6, <2>7
<1>6. \A i \in 1..m : fs[i].handle \in Nat /\ fs[i].handle < h
  BY <1>1, <1>2 DEF Counted, h
<1>7. \A k \in 1..n : fs[m + k].handle = h + k - 1
  BY <1>2, <1>4
<1>8. Counted(fs)
  <2> SUFFICES ASSUME NEW i \in DOMAIN fs PROVE fs[i].handle < h + n
    BY <1>5 DEF Counted
  <2>1. CASE i \in 1..m
    BY <1>1, <1>3, <1>6, <2>1
  <2>2. CASE i \notin 1..m
    <3>1. PICK k \in 1..n : i = m + k
      BY <1>2, <2>2
    <3>2. fs[i].handle = h + k - 1
      BY <1>7, <3>1
    <3> QED  BY <1>1, <1>3, <3>2
  <2> QED  BY <2>1, <2>2
<1>9. UniqueIn(fs)
  <2> SUFFICES ASSUME NEW i \in DOMAIN fs, NEW j \in DOMAIN fs, i # j, fs[i].handle # 0
               PROVE  fs[i].handle # fs[j].handle
    BY DEF UniqueIn
  <2>1. CASE i \in 1..m /\ j \in 1..m
    BY <1>1, <1>2, <2>1 DEF UniqueIn
  <2>2. CASE i \in 1..m /\ j \notin 1..m
    <3>1. PICK k \in 1..n : j = m + k
      BY <1>2, <2>2
    <3>2. fs[j].handle = h + k - 1 /\ fs[i].handle \in Nat /\ fs[i].handle < h
      BY <1>6, <1>7, <2>2, <3>1
    <3> QED  BY <1>1, <1>3, <3>2
  <2>3. CASE i \notin 1..m /\ j \in 1..m
    <3>1. PICK k \in 1..n : i = m + k
      BY <1>2, <2>3
    <3>2. fs[i].handle = h + k - 1 /\ fs[j].handle \in Nat /\ fs[j].handle < h
      BY <1>6, <1>7, <2>3, <3>1
    <3> QED  BY <1>1, <1>3, <3>2
  <2>4. CASE i \notin 1..m /\ j \notin 1..m
    <3>1. PICK k \in 1..n : i = m + k
      BY <1>2, <2>4
    <3>2. PICK l \in 1..n : j = m + l
      BY <1>2, <2>4
    <3>3. k # l /\ fs[i].handle = h + k - 1 /\ fs[j].handle = h + l - 1
      BY <1>7, <3>1, <3>2
    <3> QED  BY <1>1, <1>3, <3>3
  <2> QED  BY <2>1, <2>2, <2>3, <2>4
<1>10. SingleIn(fs)
  <2> SUFFICES ASSUME NEW i \in DOMAIN fs, NEW j \in DOMAIN fs, i # j, Original(fs, i),
                      Original(fs, j), Alike(fs, i, j)
               PROVE  FALSE
    BY DEF SingleIn
  <2>1. CASE i \in 1..m /\ j \in 1..m
    BY <1>1, <1>2, <2>1 DEF SingleIn, Original, Alike, Live
  <2>2. CASE i \in 1..m /\ j \notin 1..m
    <3>1. PICK k \in 1..n : j = m + k
      BY <1>2, <2>2
    <3>2. i \in DOMAIN es /\ k \in DOMAIN new /\ fs[i] = es[i] /\ fs[j] = new[k]
      BY <1>1, <1>2, <2>2, <3>1
    <3>3. Original(es, i) /\ es[i].name = new[k].name /\ es[i].parent = new[k].parent
          /\ es[i].store = new[k].store
      BY <3>2 DEF Original, Alike, Live
    <3> QED  BY <3>2, <3>3
  <2>3. CASE i \notin 1..m /\ j \in 1..m
    <3>1. PICK k \in 1..n : i = m + k
      BY <1>2, <2>3
    <3>2. j \in DOMAIN es /\ k \in DOMAIN new /\ fs[j] = es[j] /\ fs[i] = new[k]
      BY <1>1, <1>2, <2>3, <3>1
    <3>3. Original(es, j) /\ es[j].name = new[k].name /\ es[j].parent = new[k].parent
          /\ es[j].store = new[k].store
      BY <3>2 DEF Original, Alike, Live
    <3> QED  BY <3>2, <3>3
  <2>4. CASE i \notin 1..m /\ j \notin 1..m
    <3>1. PICK k \in 1..n : i = m + k
      BY <1>2, <2>4
    <3>2. PICK l \in 1..n : j = m + l
      BY <1>2, <2>4
    <3>3. k \in DOMAIN new /\ l \in DOMAIN new /\ k # l /\ fs[i] = new[k] /\ fs[j] = new[l]
      BY <1>1, <1>2, <3>1, <3>2
    <3>4. new[k].name # new[l].name
      BY <3>3
    <3> QED  BY <3>3, <3>4 DEF Alike
  <2> QED  BY <2>1, <2>2, <2>3, <2>4
<1>bucketed. Bucketed(fs)
  <2> SUFFICES ASSUME NEW i \in DOMAIN fs, Original(fs, i) PROVE fs[i].bucket = Hash(fs[i].name)
    BY DEF Bucketed
  <2>1. CASE i \in 1..m
    BY <1>1, <1>2, <2>1 DEF Bucketed, Original, Live
  <2>2. CASE i \notin 1..m
    <3>1. PICK k \in 1..n : i = m + k
      BY <1>2, <2>2
    <3>2. k \in DOMAIN new /\ fs[i] = new[k]
      BY <1>1, <1>2, <3>1
    <3> QED  BY <3>2, Zenon
  <2> QED  BY <2>1, <2>2
<1>11. Extends(es, fs)
  <2>1. Len(es) <= Len(fs)
    BY <1>1, <1>2 DEF m
  <2>2. ASSUME NEW i \in DOMAIN fs, i \notin DOMAIN es PROVE fs[i].handle # 0
    <3>1. PICK k \in 1..n : i = m + k
      BY <1>1, <1>2, <2>2
    <3> QED  BY <1>2, <1>4, <3>1
  <2> QED  BY <1>1, <1>2, <2>1, <2>2 DEF Extends
<1> QED  BY <1>2, <1>8, <1>9, <1>10, <1>bucketed, <1>11 DEF DatabaseOK, fs

\* A function on 1..n is a sequence.
LEMMA IsSequence ==
  ASSUME NEW S, NEW n \in Nat, NEW f \in [1..n -> S]
  PROVE  f \in Seq(S) /\ Len(f) = n /\ DOMAIN f = 1..n
OBVIOUS

\* The largest of a set of numbers below a bound.
LEMMA Largest ==
  ASSUME NEW n \in Nat, NEW S \in SUBSET (1..n)
  PROVE  /\ S # {} => Newest(S) \in S
         /\ Newest(S) # NoEntry <=> S # {}
<1>1. ASSUME S # {} PROVE Newest(S) \in S
  <2> DEFINE T == {n - i : i \in S}
  <2>1. T \in SUBSET Nat /\ T # {}
    <3>1. \A i \in S : n - i \in Nat
      OBVIOUS
    <3>2. T \subseteq Nat
      BY <3>1
    <3> QED  BY <1>1, <3>2
  <2>2. PICK t \in T : \A j \in T : t <= j
    <3>1. First(T) \in T /\ \A j \in T : First(T) <= j
      BY <2>1, Smallest
    <3> QED  BY <3>1
  <2>3. PICK i \in S : t = n - i
    BY <2>2
  <2>4. \A j \in S : j <= i
    <3> SUFFICES ASSUME NEW j \in S PROVE j <= i
      OBVIOUS
    <3>1. t <= n - j
      BY <2>2
    <3> QED  BY <2>3, <3>1
  <2>5. \E k \in S : \A j \in S : j <= k
    BY <2>3, <2>4
  <2>6. Newest(S) = CHOOSE k \in S : \A j \in S : j <= k
    BY <1>1 DEF Newest
  <2> QED  BY <2>5, <2>6
<1>2. S = {} => Newest(S) = NoEntry
  BY DEF Newest
<1> QED  BY <1>1, <1>2 DEF NoEntry

\* What get_entry_by_handle returns.
LEMMA GetByHandle ==
  ASSUME NEW es, Typed(es), NEW h, get_entry_by_handle(es, h) # NoEntry
  PROVE  LET i == get_entry_by_handle(es, h)
         IN  i \in DOMAIN es /\ Live(es, i) /\ es[i].handle = h
<1> DEFINE S == {i \in DOMAIN es : Live(es, i) /\ es[i].handle = h /\ stores[es[i].store].root}
<1>1. S # {} /\ get_entry_by_handle(es, h) = First(S)
  BY DEF get_entry_by_handle
<1>2. S \in SUBSET Nat
  BY TypedFields
<1>3. First(S) \in S
  BY <1>1, <1>2, Smallest
<1> QED  BY <1>1, <1>3

\* What get_entry_by_wd returns.
LEMMA GetByWd ==
  ASSUME NEW es, Typed(es), NEW wd, NEW from \in Int, from <= Len(es),
         get_entry_by_wd(es, wd, from) # NoEntry
  PROVE  get_entry_by_wd(es, wd, from) \in DOMAIN es \cap (1..from)
<1> DEFINE S == {i \in 1..from : Live(es, i) /\ es[i].wd = wd}
<1>1. DOMAIN es = 1..Len(es) /\ Len(es) \in Nat
  BY TypedFields
<1>2. S \in SUBSET (1..Len(es)) /\ S \subseteq 1..from
  BY <1>1
<1>3. get_entry_by_wd(es, wd, from) = Newest(S)
  BY DEF get_entry_by_wd
<1>4. Newest(S) \in S
  BY <1>1, <1>2, <1>3, Largest
<1> QED  BY <1>1, <1>2, <1>3, <1>4

-----------------------------------------------------------------------------
(* The operations keep the database in order.                              *)

\* A new entry has the type of an entry.
LEMMA NewEntryTyped ==
  ASSUME NEW h \in Nat, NEW name, NEW isdir \in BOOLEAN, NEW parent \in Nat, NEW store \in Stores
  PROVE  NewEntry(h, name, isdir, parent, store) \in EntryOf({name}, {NoWd})
BY DEF NewEntry, EntryOf

\* add_entry.
LEMMA AddEntryOK ==
  ASSUME NEW es, DatabaseOK(es), NEW name, NEW isdir \in BOOLEAN, NEW parent \in Nat,
         NEW store \in Stores
  PROVE  /\ DatabaseOK(add_entry(es, name, isdir, parent, store))
         /\ Extends(es, add_entry(es, name, isdir, parent, store))
         /\ \A i \in DOMAIN add_entry(es, name, isdir, parent, store) :
              \/ i \in DOMAIN es
              \/ add_entry(es, name, isdir, parent, store)[i]
                   = NewEntry(NextHandle(es), name, isdir, parent, store)
<1>1. CASE find_entry(es, name, parent, store) # NoEntry
  <2>1. add_entry(es, name, isdir, parent, store) = es
    BY <1>1 DEF add_entry
  <2>2. Extends(es, es)
    BY TypedFields DEF Extends, DatabaseOK
  <2> QED  BY <2>1, <2>2
<1>2. CASE find_entry(es, name, parent, store) = NoEntry
  <2> DEFINE e == NewEntry(NextHandle(es), name, isdir, parent, store)
             new == <<e>>
  <2>1. Typed(es) /\ Bucketed(es)
    BY DEF DatabaseOK
  <2>2. NextHandle(es) \in Nat
    BY <2>1, TakenFinite
  <2>3. e \in EntryOf({name}, {NoWd})
    BY <2>2, NewEntryTyped
  <2>4. /\ e.handle = NextHandle(es) /\ e.name = name /\ e.parent = parent /\ e.store = store
        /\ e.bucket = Hash(e.name)
    BY DEF NewEntry
  <2> HIDE DEF e
  <2>5. new \in Seq(EntryOf({name}, {NoWd})) /\ DOMAIN new = {1} /\ new[1] = e
    BY <2>3
  <2>6. Typed(new)
    BY <2>5 DEF Typed
  <2>7. \A k \in DOMAIN new : new[k].handle = NextHandle(es) + k - 1
    BY <2>2, <2>4, <2>5
  <2>8. \A i \in DOMAIN es : Original(es, i) =>
           ~(es[i].name = name /\ es[i].parent = parent /\ es[i].store = store)
    BY <1>2, <2>1, FindNone
  <2>bucket. \A k \in DOMAIN new : new[k].bucket = Hash(new[k].name)
    BY <2>4, <2>5
  <2>9. \A k \in DOMAIN new : \A i \in DOMAIN es : Original(es, i) =>
           ~(es[i].name = new[k].name /\ es[i].parent = new[k].parent /\ es[i].store = new[k].store)
    BY <2>4, <2>5, <2>8
  <2>10. \A k, l \in DOMAIN new : k # l => new[k].name # new[l].name
    BY <2>5
  <2> HIDE DEF new
  <2>11. DatabaseOK(es \o new) /\ Extends(es, es \o new)
    BY <2>6, <2>7, <2>bucket, <2>9, <2>10, JoinOK
  <2>12. add_entry(es, name, isdir, parent, store) = es \o new
    <3>2. PICK N, W : es \in Seq(EntryOf(N, W))
      BY <2>1 DEF Typed
    <3>3. Append(es, e) = es \o <<e>>
      <4>1. es \in Seq(EntryOf(N \cup {name}, W \cup {NoWd}))
        BY <3>2, Widen
      <4>2. e \in EntryOf(N \cup {name}, W \cup {NoWd})
        BY <2>3 DEF EntryOf
      <4> QED  BY <4>1, <4>2, AppendIsConcat
    <3> QED  BY <1>2, <3>3 DEF add_entry, alloc_entry, e, new
  <2>13. \A i \in DOMAIN (es \o new) : i \in DOMAIN es \/ (es \o new)[i] = e
    <3>1. \A i \in DOMAIN (es \o new) : i \in DOMAIN es \/ \E k \in DOMAIN new : i = Len(es) + k
      BY <2>1, <2>6, TypedJoin
    <3>2. \A k \in DOMAIN new : (es \o new)[Len(es) + k] = new[k]
      BY <2>1, <2>6, TypedJoin
    <3> QED  BY <2>5, <3>1, <3>2
  <2> QED  BY <2>11, <2>12, <2>13 DEF e
<1> QED  BY <1>1, <1>2

\* The loop of scan_and_add_folder over what readdir finds.
LEMMA AddFoundOK ==
  ASSUME NEW es, DatabaseOK(es), NEW d \in SUBSET Paths, NEW path, NEW parent \in Nat,
         NEW store \in Stores
  PROVE  /\ DatabaseOK(AddFound(d, es, path, parent, store))
         /\ Extends(es, AddFound(d, es, path, parent, store))
         /\ \A i \in DOMAIN AddFound(d, es, path, parent, store) :
              \/ i \in DOMAIN es
              \/ \E f \in d : /\ Front(f) = path
                              /\ \E g \in Nat : AddFound(d, es, path, parent, store)[i]
                                   = NewEntry(g, Last(f), Last(f) \in DirNames, parent, store)
<1> DEFINE missing == {n \in {Last(c) : c \in {c \in d : Front(c) = path}} :
                         find_entry(es, n, parent, store) = NoEntry}
           names == SetToSeq(missing)
           c == Cardinality(missing)
           h == NextHandle(es)
           new == [k \in DOMAIN names |-> NewEntry(h + k - 1, names[k], names[k] \in DirNames,
                                                   parent, store)]
<1>1. Typed(es) /\ Bucketed(es)
  BY DEF DatabaseOK
<1>2. h \in Nat \ {0}
  BY <1>1, TakenFinite
<1>3. IsFiniteSet(missing)
  <2>1. missing \in SUBSET Names
    BY DEF Names
  <2> HIDE DEF missing
  <2> QED  BY <2>1, NamesFinite, FS_Subset
<1>4. /\ \A n \in missing : find_entry(es, n, parent, store) = NoEntry
      /\ \A n \in missing : \E f \in d : Front(f) = path /\ n = Last(f)
  OBVIOUS
<1>5. AddFound(d, es, path, parent, store) = es \o new
  BY DEF AddFound
<1> HIDE DEF missing
<1>6. /\ names \in [1..c -> missing] /\ c \in Nat /\ DOMAIN names = 1..c
      /\ \A a, b \in 1..c : names[a] = names[b] => a = b
  BY <1>3, Listed
<1> HIDE DEF names, c, h
<1>7. /\ DOMAIN new = 1..c
      /\ \A k \in 1..c : new[k] = NewEntry(h + k - 1, names[k], names[k] \in DirNames, parent, store)
  BY <1>6
<1> HIDE DEF new
<1>8. \A k \in 1..c : h + k - 1 \in Nat
  BY <1>2, <1>6
<1>9. \A k \in 1..c : new[k] \in EntryOf(missing, {NoWd})
  <2> SUFFICES ASSUME NEW k \in 1..c PROVE new[k] \in EntryOf(missing, {NoWd})
    OBVIOUS
  <2>1. new[k] \in EntryOf({names[k]}, {NoWd})
    <3>1. (names[k] \in DirNames) \in BOOLEAN
      OBVIOUS
    <3>2. NewEntry(h + k - 1, names[k], names[k] \in DirNames, parent, store)
            \in EntryOf({names[k]}, {NoWd})
      BY <1>8, <3>1, NewEntryTyped, Zenon
    <3> QED  BY <1>7, <3>2, Zenon
  <2>2. names[k] \in missing
    BY <1>6
  <2> QED  BY <2>1, <2>2 DEF EntryOf
<1>10. \A k \in 1..c : /\ new[k].handle = h + k - 1 /\ new[k].name = names[k]
                       /\ new[k].parent = parent /\ new[k].store = store
                       /\ new[k].bucket = Hash(new[k].name)
  <2> SUFFICES ASSUME NEW k \in 1..c
               PROVE  /\ new[k].handle = h + k - 1 /\ new[k].name = names[k]
                      /\ new[k].parent = parent /\ new[k].store = store
                      /\ new[k].bucket = Hash(new[k].name)
    OBVIOUS
  <2> DEFINE g == h + k - 1
  <2>1. new[k] = NewEntry(g, names[k], names[k] \in DirNames, parent, store)
    BY <1>7
  <2> HIDE DEF g
  <2>2. /\ new[k].handle = g /\ new[k].name = names[k]
        /\ new[k].parent = parent /\ new[k].store = store
        /\ new[k].bucket = Hash(new[k].name)
    BY <2>1 DEF NewEntry
  <2> QED  BY <2>2 DEF g
<1>11. Typed(new)
  <2>1. new \in Seq(EntryOf(missing, {NoWd}))
    <3>1. new = [k \in 1..c |-> new[k]]
      BY <1>7 DEF new
    <3>2. new \in [1..c -> EntryOf(missing, {NoWd})]
      BY <1>9, <3>1, Zenon
    <3> QED  BY <1>6, <3>2, IsSequence
  <2> QED  BY <2>1 DEF Typed
<1>12. \A k \in 1..c : \A i \in DOMAIN es : Original(es, i) =>
         ~(es[i].name = new[k].name /\ es[i].parent = new[k].parent /\ es[i].store = new[k].store)
  <2> SUFFICES ASSUME NEW k \in 1..c
               PROVE \A i \in DOMAIN es : Original(es, i) =>
                       ~(es[i].name = names[k] /\ es[i].parent = parent /\ es[i].store = store)
    BY <1>10
  <2>1. find_entry(es, names[k], parent, store) = NoEntry
    BY <1>4, <1>6
  <2> QED  BY <1>1, <2>1, FindNone
<1>13. \A k, l \in 1..c : k # l => new[k].name # new[l].name
  BY <1>6, <1>10
<1>14. \A k \in DOMAIN new : new[k].handle = NextHandle(es) + k - 1
  BY <1>7, <1>10 DEF h
<1>15. DatabaseOK(es \o new) /\ Extends(es, es \o new)
  <2>1. \A k \in DOMAIN new : new[k].bucket = Hash(new[k].name)
    BY <1>7, <1>10, Zenon
  <2>2. \A k \in DOMAIN new : \A i \in DOMAIN es : Original(es, i) =>
          ~(es[i].name = new[k].name /\ es[i].parent = new[k].parent /\ es[i].store = new[k].store)
    BY <1>7, <1>12, Zenon
  <2>3. \A k, l \in DOMAIN new : k # l => new[k].name # new[l].name
    BY <1>7, <1>13, Zenon
  <2> QED  BY <1>11, <1>14, <2>1, <2>2, <2>3, JoinOK, Zenon
<1>16. \A i \in DOMAIN (es \o new) :
         \/ i \in DOMAIN es
         \/ \E f \in d : /\ Front(f) = path
                         /\ \E g \in Nat : (es \o new)[i]
                              = NewEntry(g, Last(f), Last(f) \in DirNames, parent, store)
  <2> SUFFICES ASSUME NEW i \in DOMAIN (es \o new), i \notin DOMAIN es
               PROVE  \E f \in d : /\ Front(f) = path
                                   /\ \E g \in Nat : (es \o new)[i]
                                        = NewEntry(g, Last(f), Last(f) \in DirNames, parent, store)
    OBVIOUS
  <2>1. \E k \in DOMAIN new : i = Len(es) + k
    BY <1>1, <1>11, TypedJoin
  <2>2. PICK k \in 1..c : i = Len(es) + k
    BY <1>7, <2>1
  <2>3. (es \o new)[i] = new[k]
    BY <1>1, <1>7, <1>11, <2>2, TypedJoin
  <2>4. PICK f \in d : Front(f) = path /\ names[k] = Last(f)
    BY <1>4, <1>6
  <2> DEFINE g == h + k - 1
  <2>5. g \in Nat /\ new[k] = NewEntry(g, Last(f), Last(f) \in DirNames, parent, store)
    BY <1>7, <1>8, <2>4
  <2> HIDE DEF g
  <2> QED  BY <2>3, <2>4, <2>5
<1> QED  BY <1>5, <1>15, <1>16

\* Watches, deletions and renames keep the database in order.
LEMMA RetouchedOK ==
  ASSUME NEW es, DatabaseOK(es), NEW fs, Retouched(es, fs)
  PROVE  DatabaseOK(fs)
<1>1. /\ Typed(es) /\ Counted(es) /\ UniqueIn(es) /\ SingleIn(es) /\ Bucketed(es)
      /\ Typed(fs) /\ Len(fs) = Len(es)
  BY DEF DatabaseOK, Retouched
<1>2. DOMAIN fs = DOMAIN es
  BY <1>1, TypedFields
<1>3. \A i \in DOMAIN es : /\ fs[i].handle = es[i].handle
                           /\ Original(fs, i) => Original(es, i)
                           /\ Original(fs, i) => /\ fs[i].name = es[i].name
                                                 /\ fs[i].parent = es[i].parent
                                                 /\ fs[i].store = es[i].store
                                                 /\ fs[i].bucket = es[i].bucket
  BY DEF Retouched
<1>4. Taken(fs) = Taken(es)
  BY <1>2, <1>3 DEF Taken
<1>5. NextHandle(fs) = NextHandle(es)
  BY <1>1, <1>4, TakenFinite
<1>6. Counted(fs)
  BY <1>1, <1>2, <1>3, <1>5 DEF Counted
<1>7. UniqueIn(fs)
  BY <1>1, <1>2, <1>3 DEF UniqueIn
<1>8. SingleIn(fs)
  BY <1>1, <1>2, <1>3 DEF SingleIn, Alike
<1>9. Bucketed(fs)
  BY <1>1, <1>2, <1>3 DEF Bucketed
<1> QED  BY <1>1, <1>6, <1>7, <1>8, <1>9 DEF DatabaseOK

\* What the database changes in an entry once it is there.
LEMMA TouchedEntry ==
  ASSUME NEW N, NEW W, NEW e \in EntryOf(N, W), NEW w
  PROVE  /\ e \in EntryOf(N, W \cup {w})
         /\ [e EXCEPT !.wd = w] \in EntryOf(N, W \cup {w})
         /\ [e EXCEPT !.deleted = TRUE, !.wd = w] \in EntryOf(N, W \cup {w})
<1>1. e \in EntryOf(N, W \cup {w})
  BY DEF EntryOf
<1>3. [e EXCEPT !.wd = w] \in EntryOf(N, W \cup {w})
  BY DEF EntryOf
<1>4. [e EXCEPT !.deleted = TRUE, !.wd = w] \in EntryOf(N, W \cup {w})
  BY DEF EntryOf
<1> QED  BY <1>1, <1>3, <1>4

\* Deleting entries.
LEMMA DiscardRetouches ==
  ASSUME NEW es, Typed(es), NEW S
  PROVE  Retouched(es, Discard(es, S))
<1> DEFINE fs == Discard(es, S)
<1>1. PICK N, W : es \in Seq(EntryOf(N, W))
  BY DEF Typed
<1>2. DOMAIN es = 1..Len(es) /\ Len(es) \in Nat /\ \A i \in DOMAIN es : es[i] \in EntryOf(N, W)
  BY <1>1
<1>3. /\ DOMAIN fs = 1..Len(es)
      /\ fs = [i \in 1..Len(es) |-> fs[i]]
      /\ \A i \in 1..Len(es) : fs[i] = IF i \in S THEN [es[i] EXCEPT !.deleted = TRUE, !.wd = NoWd]
                                       ELSE es[i]
  BY <1>2 DEF Discard
<1> HIDE DEF fs
<1>4. \A i \in 1..Len(es) : fs[i] \in EntryOf(N, W \cup {NoWd})
  <2>1. \A i \in 1..Len(es) : /\ es[i] \in EntryOf(N, W \cup {NoWd})
                               /\ [es[i] EXCEPT !.deleted = TRUE, !.wd = NoWd] \in EntryOf(N, W \cup {NoWd})
    BY <1>2, TouchedEntry
  <2> QED  BY <1>3, <2>1, Zenon
<1>5. fs \in Seq(EntryOf(N, W \cup {NoWd})) /\ Len(fs) = Len(es)
  <2>1. fs \in [1..Len(es) -> EntryOf(N, W \cup {NoWd})]
    BY <1>3, <1>4, Zenon
  <2> QED  BY <1>2, <2>1, IsSequence
<1>6. \A i \in 1..Len(es) : /\ fs[i].handle = es[i].handle /\ fs[i].name = es[i].name
                            /\ fs[i].parent = es[i].parent /\ fs[i].store = es[i].store
                            /\ fs[i].tried = es[i].tried /\ fs[i].bucket = es[i].bucket
                            /\ ~fs[i].deleted => ~es[i].deleted
  <2> SUFFICES ASSUME NEW i \in 1..Len(es)
               PROVE  /\ fs[i].handle = es[i].handle /\ fs[i].name = es[i].name
                      /\ fs[i].parent = es[i].parent /\ fs[i].store = es[i].store
                      /\ fs[i].tried = es[i].tried /\ fs[i].bucket = es[i].bucket
                      /\ ~fs[i].deleted => ~es[i].deleted
    OBVIOUS
  <2>1. es[i] \in EntryOf(N, W)
    BY <1>2
  <2>2. CASE i \in S
    <3>1. fs[i] = [es[i] EXCEPT !.deleted = TRUE, !.wd = NoWd]
      BY <1>3, <2>2
    <3> QED  BY <2>1, <3>1 DEF EntryOf
  <2>3. CASE i \notin S
    BY <1>3, <2>3
  <2> QED  BY <2>2, <2>3
<1>7. Typed(fs)
  BY <1>5 DEF Typed
<1>8. Retouched(es, fs)
  BY <1>2, <1>5, <1>6, <1>7 DEF Retouched, Original, Live
<1> QED  BY <1>8 DEF fs

\* scan_and_add_folder.
LEMMA ScanOK ==
  ASSUME NEW es, DatabaseOK(es), NEW d \in SUBSET Paths, NEW path, NEW parent \in Nat,
         NEW store \in Stores
  PROVE  /\ DatabaseOK(Scan(d, es, path, parent, store).entries)
         /\ Len(es) <= Len(Scan(d, es, path, parent, store).entries)
<1> DEFINE added == AddFound(d, es, path, parent, store)
<1>1. DatabaseOK(added) /\ Extends(es, added)
  BY AddFoundOK
<1>2. \E S : Scan(d, es, path, parent, store).entries = Discard(added, S)
  BY DEF Scan
<1> HIDE DEF added
<1>3. PICK S : Scan(d, es, path, parent, store).entries = Discard(added, S)
  BY <1>2
<1>4. Typed(added)
  BY <1>1 DEF DatabaseOK
<1>5. Retouched(added, Discard(added, S))
  BY <1>4, DiscardRetouches
<1>6. Len(es) <= Len(added) /\ Len(Discard(added, S)) = Len(added)
  BY <1>1, <1>5 DEF Extends, Retouched
<1>7. DatabaseOK(Discard(added, S))
  BY <1>1, <1>5, RetouchedOK
<1> QED  BY <1>3, <1>6, <1>7

\* Deleting entries.
LEMMA DiscardOK ==
  ASSUME NEW es, DatabaseOK(es), NEW S
  PROVE  DatabaseOK(Discard(es, S)) /\ Len(Discard(es, S)) = Len(es)
<1>1. Typed(es)
  BY DEF DatabaseOK
<1>2. Retouched(es, Discard(es, S))
  BY <1>1, DiscardRetouches
<1> QED  BY <1>2, RetouchedOK DEF Retouched

\* A root is appended, with handle 0.
LEMMA AllocRootOK ==
  ASSUME NEW es, DatabaseOK(es), NEW store \in Stores
  PROVE  LET fs == alloc_root_entry(es, store)
         IN  /\ DatabaseOK(fs) /\ Len(fs) = Len(es) + 1 /\ DOMAIN fs = 1..(Len(es) + 1)
             /\ \A i \in DOMAIN es : fs[i] = es[i]
             /\ fs[Len(es) + 1] = NewEntry(0, RootName, TRUE, 0, store)
<1> DEFINE fs == alloc_root_entry(es, store)
           e == NewEntry(0, RootName, TRUE, 0, store)
           m == Len(es)
<1>1. Typed(es) /\ Counted(es) /\ UniqueIn(es) /\ SingleIn(es) /\ Bucketed(es)
  BY DEF DatabaseOK
<1>2. PICK N, W : es \in Seq(EntryOf(N, W))
  BY <1>1 DEF Typed
<1> DEFINE E == EntryOf(N \cup {RootName}, W \cup {NoWd})
<1>3. es \in Seq(E)
  BY <1>2, Widen
<1>4. e \in E
  <2>1. e \in EntryOf({RootName}, {NoWd})
    BY NewEntryTyped
  <2> QED  BY <2>1 DEF EntryOf
<1>5. fs = Append(es, e)
  BY DEF alloc_root_entry
<1>6. e.handle = 0
  BY DEF NewEntry
<1> HIDE DEF E, e
<1>7. /\ fs \in Seq(E) /\ Len(fs) = m + 1 /\ m \in Nat /\ DOMAIN es = 1..m
      /\ DOMAIN fs = 1..(m + 1) /\ \A i \in 1..m : fs[i] = es[i]
      /\ fs[m + 1] = e
  BY <1>3, <1>4, <1>5
<1>8. Typed(fs)
  BY <1>7 DEF Typed, E
<1> HIDE DEF fs, m
<1>9. \A i \in DOMAIN fs : i = m + 1 \/ (i \in DOMAIN es /\ fs[i] = es[i])
  BY <1>7
<1>10. DOMAIN es \subseteq DOMAIN fs /\ \A i \in DOMAIN es : fs[i] = es[i]
  BY <1>7
<1>11. fs[m + 1].handle = 0
  BY <1>6, <1>7
<1>12. Taken(fs) = Taken(es)
  BY <1>9, <1>10, <1>11 DEF Taken
<1>13. NextHandle(fs) = NextHandle(es) /\ NextHandle(es) \in Nat \ {0}
  BY <1>1, <1>8, <1>12, TakenFinite
<1>14. Counted(fs)
  <2> SUFFICES ASSUME NEW i \in DOMAIN fs PROVE fs[i].handle < NextHandle(fs)
    BY DEF Counted
  <2>1. CASE i = m + 1
    BY <1>11, <1>13, <2>1
  <2>2. CASE i \in DOMAIN es
    BY <1>1, <1>10, <1>13, <2>2 DEF Counted
  <2> QED  BY <1>9, <2>1, <2>2
<1>15. UniqueIn(fs)
  <2> SUFFICES ASSUME NEW i \in DOMAIN fs, NEW j \in DOMAIN fs, i # j, fs[i].handle # 0
               PROVE  fs[i].handle # fs[j].handle
    BY DEF UniqueIn
  <2>1. i \in DOMAIN es /\ fs[i] = es[i]
    BY <1>9, <1>11
  <2>2. CASE j = m + 1
    BY <1>11, <2>2
  <2>3. CASE j \in DOMAIN es
    BY <1>1, <1>10, <2>1, <2>3 DEF UniqueIn
  <2> QED  BY <1>9, <2>2, <2>3
<1>16. SingleIn(fs)
  <2> SUFFICES ASSUME NEW i \in DOMAIN fs, NEW j \in DOMAIN fs, i # j, Original(fs, i),
                      Original(fs, j)
               PROVE  ~Alike(fs, i, j)
    BY DEF SingleIn
  <2>1. /\ i \in DOMAIN es /\ fs[i] = es[i]
        /\ j \in DOMAIN es /\ fs[j] = es[j]
    BY <1>9, <1>11 DEF Original
  <2> QED  BY <1>1, <2>1 DEF SingleIn, Original, Live, Alike
<1>bucketed. Bucketed(fs)
  BY <1>1, <1>9, <1>11 DEF Bucketed, Original, Live
<1>17. DatabaseOK(fs)
  BY <1>8, <1>14, <1>15, <1>16, <1>bucketed DEF DatabaseOK
<1> QED  BY <1>7, <1>17 DEF fs, e, m

\* One entry gets another watch.
LEMMA WatchRetouches ==
  ASSUME NEW es, Typed(es), NEW at, NEW w, NEW fs, fs = [es EXCEPT ![at].wd = w]
  PROVE  /\ Retouched(es, fs) /\ DOMAIN fs = DOMAIN es
         /\ \A i \in DOMAIN es : /\ fs[i].handle = es[i].handle /\ fs[i].name = es[i].name
                                 /\ fs[i].parent = es[i].parent /\ fs[i].store = es[i].store
                                 /\ fs[i].dir = es[i].dir /\ fs[i].deleted = es[i].deleted
                                 /\ fs[i].tried = es[i].tried
<1>1. PICK N, W : es \in Seq(EntryOf(N, W))
  BY DEF Typed
<1>2. DOMAIN es = 1..Len(es) /\ Len(es) \in Nat /\ \A i \in DOMAIN es : es[i] \in EntryOf(N, W)
  BY <1>1
<1>3. /\ DOMAIN fs = 1..Len(es)
      /\ fs = [i \in 1..Len(es) |-> fs[i]]
      /\ \A i \in 1..Len(es) : fs[i] = IF i = at THEN [es[i] EXCEPT !.wd = w] ELSE es[i]
  BY <1>2, Zenon
<1>4. \A i \in 1..Len(es) : fs[i] \in EntryOf(N, W \cup {w})
  <2>1. \A i \in 1..Len(es) : /\ es[i] \in EntryOf(N, W \cup {w})
                               /\ [es[i] EXCEPT !.wd = w] \in EntryOf(N, W \cup {w})
    BY <1>2, TouchedEntry
  <2> QED  BY <1>3, <2>1, Zenon
<1>5. fs \in Seq(EntryOf(N, W \cup {w})) /\ Len(fs) = Len(es)
  <2>1. fs \in [1..Len(es) -> EntryOf(N, W \cup {w})]
    BY <1>3, <1>4, Zenon
  <2> QED  BY <1>2, <2>1, IsSequence
<1>6. \A i \in 1..Len(es) : /\ fs[i].handle = es[i].handle /\ fs[i].name = es[i].name
                            /\ fs[i].parent = es[i].parent /\ fs[i].store = es[i].store
                            /\ fs[i].tried = es[i].tried /\ fs[i].deleted = es[i].deleted
                            /\ fs[i].bucket = es[i].bucket
                            /\ fs[i].dir = es[i].dir
  BY <1>2, <1>3 DEF EntryOf
<1>7. Typed(fs)
  BY <1>5 DEF Typed
<1>8. Retouched(es, fs)
  BY <1>2, <1>5, <1>6, <1>7 DEF Retouched, Original, Live
<1> QED  BY <1>2, <1>3, <1>6, <1>8

\* One entry gets another name.
LEMMA RenameRetouches ==
  ASSUME NEW es, Typed(es), NEW at, NEW name, NEW bucket, NEW moved,
         at \in DOMAIN es => bucket \in {es[at].bucket, Hash(name)} /\ moved \in Nat
  PROVE  LET fs == SetName(es, at, name, bucket, moved)
         IN  /\ Retouched(es, fs) /\ DOMAIN fs = DOMAIN es
             /\ \A i \in DOMAIN es : /\ fs[i].handle = es[i].handle
                                     /\ fs[i].parent = es[i].parent /\ fs[i].store = es[i].store
                                     /\ fs[i].dir = es[i].dir /\ fs[i].deleted = es[i].deleted
                                     /\ fs[i].wd = es[i].wd
                                     /\ i # at => fs[i] = es[i]
                                     /\ i = at => fs[i].name = name /\ fs[i].tried
<1> DEFINE fs == SetName(es, at, name, bucket, moved)
           F(e) == [e EXCEPT !.name = name, !.bucket = bucket, !.moved = moved, !.tried = TRUE]
<1>1. PICK N, W : es \in Seq(EntryOf(N, W))
  BY DEF Typed
<1>2. DOMAIN es = 1..Len(es) /\ Len(es) \in Nat /\ \A i \in DOMAIN es : es[i] \in EntryOf(N, W)
  BY <1>1
<1>3. /\ DOMAIN fs = 1..Len(es)
      /\ fs = [i \in 1..Len(es) |-> fs[i]]
      /\ \A i \in 1..Len(es) : fs[i] = IF i = at THEN F(es[i]) ELSE es[i]
  BY <1>2, Zenon DEF SetName
<1> HIDE DEF fs
<1>4. at \in 1..Len(es) =>
        /\ F(es[at]) \in EntryOf(N \cup {name}, W)
        /\ F(es[at]).handle = es[at].handle /\ F(es[at]).parent = es[at].parent
        /\ F(es[at]).store = es[at].store /\ F(es[at]).dir = es[at].dir
        /\ F(es[at]).deleted = es[at].deleted /\ F(es[at]).wd = es[at].wd
        /\ F(es[at]).name = name /\ F(es[at]).tried
  <2> SUFFICES ASSUME at \in 1..Len(es)
               PROVE  /\ F(es[at]) \in EntryOf(N \cup {name}, W)
                      /\ F(es[at]).handle = es[at].handle /\ F(es[at]).parent = es[at].parent
                      /\ F(es[at]).store = es[at].store /\ F(es[at]).dir = es[at].dir
                      /\ F(es[at]).deleted = es[at].deleted /\ F(es[at]).wd = es[at].wd
                      /\ F(es[at]).name = name /\ F(es[at]).tried
    BY Zenon
  <2> DEFINE e == es[at]
  <2>1. e \in EntryOf(N, W) /\ bucket \in {e.bucket, Hash(name)} /\ moved \in Nat
    BY <1>2, Zenon
  <2> HIDE DEF e
  <2>2. /\ F(e) \in EntryOf(N \cup {name}, W)
        /\ F(e).handle = e.handle /\ F(e).parent = e.parent /\ F(e).store = e.store
        /\ F(e).dir = e.dir /\ F(e).deleted = e.deleted /\ F(e).wd = e.wd
        /\ F(e).name = name /\ F(e).tried
    <3>1. bucket \in {Hash(n) : n \in N \cup {name}}
      BY <2>1 DEF EntryOf
    <3> QED  BY <2>1, <3>1 DEF EntryOf
  <2> HIDE DEF F
  <2> QED  BY <2>2, Zenon DEF e
<1>5. \A i \in 1..Len(es) : es[i] \in EntryOf(N \cup {name}, W)
  BY <1>2 DEF EntryOf
<1> HIDE DEF F
<1>6. \A i \in 1..Len(es) : fs[i] \in EntryOf(N \cup {name}, W)
  BY <1>3, <1>4, <1>5, Zenon
<1>7. fs \in Seq(EntryOf(N \cup {name}, W)) /\ Len(fs) = Len(es)
  <2>1. fs \in [1..Len(es) -> EntryOf(N \cup {name}, W)]
    BY <1>3, <1>6, Zenon
  <2> QED  BY <1>2, <2>1, IsSequence
<1>8. \A i \in 1..Len(es) : /\ fs[i].handle = es[i].handle
                            /\ fs[i].parent = es[i].parent /\ fs[i].store = es[i].store
                            /\ fs[i].deleted = es[i].deleted /\ fs[i].dir = es[i].dir
                            /\ fs[i].wd = es[i].wd
                            /\ i # at => fs[i] = es[i]
                            /\ i = at => fs[i].name = name /\ fs[i].tried
  BY <1>3, <1>4, Zenon
<1>9. Typed(fs)
  BY <1>7 DEF Typed
<1>10. \A i \in 1..Len(es) : Original(fs, i) => i # at /\ fs[i] = es[i]
  BY <1>8, Zenon DEF Original
<1>11. \A i \in 1..Len(es) : Original(fs, i) => Original(es, i)
  BY <1>10, Zenon DEF Original, Live
<1>12. Retouched(es, fs)
  BY <1>2, <1>7, <1>8, <1>9, <1>10, <1>11, Zenon DEF Retouched
<1> QED  BY <1>2, <1>3, <1>8, <1>12 DEF fs

-----------------------------------------------------------------------------
(* The database under every interleaving of the responder, the inotify     *)
(* thread, the storage commands and the disk.                              *)

\* The database is in order, freed only when closed, and the inotify thread's
\* kept entry lies in it.
DbInv ==
  /\ DatabaseOK(entries)
  /\ disk \subseteq Paths
  /\ ~open => entries = <<>>
  /\ op.pc = "idle" \/ open
  /\ ino.at \in Int /\ ino.at <= Len(entries)

\* A step's entries: a database in order, and no shorter.
Kept(es, fs) == DatabaseOK(fs) /\ Len(es) <= Len(fs)

\* The empty database is in order.
LEMMA EmptyOK == DatabaseOK(<<>>)
<1>1. <<>> \in Seq(EntryOf({}, {}))
  OBVIOUS
<1>2. Typed(<<>>)
  BY <1>1 DEF Typed
<1> QED  BY <1>2 DEF DatabaseOK, Counted, UniqueIn, SingleIn, Bucketed

\* A step that keeps the entries, or replaces them with a database in order that is
\* no shorter, and leaves the inotify thread its entry.
LEMMA DbStep ==
  ASSUME DbInv, Kept(entries, entries'), disk' \subseteq Paths, open' = open, open \/ entries' = entries,
         op' = op \/ op'.pc = "idle" \/ open, ino'.at = ino.at
  PROVE  DbInv'
<1>1. Len(entries) \in Nat /\ Len(entries') \in Nat
  BY TypedFields DEF DbInv, DatabaseOK, Kept
<1>2. ino'.at \in Int /\ ino'.at <= Len(entries')
  BY <1>1 DEF DbInv, Kept
<1>3. ~open' => entries' = <<>>
  BY DEF DbInv
<1>4. op'.pc = "idle" \/ open'
  BY DEF DbInv
<1> QED  BY <1>2, <1>3, <1>4 DEF DbInv, Kept

\* Nothing changes in the database.
LEMMA KeptSame == ASSUME DbInv PROVE Kept(entries, entries)
<1>1. Len(entries) \in Nat
  BY TypedFields DEF DbInv, DatabaseOK
<1> QED  BY <1>1 DEF DbInv, Kept

\* InoWithout and the scans leave the kept entry alone.
LEMMA InoKept ==
  ASSUME NEW wds PROVE InoWithout(wds).at = ino.at
BY DEF InoWithout

\* A crash leaves the database as it was.
LEMMA CrashDb == ASSUME DbInv, NEW cause, Crash(cause) PROVE DbInv'
<1>1. UNCHANGED <<disk, open, entries, op, ino>>
  BY DEF Crash
<1>2. Kept(entries, entries) /\ disk \subseteq Paths
  BY KeptSame DEF DbInv
<1> QED  BY <1>1, <1>2, DbStep

\* One round of the inotify thread.
LEMMA RoundDb ==
  ASSUME DbInv, NEW ev, NEW from \in Int, from <= Len(entries), NEW queue,
         InotifyRound(ev, from, queue)
  PROVE  DbInv'
<1> DEFINE i == get_entry_by_wd(entries, ev.wd, from)
           D == IF i # NoEntry /\ ev.mask = "delete" THEN DeletedBy(i, ev.name) ELSE {}
<1>0. \/ Crash("null path")
      \/ /\ IF i # NoEntry /\ ev.mask = "create" THEN on_create(i, ev.name)
            ELSE entries' = Discard(entries, D)
         /\ ino' = IF i <= 1 THEN InoIdle ELSE [at |-> i - 1, ev |-> ev]
         /\ UNCHANGED <<disk, open, op>>
  BY DEF InotifyRound
<1>crash. CASE Crash("null path")
  BY <1>crash, CrashDb
<1>1. CASE /\ IF i # NoEntry /\ ev.mask = "create" THEN on_create(i, ev.name)
              ELSE entries' = Discard(entries, D)
           /\ ino' = IF i <= 1 THEN InoIdle ELSE [at |-> i - 1, ev |-> ev]
           /\ UNCHANGED <<disk, open, op>>
  <2>2. DatabaseOK(entries) /\ Typed(entries) /\ DOMAIN entries = 1..Len(entries) /\ Len(entries) \in Nat
    BY TypedFields DEF DbInv, DatabaseOK
  <2>3. i # NoEntry => i \in DOMAIN entries
    BY <2>2, GetByWd
  <2> HIDE DEF i, D
  <2>4. Kept(entries, entries')
    <3>1. CASE i # NoEntry /\ ev.mask = "create"
      <4>1. on_create(i, ev.name)
        BY <1>1, <3>1
      <4>2. i \in DOMAIN entries
        BY <2>3, <3>1
      <4>3. entries[i].handle \in Nat /\ entries[i].store \in Stores
        BY <2>2, <4>2, TypedFields
      <4> DEFINE name == IF Exists(Append(build_full_path(entries, i), ev.name)) THEN ev.name ELSE Ghost
      <4>4. PICK isdir \in BOOLEAN :
              entries' = add_entry(entries, name, isdir, entries[i].handle, entries[i].store)
        BY <4>1 DEF on_create
      <4> HIDE DEF name
      <4>5. DatabaseOK(entries') /\ Extends(entries, entries')
        BY <2>2, <4>3, <4>4, AddEntryOK
      <4> QED  BY <4>5 DEF Kept, Extends
    <3>2. CASE ~(i # NoEntry /\ ev.mask = "create")
      <4>1. entries' = Discard(entries, D)
        BY <1>1, <3>2
      <4>2. DatabaseOK(entries') /\ Len(entries') = Len(entries)
        BY <2>2, <4>1, DiscardOK
      <4> QED  BY <2>2, <4>2 DEF Kept
    <3> QED  BY <3>1, <3>2
  <2>5. ~open => entries' = <<>>
    <3> SUFFICES ASSUME ~open PROVE entries' = <<>>
      OBVIOUS
    <3>1. entries = <<>> /\ Len(entries) = 0
      BY DEF DbInv
    <3>2. i = NoEntry
      BY <2>2, <2>3, <3>1
    <3>3. entries' = Discard(<<>>, D)
      BY <1>1, <3>1, <3>2
    <3> QED  BY <3>3 DEF Discard
  <2>6. ino'.at \in Int /\ ino'.at <= Len(entries')
    <3>1. Len(entries') \in Nat /\ Len(entries) <= Len(entries')
      BY <2>4, TypedFields DEF Kept, DatabaseOK
    <3>2. CASE i <= 1
      BY <1>1, <3>1, <3>2 DEF InoIdle, NoEntry
    <3>3. CASE ~(i <= 1)
      <4>1. i \in 1..Len(entries)
        BY <2>2, <2>3, <3>3 DEF NoEntry
      <4> DEFINE j == i - 1
      <4>2. ino' = [at |-> j, ev |-> ev]
        BY <1>1, <3>3
      <4>3. j \in Int /\ j <= Len(entries')
        BY <2>2, <3>1, <4>1
      <4> HIDE DEF j
      <4> QED  BY <4>2, <4>3
    <3> QED  BY <3>2, <3>3
  <2>7. open' = open /\ disk' = disk /\ op' = op
    BY <1>1
  <2> QED  BY <2>4, <2>5, <2>6, <2>7 DEF DbInv, Kept
<1> QED  BY <1>0, <1>1, <1>crash

\* The count of changes.
ChangesOK == changes \in Nat

LEMMA ChangesNext == ASSUME ChangesOK, [Next]_vars PROVE ChangesOK'
<1> SUFFICES changes' = changes \/ changes' = changes + 1
  BY DEF ChangesOK
<1>1. ASSUME Responder PROVE changes' = changes \/ changes' = changes + 1
  <2>1. CASE OpenSession \/ OpenStore \/ CloseSession \/ ListWatch
    BY <2>1 DEF OpenSession, OpenStore, CloseSession, ListWatch
  <2>2. CASE SendObject \/ SendPartialData
    BY <2>2 DEF SendObject, SendPartialData, Created, Change, Crash
  <2>3. CASE RenameRestore \/ RenameOnDisk \/ RenameFails \/ RenameEntry
    BY <2>3 DEF RenameRestore, RenameOnDisk, RenameFails, RenameEntry, Crash
  <2>4. ASSUME NEW s, NEW h, ListScan(s, h) PROVE changes' = changes
    BY <2>4 DEF ListScan, Crash
  <2>5. ASSUME NEW s, NEW h, NEW n, SendInfoUnplaced(s, h, n) \/ SendFolderInfo(s, h, n) \/ SendFileInfo(s, h, n)
        PROVE  changes' = changes \/ changes' = changes + 1
    BY <2>5 DEF SendInfoUnplaced, SendFolderInfo, SendFileInfo, Created, Change
  <2>6. ASSUME NEW h, SendPartialObject(h) \/ DeleteObject(h) \/ \E n \in Names : RenameFile(h, n)
        PROVE  changes' = changes \/ changes' = changes + 1
    BY <2>6 DEF SendPartialObject, DeleteObject, RenameFile, Change, Crash
  <2> QED  BY <1>1, <2>1, <2>2, <2>3, <2>4, <2>5, <2>6, Zenon DEF Responder
<1>2. ASSUME InotifyEvent \/ InotifyNext \/ InotifyDangling PROVE changes' = changes
  BY <1>2 DEF InotifyEvent, InotifyNext, InotifyDangling, InotifyRound, Crash
<1>3. ASSUME MessageQueue PROVE changes' = changes
  BY <1>3 DEF MessageQueue, MountCmd, UnmountCmd, LockCmd, UnlockCmd, AddStorageCmd, RemoveStorageCmd
<1>4. ASSUME NEW p \in Paths, OtherCreates(p) \/ OtherRemoves(p) PROVE changes' = changes + 1
  BY <1>4 DEF OtherCreates, OtherRemoves, Created, Change
<1>5. CASE UNCHANGED vars
  BY <1>5 DEF vars
<1> QED  BY <1>1, <1>2, <1>3, <1>4, <1>5 DEF Next

\* The operations that only change the disk keep it within the paths.
LEMMA CreatedDisk ==
  ASSUME DbInv, NEW p \in Paths, Created(p)
  PROVE  disk' \subseteq Paths
BY DEF Created, DbInv

\* The responder's steps.
LEMMA ResponderDb == ASSUME DbInv, ChangesOK, Responder PROVE DbInv'
<1>0. /\ DatabaseOK(entries) /\ Typed(entries) /\ DOMAIN entries = 1..Len(entries)
      /\ Len(entries) \in Nat /\ Kept(entries, entries) /\ disk \subseteq Paths
      /\ ino.at \in Int /\ ino.at <= Len(entries) /\ (~open => entries = <<>>)
      /\ (op.pc = "idle" \/ open)
      /\ 0..MaxEntries \subseteq Nat /\ Given \subseteq Nat
  BY KeptSame, TypedFields, BoundsAssumption DEF DbInv, DatabaseOK, Given
<1>crash. ASSUME NEW cause, Crash(cause) PROVE DbInv'
  BY <1>crash, CrashDb
<1>1. CASE OpenSession
  <2>1. entries' = <<>> /\ ~open /\ open' = TRUE /\ UNCHANGED <<disk, ino>>
    BY <1>1 DEF OpenSession
  <2>2. ino'.at <= Len(entries')
    BY <1>0, <2>1
  <2> QED  BY <1>0, <2>1, <2>2, EmptyOK DEF DbInv
<1>2. CASE OpenStore
  <2>1. UNCHANGED <<disk, open, ino>> /\ op.pc = "opening"
    BY <1>2 DEF OpenStore
  <2>2. CASE op.slot \in Stores /\ stores[op.slot].root
    <3>1. entries' = alloc_root_entry(entries, op.slot)
      BY <1>2, <2>2 DEF OpenStore
    <3>2. DatabaseOK(entries') /\ Len(entries') = Len(entries) + 1
      BY <1>0, <2>2, <3>1, AllocRootOK
    <3>3. Kept(entries, entries')
      BY <1>0, <3>2 DEF Kept
    <3> QED  BY <1>0, <2>1, <3>3, DbStep
  <2>3. CASE ~(op.slot \in Stores /\ stores[op.slot].root)
    <3>1. entries' = entries
      BY <1>2, <2>3 DEF OpenStore
    <3> QED  BY <1>0, <2>1, <3>1, DbStep
  <2> QED  BY <2>2, <2>3
<1>3. CASE CloseSession
  <2> DEFINE wds == WdsOf(entries, DOMAIN entries)
  <2>1. /\ entries' = <<>> /\ op.pc = "idle" /\ UNCHANGED <<disk, op>>
        /\ ino' = IF ino.at = NoEntry THEN ino ELSE [InoWithout(wds) EXCEPT !.at = Dangling]
    BY <1>3 DEF CloseSession, Ready
  <2> HIDE DEF wds
  <2>2. ino'.at = NoEntry \/ ino'.at = Dangling
    <3>1. CASE ino.at = NoEntry
      BY <2>1, <3>1
    <3>2. CASE ino.at # NoEntry
      <4>1. ino' = [InoWithout(wds) EXCEPT !.at = Dangling]
        BY <2>1, <3>2
      <4>2. InoWithout(wds).at \in Int
        BY <1>0, InoKept
      <4> QED  BY <4>1, <4>2
    <3> QED  BY <3>1, <3>2
  <2>3. ino'.at \in Int /\ ino'.at <= Len(entries')
    BY <2>1, <2>2 DEF NoEntry, Dangling
  <2> QED  BY <1>0, <2>1, <2>3, EmptyOK DEF DbInv
<1>4. ASSUME NEW s \in Stores, NEW h \in 0..MaxEntries, ListScan(s, h) PROVE DbInv'
  <2> DEFINE i == IF h = 0 THEN get_entry_by_handle_and_storageid(entries, 0, s)
                  ELSE get_entry_by_handle(entries, h)
             path == IF h = 0 THEN <<s>> ELSE build_full_path(entries, i)
             scan == Scan(disk, entries, path, h, s)
  <2>1. /\ open
        /\ \/ Crash("null path")
           \/ /\ entries' = scan.entries
              /\ ino' = InoWithout(scan.wds)
              /\ UNCHANGED <<disk, open>>
    BY <1>4 DEF ListScan
  <2>2. DatabaseOK(scan.entries) /\ Len(entries) <= Len(scan.entries)
    BY <1>0, ScanOK
  <2> HIDE DEF scan
  <2>3. CASE entries' = scan.entries /\ ino' = InoWithout(scan.wds) /\ UNCHANGED <<disk, open>>
    <3>1. Kept(entries, entries')
      BY <2>2, <2>3 DEF Kept
    <3>2. ino'.at = ino.at
      BY <2>3, InoKept
    <3> QED  BY <1>0, <2>1, <2>3, <3>1, <3>2, DbStep
  <2> QED  BY <1>crash, <2>1, <2>3
<1>5. CASE ListWatch
  <2>1. UNCHANGED <<disk, open, ino>> /\ op'.pc = "idle" /\ op.pc = "watch"
    BY <1>5 DEF ListWatch, Idle
  <2>2. \/ entries' = entries
        \/ \E w : entries' = [entries EXCEPT ![op.at].wd = w]
    BY <1>5 DEF ListWatch
  <2>3. CASE entries' = entries
    BY <1>0, <2>1, <2>3, DbStep
  <2>4. ASSUME NEW w, entries' = [entries EXCEPT ![op.at].wd = w] PROVE DbInv'
    <3>1. Retouched(entries, entries')
      BY <1>0, <2>4, WatchRetouches
    <3>2. Kept(entries, entries')
      BY <1>0, <3>1, RetouchedOK DEF Kept, Retouched
    <3> QED  BY <1>0, <2>1, <3>2, DbStep
  <2> QED  BY <2>2, <2>3, <2>4
<1>6. ASSUME NEW s \in Stores, NEW h \in 0..MaxEntries, NEW n \in Names, SendInfoUnplaced(s, h, n)
      PROVE  DbInv'
  <2>1. UNCHANGED <<disk, open, entries, op, ino>>
    BY <1>6 DEF SendInfoUnplaced
  <2> QED  BY <1>0, <2>1, DbStep
<1>7. ASSUME NEW s \in Stores, NEW h \in 0..MaxEntries, NEW n \in Names, SendFolderInfo(s, h, n)
      PROVE  DbInv'
  <2> DEFINE p == Append(build_full_path(entries, get_entry_by_handle_and_storageid(entries, h, s)), n)
  <2>1. /\ open /\ UNCHANGED <<open, op, ino>> /\ p \in Paths
        /\ \/ UNCHANGED <<disk, entries>>
           \/ Created(p) /\ entries' = add_entry(entries, n, TRUE, h, s)
    BY <1>7 DEF SendFolderInfo
  <2> HIDE DEF p
  <2>2. CASE UNCHANGED <<disk, entries>>
    BY <1>0, <2>1, <2>2, DbStep
  <2>3. CASE Created(p) /\ entries' = add_entry(entries, n, TRUE, h, s)
    <3>1. DatabaseOK(entries') /\ Extends(entries, entries')
      BY <1>0, <2>3, AddEntryOK
    <3>2. Kept(entries, entries')
      BY <3>1 DEF Kept, Extends
    <3>3. disk' \subseteq Paths
      BY <2>1, <2>3, CreatedDisk
    <3> QED  BY <1>0, <2>1, <3>2, <3>3, DbStep
  <2> QED  BY <2>1, <2>2, <2>3
<1>8. ASSUME NEW s \in Stores, NEW h \in 0..MaxEntries, NEW n \in Names, SendFileInfo(s, h, n)
      PROVE  DbInv'
  <2> DEFINE p == Append(build_full_path(entries, get_entry_by_handle_and_storageid(entries, h, s)), n)
  <2>1. /\ open /\ UNCHANGED <<open, op, ino>> /\ p \in Paths
        /\ \/ UNCHANGED <<disk, entries>>
           \/ Created(p) /\ entries' = add_entry(entries, n, FALSE, h, s)
    BY <1>8 DEF SendFileInfo
  <2> HIDE DEF p
  <2>2. CASE UNCHANGED <<disk, entries>>
    BY <1>0, <2>1, <2>2, DbStep
  <2>3. CASE Created(p) /\ entries' = add_entry(entries, n, FALSE, h, s)
    <3>1. DatabaseOK(entries') /\ Extends(entries, entries')
      BY <1>0, <2>3, AddEntryOK
    <3>2. Kept(entries, entries')
      BY <3>1 DEF Kept, Extends
    <3>3. disk' \subseteq Paths
      BY <2>1, <2>3, CreatedDisk
    <3> QED  BY <1>0, <2>1, <3>2, <3>3, DbStep
  <2> QED  BY <2>1, <2>2, <2>3
<1>9. CASE SendObject
  <2> DEFINE p == build_full_path(entries, get_entry_by_handle(entries, sendHandle))
  <2>1. \/ Crash("null path")
        \/ p \in Paths /\ Created(p) /\ UNCHANGED <<open, entries, op, ino>>
    BY <1>9 DEF SendObject
  <2> HIDE DEF p
  <2>2. CASE p \in Paths /\ Created(p) /\ UNCHANGED <<open, entries, op, ino>>
    BY <1>0, <2>2, CreatedDisk, DbStep
  <2> QED  BY <1>crash, <2>1, <2>2
<1>partial. ASSUME NEW h \in Given, SendPartialObject(h) PROVE DbInv'
  <2>1. open /\ UNCHANGED <<disk, open, entries, ino>>
    BY <1>partial DEF SendPartialObject
  <2> QED  BY <1>0, <2>1, DbStep
<1>data. CASE SendPartialData
  <2> DEFINE p == build_full_path(entries, get_entry_by_handle(entries, sendHandle))
  <2>1. \/ Crash("null path")
        \/ /\ op'.pc = "idle" /\ UNCHANGED <<open, entries, ino>>
           /\ disk' = disk \/ (p \in disk /\ Created(p))
    <3>1. \/ Crash("null path")
          \/ /\ op' = Idle /\ UNCHANGED <<open, entries, ino>>
             /\ disk' = disk \/ (p \in disk /\ Created(p))
      BY <1>data, Zenon DEF SendPartialData
    <3>2. Idle.pc = "idle"
      BY DEF Idle
    <3> QED  BY <3>1, <3>2, Zenon
  <2> HIDE DEF p
  <2>2. ASSUME p \in disk, Created(p) PROVE disk' \subseteq Paths
    <3>1. p \in Paths
      BY <1>0, <2>2
    <3> QED  BY <2>2, <3>1, CreatedDisk
  <2>3. CASE op'.pc = "idle" /\ UNCHANGED <<open, entries, ino>> /\ disk' \subseteq Paths
    BY <1>0, <2>3, DbStep
  <2> QED  BY <1>0, <1>crash, <2>1, <2>2, <2>3
<1>10. ASSUME NEW h \in Given, DeleteObject(h) PROVE DbInv'
  <2> DEFINE i == get_entry_by_handle(entries, h)
             p == build_full_path(entries, i)
  <2>1. /\ open /\ i # NoEntry
        /\ \/ Crash("null path")
           \/ \E dead : /\ entries' = Discard(entries, {i}) /\ ino' = InoWithout(dead)
                        /\ disk' \subseteq disk /\ UNCHANGED <<open, op>>
           \/ \E gone, dead :
                /\ entries' = Scan(disk \ gone, entries, p, h, entries[i].store).entries
                /\ ino' = InoWithout(dead) /\ disk' \subseteq disk /\ UNCHANGED <<open, op>>
    BY <1>10 DEF DeleteObject
  <2>2. entries[i].store \in Stores
    BY <1>0, <2>1, GetByHandle, TypedFields
  <2> HIDE DEF i, p
  <2>3. ASSUME NEW dead, entries' = Discard(entries, {i}), ino' = InoWithout(dead), disk' \subseteq disk,
               UNCHANGED <<open, op>>
        PROVE  DbInv'
    <3>1. Kept(entries, entries')
      BY <1>0, <2>3, DiscardOK DEF Kept
    <3>2. ino'.at = ino.at
      BY <2>3, InoKept
    <3> QED  BY <1>0, <2>1, <2>3, <3>1, <3>2, DbStep
  <2>4. ASSUME NEW gone, NEW dead,
               entries' = Scan(disk \ gone, entries, p, h, entries[i].store).entries,
               ino' = InoWithout(dead), disk' \subseteq disk, UNCHANGED <<open, op>>
        PROVE  DbInv'
    <3>0. disk \ gone \in SUBSET Paths /\ h \in Nat
      BY <1>0
    <3>1. DatabaseOK(entries') /\ Len(entries) <= Len(entries')
      BY <1>0, <2>2, <2>4, <3>0, ScanOK
    <3>2. ino'.at = ino.at
      BY <2>4, InoKept
    <3>3. Kept(entries, entries')
      BY <3>1 DEF Kept
    <3> QED  BY <1>0, <2>1, <2>4, <3>2, <3>3, DbStep
  <2> QED  BY <1>crash, <2>1, <2>3, <2>4
<1>named. ASSUME NEW at, NEW name, NEW bucket, NEW moved,
                entries' = SetName(entries, at, name, bucket, moved),
                at \in DOMAIN entries => bucket \in {entries[at].bucket, Hash(name)} /\ moved \in Nat
         PROVE  Kept(entries, entries')
  <2>1. Retouched(entries, entries')
    BY <1>0, <1>named, RenameRetouches
  <2> QED  BY <1>0, <2>1, RetouchedOK DEF Kept, Retouched
<1>11. ASSUME NEW h \in Given, NEW n \in Names, RenameFile(h, n) PROVE DbInv'
  <2> DEFINE i == get_entry_by_handle(entries, h)
  <2>1. /\ open
        /\ \/ Crash("null path")
           \/ /\ entries' = SetName(entries, i, n, entries[i].bucket, entries[i].moved)
              /\ UNCHANGED <<disk, open, ino>>
    BY <1>11 DEF RenameFile
  <2> HIDE DEF i
  <2>2. CASE /\ entries' = SetName(entries, i, n, entries[i].bucket, entries[i].moved)
             /\ UNCHANGED <<disk, open, ino>>
    <3>1. i \in DOMAIN entries => entries[i].moved \in Nat
      BY <1>0, TypedFields
    <3>2. Kept(entries, entries')
      BY <1>named, <2>2, <3>1
    <3> QED  BY <1>0, <2>1, <2>2, <3>2, DbStep
  <2> QED  BY <1>crash, <2>1, <2>2
<1>restore. CASE RenameRestore
  <2>1. \/ Crash("null path")
        \/ /\ op.pc = "naming" /\ UNCHANGED <<disk, open, ino>>
           /\ entries' = SetName(entries, op.at, op.old, entries[op.at].bucket, entries[op.at].moved)
    BY <1>restore DEF RenameRestore
  <2>2. CASE /\ op.pc = "naming" /\ UNCHANGED <<disk, open, ino>>
             /\ entries' = SetName(entries, op.at, op.old, entries[op.at].bucket, entries[op.at].moved)
    <3>1. op.at \in DOMAIN entries => entries[op.at].moved \in Nat
      BY <1>0, TypedFields
    <3>2. Kept(entries, entries')
      BY <1>named, <2>2, <3>1
    <3> QED  BY <1>0, <2>2, <3>2, DbStep
  <2> QED  BY <1>crash, <2>1, <2>2
<1>ondisk. CASE RenameOnDisk
  <2>1. /\ op.pc = "renaming" /\ UNCHANGED <<open, entries, ino>>
        /\ \/ disk' = disk
           \/ \E S, M : M \subseteq Paths /\ disk' = (disk \ S) \cup M
    BY <1>ondisk DEF RenameOnDisk
  <2>2. disk' \subseteq Paths
    BY <1>0, <2>1
  <2> QED  BY <1>0, <2>1, <2>2, DbStep
<1>fails. CASE RenameFails
  <2>1. op'.pc = "idle" /\ UNCHANGED <<disk, open, entries, ino>>
    BY <1>fails DEF RenameFails, Idle
  <2> QED  BY <1>0, <2>1, DbStep
<1>12. CASE RenameEntry
  <2>1. /\ UNCHANGED <<disk, open, ino>> /\ op'.pc = "idle" /\ op.pc = "renamed"
        /\ entries' = SetName(entries, op.at, op.name, Hash(op.name), changes)
    BY <1>12 DEF RenameEntry, Idle
  <2>2. Kept(entries, entries')
    BY <1>named, <2>1 DEF ChangesOK
  <2> QED  BY <1>0, <2>1, <2>2, DbStep
<1> QED  BY <1>1, <1>2, <1>3, <1>4, <1>5, <1>6, <1>7, <1>8, <1>9, <1>partial, <1>data, <1>10, <1>11,
            <1>restore, <1>ondisk, <1>fails, <1>12 DEF Responder

\* The inotify thread's steps.
LEMMA InotifyDb ==
  ASSUME DbInv, InotifyEvent \/ InotifyNext \/ InotifyDangling
  PROVE  DbInv'
<1>0. /\ Len(entries) \in Int /\ Kept(entries, entries) /\ disk \subseteq Paths
      /\ ino.at \in Int /\ ino.at <= Len(entries)
  BY KeptSame, TypedFields DEF DbInv, DatabaseOK
<1>1. CASE InotifyEvent
  <2>1. InotifyRound(Head(pending), Len(entries), Tail(pending))
    BY <1>1 DEF InotifyEvent
  <2>2. Len(entries) <= Len(entries)
    BY <1>0
  <2> QED  BY <1>0, <2>1, <2>2, RoundDb
<1>2. CASE InotifyNext
  <2>1. InotifyRound(ino.ev, ino.at, pending)
    BY <1>2 DEF InotifyNext
  <2> QED  BY <1>0, <2>1, RoundDb
<1>3. CASE InotifyDangling
  <2>1. CASE Crash("freed entry")
    <3>1. UNCHANGED <<disk, open, entries, op, ino>>
      BY <2>1 DEF Crash
    <3> QED  BY <1>0, <3>1, DbStep
  <2>2. CASE ino' = InoIdle /\ UNCHANGED <<disk, open, entries, op>>
    <3>1. ino'.at = 0 /\ Len(entries) \in Nat
      BY <2>2, TypedFields DEF InoIdle, NoEntry, DbInv, DatabaseOK
    <3>2. ino'.at \in Int /\ ino'.at <= Len(entries)
      BY <3>1
    <3> QED  BY <2>2, <3>2 DEF DbInv
  <2> QED  BY <1>3, <2>1, <2>2 DEF InotifyDangling
<1> QED  BY <1>1, <1>2, <1>3

\* mount_store.
LEMMA MountDb ==
  ASSUME DbInv, NEW s \in Stores, mount_store(s)
  PROVE  Kept(entries, entries') /\ (open \/ entries' = entries)
<1>1. Len(entries) \in Nat /\ Kept(entries, entries) /\ DatabaseOK(entries)
  BY KeptSame, TypedFields DEF DbInv, DatabaseOK
<1>2. CASE open /\ stores[s].notmounted
  <2>1. entries' = alloc_root_entry(entries, s)
    BY <1>2 DEF mount_store
  <2>2. DatabaseOK(entries') /\ Len(entries') = Len(entries) + 1
    BY <1>1, <2>1, AllocRootOK
  <2> QED  BY <1>1, <1>2, <2>2 DEF Kept
<1>3. CASE ~(open /\ stores[s].notmounted)
  <2>1. entries' = entries
    BY <1>3 DEF mount_store
  <2> QED  BY <1>1, <2>1
<1> QED  BY <1>2, <1>3

\* umount_store.
LEMMA UmountDb ==
  ASSUME DbInv, NEW s \in Stores, umount_store(s)
  PROVE  Kept(entries, entries') /\ (open \/ entries' = entries) /\ ino'.at = ino.at
<1>1. Len(entries) \in Nat /\ DatabaseOK(entries) /\ (~open => entries = <<>>)
  BY TypedFields DEF DbInv, DatabaseOK
<1>2. (\E S : entries' = Discard(entries, S)) /\ (\E wds : ino' = InoWithout(wds))
  BY DEF umount_store
<1>3. PICK S : entries' = Discard(entries, S)
  BY <1>2
<1>4. Kept(entries, entries')
  BY <1>1, <1>3, DiscardOK DEF Kept
<1>5. ~open => entries' = entries
  BY <1>1, <1>3 DEF Discard
<1>6. ino'.at = ino.at
  BY <1>2, InoKept
<1> QED  BY <1>4, <1>5, <1>6

\* The storage commands.
LEMMA MessageQueueDb == ASSUME DbInv, MessageQueue PROVE DbInv'
<1>0. Kept(entries, entries) /\ disk \subseteq Paths
  BY KeptSame DEF DbInv
<1>1. PICK s \in Stores : \/ MountCmd(s) \/ UnmountCmd(s) \/ LockCmd(s) \/ UnlockCmd(s)
                          \/ AddStorageCmd(s) \/ RemoveStorageCmd(s)
  BY DEF MessageQueue
<1>2. CASE MountCmd(s) \/ UnlockCmd(s)
  <2>1. mount_store(s) /\ UNCHANGED <<disk, open, op, ino>>
    BY <1>2 DEF MountCmd, UnlockCmd
  <2> QED  BY <1>0, <2>1, MountDb, DbStep
<1>3. CASE UnmountCmd(s) \/ LockCmd(s)
  <2>1. umount_store(s) /\ UNCHANGED <<disk, open, op>>
    BY <1>3 DEF UnmountCmd, LockCmd
  <2> QED  BY <1>0, <2>1, UmountDb, DbStep
<1>4. CASE AddStorageCmd(s) \/ RemoveStorageCmd(s)
  <2>1. UNCHANGED <<disk, open, entries, op, ino>>
    BY <1>4 DEF AddStorageCmd, RemoveStorageCmd
  <2> QED  BY <1>0, <2>1, DbStep
<1> QED  BY <1>1, <1>2, <1>3, <1>4

LEMMA ChangesInductive == Spec => []ChangesOK
<1>1. Init => ChangesOK
  BY DEF Init, ChangesOK
<1>2. ChangesOK /\ [Next]_vars => ChangesOK'
  BY ChangesNext
<1> QED  BY <1>1, <1>2, PTL DEF Spec

\* DbInv is inductive.
THEOREM DbInductive == Spec => []DbInv
<1>1. Init => DbInv
  <2>1. ASSUME Init PROVE DbInv
    <3>1. entries = <<>> /\ disk = InitialDisk /\ op.pc = "idle" /\ ino.at = 0
      BY <2>1 DEF Init, Idle, InoIdle, NoEntry
    <3> QED  BY <3>1, EmptyOK, PathsAssumption DEF DbInv
  <2> QED  BY <2>1
<1>2. DbInv /\ ChangesOK /\ [Next]_vars => DbInv'
  <2> SUFFICES ASSUME DbInv, ChangesOK, [Next]_vars PROVE DbInv'
    OBVIOUS
  <2>0. Kept(entries, entries) /\ disk \subseteq Paths
    BY KeptSame DEF DbInv
  <2>1. ASSUME NEW p \in Paths, OtherCreates(p) PROVE DbInv'
    <3>1. Created(p) /\ UNCHANGED <<open, entries, op, ino>>
      BY <2>1 DEF OtherCreates
    <3>2. disk' \subseteq Paths
      BY <3>1, CreatedDisk
    <3> QED  BY <2>0, <3>1, <3>2, DbStep
  <2>2. ASSUME NEW p \in Paths, OtherRemoves(p) PROVE DbInv'
    <3>1. disk' \subseteq disk /\ UNCHANGED <<open, entries, op, ino>>
      BY <2>2 DEF OtherRemoves
    <3> QED  BY <2>0, <3>1, DbStep
  <2>3. CASE UNCHANGED vars
    <3>1. UNCHANGED <<disk, open, entries, op, ino>>
      BY <2>3 DEF vars
    <3> QED  BY <2>0, <3>1, DbStep
  <2> QED  BY <2>1, <2>2, <2>3, ResponderDb, InotifyDb, MessageQueueDb DEF Next
<1> QED  BY <1>1, <1>2, ChangesInductive, PTL DEF Spec

\* No handle is given out twice (alloc_entry): for every set of paths and any number of
\* sessions, entries, events and storage commands.
THEOREM HandleUniqueCorrect == Spec => []HandleUnique
<1>1. DbInv => HandleUnique
  BY DEF DbInv, DatabaseOK, UniqueIn, HandleUnique
<1> QED  BY <1>1, DbInductive, PTL

\* No object has two live entries (add_entry, scan_and_add_folder), but for those the host
\* tried to rename.
THEOREM NoDuplicateCorrect == Spec => []NoDuplicate
<1>1. DbInv => NoDuplicate
  <2> SUFFICES ASSUME DbInv, NEW i \in DOMAIN entries, NEW j \in DOMAIN entries, i # j,
                      Live(entries, i), Live(entries, j),
                      entries[i].handle # 0, entries[j].handle # 0,
                      ~entries[i].tried, ~entries[j].tried
               PROVE  <<entries[i].name, entries[i].parent, entries[i].store>>
                        # <<entries[j].name, entries[j].parent, entries[j].store>>
    BY DEF NoDuplicate
  <2>1. Original(entries, i) /\ Original(entries, j)
    BY DEF Original
  <2>2. ~Alike(entries, i, j)
    BY <2>1 DEF DbInv, DatabaseOK, SingleIn
  <2> QED  BY <2>2 DEF Alike
<1> QED  BY <1>1, DbInductive, PTL

-----------------------------------------------------------------------------
(* The roots of the storages.                                              *)

Rooted(es) == \A i \in DOMAIN es : es[i].handle = 0 => /\ es[i].name = RootName \/ es[i].tried
                                                       /\ es[i].parent = 0
HasRoot(es, s) == \E i \in DOMAIN es : /\ ~es[i].deleted /\ es[i].handle = 0 /\ es[i].store = s
                                       /\ ~es[i].tried

\* From es to fs no root is deleted or renamed, but for those of the storages U.
KeptBut(es, fs, U) ==
  /\ Rooted(fs)
  /\ \A i \in DOMAIN es : /\ i \in DOMAIN fs /\ fs[i].handle = es[i].handle
                          /\ fs[i].store = es[i].store
                          /\ es[i].tried => fs[i].tried
                          /\ (es[i].handle = 0 /\ ~es[i].deleted /\ ~es[i].tried /\ es[i].store \notin U)
                             => ~fs[i].deleted /\ ~fs[i].tried
RootsKept(es, fs) == KeptBut(es, fs, {})

\* Events name objects that may exist, or nothing: never a root.
EventsOK(queue) == \E W, M : queue \in Seq([wd : W, mask : M, name : Names \cup {Ghost}])

\* setObjectPropValue is at work on an entry.
Renaming == {"naming", "renaming", "renamed"}

\* A steady storage that is mounted has its root, once OpenSession has reached its slot.
RootInv ==
  /\ Rooted(entries)
  /\ stores \in [Stores -> [root : BOOLEAN, notmounted : BOOLEAN, locked : BOOLEAN]]
  /\ op.pc = "opening" => op = [pc |-> "opening", slot |-> op.slot] /\ op.slot \in Nat \ {0}
  /\ op.pc \in Renaming => op.at \in DOMAIN entries /\ entries[op.at].tried
  /\ \A s \in steady : s \in Stores /\ \A t \in 1..s : stores[t].root
  /\ EventsOK(pending) /\ ino.ev.name # RootName
  /\ open => \A s \in steady : /\ ~stores[s].notmounted
                               /\ op.pc = "opening" => s < op.slot
                               => HasRoot(entries, s)

\* Entries are only added.
LEMMA ExtendsKeepsRoots ==
  ASSUME NEW es, Rooted(es), NEW fs, Extends(es, fs)
  PROVE  RootsKept(es, fs)
<1>1. Rooted(fs)
  BY DEF Rooted, Extends
<1> QED  BY <1>1 DEF Extends, RootsKept, KeptBut

\* What deleting entries leaves alone.
LEMMA DiscardFields ==
  ASSUME NEW es, Typed(es), NEW S
  PROVE  LET fs == Discard(es, S)
         IN  /\ DOMAIN fs = DOMAIN es
             /\ \A i \in DOMAIN es : /\ fs[i].handle = es[i].handle /\ fs[i].name = es[i].name
                                     /\ fs[i].parent = es[i].parent /\ fs[i].store = es[i].store
                                     /\ fs[i].dir = es[i].dir /\ fs[i].tried = es[i].tried
                                     /\ i \notin S => fs[i] = es[i]
                                     /\ es[i].deleted => fs[i].deleted
<1> DEFINE fs == Discard(es, S)
<1>1. PICK N, W : es \in Seq(EntryOf(N, W))
  BY DEF Typed
<1>2. \A i \in DOMAIN es : es[i] \in EntryOf(N, W)
  BY <1>1
<1>3. /\ DOMAIN fs = DOMAIN es
      /\ \A i \in DOMAIN es : fs[i] = IF i \in S THEN [es[i] EXCEPT !.deleted = TRUE, !.wd = NoWd]
                                      ELSE es[i]
  BY DEF Discard
<1> HIDE DEF fs
<1>4. \A i \in DOMAIN es : /\ fs[i].handle = es[i].handle /\ fs[i].name = es[i].name
                           /\ fs[i].parent = es[i].parent /\ fs[i].store = es[i].store
                           /\ fs[i].dir = es[i].dir /\ fs[i].tried = es[i].tried
                           /\ i \notin S => fs[i] = es[i]
                           /\ es[i].deleted => fs[i].deleted
  BY <1>2, <1>3 DEF EntryOf
<1> QED  BY <1>3, <1>4 DEF fs

\* Deleting entries other than roots nobody tried to rename, or those of the storages U.
LEMMA DiscardKeepsBut ==
  ASSUME NEW es, Typed(es), Rooted(es), NEW S, NEW U,
         \A i \in S : i \in DOMAIN es => es[i].handle # 0 \/ es[i].tried \/ es[i].store \in U
  PROVE  KeptBut(es, Discard(es, S), U)
<1> DEFINE fs == Discard(es, S)
<1>1. /\ DOMAIN fs = DOMAIN es
      /\ \A i \in DOMAIN es : /\ fs[i].handle = es[i].handle /\ fs[i].name = es[i].name
                              /\ fs[i].parent = es[i].parent /\ fs[i].store = es[i].store
                              /\ fs[i].tried = es[i].tried
                              /\ i \notin S => fs[i] = es[i]
  BY DiscardFields
<1> HIDE DEF fs
<1>2. Rooted(fs)
  BY <1>1 DEF Rooted
<1>3. KeptBut(es, fs, U)
  BY <1>1, <1>2 DEF KeptBut
<1> QED  BY <1>3 DEF fs

LEMMA DiscardKeepsRoots ==
  ASSUME NEW es, Typed(es), Rooted(es), NEW S,
         \A i \in S : i \in DOMAIN es => es[i].handle # 0 \/ es[i].tried
  PROVE  RootsKept(es, Discard(es, S))
BY DiscardKeepsBut DEF RootsKept

\* scan_and_add_folder deletes children, and a root is nobody's child.
LEMMA ScanKeepsRoots ==
  ASSUME NEW es, DatabaseOK(es), Rooted(es), NEW d \in SUBSET Paths, NEW path, NEW parent \in Nat,
         NEW store \in Stores
  PROVE  RootsKept(es, Scan(d, es, path, parent, store).entries)
<1> DEFINE added == AddFound(d, es, path, parent, store)
           kids  == children_of(added, parent, store)
           gone  == {i \in kids : ~ExistsIn(d, build_full_path(added, i))}
           fs    == Discard(added, gone)
<1>1. DatabaseOK(added) /\ Extends(es, added)
  BY AddFoundOK
<1>2. Scan(d, es, path, parent, store).entries = fs
  BY DEF Scan
<1> HIDE DEF added
<1>3. Typed(added) /\ RootsKept(es, added) /\ Rooted(added)
  BY <1>1, ExtendsKeepsRoots DEF DatabaseOK, RootsKept, KeptBut
<1>4. \A i \in gone : i \in DOMAIN added => added[i].handle # 0
  BY <1>3 DEF children_of, Rooted
<1> HIDE DEF gone
<1>5. RootsKept(added, fs)
  BY <1>3, <1>4, DiscardKeepsRoots
<1>6. RootsKept(es, fs)
  BY <1>3, <1>5 DEF RootsKept, KeptBut
<1> QED  BY <1>2, <1>6

\* A root is added.
LEMMA AllocKeepsRoots ==
  ASSUME NEW es, DatabaseOK(es), Rooted(es), NEW s \in Stores
  PROVE  RootsKept(es, alloc_root_entry(es, s)) /\ HasRoot(alloc_root_entry(es, s), s)
<1> DEFINE fs == alloc_root_entry(es, s)
           e  == NewEntry(0, RootName, TRUE, 0, s)
<1>1. /\ Typed(es) /\ DOMAIN es = 1..Len(es) /\ Len(es) \in Nat
      /\ DOMAIN fs = 1..(Len(es) + 1) /\ \A i \in DOMAIN es : fs[i] = es[i]
      /\ fs[Len(es) + 1] = e
  BY AllocRootOK, TypedFields DEF DatabaseOK
<1>2. e.handle = 0 /\ e.name = RootName /\ e.parent = 0 /\ e.store = s /\ ~e.deleted /\ ~e.tried
  BY DEF NewEntry
<1> HIDE DEF fs, e
<1>3. \A i \in DOMAIN fs : i \in DOMAIN es \/ i = Len(es) + 1
  BY <1>1
<1>4. DOMAIN es \subseteq DOMAIN fs /\ Len(es) + 1 \in DOMAIN fs
  BY <1>1
<1>5. Rooted(fs)
  BY <1>1, <1>2, <1>3 DEF Rooted
<1>6. RootsKept(es, fs)
  BY <1>1, <1>4, <1>5 DEF RootsKept, KeptBut
<1>7. HasRoot(fs, s)
  BY <1>1, <1>2, <1>4 DEF HasRoot
<1> QED  BY <1>6, <1>7 DEF fs

\* Roots that are kept are there.
LEMMA HasRootBut ==
  ASSUME NEW es, NEW fs, NEW U, KeptBut(es, fs, U), NEW s, s \notin U, HasRoot(es, s)
  PROVE  HasRoot(fs, s)
BY DEF KeptBut, HasRoot

LEMMA HasRootKept ==
  ASSUME NEW es, NEW fs, RootsKept(es, fs), NEW s, HasRoot(es, s)
  PROVE  HasRoot(fs, s)
BY HasRootBut DEF RootsKept

\* inotify_rm_watch and the queue.
LEMMA WithoutEvents ==
  ASSUME NEW queue, EventsOK(queue), NEW wds
  PROVE  EventsOK(Without(queue, wds))
<1> DEFINE N == Names \cup {Ghost}
           Ev(W, M) == [wd : W, mask : M, name : N]
           q == Without(queue, wds)
<1>1. PICK W, M : queue \in Seq(Ev(W, M))
  BY DEF EventsOK
<1> DEFINE E == Ev(W \cup {LostWd}, M \cup {"none"})
<1> HIDE DEF Ev
<1>2. DOMAIN queue = 1..Len(queue) /\ Len(queue) \in Nat /\ \A k \in DOMAIN queue : queue[k] \in Ev(W, M)
  BY <1>1
<1>3. LostEvent \in E /\ \A e \in Ev(W, M) : e \in E
  BY DEF LostEvent, Ev
<1> HIDE DEF E
<1>4. q = [k \in 1..Len(queue) |-> IF queue[k].wd \in wds THEN LostEvent ELSE queue[k]]
  BY <1>2 DEF Without
<1>5. q \in [1..Len(queue) -> E]
  <2>1. \A k \in 1..Len(queue) : (IF queue[k].wd \in wds THEN LostEvent ELSE queue[k]) \in E
    BY <1>2, <1>3
  <2> HIDE DEF q
  <2> QED  BY <1>4, <2>1, Zenon
<1>6. q \in Seq(E)
  BY <1>2, <1>5, IsSequence
<1> QED  BY <1>6 DEF EventsOK, E, Ev

\* Queues one after the other.
LEMMA JoinEvents ==
  ASSUME NEW q, EventsOK(q), NEW r, EventsOK(r)
  PROVE  EventsOK(q \o r)
<1> DEFINE Ev(W, M) == [wd : W, mask : M, name : Names \cup {Ghost}]
<1>1. PICK W, M : q \in Seq(Ev(W, M))
  BY DEF EventsOK
<1>2. PICK V, L : r \in Seq(Ev(V, L))
  BY DEF EventsOK
<1> DEFINE E == Ev(W \cup V, M \cup L)
<1>3. Ev(W, M) \subseteq E /\ Ev(V, L) \subseteq E
  OBVIOUS
<1> HIDE DEF Ev, E
<1>4. q \in Seq(E) /\ r \in Seq(E)
  BY <1>1, <1>2, <1>3, SeqMonotonic
<1>5. q \o r \in Seq(E)
  BY <1>4
<1> QED  BY <1>5 DEF EventsOK, E, Ev

\* The first event, and those after it.
LEMMA HeadEvents ==
  ASSUME NEW q, EventsOK(q), q # <<>>
  PROVE  EventsOK(Tail(q)) /\ Head(q).name # RootName
<1> DEFINE Ev(W, M) == [wd : W, mask : M, name : Names \cup {Ghost}]
<1>1. PICK W, M : q \in Seq(Ev(W, M))
  BY DEF EventsOK
<1> DEFINE E == Ev(W, M)
<1>2. \A e \in E : e.name \in Names \cup {Ghost}
  OBVIOUS
<1>3. RootName \notin Names \cup {Ghost}
  BY PathsAssumption DEF RootName, Ghost
<1> HIDE DEF Ev, E
<1>4. Tail(q) \in Seq(E) /\ Head(q) \in E
  BY <1>1 DEF E
<1> QED  BY <1>2, <1>3, <1>4 DEF EventsOK, E, Ev

\* What the kernel queues for paths that may exist.
LEMMA NotifiedEvents ==
  ASSUME NEW S \in SUBSET Paths, NEW mask
  PROVE  EventsOK(Notified(S, mask))
<1> DEFINE T == {p \in S : Wd(Front(p)) \in watches}
           A == {p \in T : Len(p) = 3}
           B == {p \in T : Len(p) = 2}
           ps == Deepest(T)
           W == {Wd(Front(p)) : p \in Paths}
           E == [wd : W, mask : {mask}, name : Names \cup {Ghost}]
           q == [k \in DOMAIN ps |-> Event(ps[k], mask)]
<1>1. IsFiniteSet(A) /\ IsFiniteSet(B)
  <2>1. A \in SUBSET Paths /\ B \in SUBSET Paths
    OBVIOUS
  <2> HIDE DEF A, B
  <2> QED  BY <2>1, FS_Subset, PathsAssumption
<1>2. ps = SetToSeq(A) \o SetToSeq(B)
  BY DEF Deepest
<1>3. A \subseteq Paths /\ B \subseteq Paths
  OBVIOUS
<1>4. Notified(S, mask) = q
  BY DEF Notified
<1> HIDE DEF A, B, ps
<1>5. SetToSeq(A) \in Seq(A) /\ SetToSeq(B) \in Seq(B)
  BY <1>1, Listed
<1>6. SetToSeq(A) \in Seq(Paths) /\ SetToSeq(B) \in Seq(Paths)
  BY <1>3, <1>5, SeqMonotonic
<1>7. ps \in Seq(Paths)
  BY <1>2, <1>6
<1>8. DOMAIN ps = 1..Len(ps) /\ Len(ps) \in Nat /\ \A k \in DOMAIN ps : ps[k] \in Paths
  BY <1>7
<1>9. \A p \in Paths : Event(p, mask) \in E
  <2> SUFFICES ASSUME NEW p \in Paths PROVE Event(p, mask) \in E
    OBVIOUS
  <2>1. Last(p) \in Names /\ Wd(Front(p)) \in W
    BY DEF Names
  <2> HIDE DEF W
  <2> QED  BY <2>1 DEF Event
<1> HIDE DEF E
<1>10. q \in [1..Len(ps) -> E]
  BY <1>8, <1>9
<1>11. q \in Seq(E)
  BY <1>8, <1>10, IsSequence
<1> QED  BY <1>4, <1>11 DEF EventsOK, E

\* A step that takes away no root but of the storages U, and starts no session.
LEMMA RootStepBut ==
  ASSUME RootInv, NEW U, KeptBut(entries, entries', U), open' = open, stores' = stores,
         steady' \subseteq steady \ U,
         \/ op' = op
         \/ /\ op.pc # "opening" /\ op'.pc # "opening"
            /\ op'.pc \in Renaming => op'.at \in DOMAIN entries' /\ entries'[op'.at].tried,
         EventsOK(pending'), ino'.ev.name # RootName
  PROVE  RootInv'
<1>1. Rooted(entries')
  BY DEF KeptBut
<1>2. op'.pc = "opening" => op' = op /\ op' = [pc |-> "opening", slot |-> op'.slot]
                            /\ op'.slot \in Nat \ {0}
  BY DEF RootInv
<1>3. op'.pc \in Renaming => op'.at \in DOMAIN entries' /\ entries'[op'.at].tried
  BY DEF RootInv, KeptBut
<1>4. ASSUME open', NEW s \in steady', ~stores'[s].notmounted, op'.pc = "opening" => s < op'.slot
      PROVE  HasRoot(entries', s)
  <2>1. op.pc = "opening" => s < op.slot
    BY <1>2, <1>4
  <2>2. HasRoot(entries, s)
    BY <1>4, <2>1 DEF RootInv
  <2>3. s \notin U
    BY <1>4
  <2> QED  BY <2>2, <2>3, HasRootBut
<1>5. \A s \in steady' : s \in Stores /\ \A t \in 1..s : stores'[t].root
  BY DEF RootInv
<1>6. stores' \in [Stores -> [root : BOOLEAN, notmounted : BOOLEAN, locked : BOOLEAN]]
  BY DEF RootInv
<1> QED  BY <1>1, <1>2, <1>3, <1>4, <1>5, <1>6 DEF RootInv

\* A step that takes away no root.
LEMMA RootStep ==
  ASSUME RootInv, RootsKept(entries, entries'), open' = open, stores' = stores,
         steady' \subseteq steady,
         \/ op' = op
         \/ /\ op.pc # "opening" /\ op'.pc # "opening"
            /\ op'.pc \in Renaming => op'.at \in DOMAIN entries' /\ entries'[op'.at].tried,
         EventsOK(pending'), ino'.ev.name # RootName
  PROVE  RootInv'
<1>1. steady' \subseteq steady \ {}
  OBVIOUS
<1> QED  BY <1>1, RootStepBut DEF RootsKept

\* The descriptor of the kept event is lost, not its name.
LEMMA InoNamed ==
  ASSUME NEW wds PROVE InoWithout(wds).ev.name = ino.ev.name
BY DEF InoWithout

\* Nothing is deleted when nothing changes.
LEMMA RootsSame == ASSUME RootInv PROVE RootsKept(entries, entries)
BY DEF RootInv, RootsKept, KeptBut

\* What find_entry returns.
LEMMA FindSome ==
  ASSUME NEW es, Typed(es), NEW name, NEW parent, NEW store,
         find_entry(es, name, parent, store) # NoEntry
  PROVE  LET i == find_entry(es, name, parent, store)
         IN  /\ i \in DOMAIN es /\ Live(es, i) /\ es[i].name = name /\ es[i].parent = parent
             /\ es[i].store = store
BY Find

\* A crash leaves the roots as they were.
LEMMA CrashRoots == ASSUME RootInv, NEW cause, Crash(cause) PROVE RootInv'
<1>1. UNCHANGED <<open, entries, stores, steady, op, pending, ino>>
  BY DEF Crash
<1>2. EventsOK(pending) /\ ino.ev.name # RootName
  BY DEF RootInv
<1> QED  BY <1>1, <1>2, RootsSame, RootStep

\* One round of the inotify thread deletes no root: no event names one, but for its moment
\* under another name.
LEMMA RoundRoots ==
  ASSUME DbInv, RootInv, NEW ev, ev.name # RootName, NEW from \in Int, from <= Len(entries),
         NEW queue, EventsOK(queue), InotifyRound(ev, from, queue)
  PROVE  RootInv'
<1> DEFINE i == get_entry_by_wd(entries, ev.wd, from)
           D == IF i # NoEntry /\ ev.mask = "delete" THEN DeletedBy(i, ev.name) ELSE {}
<1>0. \/ Crash("null path")
      \/ /\ IF i # NoEntry /\ ev.mask = "create" THEN on_create(i, ev.name)
            ELSE entries' = Discard(entries, D)
         /\ ino' = IF i <= 1 THEN InoIdle ELSE [at |-> i - 1, ev |-> ev]
         /\ pending' = Without(queue, WdsOf(entries, D))
         /\ UNCHANGED <<open, op, stores, steady>>
  BY DEF InotifyRound
<1>crash. CASE Crash("null path")
  BY <1>crash, CrashRoots
<1>1. SUFFICES ASSUME /\ IF i # NoEntry /\ ev.mask = "create" THEN on_create(i, ev.name)
                         ELSE entries' = Discard(entries, D)
                      /\ ino' = IF i <= 1 THEN InoIdle ELSE [at |-> i - 1, ev |-> ev]
                      /\ pending' = Without(queue, WdsOf(entries, D))
                      /\ UNCHANGED <<open, op, stores, steady>>
               PROVE  RootInv'
  BY <1>0, <1>crash
<1>2. DatabaseOK(entries) /\ Typed(entries) /\ Rooted(entries)
  BY DEF DbInv, DatabaseOK, RootInv
<1>3. i # NoEntry => i \in DOMAIN entries
  BY <1>2, GetByWd
<1>4. \A j \in D : j \in DOMAIN entries => entries[j].handle # 0 \/ entries[j].tried
  <2> SUFFICES ASSUME NEW j \in D
               PROVE  j \in DOMAIN entries => entries[j].handle # 0 \/ entries[j].tried
    OBVIOUS
  <2>1. j = find_entry(entries, ev.name, entries[i].handle, entries[i].store) /\ j # NoEntry
    BY DEF DeletedBy
  <2>2. j \in DOMAIN entries /\ entries[j].name = ev.name
    BY <1>2, <2>1, FindSome
  <2> QED  BY <1>2, <2>2 DEF Rooted
<1> HIDE DEF i, D
<1>5. RootsKept(entries, entries')
  <2>1. CASE i # NoEntry /\ ev.mask = "create"
    <3>1. on_create(i, ev.name)
      BY <1>1, <2>1
    <3>2. i \in DOMAIN entries
      BY <1>3, <2>1
    <3>3. entries[i].handle \in Nat /\ entries[i].store \in Stores
      BY <1>2, <3>2, TypedFields
    <3> DEFINE name == IF Exists(Append(build_full_path(entries, i), ev.name)) THEN ev.name ELSE Ghost
    <3>4. PICK isdir \in BOOLEAN :
            entries' = add_entry(entries, name, isdir, entries[i].handle, entries[i].store)
      BY <3>1 DEF on_create
    <3> HIDE DEF name
    <3>5. Extends(entries, entries')
      BY <1>2, <3>3, <3>4, AddEntryOK
    <3> QED  BY <1>2, <3>5, ExtendsKeepsRoots
  <2>2. CASE ~(i # NoEntry /\ ev.mask = "create")
    <3>1. entries' = Discard(entries, D)
      BY <1>1, <2>2
    <3> QED  BY <1>2, <1>4, <3>1, DiscardKeepsRoots
  <2> QED  BY <2>1, <2>2
<1>6. EventsOK(pending')
  BY <1>1, WithoutEvents
<1>7. ino'.ev.name # RootName
  <2>1. CASE i <= 1
    BY <1>1, <2>1 DEF InoIdle, NoEvent, Ghost, RootName
  <2>2. CASE ~(i <= 1)
    <3> DEFINE k == i - 1
    <3>1. ino' = [at |-> k, ev |-> ev]
      BY <1>1, <2>2
    <3> HIDE DEF k
    <3> QED  BY <3>1
  <2> QED  BY <2>1, <2>2
<1> QED  BY <1>1, <1>5, <1>6, <1>7, RootStep

\* The responder's steps.
LEMMA ResponderRoots == ASSUME DbInv, ChangesOK, RootInv, Responder PROVE RootInv'
<1>0. /\ DatabaseOK(entries) /\ Typed(entries) /\ Rooted(entries) /\ RootsKept(entries, entries)
      /\ disk \subseteq Paths /\ EventsOK(pending) /\ ino.ev.name # RootName
      /\ 0..MaxEntries \subseteq Nat /\ Given \subseteq Nat
  BY RootsSame, BoundsAssumption, TypedFields DEF DbInv, DatabaseOK, RootInv, Given
<1>crash. ASSUME NEW cause, Crash(cause) PROVE RootInv'
  BY <1>crash, CrashRoots
<1>created. ASSUME NEW p \in Paths, Created(p) PROVE EventsOK(pending')
  <2>1. PICK mask : pending' = pending \o Notified({p}, mask)
    BY <1>created DEF Created
  <2>2. EventsOK(Notified({p}, mask))
    BY NotifiedEvents
  <2> QED  BY <1>0, <2>1, <2>2, JoinEvents
<1>1. CASE OpenSession
  <2>1. /\ entries' = <<>> /\ op' = [pc |-> "opening", slot |-> 1]
        /\ steady' = {s \in Stores : \A t \in 1..s : stores[t].root}
        /\ UNCHANGED <<stores, pending, ino>>
    BY <1>1 DEF OpenSession
  <2>2. Rooted(entries')
    BY <2>1 DEF Rooted
  <2>3. \A s \in steady' : s \in Stores /\ \A t \in 1..s : stores'[t].root
    BY <2>1
  <2>4. op'.pc = "opening" /\ op'.slot = 1
    BY <2>1
  <2>5. \A s \in steady' : ~(s < op'.slot)
    BY <2>3, <2>4 DEF Stores
  <2> QED  BY <1>0, <2>1, <2>2, <2>3, <2>4, <2>5 DEF RootInv, Renaming
<1>2. CASE OpenStore
  <2>0. /\ UNCHANGED <<open, stores, steady, pending, ino>>
        /\ op.pc = "opening" /\ op = [pc |-> "opening", slot |-> op.slot] /\ op.slot \in Nat \ {0}
    BY <1>2 DEF OpenStore, RootInv
  <2>1. CASE op.slot \in Stores /\ stores[op.slot].root
    <3>1. entries' = alloc_root_entry(entries, op.slot) /\ op' = [op EXCEPT !.slot = @ + 1]
      BY <1>2, <2>1 DEF OpenStore
    <3>2. RootsKept(entries, entries') /\ HasRoot(entries', op.slot) /\ Rooted(entries')
      BY <1>0, <2>1, <3>1, AllocKeepsRoots DEF RootsKept, KeptBut
    <3> DEFINE k == op.slot + 1
    <3>3. k \in Nat \ {0}
      BY <2>0
    <3>4. \A s \in steady : s < k => s < op.slot \/ s = op.slot
      BY <2>0 DEF RootInv, Stores
    <3> HIDE DEF k
    <3>5. op' = [pc |-> "opening", slot |-> k]
      BY <2>0, <3>1 DEF k
    <3>6. op'.pc = "opening" /\ op'.slot = k
      BY <3>5
    <3>7. ASSUME open, NEW s \in steady, ~stores[s].notmounted, s < k PROVE HasRoot(entries', s)
      <4>1. CASE s = op.slot
        BY <3>2, <4>1
      <4>2. CASE s < op.slot
        <5>1. HasRoot(entries, s)
          BY <3>7, <4>2 DEF RootInv
        <5> QED  BY <3>2, <5>1, HasRootKept
      <4> QED  BY <3>4, <3>7, <4>1, <4>2
    <3> QED  BY <2>0, <3>2, <3>3, <3>5, <3>6, <3>7 DEF RootInv, Renaming
  <2>2. CASE ~(op.slot \in Stores /\ stores[op.slot].root)
    <3>1. entries' = entries /\ op'.pc = "idle"
      BY <1>2, <2>2 DEF OpenStore, Idle
    <3>2. \A s \in steady : s < op.slot
      <4> SUFFICES ASSUME NEW s \in steady, ~(s < op.slot) PROVE FALSE
        OBVIOUS
      <4>1. s \in Stores /\ \A t \in 1..s : stores[t].root
        BY DEF RootInv
      <4>2. op.slot \in 1..s /\ op.slot \in Stores
        BY <2>0, <4>1, PathsAssumption DEF Stores
      <4> QED  BY <2>2, <4>1, <4>2
    <3>3. \A s \in steady : open /\ ~stores[s].notmounted => HasRoot(entries, s)
      BY <3>2 DEF RootInv
    <3> QED  BY <2>0, <3>1, <3>3 DEF RootInv, Renaming
  <2> QED  BY <2>1, <2>2
<1>3. CASE CloseSession
  <2> DEFINE wds == WdsOf(entries, DOMAIN entries)
  <2>1. /\ entries' = <<>> /\ op.pc = "idle" /\ open' = FALSE /\ UNCHANGED <<op, stores, steady>>
        /\ pending' = Without(pending, wds)
        /\ ino' = IF ino.at = NoEntry THEN ino ELSE [InoWithout(wds) EXCEPT !.at = Dangling]
    BY <1>3 DEF CloseSession, Ready, unwatch
  <2> HIDE DEF wds
  <2>2. ino'.ev.name # RootName
    <3>1. InoWithout(wds).ev.name = ino.ev.name
      BY InoNamed
    <3>2. CASE ino.at = NoEntry
      BY <1>0, <2>1, <3>2
    <3>3. CASE ino.at # NoEntry
      <4>1. ino' = [InoWithout(wds) EXCEPT !.at = Dangling]
        BY <2>1, <3>3
      <4>2. ino'.ev = InoWithout(wds).ev
        BY <4>1
      <4> QED  BY <1>0, <3>1, <4>2
    <3> QED  BY <3>2, <3>3
  <2>3. EventsOK(pending')
    BY <1>0, <2>1, WithoutEvents
  <2>4. Rooted(entries')
    BY <2>1 DEF Rooted
  <2> QED  BY <2>1, <2>2, <2>3, <2>4 DEF RootInv, Renaming
<1>4. ASSUME NEW s \in Stores, NEW h \in 0..MaxEntries, ListScan(s, h) PROVE RootInv'
  <2> DEFINE i == IF h = 0 THEN get_entry_by_handle_and_storageid(entries, 0, s)
                  ELSE get_entry_by_handle(entries, h)
             path == IF h = 0 THEN <<s>> ELSE build_full_path(entries, i)
             scan == Scan(disk, entries, path, h, s)
  <2>1. \/ Crash("null path")
        \/ /\ entries' = scan.entries /\ op.pc = "idle" /\ op'.pc \in {"idle", "watch"}
           /\ pending' = Without(pending, scan.wds)
           /\ ino' = InoWithout(scan.wds)
           /\ UNCHANGED <<open, stores, steady>>
    <3>1. \/ Crash("null path")
          \/ /\ entries' = scan.entries /\ op.pc = "idle"
             /\ op' = IF Exists(path) THEN [pc |-> "watch", path |-> path, at |-> i] ELSE Idle
             /\ pending' = Without(pending, scan.wds)
             /\ ino' = InoWithout(scan.wds)
             /\ UNCHANGED <<open, stores, steady>>
      BY <1>4 DEF ListScan, Ready, unwatch
    <3> HIDE DEF i, path, scan
    <3>2. Idle.pc = "idle" /\ [pc |-> "watch", path |-> path, at |-> i].pc = "watch"
      BY DEF Idle
    <3>3. op' = (IF Exists(path) THEN [pc |-> "watch", path |-> path, at |-> i] ELSE Idle)
          => op'.pc \in {"idle", "watch"}
      BY <3>2, Zenon
    <3> QED  BY <3>1, <3>3, Zenon
  <2>2. RootsKept(entries, scan.entries)
    BY <1>0, ScanKeepsRoots
  <2> HIDE DEF scan
  <2>3. CASE /\ entries' = scan.entries /\ op.pc = "idle" /\ op'.pc \in {"idle", "watch"}
             /\ pending' = Without(pending, scan.wds)
             /\ ino' = InoWithout(scan.wds)
             /\ UNCHANGED <<open, stores, steady>>
    <3>1. EventsOK(pending') /\ ino'.ev.name # RootName
      BY <1>0, <2>3, WithoutEvents, InoNamed
    <3>2. op'.pc # "opening" /\ op'.pc \notin Renaming
      BY <2>3 DEF Renaming
    <3> QED  BY <2>2, <2>3, <3>1, <3>2, RootStep
  <2> QED  BY <1>crash, <2>1, <2>3
<1>5. CASE ListWatch
  <2>1. /\ UNCHANGED <<open, stores, steady, pending, ino>> /\ op'.pc = "idle" /\ op.pc = "watch"
    BY <1>5 DEF ListWatch, Idle
  <2>2. \/ entries' = entries
        \/ \E w : entries' = [entries EXCEPT ![op.at].wd = w]
    BY <1>5 DEF ListWatch
  <2>3. ASSUME NEW w, entries' = [entries EXCEPT ![op.at].wd = w] PROVE RootsKept(entries, entries')
    <3>1. PICK es, fs, at : es = entries /\ fs = entries' /\ at = op.at
      OBVIOUS
    <3>2. Typed(es) /\ Rooted(es) /\ fs = [es EXCEPT ![at].wd = w]
      BY <1>0, <2>3, <3>1
    <3>3. /\ DOMAIN fs = DOMAIN es
          /\ \A i \in DOMAIN es : /\ fs[i].handle = es[i].handle /\ fs[i].name = es[i].name
                                  /\ fs[i].parent = es[i].parent /\ fs[i].store = es[i].store
                                  /\ fs[i].deleted = es[i].deleted /\ fs[i].tried = es[i].tried
      BY <3>2, WatchRetouches
    <3>4. RootsKept(es, fs)
      BY <3>2, <3>3 DEF RootsKept, KeptBut, Rooted
    <3> QED  BY <3>1, <3>4
  <2>4. RootsKept(entries, entries')
    BY <1>0, <2>2, <2>3
  <2> QED  BY <1>0, <2>1, <2>4, RootStep DEF Renaming
<1>6. ASSUME NEW s \in Stores, NEW h \in 0..MaxEntries, NEW n \in Names, SendInfoUnplaced(s, h, n)
      PROVE  RootInv'
  <2>1. UNCHANGED <<open, entries, stores, steady, op, pending, ino>>
    BY <1>6 DEF SendInfoUnplaced
  <2> QED  BY <1>0, <2>1, RootStep
<1>7. ASSUME NEW s \in Stores, NEW h \in 0..MaxEntries, NEW n \in Names,
             SendFolderInfo(s, h, n) \/ SendFileInfo(s, h, n)
      PROVE  RootInv'
  <2> DEFINE p == Append(build_full_path(entries, get_entry_by_handle_and_storageid(entries, h, s)), n)
  <2>1. /\ UNCHANGED <<open, op, ino, stores, steady>> /\ p \in Paths
        /\ \/ UNCHANGED <<entries, pending>>
           \/ /\ Created(p)
              /\ \E isdir \in BOOLEAN : entries' = add_entry(entries, n, isdir, h, s)
    BY <1>7 DEF SendFolderInfo, SendFileInfo
  <2> HIDE DEF p
  <2>2. CASE UNCHANGED <<entries, pending>>
    BY <1>0, <2>1, <2>2, RootStep
  <2>3. ASSUME Created(p), NEW isdir \in BOOLEAN, entries' = add_entry(entries, n, isdir, h, s)
        PROVE  RootInv'
    <3>1. Extends(entries, entries')
      BY <1>0, <2>3, AddEntryOK
    <3>2. RootsKept(entries, entries')
      BY <1>0, <3>1, ExtendsKeepsRoots
    <3>3. EventsOK(pending')
      BY <1>created, <2>1, <2>3
    <3> QED  BY <1>0, <2>1, <3>2, <3>3, RootStep
  <2> QED  BY <2>1, <2>2, <2>3
<1>9. CASE SendObject
  <2> DEFINE p == build_full_path(entries, get_entry_by_handle(entries, sendHandle))
  <2>1. \/ Crash("null path")
        \/ p \in Paths /\ Created(p) /\ UNCHANGED <<open, entries, op, ino, stores, steady>>
    BY <1>9 DEF SendObject
  <2> HIDE DEF p
  <2>2. CASE p \in Paths /\ Created(p) /\ UNCHANGED <<open, entries, op, ino, stores, steady>>
    <3>1. EventsOK(pending')
      BY <1>created, <2>2
    <3> QED  BY <1>0, <2>2, <3>1, RootStep
  <2> QED  BY <1>crash, <2>1, <2>2
<1>partial. ASSUME NEW h \in Given, SendPartialObject(h) PROVE RootInv'
  <2>1. /\ op.pc = "idle" /\ op' \in {[pc |-> "partial"], Idle}
        /\ UNCHANGED <<open, entries, stores, steady, pending, ino>>
    BY <1>partial DEF SendPartialObject, Ready
  <2>2. [pc |-> "partial"].pc = "partial" /\ Idle.pc = "idle"
    BY DEF Idle
  <2>3. op'.pc = "partial" \/ op'.pc = "idle"
    BY <2>1, <2>2, Zenon
  <2>4. op'.pc # "opening" /\ op'.pc \notin Renaming
    BY <2>3 DEF Renaming
  <2> QED  BY <1>0, <2>1, <2>4, RootStep
<1>data. CASE SendPartialData
  <2> DEFINE p == build_full_path(entries, get_entry_by_handle(entries, sendHandle))
  <2>1. \/ Crash("null path")
        \/ /\ op.pc = "partial" /\ op' = Idle /\ UNCHANGED <<open, entries, stores, steady, ino>>
           /\ pending' = pending \/ (p \in disk /\ Created(p))
    BY <1>data, Zenon DEF SendPartialData
  <2> HIDE DEF p
  <2>2. CASE /\ op.pc = "partial" /\ op' = Idle /\ UNCHANGED <<open, entries, stores, steady, ino>>
             /\ pending' = pending \/ (p \in disk /\ Created(p))
    <3>1. op'.pc = "idle" /\ op.pc # "opening"
      BY <2>2 DEF Idle
    <3>2. EventsOK(pending')
      <4>1. CASE pending' = pending
        BY <1>0, <4>1
      <4>2. CASE p \in disk /\ Created(p)
        <5>1. p \in Paths
          BY <1>0, <4>2
        <5> QED  BY <1>created, <4>2, <5>1
      <4> QED  BY <2>2, <4>1, <4>2
    <3> QED  BY <1>0, <2>2, <3>1, <3>2, RootStep DEF Renaming
  <2> QED  BY <1>crash, <2>1, <2>2
<1>10. ASSUME NEW h \in Given, DeleteObject(h) PROVE RootInv'
  <2> DEFINE i == get_entry_by_handle(entries, h)
             p == build_full_path(entries, i)
  <2>1. /\ i # NoEntry
        /\ \/ Crash("null path")
           \/ \E dead : /\ entries' = Discard(entries, {i}) /\ ino' = InoWithout(dead)
                        /\ pending' = Without(pending \o Notified((Under(p) \cup {p}) \cap Paths, "delete"), dead)
                        /\ steady' = {s \in steady : <<s>> \notin Under(p) \cup {p}}
                        /\ UNCHANGED <<open, op, stores>>
           \/ \E S, dead :
                /\ entries' = Scan(disk \ S, entries, p, h, entries[i].store).entries
                /\ ino' = InoWithout(dead)
                /\ pending' = Without(pending \o Notified(S \cap Paths, "delete"), dead)
                /\ steady' = {s \in steady : <<s>> \notin S}
                /\ UNCHANGED <<open, op, stores>>
    BY <1>10 DEF DeleteObject
  <2>2. /\ i \in DOMAIN entries /\ entries[i].store \in Stores /\ h \in Nat
    <3>1. i \in DOMAIN entries /\ entries[i].handle = h
      BY <1>0, <2>1, GetByHandle
    <3> HIDE DEF i
    <3>2. entries[i].store \in Stores
      BY <1>0, <3>1, TypedFields
    <3> QED  BY <1>0, <3>1, <3>2
  <2>3. entries[i].handle = 0 /\ ~entries[i].tried => p = <<entries[i].store>>
    <3> HIDE DEF i
    <3> SUFFICES ASSUME entries[i].handle = 0, ~entries[i].tried PROVE p = <<entries[i].store>>
      OBVIOUS
    <3>1. entries[i].name = RootName /\ entries[i].parent = 0
      BY <1>0, <2>2 DEF Rooted
    <3>2. Base(entries, i) = <<entries[i].store>>
      BY <3>1 DEF Base, ParentOf
    <3> QED  BY <3>1, <3>2 DEF build_full_path
  <2> HIDE DEF i, p
  <2>4. ASSUME NEW S, NEW dead, ino' = InoWithout(dead),
               pending' = Without(pending \o Notified(S \cap Paths, "delete"), dead)
        PROVE  EventsOK(pending') /\ ino'.ev.name # RootName
    <3>1. S \cap Paths \in SUBSET Paths
      OBVIOUS
    <3>2. EventsOK(Notified(S \cap Paths, "delete"))
      BY <3>1, NotifiedEvents
    <3>3. EventsOK(pending')
      BY <1>0, <2>4, <3>2, JoinEvents, WithoutEvents
    <3> QED  BY <1>0, <2>4, <3>3, InoNamed
  <2>5. ASSUME NEW dead, entries' = Discard(entries, {i}), ino' = InoWithout(dead),
               pending' = Without(pending \o Notified((Under(p) \cup {p}) \cap Paths, "delete"), dead),
               steady' = {s \in steady : <<s>> \notin Under(p) \cup {p}},
               UNCHANGED <<open, op, stores>>
        PROVE  RootInv'
    <3> DEFINE U == {s \in Stores : <<s>> \in Under(p) \cup {p}}
    <3>1. entries[i].handle # 0 \/ entries[i].tried \/ entries[i].store \in U
      BY <2>2, <2>3
    <3>2. steady' \subseteq steady \ U
      BY <2>5
    <3> HIDE DEF U
    <3>3. KeptBut(entries, entries', U)
      BY <1>0, <2>5, <3>1, DiscardKeepsBut
    <3>4. EventsOK(pending') /\ ino'.ev.name # RootName
      BY <2>4, <2>5
    <3> QED  BY <2>5, <3>2, <3>3, <3>4, RootStepBut
  <2>6. ASSUME NEW S, NEW dead, entries' = Scan(disk \ S, entries, p, h, entries[i].store).entries,
               ino' = InoWithout(dead),
               pending' = Without(pending \o Notified(S \cap Paths, "delete"), dead),
               steady' = {s \in steady : <<s>> \notin S},
               UNCHANGED <<open, op, stores>>
        PROVE  RootInv'
    <3>1. disk \ S \in SUBSET Paths
      BY <1>0
    <3>2. RootsKept(entries, entries')
      BY <1>0, <2>2, <2>6, <3>1, ScanKeepsRoots
    <3>3. EventsOK(pending') /\ ino'.ev.name # RootName
      BY <2>4, <2>6
    <3>4. steady' \subseteq steady
      BY <2>6
    <3> QED  BY <2>6, <3>2, <3>3, <3>4, RootStep
  <2> QED  BY <1>crash, <2>1, <2>5, <2>6
\* What giving an entry a name does to the roots.
<1>named. ASSUME NEW at, NEW name, NEW bucket, NEW moved, at \in DOMAIN entries,
                 entries' = SetName(entries, at, name, bucket, moved),
                 bucket \in {entries[at].bucket, Hash(name)}, moved \in Nat
          PROVE  /\ at \in DOMAIN entries' /\ entries'[at].tried
                 /\ KeptBut(entries, entries', IF entries[at].handle = 0 THEN {entries[at].store} ELSE {})
                 /\ entries[at].tried => RootsKept(entries, entries')
  <2>1. PICK es, fs : es = entries /\ fs = entries'
    OBVIOUS
  <2>2. Typed(es) /\ Rooted(es) /\ fs = SetName(es, at, name, bucket, moved) /\ at \in DOMAIN es
    BY <1>0, <1>named, <2>1
  <2>3. /\ DOMAIN fs = DOMAIN es
        /\ \A i \in DOMAIN es : /\ fs[i].handle = es[i].handle
                                /\ fs[i].parent = es[i].parent /\ fs[i].store = es[i].store
                                /\ fs[i].deleted = es[i].deleted
                                /\ i # at => fs[i] = es[i]
                                /\ i = at => fs[i].name = name /\ fs[i].tried
    BY <1>named, <2>1, <2>2, RenameRetouches
  <2>4. Rooted(fs)
    BY <2>2, <2>3 DEF Rooted
  <2> DEFINE U == IF es[at].handle = 0 THEN {es[at].store} ELSE {}
  <2>5. es[at].handle = 0 => es[at].store \in U
    OBVIOUS
  <2> HIDE DEF U
  <2>6. KeptBut(es, fs, U)
    BY <2>2, <2>3, <2>4, <2>5 DEF KeptBut
  <2>7. es[at].tried => RootsKept(es, fs)
    BY <2>2, <2>3, <2>4 DEF RootsKept, KeptBut
  <2> QED  BY <2>1, <2>2, <2>3, <2>6, <2>7 DEF U
<1>11. ASSUME NEW h \in Given, NEW n \in Names, RenameFile(h, n) PROVE RootInv'
  <2> DEFINE i == get_entry_by_handle(entries, h)
             U == IF h = 0 THEN {entries[i].store} ELSE {}
  <2>1. /\ i # NoEntry /\ op.pc = "idle"
        /\ \/ Crash("null path")
           \/ /\ entries' = SetName(entries, i, n, entries[i].bucket, entries[i].moved)
              /\ \E from : op' = [pc |-> "naming", at |-> i, name |-> n, old |-> entries[i].name, from |-> from]
              /\ steady' = steady \ U
              /\ UNCHANGED <<pending, open, ino, stores>>
    BY <1>11 DEF RenameFile, Ready
  <2>2. i \in DOMAIN entries /\ entries[i].handle = h
    BY <1>0, <2>1, GetByHandle
  <2>3. entries[i].moved \in Nat
    <3> HIDE DEF i
    <3> QED  BY <1>0, <2>2, TypedFields
  <2>4. U = IF entries[i].handle = 0 THEN {entries[i].store} ELSE {}
    BY <2>2
  <2> HIDE DEF i, U
  <2>5. CASE /\ entries' = SetName(entries, i, n, entries[i].bucket, entries[i].moved)
             /\ \E from : op' = [pc |-> "naming", at |-> i, name |-> n, old |-> entries[i].name, from |-> from]
             /\ steady' = steady \ U
             /\ UNCHANGED <<pending, open, ino, stores>>
    <3>1. op'.pc = "naming" /\ op'.at = i
      BY <2>5
    <3>2. i \in DOMAIN entries' /\ entries'[i].tried /\ KeptBut(entries, entries', U)
      BY <1>named, <2>2, <2>3, <2>4, <2>5
    <3>3. op'.pc # "opening" /\ op'.at \in DOMAIN entries' /\ entries'[op'.at].tried
      BY <3>1, <3>2
    <3>4. steady' \subseteq steady \ U
      BY <2>5
    <3> QED  BY <1>0, <2>1, <2>5, <3>2, <3>3, <3>4, RootStepBut
  <2> QED  BY <1>crash, <2>1, <2>5
<1>restore. CASE RenameRestore
  <2>1. \/ Crash("null path")
        \/ /\ op.pc = "naming" /\ UNCHANGED <<pending, open, ino, stores, steady>>
           /\ entries' = SetName(entries, op.at, op.old, entries[op.at].bucket, entries[op.at].moved)
           /\ \E to : op' = [pc |-> "renaming", at |-> op.at, name |-> op.name, from |-> op.from, to |-> to]
    BY <1>restore DEF RenameRestore
  <2>2. CASE /\ op.pc = "naming" /\ UNCHANGED <<pending, open, ino, stores, steady>>
             /\ entries' = SetName(entries, op.at, op.old, entries[op.at].bucket, entries[op.at].moved)
             /\ \E to : op' = [pc |-> "renaming", at |-> op.at, name |-> op.name, from |-> op.from, to |-> to]
    <3>1. op'.pc = "renaming" /\ op'.at = op.at
      BY <2>2
    <3>2. op.at \in DOMAIN entries /\ entries[op.at].tried
      BY <2>2 DEF RootInv, Renaming
    <3>3. entries[op.at].moved \in Nat
      BY <1>0, <3>2, TypedFields
    <3>4. op.at \in DOMAIN entries' /\ entries'[op.at].tried /\ RootsKept(entries, entries')
      BY <1>named, <2>2, <3>2, <3>3
    <3>5. op'.pc # "opening" /\ op'.at \in DOMAIN entries' /\ entries'[op'.at].tried
      BY <3>1, <3>4
    <3> QED  BY <1>0, <2>2, <3>4, <3>5, RootStep
  <2> QED  BY <1>crash, <2>1, <2>2
<1>ondisk. CASE RenameOnDisk
  <2>1. /\ op.pc = "renaming" /\ UNCHANGED <<open, entries, ino, stores, steady>>
        /\ op' = [pc |-> "renamed", at |-> op.at, name |-> op.name]
        /\ op.from \in disk /\ op.to \in Paths
        /\ \/ pending' = pending
           \/ pending' = pending \o Notified({op.from}, "delete") \o Notified({op.to}, "create")
    BY <1>ondisk DEF RenameOnDisk
  <2>2. op'.pc = "renamed" /\ op'.at = op.at
    BY <2>1
  <2>3. op.at \in DOMAIN entries /\ entries[op.at].tried
    BY <2>1 DEF RootInv, Renaming
  <2>4. EventsOK(pending')
    <3>1. EventsOK(Notified({op.from}, "delete")) /\ EventsOK(Notified({op.to}, "create"))
      BY <1>0, <2>1, NotifiedEvents
    <3> QED  BY <1>0, <2>1, <3>1, JoinEvents
  <2>5. op'.pc # "opening" /\ op'.at \in DOMAIN entries' /\ entries'[op'.at].tried
    BY <2>1, <2>2, <2>3
  <2> QED  BY <1>0, <2>1, <2>4, <2>5, RootStep
<1>fails. CASE RenameFails
  <2>1. /\ op.pc = "renaming" /\ op'.pc = "idle"
        /\ UNCHANGED <<open, entries, ino, stores, steady, pending>>
    BY <1>fails DEF RenameFails, Idle
  <2> QED  BY <1>0, <2>1, RootStep DEF Renaming
<1>12. CASE RenameEntry
  <2>1. /\ UNCHANGED <<open, stores, steady, pending, ino>> /\ op'.pc = "idle" /\ op.pc = "renamed"
        /\ entries' = SetName(entries, op.at, op.name, Hash(op.name), changes)
    BY <1>12 DEF RenameEntry, Idle
  <2>2. op.at \in DOMAIN entries /\ entries[op.at].tried
    BY <2>1 DEF RootInv, Renaming
  <2>3. RootsKept(entries, entries')
    BY <1>named, <2>1, <2>2 DEF ChangesOK
  <2> QED  BY <1>0, <2>1, <2>3, RootStep DEF Renaming
<1> QED  BY <1>1, <1>2, <1>3, <1>4, <1>5, <1>6, <1>7, <1>9, <1>partial, <1>data, <1>10, <1>11,
            <1>restore, <1>ondisk, <1>fails, <1>12 DEF Responder

\* The inotify thread's steps.
LEMMA InotifyRoots ==
  ASSUME DbInv, RootInv, InotifyEvent \/ InotifyNext \/ InotifyDangling
  PROVE  RootInv'
<1>0. /\ Len(entries) \in Int /\ RootsKept(entries, entries) /\ EventsOK(pending)
      /\ ino.at \in Int /\ ino.at <= Len(entries) /\ ino.ev.name # RootName
  BY RootsSame, TypedFields DEF DbInv, DatabaseOK, RootInv
<1>1. CASE InotifyEvent
  <2>1. InotifyRound(Head(pending), Len(entries), Tail(pending)) /\ pending # <<>>
    BY <1>1 DEF InotifyEvent
  <2>2. Len(entries) <= Len(entries)
    BY <1>0
  <2>3. EventsOK(Tail(pending)) /\ Head(pending).name # RootName
    BY <1>0, <2>1, HeadEvents
  <2> QED  BY <1>0, <2>1, <2>2, <2>3, RoundRoots
<1>2. CASE InotifyNext
  <2>1. InotifyRound(ino.ev, ino.at, pending)
    BY <1>2 DEF InotifyNext
  <2> QED  BY <1>0, <2>1, RoundRoots
<1>3. CASE InotifyDangling
  <2>1. /\ UNCHANGED <<open, entries, stores, steady, op, pending>>
        /\ ino' = ino \/ ino' = InoIdle
    BY <1>3 DEF InotifyDangling, Crash
  <2>2. ino'.ev.name # RootName
    BY <1>0, <2>1 DEF InoIdle, NoEvent, Ghost, RootName
  <2> QED  BY <1>0, <2>1, <2>2, RootStep
<1> QED  BY <1>1, <1>2, <1>3

\* The storage commands.
LEMMA MessageQueueRoots == ASSUME DbInv, RootInv, MessageQueue PROVE RootInv'
<1> DEFINE Flags == [root : BOOLEAN, notmounted : BOOLEAN, locked : BOOLEAN]
<1>0. /\ DatabaseOK(entries) /\ Typed(entries) /\ Rooted(entries) /\ RootsKept(entries, entries)
      /\ EventsOK(pending) /\ ino.ev.name # RootName
      /\ stores \in [Stores -> Flags]
      /\ \A s \in steady : s \in Stores /\ \A t \in 1..s : t \in Stores /\ stores[t].root
  <2>1. \A s \in Stores : \A t \in 1..s : t \in Stores
    BY PathsAssumption DEF Stores
  <2> QED  BY <2>1, RootsSame DEF DbInv, DatabaseOK, RootInv
<1>1. PICK s \in Stores : \/ MountCmd(s) \/ UnmountCmd(s) \/ LockCmd(s) \/ UnlockCmd(s)
                          \/ AddStorageCmd(s) \/ RemoveStorageCmd(s)
  BY DEF MessageQueue
\* What every command keeps.
<1>2. ASSUME UNCHANGED <<open, op>>, stores' \in [Stores -> Flags], steady' \subseteq steady,
             \A t \in steady' : \A u \in 1..t : stores'[u].root,
             Rooted(entries'),
             \A i \in DOMAIN entries : i \in DOMAIN entries' /\ (entries[i].tried => entries'[i].tried),
             EventsOK(pending'), ino'.ev.name # RootName,
             open => \A t \in steady' : /\ ~stores'[t].notmounted
                                        /\ op.pc = "opening" => t < op.slot
                                        => HasRoot(entries', t)
      PROVE  RootInv'
  <2>1. op'.pc \in Renaming => op'.at \in DOMAIN entries' /\ entries'[op'.at].tried
    BY <1>2 DEF RootInv
  <2>2. op'.pc = "opening" => op' = [pc |-> "opening", slot |-> op'.slot] /\ op'.slot \in Nat \ {0}
    BY <1>2 DEF RootInv
  <2>3. \A t \in steady' : t \in Stores /\ \A u \in 1..t : stores'[u].root
    BY <1>0, <1>2
  <2> QED  BY <1>2, <2>1, <2>2, <2>3 DEF RootInv
\* mount_store adds the root of a storage that was not mounted.
<1>3. ASSUME mount_store(s)
      PROVE  /\ RootsKept(entries, entries')
             /\ open /\ stores[s].notmounted => HasRoot(entries', s)
  <2>1. CASE open /\ stores[s].notmounted
    <3>1. entries' = alloc_root_entry(entries, s)
      BY <1>3, <2>1 DEF mount_store
    <3> QED  BY <1>0, <3>1, AllocKeepsRoots
  <2>2. CASE ~(open /\ stores[s].notmounted)
    <3>1. entries' = entries
      BY <1>3, <2>2 DEF mount_store
    <3> QED  BY <1>0, <2>2, <3>1
  <2> QED  BY <2>1, <2>2
<1>4. CASE MountCmd(s)
  <2>1. /\ mount_store(s) /\ stores' = [stores EXCEPT ![s].notmounted = FALSE]
        /\ UNCHANGED <<open, op, ino, pending, steady>>
    BY <1>4 DEF MountCmd
  <2>2. RootsKept(entries, entries') /\ (open /\ stores[s].notmounted => HasRoot(entries', s))
    BY <1>3, <2>1
  <2>3. /\ stores' \in [Stores -> Flags]
        /\ \A t \in Stores : /\ stores'[t].root = stores[t].root
                             /\ t # s => stores'[t] = stores[t]
    BY <1>0, <2>1
  <2>4. ASSUME open, NEW t \in steady, ~stores'[t].notmounted, op.pc = "opening" => t < op.slot
        PROVE  HasRoot(entries', t)
    <3>1. CASE t = s /\ stores[s].notmounted
      BY <2>2, <2>4, <3>1
    <3>2. CASE ~(t = s /\ stores[s].notmounted)
      <4>1. ~stores[t].notmounted
        BY <1>0, <2>3, <2>4, <3>2
      <4>2. HasRoot(entries, t)
        BY <2>4, <4>1 DEF RootInv
      <4> QED  BY <2>2, <4>2, HasRootKept
    <3> QED  BY <3>1, <3>2
  <2>5. \A t \in steady' : \A u \in 1..t : stores'[u].root
    BY <1>0, <2>1, <2>3
  <2> QED  BY <1>0, <1>2, <2>1, <2>2, <2>3, <2>4, <2>5 DEF RootsKept, KeptBut
<1>5. CASE UnlockCmd(s)
  <2>1. /\ mount_store(s) /\ stores' = [stores EXCEPT ![s].locked = FALSE]
        /\ UNCHANGED <<open, op, ino, pending, steady>>
    BY <1>5 DEF UnlockCmd
  <2>2. RootsKept(entries, entries')
    BY <1>3, <2>1
  <2>3. /\ stores' \in [Stores -> Flags]
        /\ \A t \in Stores : /\ stores'[t].root = stores[t].root
                             /\ stores'[t].notmounted = stores[t].notmounted
    BY <1>0, <2>1
  <2>4. ASSUME open, NEW t \in steady, ~stores'[t].notmounted, op.pc = "opening" => t < op.slot
        PROVE  HasRoot(entries', t)
    <3>1. ~stores[t].notmounted
      BY <1>0, <2>3, <2>4
    <3>2. HasRoot(entries, t)
      BY <2>4, <3>1 DEF RootInv
    <3> QED  BY <2>2, <3>2, HasRootKept
  <2>5. \A t \in steady' : \A u \in 1..t : stores'[u].root
    BY <1>0, <2>1, <2>3
  <2> QED  BY <1>0, <1>2, <2>1, <2>2, <2>3, <2>4, <2>5 DEF RootsKept, KeptBut
\* umount_store deletes the entries of this storage and of no other.
<1>6. ASSUME umount_store(s)
      PROVE  /\ Rooted(entries') /\ EventsOK(pending') /\ ino'.ev.name # RootName
             /\ \A i \in DOMAIN entries : /\ i \in DOMAIN entries'
                                          /\ entries[i].tried => entries'[i].tried
             /\ \A t \in Stores : t # s /\ HasRoot(entries, t) => HasRoot(entries', t)
  <2> DEFINE S == get_entry_by_storageid(entries, s)
  <2>1. /\ entries' = Discard(entries, S)
        /\ \E wds : pending' = Without(pending, wds) /\ ino' = InoWithout(wds)
    BY <1>6 DEF umount_store, unwatch
  <2>2. \A i \in S : entries[i].store = s
    BY DEF get_entry_by_storageid
  <2> HIDE DEF S
  <2>3. PICK es, fs : es = entries /\ fs = entries'
    OBVIOUS
  <2>4. /\ DOMAIN fs = DOMAIN es
        /\ \A i \in DOMAIN es : /\ fs[i].handle = es[i].handle /\ fs[i].name = es[i].name
                                /\ fs[i].parent = es[i].parent /\ fs[i].store = es[i].store
                                /\ fs[i].tried = es[i].tried
                                /\ i \notin S => fs[i] = es[i]
    BY <1>0, <2>1, <2>3, DiscardFields
  <2>5. Rooted(fs)
    BY <1>0, <2>3, <2>4 DEF Rooted
  <2>6. ASSUME NEW t \in Stores, t # s, HasRoot(es, t) PROVE HasRoot(fs, t)
    <3>1. PICK i \in DOMAIN es : ~es[i].deleted /\ es[i].handle = 0 /\ es[i].store = t /\ ~es[i].tried
      BY <2>6 DEF HasRoot
    <3>2. fs[i] = es[i]
      BY <2>2, <2>3, <2>4, <2>6, <3>1
    <3> QED  BY <2>4, <3>1, <3>2 DEF HasRoot
  <2>7. EventsOK(pending') /\ ino'.ev.name # RootName
    BY <1>0, <2>1, WithoutEvents, InoNamed
  <2> QED  BY <2>3, <2>4, <2>5, <2>6, <2>7
<1>7. CASE UnmountCmd(s)
  <2>1. /\ umount_store(s) /\ stores' = [stores EXCEPT ![s].notmounted = TRUE]
        /\ UNCHANGED <<open, op, steady>>
    BY <1>7 DEF UnmountCmd
  <2>2. /\ stores' \in [Stores -> Flags]
        /\ stores'[s].notmounted
        /\ \A t \in Stores : /\ stores'[t].root = stores[t].root
                             /\ t # s => stores'[t] = stores[t]
    <3>1. stores'[s].notmounted = TRUE
      BY <1>0, <2>1
    <3>2. /\ stores' \in [Stores -> Flags]
          /\ \A t \in Stores : /\ stores'[t].root = stores[t].root
                               /\ t # s => stores'[t] = stores[t]
      BY <1>0, <2>1
    <3> QED  BY <3>1, <3>2
  <2>3. ASSUME open, NEW t \in steady, ~stores'[t].notmounted, op.pc = "opening" => t < op.slot
        PROVE  HasRoot(entries', t)
    <3>1. t # s /\ t \in Stores /\ ~stores[t].notmounted
      BY <1>0, <2>2, <2>3
    <3>2. HasRoot(entries, t)
      BY <2>3, <3>1 DEF RootInv
    <3> QED  BY <1>6, <2>1, <3>1, <3>2
  <2>4. \A t \in steady' : \A u \in 1..t : stores'[u].root
    BY <1>0, <2>1, <2>2
  <2> QED  BY <1>2, <1>6, <2>1, <2>2, <2>3, <2>4
<1>8. CASE LockCmd(s)
  <2>1. /\ umount_store(s) /\ stores' = [stores EXCEPT ![s].locked = TRUE]
        /\ UNCHANGED <<open, op>> /\ steady' = steady \ {s}
    BY <1>8 DEF LockCmd
  <2>2. /\ stores' \in [Stores -> Flags]
        /\ \A t \in Stores : /\ stores'[t].root = stores[t].root
                             /\ t # s => stores'[t] = stores[t]
    BY <1>0, <2>1
  <2>3. ASSUME open, NEW t \in steady', ~stores'[t].notmounted, op.pc = "opening" => t < op.slot
        PROVE  HasRoot(entries', t)
    <3>1. t # s /\ t \in Stores /\ t \in steady /\ ~stores[t].notmounted
      BY <1>0, <2>1, <2>2, <2>3
    <3>2. HasRoot(entries, t)
      BY <2>3, <3>1 DEF RootInv
    <3> QED  BY <1>6, <2>1, <3>1, <3>2
  <2>4. \A t \in steady' : \A u \in 1..t : stores'[u].root
    BY <1>0, <2>1, <2>2
  <2> QED  BY <1>2, <1>6, <2>1, <2>2, <2>3, <2>4
<1>9. CASE AddStorageCmd(s)
  <2>1. /\ ~stores[s].root /\ UNCHANGED <<open, op, entries, steady, pending, ino>>
        /\ \E f \in BOOLEAN :
             stores' = [stores EXCEPT ![s] = [root |-> TRUE, notmounted |-> f, locked |-> FALSE]]
    BY <1>9 DEF AddStorageCmd
  <2>2. /\ stores' \in [Stores -> Flags] /\ stores'[s].root
        /\ \A t \in Stores : t # s => stores'[t] = stores[t]
    <3>1. PICK f \in BOOLEAN :
            stores' = [stores EXCEPT ![s] = [root |-> TRUE, notmounted |-> f, locked |-> FALSE]]
      BY <2>1
    <3>2. stores'[s].root = TRUE
      BY <1>0, <3>1
    <3>3. stores' \in [Stores -> Flags] /\ \A t \in Stores : t # s => stores'[t] = stores[t]
      BY <1>0, <3>1
    <3> QED  BY <3>2, <3>3
  <2>3. \A t \in steady : t # s /\ t \in Stores
    <3>1. s \in steady => s \in 1..s
      BY DEF Stores
    <3> QED  BY <1>0, <2>1, <3>1
  <2>4. ASSUME open, NEW t \in steady, ~stores'[t].notmounted, op.pc = "opening" => t < op.slot
        PROVE  HasRoot(entries', t)
    BY <2>1, <2>2, <2>3, <2>4 DEF RootInv
  <2>5. \A t \in steady' : \A u \in 1..t : stores'[u].root
    BY <1>0, <2>1, <2>2
  <2> QED  BY <1>0, <1>2, <2>1, <2>2, <2>4, <2>5
<1>10. CASE RemoveStorageCmd(s)
  <2>1. /\ UNCHANGED <<open, op, entries, pending, ino>> /\ steady' = {t \in steady : t < s}
        /\ stores' = [stores EXCEPT ![s] = [root |-> FALSE, notmounted |-> FALSE, locked |-> FALSE]]
    BY <1>10 DEF RemoveStorageCmd
  <2>2. /\ stores' \in [Stores -> Flags]
        /\ \A t \in Stores : t # s => stores'[t] = stores[t]
    BY <1>0, <2>1
  <2>3. \A t \in steady' : t \in steady /\ t # s /\ \A u \in 1..t : u # s /\ u \in Stores
    BY <1>0, <2>1 DEF Stores
  <2>4. ASSUME open, NEW t \in steady', ~stores'[t].notmounted, op.pc = "opening" => t < op.slot
        PROVE  HasRoot(entries', t)
    <3>1. t \in steady /\ ~stores[t].notmounted
      BY <1>0, <2>2, <2>3, <2>4
    <3> QED  BY <2>1, <2>4, <3>1 DEF RootInv
  <2>5. \A t \in steady' : \A u \in 1..t : stores'[u].root
    BY <1>0, <2>2, <2>3
  <2>6. steady' \subseteq steady
    BY <2>1
  <2> QED  BY <1>0, <1>2, <2>1, <2>2, <2>4, <2>5, <2>6
<1> QED  BY <1>1, <1>4, <1>5, <1>7, <1>8, <1>9, <1>10

\* Roots are allocated by OpenSession and mount_store and deleted by umount_store, or by the
\* host, which then has the storage no longer steady, as when it tries to rename one: in every
\* reachable state a steady storage that is mounted has the root it should have.
THEOREM RootInductive == Spec => []RootInv
<1>1. Init => RootInv
  <2> SUFFICES ASSUME Init PROVE RootInv
    OBVIOUS
  <2>1. /\ entries = <<>> /\ op.pc = "idle" /\ ino.ev.name = Ghost /\ open = FALSE
        /\ steady = {} /\ pending = <<>>
    BY DEF Init, Idle, InoIdle, NoEvent
  <2>2. stores \in [Stores -> [root : BOOLEAN, notmounted : BOOLEAN, locked : BOOLEAN]]
    BY DEF Init
  <2>3. EventsOK(pending)
    <3>1. <<>> \in Seq([wd : {}, mask : {}, name : Names \cup {Ghost}])
      OBVIOUS
    <3> QED  BY <2>1, <3>1 DEF EventsOK
  <2> QED  BY <2>1, <2>2, <2>3 DEF RootInv, Rooted, Ghost, RootName, Renaming
<1>2. DbInv /\ ChangesOK /\ RootInv /\ [Next]_vars => RootInv'
  <2> SUFFICES ASSUME DbInv, ChangesOK, RootInv, [Next]_vars PROVE RootInv'
    OBVIOUS
  <2>0. RootsKept(entries, entries) /\ EventsOK(pending) /\ ino.ev.name # RootName
        /\ disk \subseteq Paths
    BY RootsSame DEF RootInv, DbInv
  <2>1. ASSUME NEW p \in Paths, OtherCreates(p) \/ OtherRemoves(p) PROVE RootInv'
    <3>1. UNCHANGED <<open, entries, stores, steady, op, ino>>
      BY <2>1 DEF OtherCreates, OtherRemoves
    <3>2. \E mask : pending' = pending \o Notified({p}, mask)
      BY <2>1 DEF OtherCreates, OtherRemoves, Created
    <3>3. EventsOK(pending')
      BY <2>0, <3>2, NotifiedEvents, JoinEvents
    <3> QED  BY <2>0, <3>1, <3>3, RootStep
  <2>2. CASE UNCHANGED vars
    <3>1. UNCHANGED <<open, entries, stores, steady, op, pending, ino>>
      BY <2>2 DEF vars
    <3> QED  BY <2>0, <3>1, RootStep
  <2> QED  BY <2>1, <2>2, ResponderRoots, InotifyRoots, MessageQueueRoots DEF Next
<1> QED  BY <1>1, <1>2, DbInductive, ChangesInductive, PTL DEF Spec

\* A mounted storage keeps its root (mount_store, umount_store, OpenSession, delete_tree): for
\* any number of storages, commands and sessions, unless it was locked or removed or the host
\* deleted the root folder or tried to rename it.
THEOREM RootPresentCorrect == Spec => []RootPresent
<1>1. DbInv /\ RootInv => RootPresent
  <2> SUFFICES ASSUME DbInv, RootInv, open, op.pc # "opening", NEW s \in steady, ~stores[s].notmounted
               PROVE  get_entry_by_handle_and_storageid(entries, 0, s) # NoEntry
    BY DEF RootPresent
  <2> DEFINE S == {i \in DOMAIN entries : /\ Live(entries, i) /\ entries[i].handle = 0
                                          /\ entries[i].store = s}
  <2>1. HasRoot(entries, s)
    BY DEF RootInv
  <2>2. S # {}
    BY <2>1 DEF HasRoot, Live
  <2>3. DOMAIN entries = 1..Len(entries) /\ Len(entries) \in Nat
    BY TypedFields DEF DbInv, DatabaseOK
  <2>4. S \in SUBSET (1..Len(entries))
    BY <2>3
  <2>5. get_entry_by_handle_and_storageid(entries, 0, s) = Newest(S)
    BY DEF get_entry_by_handle_and_storageid
  <2> HIDE DEF S
  <2> QED  BY <2>2, <2>3, <2>4, <2>5, Largest
<1> QED  BY <1>1, DbInductive, RootInductive, PTL DEF Spec

-----------------------------------------------------------------------------
(* The path of an entry: data goes where it was announced.                 *)

\* Short sequences.
LEMMA Pair == ASSUME NEW a, NEW b PROVE Append(<<a>>, b) = <<a, b>> /\ <<a>> \o <<b>> = <<a, b>>
<1> DEFINE S == {a, b}
<1>1. /\ <<a>> \in Seq(S) /\ <<b>> \in Seq(S) /\ b \in S /\ <<a, b>> \in Seq(S)
      /\ Len(<<a>>) = 1 /\ Len(<<b>>) = 1 /\ Len(<<a, b>>) = 2
  OBVIOUS
<1>2. /\ Append(<<a>>, b) \in Seq(S) /\ Len(Append(<<a>>, b)) = 2
      /\ <<a>> \o <<b>> \in Seq(S) /\ Len(<<a>> \o <<b>>) = 2
  BY <1>1
<1>3. /\ \A i \in 1..2 : Append(<<a>>, b)[i] = <<a, b>>[i]
      /\ \A i \in 1..2 : (<<a>> \o <<b>>)[i] = <<a, b>>[i]
  BY <1>1
<1> QED  BY <1>1, <1>2, <1>3, SeqEqual

\* The same with three elements.
LEMMA Triple ==
  ASSUME NEW a, NEW b, NEW c
  PROVE  Append(<<a, b>>, c) = <<a, b, c>> /\ <<a, b>> \o <<c>> = <<a, b, c>>
<1> DEFINE S == {a, b, c}
<1>1. /\ <<a, b>> \in Seq(S) /\ <<c>> \in Seq(S) /\ c \in S /\ <<a, b, c>> \in Seq(S)
      /\ Len(<<a, b>>) = 2 /\ Len(<<c>>) = 1 /\ Len(<<a, b, c>>) = 3
  OBVIOUS
<1>2. /\ Append(<<a, b>>, c) \in Seq(S) /\ Len(Append(<<a, b>>, c)) = 3
      /\ <<a, b>> \o <<c>> \in Seq(S) /\ Len(<<a, b>> \o <<c>>) = 3
  BY <1>1
<1>3. /\ \A i \in 1..3 : Append(<<a, b>>, c)[i] = <<a, b, c>>[i]
      /\ \A i \in 1..3 : (<<a, b>> \o <<c>>)[i] = <<a, b, c>>[i]
  BY <1>1
<1> QED  BY <1>1, <1>2, <1>3, SeqEqual

\* Nothing is added.
LEMMA NoTail == ASSUME NEW a, NEW b PROVE <<a>> \o <<>> = <<a>> /\ <<a, b>> \o <<>> = <<a, b>>
<1>1. <<a>> \in Seq({a, b}) /\ <<a, b>> \in Seq({a, b})
  OBVIOUS
<1> QED  BY <1>1, ConcatEmptySeq

\* The last element and what is before it.
LEMMA Ends ==
  ASSUME NEW a, NEW b, NEW c
  PROVE  /\ Front(<<a, b>>) = <<a>> /\ Last(<<a, b>>) = b
         /\ Front(<<a, b, c>>) = <<a, b>> /\ Last(<<a, b, c>>) = c
<1> DEFINE S == {a, b, c}
<1>1. /\ <<a, b>> \in Seq(S) /\ Len(<<a, b>>) = 2 /\ <<a>> \in Seq(S) /\ Len(<<a>>) = 1
      /\ <<a, b, c>> \in Seq(S) /\ Len(<<a, b, c>>) = 3
  OBVIOUS
<1>2. Front(<<a, b>>) = SubSeq(<<a, b>>, 1, 1) /\ Front(<<a, b, c>>) = SubSeq(<<a, b, c>>, 1, 2)
  BY <1>1 DEF Front
<1>3. SubSeq(<<a, b>>, 1, 1) = <<a>>
  <2> DEFINE t == SubSeq(<<a, b>>, 1, 1)
  <2>1. \A i \in 1..1 : <<a, b>>[i] \in S
    OBVIOUS
  <2>2. t \in Seq(S) /\ Len(t) = 1 /\ \A i \in 1..1 : t[i] = <<a, b>>[1 + i - 1]
    BY <2>1, SubSeqProperties
  <2>3. t \in Seq(S) /\ Len(t) = 1 /\ t[1] = a
    BY <2>2
  <2> HIDE DEF t
  <2>4. \A i \in 1..1 : t[i] = <<a>>[i]
    BY <2>3
  <2>5. t = <<a>>
    BY <1>1, <2>3, <2>4, SeqEqual
  <2> QED  BY <2>5 DEF t
<1>4. SubSeq(<<a, b, c>>, 1, 2) = <<a, b>>
  <2> DEFINE t == SubSeq(<<a, b, c>>, 1, 2)
  <2>1. \A i \in 1..2 : <<a, b, c>>[i] \in S
    OBVIOUS
  <2>2. t \in Seq(S) /\ Len(t) = 2 /\ \A i \in 1..2 : t[i] = <<a, b, c>>[1 + i - 1]
    BY <2>1, SubSeqProperties
  <2>3. t \in Seq(S) /\ Len(t) = 2 /\ t[1] = a /\ t[2] = b
    BY <2>2
  <2> HIDE DEF t
  <2>4. \A i \in 1..2 : t[i] = <<a, b>>[i]
    BY <2>3
  <2>5. t = <<a, b>>
    BY <1>1, <2>3, <2>4, SeqEqual
  <2> QED  BY <2>5 DEF t
<1>5. Last(<<a, b>>) = b /\ Last(<<a, b, c>>) = c
  BY DEF Last
<1> QED  BY <1>2, <1>3, <1>4, <1>5

\* One more element.
LEMMA Longer ==
  ASSUME NEW S, NEW t \in Seq(S), NEW x \in S
  PROVE  Append(t, x) \in Seq(S) /\ Len(Append(t, x)) = Len(t) + 1
OBVIOUS

\* The walk over the parents names at most two folders.
LEMMA BaseShape ==
  ASSUME NEW es, NEW i
  PROVE  \/ Base(es, i) = <<es[i].store>>
         \/ \E x : Base(es, i) = <<es[i].store, x>>
         \/ \E x, y : Base(es, i) = <<es[i].store, x, y>>
<1> DEFINE s == es[i].store
           p == ParentOf(es, i)
           q == ParentOf(es, p)
<1>1. \A k : Named(es, k) = <<>> \/ Named(es, k) = <<es[k].name>>
  BY DEF Named
<1>2. Base(es, i) = <<s>> \/ Base(es, i) = <<s>> \o Named(es, q) \o Named(es, p)
  BY DEF Base
<1> HIDE DEF s, p, q
<1>3. CASE Base(es, i) = <<s>>
  BY <1>3 DEF s
<1>4. CASE Base(es, i) = <<s>> \o Named(es, q) \o Named(es, p)
  <2>1. CASE Named(es, q) = <<>>
    <3>0. <<s>> \o Named(es, q) = <<s>>
      BY <2>1, NoTail
    <3>1. Base(es, i) = <<s>> \o Named(es, p)
      BY <1>4, <3>0, Zenon
    <3> DEFINE a == es[p].name
    <3>2. <<s>> \o <<>> = <<s>> /\ <<s>> \o <<a>> = <<s, a>>
      BY NoTail, Pair
    <3>3. Named(es, p) = <<>> \/ Named(es, p) = <<a>>
      BY <1>1
    <3> HIDE DEF a
    <3>4. Base(es, i) = <<s>> \/ Base(es, i) = <<s, a>>
      BY <3>1, <3>2, <3>3, Zenon
    <3> QED  BY <3>4 DEF s
  <2>2. CASE Named(es, q) = <<es[q].name>>
    <3> DEFINE a == es[p].name
               b == es[q].name
    <3>1. <<s>> \o <<b>> = <<s, b>> /\ <<s, b>> \o <<>> = <<s, b>> /\ <<s, b>> \o <<a>> = <<s, b, a>>
      BY NoTail, Pair, Triple
    <3>2. Named(es, q) = <<b>> /\ (Named(es, p) = <<>> \/ Named(es, p) = <<a>>)
      BY <1>1, <2>2
    <3> HIDE DEF a, b
    <3>3. Base(es, i) = <<s, b>> \o Named(es, p)
      BY <1>4, <3>1, <3>2, Zenon
    <3>4. Base(es, i) = <<s, b>> \/ Base(es, i) = <<s, b, a>>
      BY <3>1, <3>2, <3>3, Zenon
    <3> QED  BY <3>4 DEF s
  <2> QED  BY <1>1, <2>1, <2>2
<1> QED  BY <1>2, <1>3, <1>4

\* A path below the path of entry i that is neither a root nor without a name: entry i is a
\* folder of the root of its storage, and the object no folder.
LEMMA BelowFolder ==
  ASSUME NEW es, NEW i, es[i].name \notin {Ghost, RootName}, NEW name,
         Append(build_full_path(es, i), name) \in Paths
  PROVE  /\ Append(build_full_path(es, i), name) = <<es[i].store, es[i].name, name>>
         /\ name \notin DirNames
<1> DEFINE s == es[i].store
           n == es[i].name
           b == Base(es, i)
           p == Append(build_full_path(es, i), name)
<1>1. p = Append(Append(b, n), name)
  BY DEF build_full_path
<1>2. b = <<s>> \/ (\E x : b = <<s, x>>) \/ (\E x, y : b = <<s, x, y>>)
  BY BaseShape
<1>3. p \in Paths
  OBVIOUS
<1> HIDE DEF s, n, b, p
<1>4. \/ p = <<p[1], p[2]>>
      \/ p = <<p[1], p[2], p[3]>> /\ p[3] \notin DirNames
  BY <1>3, PathsAssumption
<1>5. Len(p) \in {2, 3}
  BY <1>4
<1>6. ASSUME NEW x, b = <<s, x>> PROVE FALSE
  <2>0. Append(<<s, x>>, n) = <<s, x, n>>
    BY Triple
  <2>1. Append(b, n) = <<s, x, n>>
    BY <1>6, <2>0, Zenon
  <2>2. Len(Append(<<s, x, n>>, name)) = 4
    <3>1. <<s, x, n>> \in Seq({s, x, n, name}) /\ Len(<<s, x, n>>) = 3
      OBVIOUS
    <3> QED  BY <3>1, AppendProperties
  <2> QED  BY <1>1, <1>5, <2>1, <2>2
<1>7. ASSUME NEW x, NEW y, b = <<s, x, y>> PROVE FALSE
  <2> DEFINE S == {s, x, y, n, name}
  <2>1. b \in Seq(S) /\ Len(b) = 3 /\ n \in S /\ name \in S
    BY <1>7
  <2> HIDE DEF S
  <2>2. Append(b, n) \in Seq(S) /\ Len(Append(b, n)) = Len(b) + 1
    BY <2>1, Longer, Zenon
  <2>3. Len(Append(Append(b, n), name)) = Len(Append(b, n)) + 1
    BY <2>1, <2>2, Longer, Zenon
  <2> QED  BY <1>1, <1>5, <2>1, <2>2, <2>3
<1>8. b = <<s>>
  BY <1>2, <1>6, <1>7
<1>9. p = <<s, n, name>>
  <2>1. Append(b, n) = <<s, n>>
    BY <1>8, Pair
  <2> QED  BY <1>1, <2>1, Triple
<1>10. p[3] = name /\ Len(p) = 3
  BY <1>9
<1>11. name \notin DirNames
  BY <1>4, <1>10
<1> QED  BY <1>9, <1>11 DEF p, s, n

\* A file of the root, or one of a folder.
LEMMA PathShape ==
  ASSUME NEW p \in Paths
  PROVE  /\ Len(p) \in {2, 3}
         /\ Last(p) \in Names /\ Last(p) # Ghost /\ Last(p) # RootName
         /\ Last(p) \in DirNames => \E a : Front(p) = <<a>>
<1> DEFINE a == p[1]
           b == p[2]
           c == p[3]
<1>1. p = <<a, b>> \/ (p = <<a, b, c>> /\ c \notin DirNames)
  BY PathsAssumption
<1>2. Last(p) \in Names /\ Last(p) # Ghost /\ Last(p) # RootName
  BY PathsAssumption DEF Names
<1> HIDE DEF a, b, c
<1>3. Len(p) \in {2, 3}
  BY <1>1
<1>4. Front(<<a, b>>) = <<a>> /\ Last(<<a, b, c>>) = c
  BY Ends
<1>5. Last(p) \in DirNames => Front(p) = <<a>>
  BY <1>1, <1>4
<1> QED  BY <1>2, <1>3, <1>5

\* An object that has a name is not at the root of its storage.
LEMMA LongPath ==
  ASSUME NEW es, NEW i, es[i].name \notin {Ghost, RootName}
  PROVE  Len(build_full_path(es, i)) # 1 /\ \A a : build_full_path(es, i) # <<a>>
<1> DEFINE s == es[i].store
           n == es[i].name
           b == Base(es, i)
<1>1. build_full_path(es, i) = Append(b, n)
  BY DEF build_full_path
<1>2. b = <<s>> \/ (\E x : b = <<s, x>>) \/ (\E x, y : b = <<s, x, y>>)
  BY BaseShape
<1> HIDE DEF s, n, b
<1>3. ASSUME NEW S, b \in Seq(S), s \in S, n \in S, Len(b) \in {1, 2, 3}
      PROVE  Len(Append(b, n)) # 1
  BY <1>3
<1>4. Len(Append(b, n)) # 1
  <2>1. CASE b = <<s>>
    <3>1. b \in Seq({s, n}) /\ Len(b) = 1
      BY <2>1
    <3> QED  BY <1>3, <3>1
  <2>2. ASSUME NEW x, b = <<s, x>> PROVE Len(Append(b, n)) # 1
    <3>1. b \in Seq({s, x, n}) /\ Len(b) = 2
      BY <2>2
    <3> QED  BY <1>3, <3>1
  <2>3. ASSUME NEW x, NEW y, b = <<s, x, y>> PROVE Len(Append(b, n)) # 1
    <3>1. b \in Seq({s, x, y, n}) /\ Len(b) = 3
      BY <2>3
    <3> QED  BY <1>3, <3>1
  <2> QED  BY <1>2, <2>1, <2>2, <2>3
<1>5. \A a : Len(<<a>>) = 1
  OBVIOUS
<1> QED  BY <1>1, <1>4, <1>5

\* The path of an entry, and a name below it, are sequences over some set.
LEMMA Sequenced ==
  ASSUME NEW s, NEW b, NEW n, NEW name,
         b = <<s>> \/ (\E x : b = <<s, x>>) \/ (\E x, y : b = <<s, x, y>>)
  PROVE  \E S : b \in Seq(S) /\ <<s>> \in Seq(S) /\ n \in S /\ name \in S /\ Len(b) # 0
<1>1. CASE b = <<s>>
  <2>1. b \in Seq({s, n, name}) /\ <<s>> \in Seq({s, n, name}) /\ Len(b) # 0
    BY <1>1
  <2> QED  BY <2>1
<1>2. ASSUME NEW x, b = <<s, x>>
      PROVE  \E S : b \in Seq(S) /\ <<s>> \in Seq(S) /\ n \in S /\ name \in S /\ Len(b) # 0
  <2>1. b \in Seq({s, x, n, name}) /\ <<s>> \in Seq({s, x, n, name}) /\ Len(b) # 0
    BY <1>2
  <2> QED  BY <2>1
<1>3. ASSUME NEW x, NEW y, b = <<s, x, y>>
      PROVE  \E S : b \in Seq(S) /\ <<s>> \in Seq(S) /\ n \in S /\ name \in S /\ Len(b) # 0
  <2>1. b \in Seq({s, x, y, n, name}) /\ <<s>> \in Seq({s, x, y, n, name}) /\ Len(b) # 0
    BY <1>3
  <2> QED  BY <2>1
<1> QED  BY <1>1, <1>2, <1>3

\* What is in the folder of an entry is below the root of the storage.
LEMMA PathLength ==
  ASSUME NEW es, NEW i, NEW name
  PROVE  Len(Append(build_full_path(es, i), name)) # 1
<1> DEFINE s == es[i].store
           n == es[i].name
           b == Base(es, i)
           p == build_full_path(es, i)
<1>1. p = b \/ p = Append(b, n)
  BY DEF build_full_path
<1>2. b = <<s>> \/ (\E x : b = <<s, x>>) \/ (\E x, y : b = <<s, x, y>>)
  BY BaseShape
<1> HIDE DEF s, n, b, p
<1>3. PICK S : b \in Seq(S) /\ <<s>> \in Seq(S) /\ n \in S /\ name \in S /\ Len(b) # 0
  BY <1>2, Sequenced
<1>4. Append(b, n) \in Seq(S) /\ Len(Append(b, n)) = Len(b) + 1 /\ Len(b) \in Nat /\ Len(<<s>>) = 1
  BY <1>3, Longer
<1>5. p \in Seq(S) /\ Len(p) # 0
  <2>1. <<s>> \in Seq(S) /\ Len(<<s>>) # 0 /\ Append(b, n) \in Seq(S) /\ Len(Append(b, n)) # 0
    BY <1>3, <1>4
  <2> QED  BY <1>1, <1>3, <2>1, Zenon
<1>6. Len(Append(p, name)) = Len(p) + 1 /\ Len(p) \in Nat
  BY <1>3, <1>5, Longer
<1> QED  BY <1>5, <1>6 DEF p

\* What get_entry_by_handle_and_storageid returns.
LEMMA GetByStore ==
  ASSUME NEW es, Typed(es), NEW h, NEW s, get_entry_by_handle_and_storageid(es, h, s) # NoEntry
  PROVE  LET i == get_entry_by_handle_and_storageid(es, h, s)
         IN  i \in DOMAIN es /\ Live(es, i) /\ es[i].handle = h /\ es[i].store = s
<1> DEFINE S == {i \in DOMAIN es : Live(es, i) /\ es[i].handle = h /\ es[i].store = s}
<1>1. get_entry_by_handle_and_storageid(es, h, s) = Newest(S)
  BY DEF get_entry_by_handle_and_storageid
<1>2. Len(es) \in Nat /\ S \in SUBSET (1..Len(es))
  BY TypedFields
<1>3. Newest(S) \in S
  <2> HIDE DEF S
  <2> QED  BY <1>1, <1>2, Largest
<1> QED  BY <1>1, <1>3

\* After add_entry the object is found.
LEMMA FoundOnceAdded ==
  ASSUME NEW es, DatabaseOK(es), NEW name, NEW isdir \in BOOLEAN, NEW parent \in Nat,
         NEW store \in Stores
  PROVE  find_entry(add_entry(es, name, isdir, parent, store), name, parent, store) # NoEntry
<1> DEFINE new == add_entry(es, name, isdir, parent, store)
           e == NewEntry(NextHandle(es), name, isdir, parent, store)
<1>1. CASE find_entry(es, name, parent, store) # NoEntry
  BY <1>1 DEF add_entry
<1>2. CASE find_entry(es, name, parent, store) = NoEntry
  <2>1. new = Append(es, e)
    BY <1>2 DEF add_entry, alloc_entry
  <2>2. Typed(es) /\ Typed(new)
    BY AddEntryOK DEF DatabaseOK
  <2>3. PICK N, W : es \in Seq(EntryOf(N, W))
    BY <2>2 DEF Typed
  <2>4. NextHandle(es) \in Nat
    BY <2>2, TakenFinite
  <2>5. e \in EntryOf({name}, {NoWd})
    BY <2>4, NewEntryTyped
  <2>6. es \in Seq(EntryOf(N \cup {name}, W \cup {NoWd}))
    BY <2>3, Widen
  <2>7. e \in EntryOf(N \cup {name}, W \cup {NoWd})
    BY <2>5 DEF EntryOf
  <2>8. /\ e.name = name /\ e.parent = parent /\ e.store = store /\ e.deleted = FALSE
        /\ e.bucket = Hash(name)
    BY DEF NewEntry
  <2> HIDE DEF new, e
  <2>9. Len(es) + 1 \in DOMAIN new /\ new[Len(es) + 1] = e
    BY <2>1, <2>6, <2>7
  <2>10. \E i \in DOMAIN new : new[i] = e
    BY <2>9
  <2>11. find_entry(new, name, parent, store) # NoEntry
    BY <2>2, <2>8, <2>10, Find DEF Live
  <2> QED  BY <2>11 DEF new
<1> QED  BY <1>1, <1>2

\* No folder is named on the way to entry i, unless one was renamed.
Shallow(es, i) ==
  \/ es[i].parent = 0
  \/ \E q \in DOMAIN es : es[q].handle = es[i].parent /\ (es[q].name = Ghost \/ es[q].tried)

\* A folder that has a name, and always had it, is at the root of its storage; no object is
\* called as a root is.
Folded(es) ==
  \A i \in DOMAIN es :
    es[i].handle # 0 => /\ es[i].name # RootName
                        /\ es[i].dir /\ es[i].name # Ghost /\ ~es[i].tried => Shallow(es, i)

\* Handle h is of the object that path p names.
Places(es, h, p) ==
  \E j \in DOMAIN es :
    /\ es[j].handle = h /\ es[j].name # Ghost
    /\ \/ es[j].parent = 0 /\ p = <<es[j].store, es[j].name>>
       \/ \E k \in DOMAIN es :
            /\ es[k].handle = es[j].parent /\ es[k].handle # 0 /\ es[k].dir /\ es[k].name # Ghost
            /\ p = <<es[j].store, es[k].name, es[j].name>>

\* Renaming operation o: a root has another name only while its new path is built, and gets
\* no further, for its path is no object's.
RenameOK(es, o) ==
  /\ \A i \in DOMAIN es :
       es[i].handle = 0 => es[i].name = RootName \/ (o.pc = "naming" /\ o.at = i)
  /\ o.pc \in Renaming => o.name # RootName
  /\ o.pc = "naming" => (es[o.at].handle = 0 <=> o.old = RootName)
  /\ o.pc \in {"naming", "renaming"} => es[o.at].handle # 0 \/ o.from \notin Paths
  /\ o.pc = "renamed" => es[o.at].handle # 0

\* Folders are where they can be, and the announced path is that of SendObjInfoHandle: no
\* rename is under way, which starts by forgetting what was announced.
PathInv ==
  /\ Folded(entries)
  /\ RenameOK(entries, op)
  /\ op.pc \in Renaming => announced \notin Paths
  /\ announced \in Paths => open /\ sendHandle # 0 /\ Places(entries, sendHandle, announced)

\* From es to fs entries may be added, deleted and watched.
Evolves(es, fs) ==
  /\ \A i \in DOMAIN es : /\ i \in DOMAIN fs
                          /\ fs[i].handle = es[i].handle /\ fs[i].name = es[i].name
                          /\ fs[i].parent = es[i].parent /\ fs[i].store = es[i].store
                          /\ fs[i].dir = es[i].dir /\ fs[i].tried = es[i].tried
  /\ \A i \in DOMAIN fs : i \in DOMAIN es \/ fs[i].handle # 0 \/ fs[i].name = RootName

\* A rename under way goes on, whatever entries are added or deleted.
LEMMA RenameKept ==
  ASSUME NEW es, NEW fs, Evolves(es, fs), NEW o, RenameOK(es, o),
         o.pc \in Renaming => o.at \in DOMAIN es
  PROVE  RenameOK(fs, o)
<1>1. \A i \in DOMAIN fs :
        fs[i].handle = 0 => fs[i].name = RootName \/ (o.pc = "naming" /\ o.at = i)
  BY DEF Evolves, RenameOK
<1>2. o.pc \in Renaming => fs[o.at].handle = es[o.at].handle
  BY DEF Evolves
<1> QED  BY <1>1, <1>2 DEF RenameOK, Renaming

\* A step to an operation that is no rename.
LEMMA RenameNone ==
  ASSUME NEW es, NEW fs, Evolves(es, fs), NEW o, RenameOK(es, o), o.pc # "naming",
         NEW o2, o2.pc \notin Renaming
  PROVE  RenameOK(fs, o2)
<1>1. \A i \in DOMAIN fs : fs[i].handle = 0 => fs[i].name = RootName
  BY DEF Evolves, RenameOK
<1> QED  BY <1>1 DEF RenameOK, Renaming

\* A folder stays where it is.
LEMMA ShallowKept ==
  ASSUME NEW es, NEW fs, Evolves(es, fs), NEW i \in DOMAIN es, Shallow(es, i)
  PROVE  Shallow(fs, i)
<1>1. CASE es[i].parent = 0
  BY <1>1 DEF Evolves, Shallow
<1>2. CASE es[i].parent # 0
  <2>1. PICK q \in DOMAIN es : es[q].handle = es[i].parent /\ (es[q].name = Ghost \/ es[q].tried)
    BY <1>2 DEF Shallow
  <2>2. /\ q \in DOMAIN fs /\ fs[q].handle = fs[i].parent
        /\ fs[q].name = es[q].name /\ fs[q].tried = es[q].tried
    BY <2>1 DEF Evolves
  <2> QED  BY <2>1, <2>2 DEF Shallow
<1> QED  BY <1>1, <1>2

\* New entries are roots, or no folders, or nameless, or at the root of their storage.
LEMMA FoldedKept ==
  ASSUME NEW es, NEW fs, Evolves(es, fs), Folded(es),
         \A i \in DOMAIN fs : \/ i \in DOMAIN es \/ fs[i].handle = 0
                              \/ /\ fs[i].name # RootName
                                 /\ fs[i].dir /\ fs[i].name # Ghost => Shallow(fs, i)
  PROVE  Folded(fs)
<1> SUFFICES ASSUME NEW i \in DOMAIN fs, fs[i].handle # 0
             PROVE  /\ fs[i].name # RootName
                    /\ fs[i].dir /\ fs[i].name # Ghost /\ ~fs[i].tried => Shallow(fs, i)
  BY DEF Folded
<1>1. CASE i \in DOMAIN es
  <2>1. /\ es[i].handle = fs[i].handle /\ es[i].name = fs[i].name /\ es[i].dir = fs[i].dir
        /\ es[i].tried = fs[i].tried
    BY <1>1 DEF Evolves
  <2>2. /\ es[i].name # RootName
        /\ es[i].dir /\ es[i].name # Ghost /\ ~es[i].tried => Shallow(es, i)
    BY <1>1, <2>1 DEF Folded
  <2> QED  BY <1>1, <2>1, <2>2, ShallowKept
<1>2. CASE i \notin DOMAIN es
  BY <1>2
<1> QED  BY <1>1, <1>2

\* setObjectPropValue gives an entry a name that is not a root's.
LEMMA NamedFolded ==
  ASSUME NEW es, Typed(es), Folded(es), NEW at, NEW name, NEW bucket, NEW moved,
         at \in DOMAIN es => bucket \in {es[at].bucket, Hash(name)} /\ moved \in Nat,
         es[at].handle # 0 => name # RootName
  PROVE  LET fs == SetName(es, at, name, bucket, moved)
         IN  /\ Folded(fs) /\ DOMAIN fs = DOMAIN es
             /\ \A i \in DOMAIN es : /\ fs[i].handle = es[i].handle
                                     /\ i # at => fs[i].name = es[i].name
                                     /\ i = at => fs[i].name = name
<1> DEFINE fs == SetName(es, at, name, bucket, moved)
<1>1. /\ DOMAIN fs = DOMAIN es
      /\ \A i \in DOMAIN es : /\ fs[i].handle = es[i].handle
                              /\ fs[i].parent = es[i].parent /\ fs[i].store = es[i].store
                              /\ fs[i].dir = es[i].dir
                              /\ i # at => fs[i] = es[i]
                              /\ i = at => fs[i].name = name /\ fs[i].tried
  BY RenameRetouches
<1> HIDE DEF fs
<1>2. ASSUME NEW i \in DOMAIN es, fs[i].handle # 0 PROVE fs[i].name # RootName
  BY <1>1, <1>2 DEF Folded
<1>3. ASSUME NEW i \in DOMAIN es, fs[i].handle # 0, fs[i].dir, fs[i].name # Ghost, ~fs[i].tried
      PROVE  Shallow(fs, i)
  <2>1. i # at /\ fs[i] = es[i]
    BY <1>1, <1>3
  <2>2. Shallow(es, i)
    BY <1>3, <2>1 DEF Folded
  <2>3. CASE es[i].parent = 0
    BY <2>1, <2>3 DEF Shallow
  <2>4. ASSUME NEW q \in DOMAIN es, es[q].handle = es[i].parent, es[q].name = Ghost \/ es[q].tried
        PROVE  Shallow(fs, i)
    <3>1. fs[q].handle = fs[i].parent /\ (fs[q].name = Ghost \/ fs[q].tried)
      BY <1>1, <2>1, <2>4
    <3> QED  BY <1>1, <3>1 DEF Shallow
  <2> QED  BY <2>2, <2>3, <2>4 DEF Shallow
<1>4. Folded(fs)
  BY <1>1, <1>2, <1>3 DEF Folded
<1> QED  BY <1>1, <1>4 DEF fs

\* An object stays where it is.
LEMMA PlacesKept ==
  ASSUME NEW es, NEW fs, Evolves(es, fs), NEW h, NEW p, Places(es, h, p)
  PROVE  Places(fs, h, p)
<1>1. PICK j \in DOMAIN es :
        /\ es[j].handle = h /\ es[j].name # Ghost
        /\ \/ es[j].parent = 0 /\ p = <<es[j].store, es[j].name>>
           \/ \E k \in DOMAIN es :
                /\ es[k].handle = es[j].parent /\ es[k].handle # 0 /\ es[k].dir /\ es[k].name # Ghost
                /\ p = <<es[j].store, es[k].name, es[j].name>>
  BY DEF Places
<1>2. /\ j \in DOMAIN fs /\ fs[j].handle = es[j].handle /\ fs[j].name = es[j].name
      /\ fs[j].parent = es[j].parent /\ fs[j].store = es[j].store
  BY DEF Evolves
<1>3. CASE es[j].parent = 0 /\ p = <<es[j].store, es[j].name>>
  BY <1>1, <1>2, <1>3 DEF Places
<1>4. ASSUME NEW k \in DOMAIN es,
             es[k].handle = es[j].parent, es[k].handle # 0, es[k].dir, es[k].name # Ghost,
             p = <<es[j].store, es[k].name, es[j].name>>
      PROVE  Places(fs, h, p)
  <2>1. /\ k \in DOMAIN fs /\ fs[k].handle = fs[j].parent /\ fs[k].handle # 0 /\ fs[k].dir
        /\ fs[k].name # Ghost /\ p = <<fs[j].store, fs[k].name, fs[j].name>>
    BY <1>2, <1>4 DEF Evolves
  <2> QED  BY <1>1, <1>2, <2>1 DEF Places
<1> QED  BY <1>1, <1>3, <1>4

\* Entries are only added.
LEMMA ExtendsEvolves ==
  ASSUME NEW es, NEW fs, Extends(es, fs)
  PROVE  Evolves(es, fs)
BY DEF Extends, Evolves

\* Entries are only deleted.
LEMMA DiscardEvolves ==
  ASSUME NEW es, Typed(es), NEW S
  PROVE  Evolves(es, Discard(es, S)) /\ (Folded(es) => Folded(Discard(es, S)))
<1> DEFINE fs == Discard(es, S)
<1>1. DOMAIN fs = DOMAIN es /\ Evolves(es, fs)
  BY DiscardFields DEF Evolves
<1> HIDE DEF fs
<1>2. Folded(es) => Folded(fs)
  BY <1>1, FoldedKept
<1> QED  BY <1>1, <1>2 DEF fs

\* add_entry of a folder below entry i whose path is on a storage.
LEMMA AddFolded ==
  ASSUME NEW es, DatabaseOK(es), Folded(es), NEW i \in DOMAIN es, NEW name, NEW isdir \in BOOLEAN,
         NEW store \in Stores, name # RootName,
         \/ ~isdir \/ name = Ghost
         \/ name \in DirNames /\ Append(build_full_path(es, i), name) \in Paths
  PROVE  /\ Evolves(es, add_entry(es, name, isdir, es[i].handle, store))
         /\ Folded(add_entry(es, name, isdir, es[i].handle, store))
<1> DEFINE h == es[i].handle
           fs == add_entry(es, name, isdir, h, store)
           e == NewEntry(NextHandle(es), name, isdir, h, store)
<1>1. h \in Nat
  BY TypedFields DEF DatabaseOK
<1>2. Extends(es, fs) /\ \A j \in DOMAIN fs : j \in DOMAIN es \/ fs[j] = e
  BY <1>1, AddEntryOK
<1>3. e.name = name /\ e.parent = h /\ (e.dir <=> isdir)
  BY DEF NewEntry
<1>4. ~isdir \/ name = Ghost \/ h = 0 \/ es[i].name = Ghost
  BY BelowFolder DEF Folded
<1>5. h = es[i].handle
  OBVIOUS
<1> HIDE DEF fs, e, h
<1>6. Evolves(es, fs)
  BY <1>2, ExtendsEvolves
<1>names. ASSUME NEW j \in DOMAIN fs, j \notin DOMAIN es PROVE fs[j].name # RootName
  BY <1>2, <1>3, <1>names
<1>7. ASSUME NEW j \in DOMAIN fs, j \notin DOMAIN es, fs[j].dir, fs[j].name # Ghost
      PROVE  Shallow(fs, j)
  <2>1. fs[j] = e
    BY <1>2, <1>7
  <2>2. h = 0 \/ es[i].name = Ghost
    BY <1>3, <1>4, <1>7, <2>1
  <2>3. i \in DOMAIN fs /\ fs[i].handle = h /\ fs[i].name = es[i].name
    BY <1>5, <1>6 DEF Evolves
  <2>4. fs[j].parent = h
    BY <1>3, <2>1
  <2> QED  BY <2>2, <2>3, <2>4 DEF Shallow
<1>8. Folded(fs)
  BY <1>6, <1>7, <1>names, FoldedKept
<1> QED  BY <1>6, <1>8 DEF fs, h

\* scan_and_add_folder of a root, of an entry that has no name, or of a folder.
LEMMA ScanFolded ==
  ASSUME NEW es, DatabaseOK(es), Folded(es), NEW d \in SUBSET Paths, NEW path, NEW parent \in Nat,
         NEW store \in Stores,
         \/ parent = 0
         \/ \E i \in DOMAIN es : es[i].handle = parent /\ es[i].name = Ghost
         \/ \A a : path # <<a>>
  PROVE  /\ Evolves(es, Scan(d, es, path, parent, store).entries)
         /\ Folded(Scan(d, es, path, parent, store).entries)
<1> DEFINE added == AddFound(d, es, path, parent, store)
           fs == Scan(d, es, path, parent, store).entries
<1>1. /\ DatabaseOK(added) /\ Extends(es, added)
      /\ \A i \in DOMAIN added :
           \/ i \in DOMAIN es
           \/ \E f \in d : /\ Front(f) = path
                           /\ \E g \in Nat : added[i]
                                = NewEntry(g, Last(f), Last(f) \in DirNames, parent, store)
  BY AddFoundOK
<1>2. \E S : fs = Discard(added, S)
  BY DEF Scan
<1> HIDE DEF added, fs
<1>3. Evolves(es, added)
  BY <1>1, ExtendsEvolves
<1>4. ASSUME NEW j \in DOMAIN added, j \notin DOMAIN es, added[j].dir
      PROVE  Shallow(added, j)
  <2>1. PICK f \in d : /\ Front(f) = path
                       /\ \E g \in Nat : added[j]
                            = NewEntry(g, Last(f), Last(f) \in DirNames, parent, store)
    BY <1>1, <1>4
  <2>2. PICK g \in Nat : added[j] = NewEntry(g, Last(f), Last(f) \in DirNames, parent, store)
    BY <2>1
  <2>3. added[j].parent = parent /\ Last(f) \in DirNames
    <3> DEFINE isdir == Last(f) \in DirNames
               e == NewEntry(g, Last(f), isdir, parent, store)
    <3>1. added[j] = e
      BY <2>2
    <3>2. e.parent = parent
      BY DEF NewEntry
    <3>3. isdir \in BOOLEAN
      OBVIOUS
    <3> HIDE DEF isdir
    <3>4. e.dir = isdir
      BY <3>3 DEF NewEntry
    <3> HIDE DEF e
    <3>5. isdir
      BY <1>4, <3>1, <3>4, Zenon
    <3> QED  BY <3>1, <3>2, <3>5 DEF isdir
  <2>4. \E a : path = <<a>>
    BY <2>1, <2>3, PathShape
  <2>5. parent = 0 \/ \E i \in DOMAIN es : es[i].handle = parent /\ es[i].name = Ghost
    BY <2>4
  <2> QED  BY <1>3, <2>3, <2>5 DEF Shallow, Evolves
<1>names. ASSUME NEW j \in DOMAIN added, j \notin DOMAIN es PROVE added[j].name # RootName
  <2>1. PICK f \in d, g \in Nat : added[j] = NewEntry(g, Last(f), Last(f) \in DirNames, parent, store)
    BY <1>1, <1>names
  <2>2. added[j].name = Last(f)
    BY <2>1 DEF NewEntry
  <2> QED  BY <2>2, PathShape
<1>5. Folded(added)
  BY <1>3, <1>4, <1>names, FoldedKept
<1>6. Evolves(added, fs) /\ Folded(fs)
  BY <1>1, <1>2, <1>5, DiscardEvolves DEF DatabaseOK
<1>7. Evolves(es, fs)
  BY <1>3, <1>6 DEF Evolves
<1> QED  BY <1>6, <1>7 DEF fs

\* A root is added.
LEMMA AllocFolded ==
  ASSUME NEW es, DatabaseOK(es), Folded(es), NEW s \in Stores
  PROVE  Evolves(es, alloc_root_entry(es, s)) /\ Folded(alloc_root_entry(es, s))
<1> DEFINE fs == alloc_root_entry(es, s)
           e  == NewEntry(0, RootName, TRUE, 0, s)
<1>1. /\ Typed(es) /\ DOMAIN es = 1..Len(es) /\ Len(es) \in Nat
      /\ DOMAIN fs = 1..(Len(es) + 1) /\ \A i \in DOMAIN es : fs[i] = es[i]
      /\ fs[Len(es) + 1] = e
  BY AllocRootOK, TypedFields DEF DatabaseOK
<1>2. e.handle = 0 /\ e.name = RootName
  BY DEF NewEntry
<1> HIDE DEF fs, e
<1>3. \A i \in DOMAIN fs : i \in DOMAIN es \/ i = Len(es) + 1
  BY <1>1
<1>4. DOMAIN es \subseteq DOMAIN fs
  BY <1>1
<1>5. Evolves(es, fs)
  BY <1>1, <1>2, <1>3, <1>4 DEF Evolves
<1>6. Folded(fs)
  BY <1>1, <1>2, <1>3, <1>5, FoldedKept
<1> QED  BY <1>5, <1>6 DEF fs

\* Nothing changes.
LEMMA EvolvesSame == ASSUME NEW es PROVE Evolves(es, es)
BY DEF Evolves

\* What is not announced for any path.
LEMMA NotAnnounced == NoPath \notin Paths /\ Unplaced \notin Paths
<1>1. Len(NoPath) = 0 /\ Len(Unplaced) = 1
  BY DEF NoPath, Unplaced
<1> QED  BY <1>1, PathShape

\* A step of the other threads, or of the responder that announces nothing new.
LEMMA PathStep ==
  ASSUME RootInv, PathInv, Evolves(entries, entries'), Folded(entries'), open' = open,
         announced' \notin Paths \/ (announced' = announced /\ sendHandle' = sendHandle),
         op' = op \/ (op.pc # "naming" /\ op'.pc \notin Renaming)
  PROVE  PathInv'
<1>1. op'.pc \in Renaming => announced' \notin Paths
  BY DEF PathInv
<1>2. announced' \in Paths => open' /\ sendHandle' # 0 /\ Places(entries', sendHandle', announced')
  BY PlacesKept DEF PathInv
<1>3. PICK es, fs, o, o2 : es = entries /\ fs = entries' /\ o = op /\ o2 = op'
  OBVIOUS
<1>4. /\ RenameOK(es, o) /\ Evolves(es, fs) /\ (o.pc \in Renaming => o.at \in DOMAIN es)
      /\ o2 = o \/ (o.pc # "naming" /\ o2.pc \notin Renaming)
  BY <1>3 DEF PathInv, RootInv
<1>5. RenameOK(fs, o2)
  BY <1>4, RenameKept, RenameNone
<1> QED  BY <1>1, <1>2, <1>3, <1>5 DEF PathInv

\* A crash leaves everything where it is.
LEMMA CrashPath == ASSUME RootInv, PathInv, NEW cause, Crash(cause) PROVE PathInv'
<1>1. UNCHANGED <<open, entries, op, sendHandle, announced>>
  BY DEF Crash
<1>2. Folded(entries) /\ Evolves(entries, entries)
  BY EvolvesSame DEF PathInv
<1> QED  BY <1>1, <1>2, PathStep

\* One round of the inotify thread.
LEMMA RoundPath ==
  ASSUME DbInv, RootInv, PathInv, NEW ev, ev.name # RootName, NEW from \in Int,
         from <= Len(entries), NEW queue, InotifyRound(ev, from, queue)
  PROVE  PathInv'
<1> DEFINE i == get_entry_by_wd(entries, ev.wd, from)
           D == IF i # NoEntry /\ ev.mask = "delete" THEN DeletedBy(i, ev.name) ELSE {}
<1>0. \/ Crash("null path")
      \/ /\ IF i # NoEntry /\ ev.mask = "create" THEN on_create(i, ev.name)
            ELSE entries' = Discard(entries, D)
         /\ UNCHANGED <<open, op, sendHandle, announced>>
  BY DEF InotifyRound
<1>crash. CASE Crash("null path")
  BY <1>crash, CrashPath
<1>1. SUFFICES ASSUME /\ IF i # NoEntry /\ ev.mask = "create" THEN on_create(i, ev.name)
                         ELSE entries' = Discard(entries, D)
                      /\ UNCHANGED <<open, op, sendHandle, announced>>
               PROVE  PathInv'
  BY <1>0, <1>crash
<1>2. DatabaseOK(entries) /\ Typed(entries) /\ Folded(entries) /\ disk \subseteq Paths
  BY DEF DbInv, DatabaseOK, PathInv
<1>3. i # NoEntry => i \in DOMAIN entries
  BY <1>2, GetByWd
<1> HIDE DEF i, D
<1>4. Evolves(entries, entries') /\ Folded(entries')
  <2>1. CASE i # NoEntry /\ ev.mask = "create"
    <3> DEFINE p == Append(build_full_path(entries, i), ev.name)
               name == IF Exists(p) THEN ev.name ELSE Ghost
    <3>1. i \in DOMAIN entries
      BY <1>3, <2>1
    <3>2. entries[i].store \in Stores
      BY <1>2, <3>1, TypedFields
    <3>3. on_create(i, ev.name)
      BY <1>1, <2>1
    <3>4. PICK isdir \in BOOLEAN :
            /\ Exists(p) => isdir = (ev.name \in DirNames)
            /\ entries' = add_entry(entries, name, isdir, entries[i].handle, entries[i].store)
      BY <3>3 DEF on_create
    <3>5. Exists(p) => p \in Paths
      <4>1. Len(p) # 1
        BY <1>2, <3>1, PathLength
      <4> QED  BY <1>2, <4>1 DEF Exists, ExistsIn
    <3>6. \/ ~isdir \/ name = Ghost
          \/ name \in DirNames /\ Append(build_full_path(entries, i), name) \in Paths
      BY <3>4, <3>5
    <3>7. name # RootName
      BY DEF Ghost, RootName
    <3> HIDE DEF name
    <3> QED  BY <1>2, <3>1, <3>2, <3>4, <3>6, <3>7, AddFolded
  <2>2. CASE ~(i # NoEntry /\ ev.mask = "create")
    <3>1. entries' = Discard(entries, D)
      BY <1>1, <2>2
    <3> QED  BY <1>2, <3>1, DiscardEvolves
  <2> QED  BY <2>1, <2>2
<1> QED  BY <1>1, <1>4, PathStep

\* SendObjectInfo of a file: its handle is the one SendObject will look for.
LEMMA FilePath ==
  ASSUME DbInv, RootInv, PathInv, NEW s \in Stores, NEW h \in Nat, NEW n \in Names,
         SendFileInfo(s, h, n)
  PROVE  PathInv'
<1> DEFINE i == get_entry_by_handle_and_storageid(entries, h, s)
           p == Append(build_full_path(entries, i), n)
           new == add_entry(entries, n, FALSE, h, s)
<1>0. /\ DatabaseOK(entries) /\ Typed(entries) /\ Rooted(entries) /\ Folded(entries)
      /\ n # Ghost /\ n # RootName /\ RenameOK(entries, op)
  BY PathsAssumption DEF DbInv, DatabaseOK, RootInv, PathInv
<1>1. /\ IsFolder(entries, i) /\ entries[i].name # Ghost /\ p \in Paths /\ open
      /\ UNCHANGED <<open, op>> /\ op.pc = "idle"
      /\ \/ announced' = NoPath /\ UNCHANGED <<entries, sendHandle>>
         \/ /\ entries' = new /\ announced' = p
            /\ sendHandle' = new[find_entry(new, n, h, s)].handle
  BY DEF SendFileInfo, Ready
<1>2. /\ i \in DOMAIN entries /\ entries[i].handle = h /\ entries[i].store = s /\ entries[i].dir
  BY <1>0, <1>1, GetByStore DEF IsFolder
<1>3. p = Append(build_full_path(entries, i), n)
  OBVIOUS
<1> HIDE DEF i, p
<1>4. CASE announced' = NoPath /\ UNCHANGED <<entries, sendHandle>>
  BY <1>0, <1>1, <1>4, EvolvesSame, NotAnnounced, PathStep
<1>5. CASE /\ entries' = new /\ announced' = p
           /\ sendHandle' = new[find_entry(new, n, h, s)].handle
  <2> DEFINE j == find_entry(new, n, h, s)
  <2>1. DatabaseOK(new) /\ Typed(new) /\ Extends(entries, new) /\ Rooted(new)
    BY <1>0, AddEntryOK, ExtendsKeepsRoots DEF DatabaseOK, RootsKept, KeptBut
  <2>2. Evolves(entries, new) /\ Folded(new)
    BY <1>0, <1>2, AddFolded
  <2>3. find_entry(new, n, h, s) # NoEntry
    BY <1>0, FoundOnceAdded
  <2>4. j \in DOMAIN new /\ new[j].name = n /\ new[j].parent = h /\ new[j].store = s
    <3> HIDE DEF new
    <3> QED  BY <2>1, <2>3, FindSome
  <2>5. sendHandle' = new[j].handle
    BY <1>5
  <2> HIDE DEF new, j
  <2>renames. RenameOK(new, op)
    BY <1>0, <1>1, <2>2, RenameKept DEF Renaming
  <2>6. new[j].handle # 0
    BY <1>0, <1>1, <2>4, <2>renames DEF RenameOK
  <2>7. Places(new, new[j].handle, p)
    <3>1. CASE h = 0
      <4>0. entries[i].name = RootName /\ entries[i].parent = 0
        BY <1>0, <1>1, <1>2, <3>1 DEF RenameOK, Rooted
      <4>1. build_full_path(entries, i) = <<s>>
        <5>1. Base(entries, i) = <<s>>
          BY <1>2, <4>0 DEF Base, ParentOf
        <5> QED  BY <4>0, <5>1 DEF build_full_path
      <4>2. Append(<<s>>, n) = <<s, n>>
        BY Pair
      <4>3. p = <<new[j].store, new[j].name>>
        BY <1>3, <2>4, <4>1, <4>2
      <4> QED  BY <1>0, <2>4, <3>1, <4>3 DEF Places
    <3>2. CASE h # 0
      <4>0. entries[i].name \notin {Ghost, RootName}
        BY <1>0, <1>1, <1>2, <3>2 DEF Folded
      <4>1. p = <<s, entries[i].name, n>>
        BY <1>1, <1>2, <1>3, <4>0, BelowFolder
      <4>2. /\ i \in DOMAIN new /\ new[i].handle = h /\ new[i].dir /\ new[i].name # Ghost
            /\ p = <<new[j].store, new[i].name, new[j].name>>
        BY <1>1, <1>2, <2>2, <2>4, <4>1 DEF Evolves
      <4> QED  BY <1>0, <2>4, <3>2, <4>2 DEF Places
    <3> QED  BY <3>1, <3>2
  <2>8. Folded(entries') /\ RenameOK(entries', op')
    BY <1>1, <1>5, <2>2, <2>renames
  <2> QED  BY <1>1, <1>5, <2>5, <2>6, <2>7, <2>8 DEF PathInv, Renaming
<1> QED  BY <1>1, <1>4, <1>5

\* The responder's steps.
LEMMA ResponderPath == ASSUME DbInv, ChangesOK, RootInv, PathInv, Responder PROVE PathInv'
<1>0. /\ DatabaseOK(entries) /\ Typed(entries) /\ Folded(entries) /\ Evolves(entries, entries)
      /\ disk \subseteq Paths /\ 0..MaxEntries \subseteq Nat /\ Given \subseteq Nat
      /\ NoPath \notin Paths /\ Unplaced \notin Paths /\ Overtaken \notin Paths
      /\ RootName \notin Names /\ Rooted(entries) /\ RenameOK(entries, op)
  <2>1. Overtaken \in {NoPath, Unplaced}
    BY DEF Overtaken
  <2>2. Given \subseteq Nat
    BY TypedFields DEF DbInv, DatabaseOK, Given
  <2> QED  BY <2>1, <2>2, EvolvesSame, NotAnnounced, BoundsAssumption, PathsAssumption
           DEF DbInv, DatabaseOK, PathInv, RootInv
<1>crash. ASSUME NEW cause, Crash(cause) PROVE PathInv'
  BY <1>crash, CrashPath
<1>1. CASE OpenSession
  <2>1. /\ entries' = <<>> /\ op'.pc = "opening" /\ ~open /\ UNCHANGED announced
    BY <1>1 DEF OpenSession
  <2>2. Folded(entries')
    BY <2>1 DEF Folded
  <2>3. announced' \notin Paths
    BY <2>1 DEF PathInv
  <2>4. RenameOK(entries', op')
    BY <2>1 DEF RenameOK, Renaming
  <2> QED  BY <2>2, <2>3, <2>4 DEF PathInv
<1>2. CASE OpenStore
  <2>1. op.pc = "opening" /\ UNCHANGED <<open, sendHandle, announced>>
    BY <1>2 DEF OpenStore
  <2>2. \/ op.slot \in Stores /\ entries' = alloc_root_entry(entries, op.slot)
        \/ entries' = entries
    BY <1>2 DEF OpenStore
  <2>3. Evolves(entries, entries') /\ Folded(entries')
    BY <1>0, <2>2, AllocFolded
  <2>4. op'.pc \notin Renaming
    <3>1. op = [pc |-> "opening", slot |-> op.slot]
      BY <2>1 DEF RootInv
    <3>2. op' = [op EXCEPT !.slot = op.slot + 1] \/ op' = Idle
      BY <1>2 DEF OpenStore
    <3> DEFINE k == op.slot + 1
    <3> HIDE DEF k
    <3>3. op' = [pc |-> "opening", slot |-> k] \/ op' = Idle
      BY <3>1, <3>2 DEF k
    <3> QED  BY <3>3 DEF Idle, Renaming
  <2> QED  BY <2>1, <2>3, <2>4, PathStep
<1>3. CASE CloseSession
  <2>1. entries' = <<>> /\ op.pc = "idle" /\ op' = op /\ announced' = NoPath
    BY <1>3 DEF CloseSession, Ready
  <2>2. Folded(entries') /\ RenameOK(entries', op')
    BY <2>1 DEF Folded, RenameOK, Renaming
  <2> QED  BY <1>0, <2>1, <2>2 DEF PathInv
<1>4. ASSUME NEW s \in Stores, NEW h \in 0..MaxEntries, ListScan(s, h) PROVE PathInv'
  <2> DEFINE i == get_entry_by_handle(entries, h)
             path == IF h = 0 THEN <<s>> ELSE build_full_path(entries, i)
             scan == Scan(disk, entries, path, h, s)
  <2>1. /\ h # 0 => i # NoEntry /\ entries[i].name # Ghost
        /\ \/ Crash("null path")
           \/ /\ entries' = scan.entries /\ op.pc # "naming" /\ op'.pc \notin Renaming
              /\ UNCHANGED <<open, sendHandle, announced>>
    <3>1. /\ h # 0 => i # NoEntry /\ entries[i].name # Ghost
          /\ \/ Crash("null path")
             \/ /\ entries' = scan.entries /\ op.pc = "idle"
                /\ UNCHANGED <<open, sendHandle, announced>>
                /\ op' = Idle \/ \E at : op' = [pc |-> "watch", path |-> path, at |-> at]
      BY <1>4 DEF ListScan, IsFolder, Ready
    <3> HIDE DEF i, path, scan
    <3>2. op' = Idle => op'.pc \notin Renaming
      BY DEF Idle, Renaming
    <3>3. \A at : op' = [pc |-> "watch", path |-> path, at |-> at] => op'.pc \notin Renaming
      BY DEF Renaming
    <3>4. op.pc = "idle" => op.pc # "naming"
      OBVIOUS
    <3> QED  BY <3>1, <3>2, <3>3, <3>4, Zenon
  <2>2. h = 0 \/ \A a : path # <<a>>
    <3> SUFFICES ASSUME h # 0 PROVE \A a : path # <<a>>
      OBVIOUS
    <3>0. i \in DOMAIN entries /\ entries[i].handle = h
      BY <1>0, <2>1, GetByHandle
    <3>1. entries[i].name \notin {Ghost, RootName}
      <4> HIDE DEF i
      <4> QED  BY <1>0, <2>1, <3>0 DEF Folded
    <3>2. path = build_full_path(entries, i)
      OBVIOUS
    <3> HIDE DEF i, path
    <3> QED  BY <2>1, <3>1, <3>2, LongPath
  <2> HIDE DEF path
  <2>3. Evolves(entries, scan.entries) /\ Folded(scan.entries)
    BY <1>0, <2>2, ScanFolded
  <2> HIDE DEF i, scan
  <2> QED  BY <1>crash, <2>1, <2>3, PathStep
<1>5. CASE ListWatch
  <2>1. /\ UNCHANGED <<open, sendHandle, announced>>
        /\ op.pc # "naming" /\ op'.pc \notin Renaming
    BY <1>5 DEF ListWatch, Idle, Renaming
  <2>2. \/ entries' = entries
        \/ \E w : entries' = [entries EXCEPT ![op.at].wd = w]
    BY <1>5 DEF ListWatch
  <2>3. ASSUME NEW w, entries' = [entries EXCEPT ![op.at].wd = w]
        PROVE  Evolves(entries, entries') /\ Folded(entries')
    <3>1. PICK es, fs, at : es = entries /\ fs = entries' /\ at = op.at
      OBVIOUS
    <3>2. Typed(es) /\ Folded(es) /\ fs = [es EXCEPT ![at].wd = w]
      BY <1>0, <2>3, <3>1
    <3>3. DOMAIN fs = DOMAIN es /\ Evolves(es, fs)
      BY <3>2, WatchRetouches DEF Evolves
    <3>4. Folded(fs)
      BY <3>2, <3>3, FoldedKept
    <3> QED  BY <3>1, <3>3, <3>4
  <2>4. Evolves(entries, entries') /\ Folded(entries')
    BY <1>0, <2>2, <2>3
  <2> QED  BY <2>1, <2>4, PathStep
<1>6. ASSUME NEW s \in Stores, NEW h \in 0..MaxEntries, NEW n \in Names, SendInfoUnplaced(s, h, n)
      PROVE  PathInv'
  <2>1. UNCHANGED <<open, entries, op, sendHandle>> /\ announced' \in {NoPath, Unplaced}
    BY <1>6 DEF SendInfoUnplaced
  <2> QED  BY <1>0, <2>1, PathStep
<1>7. ASSUME NEW s \in Stores, NEW h \in 0..MaxEntries, NEW n \in Names, SendFolderInfo(s, h, n)
      PROVE  PathInv'
  <2> DEFINE i == get_entry_by_handle_and_storageid(entries, h, s)
             p == Append(build_full_path(entries, i), n)
  <2>1. /\ UNCHANGED <<open, op, sendHandle>> /\ announced' = NoPath
        /\ i # NoEntry /\ p \in Paths /\ n \in DirNames
        /\ \/ entries' = entries
           \/ entries' = add_entry(entries, n, TRUE, h, s)
    BY <1>7 DEF SendFolderInfo, IsFolder
  <2>2. i \in DOMAIN entries /\ entries[i].handle = h
    BY <1>0, <2>1, GetByStore
  <2> HIDE DEF i
  <2>names. n # RootName
    BY <1>0
  <2>3. Evolves(entries, entries') /\ Folded(entries')
    BY <1>0, <2>1, <2>2, <2>names, AddFolded
  <2> QED  BY <1>0, <2>1, <2>3, PathStep
<1>8. ASSUME NEW s \in Stores, NEW h \in 0..MaxEntries, NEW n \in Names, SendFileInfo(s, h, n)
      PROVE  PathInv'
  BY <1>0, <1>8, FilePath
<1>9. CASE SendObject
  <2>1. \/ Crash("null path")
        \/ announced' = NoPath /\ UNCHANGED <<open, entries, op, sendHandle>>
    BY <1>9 DEF SendObject
  <2> QED  BY <1>0, <1>crash, <2>1, PathStep
<1>partial. ASSUME NEW h \in Given, SendPartialObject(h) PROVE PathInv'
  <2>1. /\ op.pc # "naming" /\ op' \in {[pc |-> "partial"], Idle} /\ announced' = Overtaken
        /\ UNCHANGED <<open, entries>>
    BY <1>partial DEF SendPartialObject, Ready
  <2>2. [pc |-> "partial"].pc = "partial" /\ Idle.pc = "idle"
    BY DEF Idle
  <2>3. op'.pc = "partial" \/ op'.pc = "idle"
    BY <2>1, <2>2, Zenon
  <2>4. op'.pc \notin Renaming
    BY <2>3 DEF Renaming
  <2> QED  BY <1>0, <2>1, <2>4, PathStep
<1>data. CASE SendPartialData
  <2>1. \/ Crash("null path")
        \/ op.pc = "partial" /\ op' = Idle /\ UNCHANGED <<open, entries, sendHandle, announced>>
    BY <1>data, Zenon DEF SendPartialData
  <2>2. CASE op.pc = "partial" /\ op' = Idle /\ UNCHANGED <<open, entries, sendHandle, announced>>
    <3>1. op.pc # "naming" /\ op'.pc \notin Renaming
      BY <2>2 DEF Idle, Renaming
    <3> QED  BY <1>0, <2>2, <3>1, PathStep
  <2> QED  BY <1>crash, <2>1, <2>2
<1>10. ASSUME NEW h \in Given, DeleteObject(h) PROVE PathInv'
  <2> DEFINE i == get_entry_by_handle(entries, h)
             p == build_full_path(entries, i)
  <2>1. /\ i # NoEntry
        /\ \/ Crash("null path")
           \/ /\ UNCHANGED <<open, op, sendHandle, announced>>
              /\ \/ entries' = Discard(entries, {i})
                 \/ \E S : entries' = Scan(disk \ S, entries, p, h, entries[i].store).entries
    BY <1>10 DEF DeleteObject
  <2>2. i \in DOMAIN entries /\ entries[i].handle = h /\ h \in Nat
    BY <1>0, <2>1, GetByHandle
  <2>3. p = build_full_path(entries, i)
    OBVIOUS
  <2> HIDE DEF i, p
  <2>4. entries[i].store \in Stores
    BY <1>0, <2>2, TypedFields
  <2>5. ASSUME NEW S, entries' = Scan(disk \ S, entries, p, h, entries[i].store).entries
        PROVE  Evolves(entries, entries') /\ Folded(entries')
    <3>1. disk \ S \in SUBSET Paths
      BY <1>0
    <3>2. h = 0 \/ entries[i].name = Ghost \/ \A a : p # <<a>>
      <4>1. h # 0 => entries[i].name # RootName
        BY <1>0, <2>2 DEF Folded
      <4> QED  BY <2>3, <4>1, LongPath
    <3> QED  BY <1>0, <2>2, <2>4, <2>5, <3>1, <3>2, ScanFolded
  <2>6. entries' = Discard(entries, {i}) => Evolves(entries, entries') /\ Folded(entries')
    BY <1>0, DiscardEvolves
  <2> QED  BY <1>crash, <2>1, <2>5, <2>6, PathStep
<1>11. ASSUME NEW h \in Given, NEW n \in Names, RenameFile(h, n) PROVE PathInv'
  <2> DEFINE i == get_entry_by_handle(entries, h)
             from == build_full_path(entries, i)
  <2>1. /\ i # NoEntry
        /\ \/ Crash("null path")
           \/ /\ op.pc = "idle"
              /\ entries' = SetName(entries, i, n, entries[i].bucket, entries[i].moved)
              /\ op' = [pc |-> "naming", at |-> i, name |-> n, old |-> entries[i].name, from |-> from]
              /\ announced' = Overtaken
    BY <1>11 DEF RenameFile, Ready
  <2>2. i \in DOMAIN entries
    BY <1>0, <2>1, GetByHandle
  <2>3. from = build_full_path(entries, i)
    OBVIOUS
  <2> HIDE DEF i, from
  <2>4. CASE /\ op.pc = "idle"
             /\ entries' = SetName(entries, i, n, entries[i].bucket, entries[i].moved)
             /\ op' = [pc |-> "naming", at |-> i, name |-> n, old |-> entries[i].name, from |-> from]
             /\ announced' = Overtaken
    <3>1. PICK es, fs, o, o2 : es = entries /\ fs = entries' /\ o = op /\ o2 = op'
      OBVIOUS
    <3>2. /\ Typed(es) /\ Folded(es) /\ Rooted(es) /\ RenameOK(es, o) /\ o.pc = "idle"
          /\ i \in DOMAIN es /\ n # RootName /\ es[i].moved \in Nat
          /\ fs = SetName(es, i, n, es[i].bucket, es[i].moved)
      BY <1>0, <2>2, <2>4, <3>1, TypedFields
    <3>3. /\ Folded(fs) /\ DOMAIN fs = DOMAIN es
          /\ \A k \in DOMAIN es : /\ fs[k].handle = es[k].handle
                                  /\ k # i => fs[k].name = es[k].name
      BY <3>2, NamedFolded
    <3>4. o2.pc = "naming" /\ o2.at = i /\ o2.name = n /\ o2.old = es[i].name /\ o2.from = from
      BY <2>4, <3>1
    <3>5. \A k \in DOMAIN es : es[k].handle = 0 => es[k].name = RootName
      BY <3>2 DEF RenameOK
    <3>6. es[i].handle = 0 <=> es[i].name = RootName
      BY <3>2, <3>5 DEF Folded
    <3>7. es[i].handle = 0 => from \notin Paths
      <4> SUFFICES ASSUME es[i].handle = 0 PROVE from \notin Paths
        OBVIOUS
      <4>1. es[i].name = RootName /\ es[i].parent = 0
        BY <3>2, <3>6 DEF Rooted
      <4>2. Base(es, i) = <<es[i].store>>
        BY <4>1 DEF Base, ParentOf
      <4>3. from = <<es[i].store>>
        BY <2>3, <3>1, <4>1, <4>2 DEF build_full_path
      <4>4. Len(<<es[i].store>>) = 1
        OBVIOUS
      <4> QED  BY <4>3, <4>4, PathShape
    <3>8. RenameOK(fs, o2)
      BY <3>2, <3>3, <3>4, <3>5, <3>6, <3>7 DEF RenameOK
    <3> QED  BY <1>0, <2>4, <3>1, <3>3, <3>8 DEF PathInv
  <2> QED  BY <1>crash, <2>1, <2>4
<1>restore. CASE RenameRestore
  <2> DEFINE to == build_full_path(entries, op.at)
  <2>1. \/ Crash("null path")
        \/ /\ op.pc = "naming" /\ UNCHANGED announced
           /\ entries' = SetName(entries, op.at, op.old, entries[op.at].bucket, entries[op.at].moved)
           /\ op' = [pc |-> "renaming", at |-> op.at, name |-> op.name, from |-> op.from, to |-> to]
    BY <1>restore DEF RenameRestore
  <2> HIDE DEF to
  <2>2. CASE /\ op.pc = "naming" /\ UNCHANGED announced
             /\ entries' = SetName(entries, op.at, op.old, entries[op.at].bucket, entries[op.at].moved)
             /\ op' = [pc |-> "renaming", at |-> op.at, name |-> op.name, from |-> op.from, to |-> to]
    <3>1. PICK es, fs, o, o2, at : es = entries /\ fs = entries' /\ o = op /\ o2 = op' /\ at = op.at
      OBVIOUS
    <3>2. /\ Typed(es) /\ Folded(es) /\ RenameOK(es, o) /\ o.pc = "naming"
          /\ at \in DOMAIN es /\ o.at = at
          /\ fs = SetName(es, at, o.old, es[at].bucket, es[at].moved)
      BY <1>0, <2>2, <3>1 DEF RootInv, Renaming
    <3>3. es[at].moved \in Nat
      BY <3>2, TypedFields
    <3>4. es[at].handle # 0 => o.old # RootName
      BY <3>2 DEF RenameOK
    <3>5. /\ Folded(fs) /\ DOMAIN fs = DOMAIN es
          /\ \A k \in DOMAIN es : /\ fs[k].handle = es[k].handle
                                  /\ k # at => fs[k].name = es[k].name
                                  /\ k = at => fs[k].name = o.old
      BY <3>2, <3>3, <3>4, NamedFolded
    <3>6. o2.pc = "renaming" /\ o2.at = at /\ o2.name = o.name /\ o2.from = o.from
      BY <2>2, <3>1
    <3>7. RenameOK(fs, o2)
      BY <3>2, <3>5, <3>6 DEF RenameOK, Renaming
    <3>8. announced' \notin Paths
      BY <2>2 DEF PathInv, Renaming
    <3> QED  BY <3>1, <3>5, <3>7, <3>8 DEF PathInv
  <2> QED  BY <1>crash, <2>1, <2>2
<1>ondisk. CASE RenameOnDisk
  <2>1. /\ op.pc = "renaming" /\ op.from \in disk /\ UNCHANGED <<entries, announced>>
        /\ op' = [pc |-> "renamed", at |-> op.at, name |-> op.name]
    BY <1>ondisk DEF RenameOnDisk
  <2>2. op'.pc = "renamed" /\ op'.at = op.at /\ op'.name = op.name
    BY <2>1
  <2>3. RenameOK(entries', op')
    BY <1>0, <2>1, <2>2 DEF RenameOK, Renaming
  <2>4. announced' \notin Paths
    BY <2>1 DEF PathInv, Renaming
  <2> QED  BY <1>0, <2>1, <2>3, <2>4 DEF PathInv
<1>fails. CASE RenameFails
  <2>1. /\ op.pc # "naming" /\ op'.pc \notin Renaming
        /\ UNCHANGED <<open, entries, sendHandle, announced>>
    BY <1>fails DEF RenameFails, Idle, Renaming
  <2> QED  BY <1>0, <2>1, PathStep
<1>12. CASE RenameEntry
  <2>1. /\ UNCHANGED announced /\ op'.pc = "idle" /\ op.pc = "renamed"
        /\ entries' = SetName(entries, op.at, op.name, Hash(op.name), changes)
    BY <1>12 DEF RenameEntry, Idle
  <2>2. PICK es, fs, o, o2, at : es = entries /\ fs = entries' /\ o = op /\ o2 = op' /\ at = op.at
    OBVIOUS
  <2>3. /\ Typed(es) /\ Folded(es) /\ RenameOK(es, o) /\ o.pc = "renamed"
        /\ at \in DOMAIN es /\ o.at = at /\ o2.pc = "idle"
        /\ fs = SetName(es, at, o.name, Hash(o.name), changes)
    BY <1>0, <2>1, <2>2 DEF RootInv, Renaming
  <2>4. es[at].handle # 0 /\ o.name # RootName
    BY <2>3 DEF RenameOK, Renaming
  <2>5. /\ Folded(fs) /\ DOMAIN fs = DOMAIN es
        /\ \A k \in DOMAIN es : /\ fs[k].handle = es[k].handle
                                /\ k # at => fs[k].name = es[k].name
    BY <2>3, <2>4, NamedFolded DEF ChangesOK
  <2>6. RenameOK(fs, o2)
    BY <2>3, <2>4, <2>5 DEF RenameOK, Renaming
  <2>7. announced' \notin Paths
    BY <2>1 DEF PathInv, Renaming
  <2> QED  BY <2>2, <2>5, <2>6, <2>7 DEF PathInv
<1> QED  BY <1>1, <1>2, <1>3, <1>4, <1>5, <1>6, <1>7, <1>8, <1>9, <1>partial, <1>data, <1>10, <1>11,
            <1>restore, <1>ondisk, <1>fails, <1>12 DEF Responder

\* The inotify thread's steps.
LEMMA InotifyPath ==
  ASSUME DbInv, RootInv, PathInv, InotifyEvent \/ InotifyNext \/ InotifyDangling
  PROVE  PathInv'
<1>0. /\ Len(entries) \in Int /\ ino.at \in Int /\ ino.at <= Len(entries)
      /\ EventsOK(pending) /\ ino.ev.name # RootName
  BY TypedFields DEF DbInv, DatabaseOK, RootInv
<1>1. CASE InotifyEvent
  <2>1. InotifyRound(Head(pending), Len(entries), Tail(pending)) /\ pending # <<>>
    BY <1>1 DEF InotifyEvent
  <2>2. Len(entries) <= Len(entries)
    BY <1>0
  <2>3. Head(pending).name # RootName
    BY <1>0, <2>1, HeadEvents
  <2> QED  BY <1>0, <2>1, <2>2, <2>3, RoundPath
<1>2. CASE InotifyNext
  <2>1. InotifyRound(ino.ev, ino.at, pending)
    BY <1>2 DEF InotifyNext
  <2> QED  BY <1>0, <2>1, RoundPath
<1>3. CASE InotifyDangling
  <2>1. UNCHANGED <<open, entries, op, sendHandle, announced>>
    BY <1>3 DEF InotifyDangling, Crash
  <2>2. Folded(entries) /\ Evolves(entries, entries)
    BY EvolvesSame DEF PathInv
  <2> QED  BY <2>1, <2>2, PathStep
<1> QED  BY <1>1, <1>2, <1>3

\* The storage commands.
LEMMA MessageQueuePath == ASSUME DbInv, RootInv, PathInv, MessageQueue PROVE PathInv'
<1>0. DatabaseOK(entries) /\ Typed(entries) /\ Folded(entries) /\ Evolves(entries, entries)
  BY EvolvesSame DEF DbInv, DatabaseOK, PathInv
<1>1. PICK s \in Stores : \/ MountCmd(s) \/ UnmountCmd(s) \/ LockCmd(s) \/ UnlockCmd(s)
                          \/ AddStorageCmd(s) \/ RemoveStorageCmd(s)
  BY DEF MessageQueue
<1>2. UNCHANGED <<open, op, sendHandle, announced>>
  BY <1>1 DEF MountCmd, UnmountCmd, LockCmd, UnlockCmd, AddStorageCmd, RemoveStorageCmd
<1>3. \/ entries' = entries
      \/ entries' = alloc_root_entry(entries, s)
      \/ \E S : entries' = Discard(entries, S)
  BY <1>1 DEF MountCmd, UnmountCmd, LockCmd, UnlockCmd, AddStorageCmd, RemoveStorageCmd,
              mount_store, umount_store
<1>4. Evolves(entries, entries') /\ Folded(entries')
  BY <1>0, <1>3, AllocFolded, DiscardEvolves
<1> QED  BY <1>2, <1>4, PathStep

\* The path of the entry SendObjInfoHandle leads to is the announced one.
LEMMA PathFound ==
  ASSUME NEW es, DatabaseOK(es), Folded(es), NEW h, h # 0, NEW p, Places(es, h, p),
         get_entry_by_handle(es, h) # NoEntry,
         LET i == get_entry_by_handle(es, h)
             k == get_entry_by_handle(es, es[i].parent)
         IN  es[i].parent # 0 => k # NoEntry /\ Unmoved(es, k)
  PROVE  build_full_path(es, get_entry_by_handle(es, h)) = p
<1> DEFINE i == get_entry_by_handle(es, h)
<1>0. Typed(es) /\ UniqueIn(es)
  BY DEF DatabaseOK
<1>1. i \in DOMAIN es /\ es[i].handle = h
  BY <1>0, GetByHandle
<1>2. es[i].parent # 0 => LET k == get_entry_by_handle(es, es[i].parent)
                          IN  k # NoEntry /\ Unmoved(es, k)
  OBVIOUS
<1> HIDE DEF i
<1>3. PICK j \in DOMAIN es :
        /\ es[j].handle = h /\ es[j].name # Ghost
        /\ \/ es[j].parent = 0 /\ p = <<es[j].store, es[j].name>>
           \/ \E k \in DOMAIN es :
                /\ es[k].handle = es[j].parent /\ es[k].handle # 0 /\ es[k].dir /\ es[k].name # Ghost
                /\ p = <<es[j].store, es[k].name, es[j].name>>
  BY DEF Places
<1>4. j = i
  BY <1>0, <1>1, <1>3 DEF UniqueIn
<1> DEFINE s == es[i].store
           n == es[i].name
<1>5. build_full_path(es, i) = Append(Base(es, i), n)
  BY <1>1, <1>3, <1>4 DEF build_full_path, Folded
<1>6. ASSUME es[i].parent = 0, p = <<s, n>> PROVE build_full_path(es, i) = p
  <2>1. Base(es, i) = <<s>>
    BY <1>6 DEF Base, ParentOf
  <2> HIDE DEF s, n
  <2>2. Append(<<s>>, n) = <<s, n>>
    BY Pair
  <2> QED  BY <1>5, <1>6, <2>1, <2>2, Zenon
<1>7. ASSUME NEW k \in DOMAIN es,
             es[k].handle = es[i].parent, es[k].handle # 0, es[k].dir, es[k].name # Ghost,
             p = <<s, es[k].name, n>>
      PROVE  build_full_path(es, i) = p
  <2> DEFINE m == es[k].name
  <2>1. /\ get_entry_by_handle(es, es[i].parent) # NoEntry /\ es[i].parent # 0
        /\ Unmoved(es, get_entry_by_handle(es, es[i].parent))
    BY <1>2, <1>7
  <2>2. ParentOf(es, i) = k
    <3> DEFINE c == get_entry_by_handle(es, es[i].parent)
    <3>1. c \in DOMAIN es /\ es[c].handle = es[i].parent
      BY <1>0, <2>1, GetByHandle
    <3>2. ParentOf(es, i) = c
      BY <2>1 DEF ParentOf
    <3> HIDE DEF c
    <3> QED  BY <1>0, <1>7, <3>1, <3>2 DEF UniqueIn
  <2>3. k # NoEntry
    BY <2>1, <2>2 DEF ParentOf
  <2>4. Named(es, ParentOf(es, k)) = <<>>
    <3>1. Unmoved(es, k)
      BY <2>1, <2>2 DEF ParentOf
    <3>2. CASE es[k].parent = 0
      BY <3>2 DEF ParentOf, Named
    <3>3. CASE es[k].parent # 0
      <4> DEFINE c == get_entry_by_handle(es, es[k].parent)
      <4>0. /\ ~es[k].tried
            /\ \A q \in DOMAIN es : es[q].handle = es[k].parent => ~es[q].tried
        BY <1>7, <3>1, <3>3 DEF Unmoved
      <4>1. PICK q \in DOMAIN es : es[q].handle = es[k].parent /\ es[q].name = Ghost
        BY <1>7, <3>3, <4>0 DEF Folded, Shallow
      <4>2. c # NoEntry => c \in DOMAIN es /\ es[c].handle = es[k].parent
        BY <1>0, GetByHandle
      <4>3. ParentOf(es, k) = c
        BY <3>3 DEF ParentOf
      <4> HIDE DEF c
      <4>4. c # NoEntry => c = q
        BY <1>0, <3>3, <4>1, <4>2 DEF UniqueIn
      <4>5. c = NoEntry \/ es[c].name = Ghost
        BY <4>1, <4>4
      <4> QED  BY <4>3, <4>5 DEF Named
    <3> QED  BY <3>2, <3>3
  <2>5. Named(es, k) = <<m>>
    BY <1>7, <2>3 DEF Named
  <2>6. Base(es, i) = <<s>> \o Named(es, ParentOf(es, k)) \o Named(es, k)
    BY <2>2, <2>3 DEF Base
  <2>7. p = <<s, m, n>>
    BY <1>7
  <2> HIDE DEF s, m, n
  <2>8. <<s>> \o <<>> = <<s>> /\ <<s>> \o <<m>> = <<s, m>> /\ Append(<<s, m>>, n) = <<s, m, n>>
    BY NoTail, Pair, Triple
  <2>9. Base(es, i) = <<s, m>>
    BY <2>4, <2>5, <2>6, <2>8, Zenon
  <2> QED  BY <1>5, <2>7, <2>8, <2>9, Zenon
<1>8. build_full_path(es, i) = p
  <2>1. \/ es[i].parent = 0 /\ p = <<s, n>>
        \/ \E k \in DOMAIN es :
             /\ es[k].handle = es[i].parent /\ es[k].handle # 0 /\ es[k].dir /\ es[k].name # Ghost
             /\ p = <<s, es[k].name, n>>
    BY <1>3, <1>4, Zenon
  <2> HIDE DEF s, n
  <2> QED  BY <1>6, <1>7, <2>1, Zenon
<1> QED  BY <1>8 DEF i

\* Folders never renamed are at the root of their storage, and what was announced is where the handle
\* of SendObject is.
THEOREM PathInductive == Spec => []PathInv
<1>1. Init => PathInv
  <2> SUFFICES ASSUME Init PROVE PathInv
    OBVIOUS
  <2>1. entries = <<>> /\ op.pc = "idle" /\ announced = NoPath
    BY DEF Init, Idle
  <2>2. Folded(entries) /\ RenameOK(entries, op)
    BY <2>1 DEF Folded, RenameOK, Renaming
  <2> QED  BY <2>1, <2>2, NotAnnounced DEF PathInv
<1>2. DbInv /\ ChangesOK /\ RootInv /\ PathInv /\ [Next]_vars => PathInv'
  <2> SUFFICES ASSUME DbInv, ChangesOK, RootInv, PathInv, [Next]_vars PROVE PathInv'
    OBVIOUS
  <2>0. Folded(entries) /\ Evolves(entries, entries)
    BY EvolvesSame DEF PathInv
  <2>1. ASSUME NEW p \in Paths, OtherCreates(p) \/ OtherRemoves(p) PROVE PathInv'
    <3>1. UNCHANGED <<open, entries, op, sendHandle, announced>>
      BY <2>1 DEF OtherCreates, OtherRemoves
    <3> QED  BY <2>0, <3>1, PathStep
  <2>2. CASE UNCHANGED vars
    <3>1. UNCHANGED <<open, entries, op, sendHandle, announced>>
      BY <2>2 DEF vars
    <3> QED  BY <2>0, <3>1, PathStep
  <2> QED  BY <2>1, <2>2, ResponderPath, InotifyPath, MessageQueuePath DEF Next
<1> QED  BY <1>1, <1>2, DbInductive, ChangesInductive, RootInductive, PTL DEF Spec

\* The data of SendObject goes into the file SendObjectInfo announced: for every set of paths,
\* number of storages and order of operations, events and commands.
THEOREM WrittenAsAnnouncedCorrect == Spec => []WrittenAsAnnounced
<1>1. DbInv /\ PathInv => WrittenAsAnnounced
  <2> SUFFICES ASSUME DbInv, PathInv PROVE WrittenAsAnnounced
    OBVIOUS
  <2>1. /\ DatabaseOK(entries) /\ Folded(entries)
        /\ announced \in Paths => sendHandle # 0 /\ Places(entries, sendHandle, announced)
    BY DEF DbInv, PathInv
  <2> QED  BY <2>1, PathFound DEF WrittenAsAnnounced
<1> QED  BY <1>1, DbInductive, PathInductive, PTL DEF Spec

-----------------------------------------------------------------------------
(* The types of the variables.                                             *)

FileNames == Names \cup {Ghost, RootName}
Watches == {NoWd} \cup (Folders \X Nat)

\* Names, watches and folders are what they should be.
Labelled(es) == \A i \in DOMAIN es :
                  /\ es[i].name \in FileNames /\ es[i].wd \in Watches /\ es[i].bucket \in Nat
                  /\ es[i].dir => es[i].name \in DirNames \cup {Ghost, RootName}

\* Folders stay folders and files stay files.
KindsKept(es, fs) == \A i \in DOMAIN es : i \in DOMAIN fs /\ fs[i].dir = es[i].dir

\* The names of a rename under way are of the kind of the entry it renames.
RenameLabels(es, o) ==
  /\ o.pc \in Renaming => o.name \in Names /\ (es[o.at].dir => o.name \in DirNames)
  /\ o.pc = "naming" => /\ o.old \in FileNames
                        /\ es[o.at].dir => o.old \in DirNames \cup {Ghost, RootName}

KernelInv ==
  /\ roots \subseteq Stores
  /\ inode \in [Folders -> Folders \X Nat] /\ watches \subseteq Folders \X Nat /\ blind \subseteq Folders
  /\ op.pc = "watch" => op.path \in Folders

LabelInv == Labelled(entries) /\ RenameLabels(entries, op)

ScalarInv ==
  /\ open \in BOOLEAN /\ crashed \in {"no", "null path", "freed entry"} /\ sendHandle \in Nat
  /\ op.pc \in {"idle", "opening", "watch", "partial"} \cup Renaming
  /\ Dangling <= ino.at

\* Entries are added under names that may exist, folders under the names of folders.
LEMMA AddLabelled ==
  ASSUME NEW es, DatabaseOK(es), Labelled(es), NEW name, NEW isdir \in BOOLEAN, NEW parent \in Nat,
         NEW store \in Stores, name \in FileNames, isdir => name \in DirNames \cup {Ghost, RootName}
  PROVE  /\ Labelled(add_entry(es, name, isdir, parent, store))
         /\ KindsKept(es, add_entry(es, name, isdir, parent, store))
<1> DEFINE fs == add_entry(es, name, isdir, parent, store)
           e == NewEntry(NextHandle(es), name, isdir, parent, store)
<1>1. Extends(es, fs) /\ \A j \in DOMAIN fs : j \in DOMAIN es \/ fs[j] = e
  BY AddEntryOK
<1>2. e.name = name /\ e.wd = NoWd /\ (e.dir <=> isdir) /\ e.bucket = Hash(name)
  BY DEF NewEntry
<1>3. Hash(name) \in Nat
  BY HashAssumption DEF FileNames
<1> HIDE DEF fs, e
<1>4. Labelled(fs)
  BY <1>1, <1>2, <1>3 DEF Labelled, Extends, Watches
<1>5. KindsKept(es, fs)
  BY <1>1 DEF KindsKept, Extends
<1> QED  BY <1>4, <1>5 DEF fs

\* Deleted entries are watched no more.
LEMMA DiscardLabelled ==
  ASSUME NEW es, Typed(es), Labelled(es), NEW S
  PROVE  Labelled(Discard(es, S)) /\ KindsKept(es, Discard(es, S))
<1> DEFINE fs == Discard(es, S)
<1>1. PICK N, W : es \in Seq(EntryOf(N, W))
  BY DEF Typed
<1>2. \A i \in DOMAIN es : es[i] \in EntryOf(N, W)
  BY <1>1
<1>3. /\ DOMAIN fs = DOMAIN es
      /\ \A i \in DOMAIN es : fs[i] = IF i \in S THEN [es[i] EXCEPT !.deleted = TRUE, !.wd = NoWd]
                                      ELSE es[i]
  BY DEF Discard
<1> HIDE DEF fs
<1>4. \A i \in DOMAIN es : /\ fs[i].name = es[i].name /\ fs[i].dir = es[i].dir
                           /\ fs[i].bucket = es[i].bucket
                           /\ fs[i].wd = es[i].wd \/ fs[i].wd = NoWd
  BY <1>2, <1>3 DEF EntryOf
<1>5. Labelled(fs)
  BY <1>3, <1>4 DEF Labelled, Watches
<1>6. KindsKept(es, fs)
  BY <1>3, <1>4 DEF KindsKept
<1> QED  BY <1>5, <1>6 DEF fs

\* An entry gets a name of its kind.
LEMMA NamedLabelled ==
  ASSUME NEW es, Typed(es), Labelled(es), NEW at \in DOMAIN es, NEW name \in FileNames,
         es[at].dir => name \in DirNames \cup {Ghost, RootName}, NEW bucket, NEW moved \in Nat,
         bucket \in {es[at].bucket, Hash(name)}
  PROVE  /\ Labelled(SetName(es, at, name, bucket, moved))
         /\ KindsKept(es, SetName(es, at, name, bucket, moved))
<1> DEFINE fs == SetName(es, at, name, bucket, moved)
<1>1. /\ DOMAIN fs = DOMAIN es
      /\ \A i \in DOMAIN es : /\ fs[i].dir = es[i].dir /\ fs[i].wd = es[i].wd
                              /\ i # at => fs[i] = es[i]
                              /\ i = at => fs[i].name = name
  BY RenameRetouches
<1>2. fs[at].bucket = bucket
  <2>1. PICK N, W : es \in Seq(EntryOf(N, W))
    BY DEF Typed
  <2>2. es[at] \in EntryOf(N, W)
    BY <2>1
  <2>3. fs[at] = [es[at] EXCEPT !.name = name, !.bucket = bucket, !.moved = moved, !.tried = TRUE]
    BY DEF SetName
  <2> HIDE DEF fs
  <2> QED  BY <2>2, <2>3 DEF EntryOf
<1>3. bucket \in Nat
  <2>1. Hash(name) \in Nat
    BY HashAssumption DEF FileNames
  <2> QED  BY <2>1 DEF Labelled
<1> HIDE DEF fs
<1>4. Labelled(fs)
  BY <1>1, <1>2, <1>3 DEF Labelled
<1>5. KindsKept(es, fs)
  BY <1>1 DEF KindsKept
<1> QED  BY <1>4, <1>5 DEF fs

\* scan_and_add_folder adds what is on the disk.
LEMMA ScanLabelled ==
  ASSUME NEW es, DatabaseOK(es), Labelled(es), NEW d \in SUBSET Paths, NEW path, NEW parent \in Nat,
         NEW store \in Stores
  PROVE  Labelled(Scan(d, es, path, parent, store).entries)
<1> DEFINE added == AddFound(d, es, path, parent, store)
           fs == Scan(d, es, path, parent, store).entries
<1>1. /\ DatabaseOK(added) /\ Extends(es, added)
      /\ \A i \in DOMAIN added :
           \/ i \in DOMAIN es
           \/ \E f \in d : /\ Front(f) = path
                           /\ \E g \in Nat : added[i]
                                = NewEntry(g, Last(f), Last(f) \in DirNames, parent, store)
  BY AddFoundOK
<1>2. \E S : fs = Discard(added, S)
  BY DEF Scan
<1> HIDE DEF added, fs
<1>3. ASSUME NEW j \in DOMAIN added, j \notin DOMAIN es
      PROVE  /\ added[j].name \in FileNames /\ added[j].wd \in Watches /\ added[j].bucket \in Nat
             /\ added[j].dir => added[j].name \in DirNames
  <2>1. PICK f \in d : \E g \in Nat : added[j]
                            = NewEntry(g, Last(f), Last(f) \in DirNames, parent, store)
    BY <1>1, <1>3
  <2>2. PICK g \in Nat : added[j] = NewEntry(g, Last(f), Last(f) \in DirNames, parent, store)
    BY <2>1
  <2>3. Last(f) \in Names
    BY PathShape
  <2> DEFINE isdir == Last(f) \in DirNames
             e == NewEntry(g, Last(f), isdir, parent, store)
  <2>4. added[j] = e /\ isdir \in BOOLEAN
    BY <2>2
  <2> HIDE DEF isdir
  <2>5. e.dir = isdir /\ e.name = Last(f) /\ e.wd = NoWd /\ e.bucket = Hash(Last(f))
    BY <2>4 DEF NewEntry
  <2>hash. Hash(Last(f)) \in Nat
    BY <2>3, HashAssumption
  <2> HIDE DEF e
  <2>6. added[j].dir => Last(f) \in DirNames
    BY <2>4, <2>5, Zenon DEF isdir
  <2> QED  BY <2>3, <2>4, <2>5, <2>6, <2>hash DEF FileNames, Watches
<1>4. Labelled(added)
  BY <1>1, <1>3 DEF Labelled, Extends
<1> QED  BY <1>1, <1>2, <1>4, DiscardLabelled DEF DatabaseOK, fs

\* A root is added.
LEMMA AllocLabelled ==
  ASSUME NEW es, DatabaseOK(es), Labelled(es), NEW s \in Stores
  PROVE  Labelled(alloc_root_entry(es, s)) /\ KindsKept(es, alloc_root_entry(es, s))
<1> DEFINE fs == alloc_root_entry(es, s)
           e  == NewEntry(0, RootName, TRUE, 0, s)
<1>1. /\ Typed(es) /\ DOMAIN es = 1..Len(es) /\ Len(es) \in Nat
      /\ DOMAIN fs = 1..(Len(es) + 1) /\ \A i \in DOMAIN es : fs[i] = es[i]
      /\ fs[Len(es) + 1] = e
  BY AllocRootOK, TypedFields DEF DatabaseOK
<1>2. e.name = RootName /\ e.wd = NoWd /\ e.bucket \in Nat
  BY HashAssumption DEF NewEntry
<1> HIDE DEF fs, e
<1>3. \A i \in DOMAIN fs : i \in DOMAIN es \/ i = Len(es) + 1
  BY <1>1
<1>4. Labelled(fs)
  BY <1>1, <1>2, <1>3 DEF Labelled, FileNames, Watches
<1>5. KindsKept(es, fs)
  BY <1>1 DEF KindsKept
<1> QED  BY <1>4, <1>5 DEF fs

\* The folder an object is in, and what a path ends with.
LEMMA FolderOf ==
  ASSUME NEW p \in Paths
  PROVE  Front(p) \in Folders /\ (Last(p) \in DirNames => p \in Folders)
<1> DEFINE a == p[1]
           b == p[2]
           c == p[3]
<1>1. /\ a \in Stores
      /\ p = <<a, b>> \/ (p = <<a, b, c>> /\ <<a, b>> \in Paths /\ b \in DirNames)
  BY PathsAssumption
<1> HIDE DEF a, b, c
<1>2. Front(<<a, b>>) = <<a>> /\ Front(<<a, b, c>>) = <<a, b>> /\ Last(<<a, b>>) = b
  BY Ends
<1>3. <<a>> \in Folders
  BY <1>1 DEF Folders, Roots
<1>4. <<a, b>> \in Paths /\ b \in DirNames => <<a, b>> \in Folders
  BY <1>2 DEF Folders
<1>5. Front(p) \in Folders
  BY <1>1, <1>2, <1>3, <1>4
<1> QED  BY <1>5 DEF Folders

\* What is below the path of an entry ends with the name it was given.
LEMMA LastBelow ==
  ASSUME NEW es, NEW i, NEW name
  PROVE  /\ Last(Append(build_full_path(es, i), name)) = name
         /\ es[i].name \notin {Ghost, RootName} => Last(build_full_path(es, i)) = es[i].name
<1> DEFINE s == es[i].store
           n == es[i].name
           b == Base(es, i)
           p == build_full_path(es, i)
<1>1. /\ p = b \/ p = Append(b, n)
      /\ es[i].name \notin {Ghost, RootName} => p = Append(b, n)
  BY DEF build_full_path
<1>2. b = <<s>> \/ (\E x : b = <<s, x>>) \/ (\E x, y : b = <<s, x, y>>)
  BY BaseShape
<1> HIDE DEF s, n, b, p
<1>3. PICK S : b \in Seq(S) /\ <<s>> \in Seq(S) /\ n \in S /\ name \in S
  BY <1>2, Sequenced
<1>4. ASSUME NEW t \in Seq(S), NEW x \in S PROVE Append(t, x) \in Seq(S) /\ Last(Append(t, x)) = x
  BY DEF Last
<1>5. p \in Seq(S)
  <2>1. Append(b, n) \in Seq(S)
    BY <1>3, <1>4
  <2> QED  BY <1>1, <1>3, <2>1, Zenon
<1>6. Last(Append(p, name)) = name /\ Last(Append(b, n)) = n
  BY <1>3, <1>4, <1>5
<1>7. es[i].name \notin {Ghost, RootName} => Last(p) = n
  BY <1>1, <1>6, Zenon
<1> QED  BY <1>6, <1>7 DEF p, n

\* The disk's changes, the kernel's watches and what the responder is about to watch.
LEMMA KernelNext ==
  ASSUME DbInv, ChangesOK, RootInv, PathInv, LabelInv, KernelInv, [Next]_vars
  PROVE  KernelInv'
<1>0. /\ Typed(entries) /\ disk \subseteq Paths /\ Labelled(entries) /\ Folded(entries)
      /\ roots \subseteq Stores
      /\ inode \in [Folders -> Folders \X Nat] /\ watches \subseteq Folders \X Nat /\ blind \subseteq Folders
      /\ 0..MaxEntries \subseteq Nat
  BY BoundsAssumption DEF DbInv, DatabaseOK, LabelInv, KernelInv, PathInv
<1>wd. \A f \in Folders : Wd(f) \in Folders \X Nat
  BY <1>0 DEF Wd
<1>blind. ASSUME NEW S, S \subseteq Paths PROVE Blinded(S) \subseteq Folders
  BY <1>0, <1>blind, FolderOf DEF Blinded
<1>created. ASSUME NEW p \in Paths, Created(p)
            PROVE  /\ inode' \in [Folders -> Folders \X Nat] /\ blind' \subseteq Folders
                   /\ roots' \subseteq Stores
  <2>1. Blinded({p}) \subseteq Folders
    BY <1>blind
  <2>2. \/ inode' = inode
        \/ p \in Folders /\ inode' = [inode EXCEPT ![p] = <<p, changes'>>]
    BY <1>created DEF Created
  <2>nat. changes' \in Nat /\ roots' = roots
    BY <1>created DEF Created, Change, ChangesOK
  <2>3. blind' = blind \/ blind' = Blinded({p}) \cup ({p} \cap Folders)
    BY <1>created DEF Created
  <2>4. inode' \in [Folders -> Folders \X Nat]
    BY <1>0, <2>2, <2>nat
  <2>5. blind' \subseteq Folders
    BY <1>0, <2>1, <2>3
  <2> QED  BY <1>0, <2>4, <2>5, <2>nat
\* A step that leaves folders and watches alone, or takes some watches away.
<1>step. ASSUME roots' \subseteq Stores, inode' \in [Folders -> Folders \X Nat],
                watches' \subseteq watches, blind' \subseteq Folders, op' = op \/ op'.pc # "watch"
         PROVE  KernelInv'
  BY <1>0, <1>step DEF KernelInv
<1>crash. ASSUME NEW cause, Crash(cause) PROVE KernelInv'
  <2>1. UNCHANGED <<roots, inode, watches, blind, op>>
    BY <1>crash DEF Crash
  <2> QED  BY <1>0, <1>step, <2>1
<1>1. CASE OpenSession
  <2>1. UNCHANGED <<roots, inode, watches, blind>> /\ op'.pc = "opening"
    BY <1>1 DEF OpenSession
  <2> QED  BY <1>0, <1>step, <2>1
<1>2. CASE OpenStore
  <2>1. UNCHANGED <<roots, inode, watches, blind>> /\ op.pc = "opening"
        /\ (op' = [op EXCEPT !.slot = op.slot + 1] \/ op' = Idle)
    BY <1>2 DEF OpenStore
  <2>2. op'.pc # "watch"
    <3> DEFINE k == op.slot + 1
    <3>1. op = [pc |-> "opening", slot |-> op.slot]
      BY <2>1 DEF RootInv
    <3> HIDE DEF k
    <3>2. op' = [pc |-> "opening", slot |-> k] \/ op' = Idle
      BY <2>1, <3>1 DEF k
    <3> QED  BY <3>2 DEF Idle
  <2> QED  BY <1>0, <1>step, <2>1, <2>2
<1>3. CASE CloseSession
  <2>1. UNCHANGED <<roots, inode, blind, op>> /\ watches' \subseteq watches
    BY <1>3 DEF CloseSession, unwatch
  <2> QED  BY <1>0, <1>step, <2>1
<1>4. ASSUME NEW s \in Stores, NEW h \in 0..MaxEntries, ListScan(s, h) PROVE KernelInv'
  <2> DEFINE i == get_entry_by_handle(entries, h)
             path == IF h = 0 THEN <<s>> ELSE build_full_path(entries, i)
  <2>1. /\ h # 0 => i # NoEntry /\ entries[i].dir /\ entries[i].name # Ghost
        /\ \/ Crash("null path")
           \/ /\ UNCHANGED <<roots, inode>> /\ watches' \subseteq watches /\ blind' \subseteq blind
              /\ \/ op' = Idle
                 \/ Exists(path) /\ \E at : op' = [pc |-> "watch", path |-> path, at |-> at]
    BY <1>4 DEF ListScan, unwatch, IsFolder
  <2>2. Exists(path) => path \in Folders
    <3>1. CASE h = 0
      BY <3>1 DEF Folders, Roots
    <3>2. CASE h # 0
      <4>1. path = build_full_path(entries, i)
        BY <3>2
      <4>2. i \in DOMAIN entries /\ entries[i].handle = h
        BY <1>0, <2>1, <3>2, GetByHandle
      <4> HIDE DEF path, i
      <4>name. entries[i].name \notin {Ghost, RootName}
        BY <1>0, <2>1, <3>2, <4>2 DEF Folded
      <4>3. Last(path) = entries[i].name
        BY <4>1, <4>name, LastBelow
      <4>4. Len(path) # 1
        BY <4>1, <4>name, LongPath
      <4>5. Exists(path) => path \in Paths
        BY <1>0, <4>4 DEF Exists, ExistsIn
      <4>6. entries[i].name \in DirNames
        BY <1>0, <2>1, <3>2, <4>2, <4>name DEF Labelled
      <4> QED  BY <4>3, <4>5, <4>6, PathShape, FolderOf
    <3> QED  BY <3>1, <3>2
  <2> HIDE DEF path, i
  <2>3. op' = Idle => op'.pc # "watch"
    BY DEF Idle
  <2>4. ASSUME NEW at, op' = [pc |-> "watch", path |-> path, at |-> at], Exists(path)
        PROVE  op'.path \in Folders
    <3>1. op'.path = path
      BY <2>4
    <3> QED  BY <2>2, <2>4, <3>1
  <2>5. CASE UNCHANGED <<roots, inode>> /\ watches' \subseteq watches /\ blind' \subseteq blind
             /\ (\/ op' = Idle
                 \/ Exists(path) /\ \E at : op' = [pc |-> "watch", path |-> path, at |-> at])
    <3>1. op'.pc = "watch" => op'.path \in Folders
      BY <2>3, <2>4, <2>5, Zenon
    <3>2. /\ inode' \in [Folders -> Folders \X Nat] /\ watches' \subseteq Folders \X Nat
          /\ blind' \subseteq Folders /\ roots' \subseteq Stores
      BY <1>0, <2>5
    <3> QED  BY <3>1, <3>2 DEF KernelInv
  <2> QED  BY <1>crash, <2>1, <2>5
<1>5. CASE ListWatch
  <2>1. UNCHANGED <<roots, inode, blind>> /\ op'.pc = "idle" /\ op.pc = "watch"
        /\ watches' \subseteq watches \cup {Wd(op.path)}
    BY <1>5 DEF ListWatch, Idle
  <2>2. Wd(op.path) \in Folders \X Nat
    BY <1>wd, <2>1 DEF KernelInv
  <2>3. watches' \subseteq Folders \X Nat
    BY <1>0, <2>1, <2>2
  <2> QED  BY <1>0, <2>1, <2>3 DEF KernelInv
<1>6. ASSUME NEW s \in Stores, NEW h \in 0..MaxEntries, NEW n \in Names,
             \/ SendInfoUnplaced(s, h, n) \/ SendFolderInfo(s, h, n) \/ SendFileInfo(s, h, n)
      PROVE  KernelInv'
  <2> DEFINE p == Append(build_full_path(entries, get_entry_by_handle_and_storageid(entries, h, s)), n)
  <2>1. /\ UNCHANGED <<watches, op>>
        /\ \/ UNCHANGED <<roots, inode, blind>>
           \/ p \in Paths /\ Created(p)
    BY <1>6 DEF SendInfoUnplaced, SendFolderInfo, SendFileInfo
  <2> HIDE DEF p
  <2> QED  BY <1>0, <1>step, <1>created, <2>1
<1>7. CASE SendObject
  <2> DEFINE p == build_full_path(entries, get_entry_by_handle(entries, sendHandle))
  <2>1. \/ Crash("null path")
        \/ p \in Paths /\ Created(p) /\ UNCHANGED <<watches, op>>
    BY <1>7 DEF SendObject
  <2> HIDE DEF p
  <2> QED  BY <1>crash, <1>step, <1>created, <2>1
<1>partial. ASSUME NEW h \in Given, SendPartialObject(h) PROVE KernelInv'
  <2>1. UNCHANGED <<roots, inode, watches, blind>> /\ op' \in {[pc |-> "partial"], Idle}
    BY <1>partial DEF SendPartialObject
  <2>2. [pc |-> "partial"].pc # "watch" /\ Idle.pc # "watch"
    BY DEF Idle
  <2>3. op'.pc # "watch"
    BY <2>1, <2>2, Zenon
  <2> QED  BY <1>0, <1>step, <2>1, <2>3
<1>data. CASE SendPartialData
  <2> DEFINE p == build_full_path(entries, get_entry_by_handle(entries, sendHandle))
  <2>1. \/ Crash("null path")
        \/ /\ op' = Idle /\ UNCHANGED watches
           /\ UNCHANGED <<roots, inode, blind>> \/ (p \in disk /\ Created(p))
    BY <1>data, Zenon DEF SendPartialData
  <2> HIDE DEF p
  <2>2. CASE /\ op' = Idle /\ UNCHANGED watches
             /\ UNCHANGED <<roots, inode, blind>> \/ (p \in disk /\ Created(p))
    <3>1. op'.pc # "watch"
      BY <2>2 DEF Idle
    <3>2. /\ roots' \subseteq Stores /\ inode' \in [Folders -> Folders \X Nat]
          /\ blind' \subseteq Folders
      BY <1>0, <1>created, <2>2
    <3> QED  BY <1>step, <2>2, <3>1, <3>2
  <2> QED  BY <1>crash, <2>1, <2>2
<1>8. ASSUME NEW h \in Given, DeleteObject(h) PROVE KernelInv'
  <2>1. \/ Crash("null path")
        \/ \E S : /\ blind' = Blinded(S \cap Paths) /\ watches' \subseteq watches
                  /\ roots' \subseteq roots /\ UNCHANGED <<inode, op>>
    BY <1>8 DEF DeleteObject
  <2>2. \A S : S \cap Paths \subseteq Paths
    OBVIOUS
  <2>3. \A S : Blinded(S \cap Paths) \subseteq Folders
    BY <1>blind, <2>2
  <2> QED  BY <1>0, <1>crash, <1>step, <2>1, <2>3
<1>9. ASSUME NEW h \in Given, NEW n \in Names, RenameFile(h, n) PROVE KernelInv'
  <2>1. \/ Crash("null path")
        \/ /\ UNCHANGED <<roots, inode, watches, blind>>
           /\ \E at, old, from : op' = [pc |-> "naming", at |-> at, name |-> n, old |-> old,
                                        from |-> from]
    BY <1>9 DEF RenameFile
  <2>2. \A at, old, from : op' = [pc |-> "naming", at |-> at, name |-> n, old |-> old, from |-> from]
                           => op'.pc # "watch"
    OBVIOUS
  <2> QED  BY <1>0, <1>crash, <1>step, <2>1, <2>2
<1>restore. CASE RenameRestore
  <2>1. \/ Crash("null path")
        \/ /\ UNCHANGED <<roots, inode, watches, blind>>
           /\ \E to : op' = [pc |-> "renaming", at |-> op.at, name |-> op.name, from |-> op.from,
                             to |-> to]
    BY <1>restore DEF RenameRestore
  <2>2. \A to : op' = [pc |-> "renaming", at |-> op.at, name |-> op.name, from |-> op.from, to |-> to]
                => op'.pc # "watch"
    OBVIOUS
  <2> QED  BY <1>0, <1>crash, <1>step, <2>1, <2>2
<1>ondisk. CASE RenameOnDisk
  <2> DEFINE unseen == Blinded({op.from, op.to})
  <2>1. /\ op.from \in disk /\ op.to \in Paths /\ (op.from \in Folders <=> op.to \in Folders)
        /\ UNCHANGED roots /\ op' = [pc |-> "renamed", at |-> op.at, name |-> op.name]
        /\ \/ UNCHANGED <<inode, watches, blind>>
           \/ /\ inode' = IF op.to \in Folders THEN [inode EXCEPT ![op.to] = Wd(op.from)] ELSE inode
              /\ watches' \subseteq watches
              /\ blind' = (unseen \ {op.to})
                            \cup (IF op.from \in unseen THEN {op.to} \cap Folders ELSE {})
    BY <1>ondisk DEF RenameOnDisk
  <2>2. unseen \subseteq Folders
    BY <1>0, <1>blind, <2>1
  <2> HIDE DEF unseen
  <2>3. inode' \in [Folders -> Folders \X Nat]
    BY <1>0, <1>wd, <2>1
  <2>4. blind' \subseteq Folders /\ watches' \subseteq watches
    BY <1>0, <2>1, <2>2
  <2>5. op'.pc # "watch"
    BY <2>1
  <2> QED  BY <1>0, <1>step, <2>1, <2>3, <2>4, <2>5
<1>fails. CASE RenameFails
  <2>1. UNCHANGED <<roots, inode, watches, blind>> /\ op'.pc = "idle"
    BY <1>fails DEF RenameFails, Idle
  <2> QED  BY <1>0, <1>step, <2>1
<1>10. CASE RenameEntry
  <2>1. UNCHANGED <<roots, inode, watches, blind>> /\ op'.pc = "idle"
    BY <1>10 DEF RenameEntry, Idle
  <2> QED  BY <1>0, <1>step, <2>1
<1>11. CASE InotifyEvent \/ InotifyNext \/ InotifyDangling
  <2>1. UNCHANGED <<roots, inode, blind, op>> /\ watches' \subseteq watches
    BY <1>11 DEF InotifyEvent, InotifyNext, InotifyDangling, InotifyRound, Crash
  <2> QED  BY <1>0, <1>step, <2>1
<1>12. CASE MessageQueue
  <2>1. UNCHANGED <<roots, inode, blind, op>> /\ watches' \subseteq watches
    BY <1>12 DEF MessageQueue, MountCmd, UnmountCmd, LockCmd, UnlockCmd, AddStorageCmd,
                 RemoveStorageCmd, umount_store, unwatch
  <2> QED  BY <1>0, <1>step, <2>1
<1>13. ASSUME NEW p \in Paths, OtherCreates(p) \/ OtherRemoves(p) PROVE KernelInv'
  <2>1. CASE OtherCreates(p)
    <3>1. Created(p) /\ UNCHANGED <<watches, op>>
      BY <2>1 DEF OtherCreates
    <3> QED  BY <1>step, <1>created, <3>1
  <2>2. CASE OtherRemoves(p)
    <3>1. UNCHANGED <<roots, inode, op>> /\ watches' \subseteq watches /\ blind' = Blinded({p})
      BY <2>2 DEF OtherRemoves
    <3> QED  BY <1>0, <1>blind, <1>step, <3>1
  <2> QED  BY <1>13, <2>1, <2>2
<1>14. CASE UNCHANGED vars
  <2>1. UNCHANGED <<roots, inode, watches, blind, op>>
    BY <1>14 DEF vars
  <2> QED  BY <1>0, <1>step, <2>1
<1> QED  BY <1>1, <1>2, <1>3, <1>4, <1>5, <1>6, <1>7, <1>partial, <1>data, <1>8, <1>9, <1>restore,
            <1>ondisk, <1>fails, <1>10, <1>11, <1>12, <1>13, <1>14
         DEF Next, Responder

\* The entries.
LEMMA LabelNext ==
  ASSUME DbInv, ChangesOK, RootInv, KernelInv, LabelInv, [Next]_vars
  PROVE  LabelInv'
<1>0. /\ DatabaseOK(entries) /\ Typed(entries) /\ Labelled(entries) /\ disk \subseteq Paths
      /\ 0..MaxEntries \subseteq Nat /\ Given \subseteq Nat /\ KindsKept(entries, entries)
  BY BoundsAssumption, TypedFields DEF DbInv, DatabaseOK, LabelInv, Given, KindsKept
<1>step. ASSUME Labelled(entries'),
                op'.pc \notin Renaming \/ (op' = op /\ KindsKept(entries, entries'))
         PROVE  LabelInv'
  <2>1. op'.pc \notin Renaming => RenameLabels(entries', op')
    BY DEF RenameLabels, Renaming
  <2>2. ASSUME op' = op, KindsKept(entries, entries'), op.pc \in Renaming
        PROVE  RenameLabels(entries', op')
    <3>1. PICK es, fs, o : es = entries /\ fs = entries' /\ o = op
      OBVIOUS
    <3>2. RenameLabels(es, o) /\ o.at \in DOMAIN es /\ fs[o.at].dir = es[o.at].dir
      BY <2>2, <3>1 DEF LabelInv, RootInv, KindsKept
    <3>3. RenameLabels(fs, o)
      BY <3>2 DEF RenameLabels
    <3> QED  BY <2>2, <3>1, <3>3
  <2> QED  BY <1>step, <2>1, <2>2 DEF LabelInv
<1>crash. ASSUME NEW cause, Crash(cause) PROVE LabelInv'
  <2>1. UNCHANGED <<entries, op>>
    BY <1>crash DEF Crash
  <2> QED  BY <1>0, <1>step, <2>1
<1>1. CASE OpenSession
  <2>1. entries' = <<>> /\ op'.pc = "opening"
    BY <1>1 DEF OpenSession
  <2>2. Labelled(entries') /\ op'.pc \notin Renaming
    BY <2>1 DEF Labelled, Renaming
  <2> QED  BY <1>step, <2>2
<1>2. CASE OpenStore
  <2>1. /\ op.pc = "opening"
        /\ op' = [op EXCEPT !.slot = op.slot + 1] \/ op' = Idle
        /\ \/ op.slot \in Stores /\ entries' = alloc_root_entry(entries, op.slot)
           \/ entries' = entries
    BY <1>2 DEF OpenStore
  <2>2. op'.pc \notin Renaming
    <3> DEFINE k == op.slot + 1
    <3>1. op = [pc |-> "opening", slot |-> op.slot]
      BY <2>1 DEF RootInv
    <3> HIDE DEF k
    <3>2. op' = [pc |-> "opening", slot |-> k] \/ op' = Idle
      BY <2>1, <3>1 DEF k
    <3> QED  BY <3>2 DEF Idle, Renaming
  <2>3. Labelled(entries')
    BY <1>0, <2>1, AllocLabelled
  <2> QED  BY <1>step, <2>2, <2>3
<1>3. CASE CloseSession
  <2>1. entries' = <<>> /\ op' = op /\ op.pc = "idle"
    BY <1>3 DEF CloseSession, Ready
  <2>2. Labelled(entries') /\ op'.pc \notin Renaming
    BY <2>1 DEF Labelled, Renaming
  <2> QED  BY <1>step, <2>2
<1>4. ASSUME NEW s \in Stores, NEW h \in 0..MaxEntries, ListScan(s, h) PROVE LabelInv'
  <2>1. \/ Crash("null path")
        \/ \E path : /\ entries' = Scan(disk, entries, path, h, s).entries
                     /\ op' = Idle \/ \E at : op' = [pc |-> "watch", path |-> path, at |-> at]
    BY <1>4 DEF ListScan
  <2>2. ASSUME NEW path, entries' = Scan(disk, entries, path, h, s).entries,
               op' = Idle \/ \E at : op' = [pc |-> "watch", path |-> path, at |-> at]
        PROVE  LabelInv'
    <3>1. op' = Idle => op'.pc \notin Renaming
      BY DEF Idle, Renaming
    <3>2. \A at : op' = [pc |-> "watch", path |-> path, at |-> at] => op'.pc \notin Renaming
      BY DEF Renaming
    <3>3. op'.pc \notin Renaming
      BY <2>2, <3>1, <3>2, Zenon
    <3>4. Labelled(entries')
      BY <1>0, <2>2, ScanLabelled
    <3> QED  BY <1>step, <3>3, <3>4
  <2> QED  BY <1>crash, <2>1, <2>2
<1>5. CASE ListWatch
  <2>1. /\ op'.pc = "idle" /\ op.pc = "watch"
        /\ \/ entries' = entries
           \/ entries' = [entries EXCEPT ![op.at].wd = Wd(op.path)]
           \/ entries' = [entries EXCEPT ![op.at].wd = NoWd]
    BY <1>5 DEF ListWatch, Idle
  <2>2. Wd(op.path) \in Watches /\ NoWd \in Watches
    BY <2>1 DEF KernelInv, Wd, Watches
  <2>3. ASSUME NEW w \in Watches, entries' = [entries EXCEPT ![op.at].wd = w]
        PROVE  Labelled(entries')
    <3>1. PICK es, fs, at : es = entries /\ fs = entries' /\ at = op.at
      OBVIOUS
    <3>2. Typed(es) /\ Labelled(es) /\ fs = [es EXCEPT ![at].wd = w]
      BY <1>0, <2>3, <3>1
    <3>3. /\ DOMAIN fs = DOMAIN es
          /\ \A i \in DOMAIN es : fs[i].name = es[i].name /\ fs[i].dir = es[i].dir
      BY <3>2, WatchRetouches
    <3>4. \A i \in DOMAIN es : /\ fs[i].wd = es[i].wd \/ fs[i].wd = w
                               /\ fs[i].bucket = es[i].bucket
      <4>1. PICK N, W : es \in Seq(EntryOf(N, W))
        BY <3>2 DEF Typed
      <4>2. \A i \in DOMAIN es : es[i] \in EntryOf(N, W)
        BY <4>1
      <4>3. \A i \in DOMAIN es : fs[i] = IF i = at THEN [es[i] EXCEPT !.wd = w] ELSE es[i]
        BY <3>2, Zenon
      <4> QED  BY <4>2, <4>3 DEF EntryOf
    <3>5. Labelled(fs)
      BY <3>2, <3>3, <3>4 DEF Labelled
    <3> QED  BY <3>1, <3>5
  <2>4. Labelled(entries') /\ op'.pc \notin Renaming
    BY <1>0, <2>1, <2>2, <2>3 DEF Renaming
  <2> QED  BY <1>step, <2>4
<1>6. ASSUME NEW s \in Stores, NEW h \in 0..MaxEntries, NEW n \in Names,
             \/ SendInfoUnplaced(s, h, n) \/ SendFolderInfo(s, h, n) \/ SendFileInfo(s, h, n)
      PROVE  LabelInv'
  <2>1. /\ UNCHANGED op /\ op.pc = "idle"
        /\ \/ entries' = entries
           \/ entries' = add_entry(entries, n, FALSE, h, s)
           \/ entries' = add_entry(entries, n, TRUE, h, s) /\ n \in DirNames
    BY <1>6 DEF SendInfoUnplaced, SendFolderInfo, SendFileInfo, Ready
  <2>2. n \in FileNames
    BY DEF FileNames
  <2>3. Labelled(entries')
    BY <1>0, <2>1, <2>2, AddLabelled
  <2>4. op'.pc \notin Renaming
    BY <2>1 DEF Renaming
  <2> QED  BY <1>step, <2>3, <2>4
<1>7. CASE SendObject
  <2>1. UNCHANGED <<entries, op>>
    BY <1>7 DEF SendObject, Crash
  <2> QED  BY <1>0, <1>step, <2>1
<1>partial. ASSUME NEW h \in Given, SendPartialObject(h) PROVE LabelInv'
  <2>1. UNCHANGED entries /\ op' \in {[pc |-> "partial"], Idle}
    BY <1>partial DEF SendPartialObject
  <2>2. [pc |-> "partial"].pc \notin Renaming /\ Idle.pc \notin Renaming
    BY DEF Idle, Renaming
  <2>3. op'.pc \notin Renaming
    BY <2>1, <2>2, Zenon
  <2> QED  BY <1>0, <1>step, <2>1, <2>3
<1>data. CASE SendPartialData
  <2>1. Crash("null path") \/ (op' = Idle /\ UNCHANGED entries)
    BY <1>data, Zenon DEF SendPartialData
  <2>2. op' = Idle => op'.pc \notin Renaming
    BY DEF Idle, Renaming
  <2> QED  BY <1>0, <1>crash, <1>step, <2>1, <2>2
<1>8. ASSUME NEW h \in Given, DeleteObject(h) PROVE LabelInv'
  <2> DEFINE i == get_entry_by_handle(entries, h)
             p == build_full_path(entries, i)
  <2>1. /\ i # NoEntry /\ UNCHANGED op /\ op.pc = "idle"
        /\ \/ entries' = entries
           \/ entries' = Discard(entries, {i})
           \/ \E S : entries' = Scan(disk \ S, entries, p, h, entries[i].store).entries
    BY <1>8 DEF DeleteObject, Crash, Ready
  <2>2. i \in DOMAIN entries
    BY <1>0, <2>1, GetByHandle
  <2> HIDE DEF i, p
  <2>3. entries[i].store \in Stores
    BY <1>0, <2>2, TypedFields
  <2>4. Labelled(entries')
    BY <1>0, <2>1, <2>3, DiscardLabelled, ScanLabelled
  <2>5. op'.pc \notin Renaming
    BY <2>1 DEF Renaming
  <2> QED  BY <1>step, <2>4, <2>5
<1>9. ASSUME NEW h \in Given, NEW n \in Names, RenameFile(h, n) PROVE LabelInv'
  <2> DEFINE i == get_entry_by_handle(entries, h)
             from == build_full_path(entries, i)
  <2>1. /\ i # NoEntry /\ (n \in DirNames <=> entries[i].dir)
        /\ \/ Crash("null path")
           \/ /\ entries' = SetName(entries, i, n, entries[i].bucket, entries[i].moved)
              /\ op' = [pc |-> "naming", at |-> i, name |-> n, old |-> entries[i].name, from |-> from]
    BY <1>9 DEF RenameFile
  <2>2. i \in DOMAIN entries
    BY <1>0, <2>1, GetByHandle
  <2> HIDE DEF i, from
  <2>3. CASE /\ entries' = SetName(entries, i, n, entries[i].bucket, entries[i].moved)
             /\ op' = [pc |-> "naming", at |-> i, name |-> n, old |-> entries[i].name, from |-> from]
    <3>1. PICK es, fs, o2 : es = entries /\ fs = entries' /\ o2 = op'
      OBVIOUS
    <3>2. /\ Typed(es) /\ Labelled(es) /\ i \in DOMAIN es /\ n \in FileNames
          /\ es[i].dir => n \in DirNames
          /\ fs = SetName(es, i, n, es[i].bucket, es[i].moved) /\ es[i].moved \in Nat
      BY <1>0, <2>1, <2>2, <2>3, <3>1, TypedFields DEF FileNames
    <3>3. Labelled(fs) /\ KindsKept(es, fs)
      BY <3>2, NamedLabelled
    <3>4. o2.pc = "naming" /\ o2.at = i /\ o2.name = n /\ o2.old = es[i].name
      BY <2>3, <3>1
    <3>5. RenameLabels(fs, o2)
      BY <3>2, <3>3, <3>4 DEF RenameLabels, KindsKept, Labelled
    <3> QED  BY <3>1, <3>3, <3>5 DEF LabelInv
  <2> QED  BY <1>crash, <2>1, <2>3
<1>restore. CASE RenameRestore
  <2> DEFINE to == build_full_path(entries, op.at)
  <2>1. \/ Crash("null path")
        \/ /\ op.pc = "naming"
           /\ entries' = SetName(entries, op.at, op.old, entries[op.at].bucket, entries[op.at].moved)
           /\ op' = [pc |-> "renaming", at |-> op.at, name |-> op.name, from |-> op.from, to |-> to]
    BY <1>restore DEF RenameRestore
  <2> HIDE DEF to
  <2>2. CASE /\ op.pc = "naming"
             /\ entries' = SetName(entries, op.at, op.old, entries[op.at].bucket, entries[op.at].moved)
             /\ op' = [pc |-> "renaming", at |-> op.at, name |-> op.name, from |-> op.from, to |-> to]
    <3>1. PICK es, fs, o, o2, at : es = entries /\ fs = entries' /\ o = op /\ o2 = op' /\ at = op.at
      OBVIOUS
    <3>2. /\ Typed(es) /\ Labelled(es) /\ RenameLabels(es, o) /\ o.pc = "naming" /\ o.at = at
          /\ at \in DOMAIN es /\ fs = SetName(es, at, o.old, es[at].bucket, es[at].moved)
      BY <1>0, <2>2, <3>1 DEF RootInv, Renaming, LabelInv
    <3>3. /\ es[at].moved \in Nat /\ o.old \in FileNames
          /\ es[at].dir => o.old \in DirNames \cup {Ghost, RootName}
      BY <3>2, TypedFields DEF RenameLabels
    <3>4. Labelled(fs) /\ KindsKept(es, fs)
      BY <3>2, <3>3, NamedLabelled
    <3>5. o2.pc = "renaming" /\ o2.at = at /\ o2.name = o.name
      BY <2>2, <3>1
    <3>6. RenameLabels(fs, o2)
      BY <3>2, <3>4, <3>5 DEF RenameLabels, KindsKept, Renaming
    <3> QED  BY <3>1, <3>4, <3>6 DEF LabelInv
  <2> QED  BY <1>crash, <2>1, <2>2
<1>ondisk. CASE RenameOnDisk
  <2>1. /\ op.pc = "renaming" /\ UNCHANGED entries
        /\ op' = [pc |-> "renamed", at |-> op.at, name |-> op.name]
    BY <1>ondisk DEF RenameOnDisk
  <2>2. op'.pc = "renamed" /\ op'.at = op.at /\ op'.name = op.name
    BY <2>1
  <2>3. RenameLabels(entries', op')
    BY <2>1, <2>2 DEF LabelInv, RenameLabels, Renaming
  <2> QED  BY <1>0, <2>1, <2>3 DEF LabelInv
<1>fails. CASE RenameFails
  <2>1. UNCHANGED entries /\ op'.pc \notin Renaming
    BY <1>fails DEF RenameFails, Idle, Renaming
  <2> QED  BY <1>0, <1>step, <2>1
<1>10. CASE RenameEntry
  <2>1. /\ op' = Idle /\ op.pc = "renamed"
        /\ entries' = SetName(entries, op.at, op.name, Hash(op.name), changes)
    BY <1>10 DEF RenameEntry
  <2>2. PICK es, fs, o, at : es = entries /\ fs = entries' /\ o = op /\ at = op.at
    OBVIOUS
  <2>3. /\ Typed(es) /\ Labelled(es) /\ RenameLabels(es, o) /\ o.pc = "renamed" /\ o.at = at
        /\ at \in DOMAIN es /\ fs = SetName(es, at, o.name, Hash(o.name), changes)
    BY <1>0, <2>1, <2>2 DEF RootInv, Renaming, LabelInv
  <2>4. /\ o.name \in FileNames
        /\ es[at].dir => o.name \in DirNames
    BY <2>3 DEF RenameLabels, Renaming, FileNames
  <2>5. Labelled(fs)
    BY <2>3, <2>4, NamedLabelled DEF ChangesOK
  <2>6. op'.pc \notin Renaming
    BY <2>1 DEF Idle, Renaming
  <2> QED  BY <1>step, <2>2, <2>5, <2>6
<1>round. ASSUME NEW ev, NEW from \in Int, from <= Len(entries), NEW queue,
                 InotifyRound(ev, from, queue)
          PROVE  LabelInv'
  <2> DEFINE i == get_entry_by_wd(entries, ev.wd, from)
  <2>1. /\ \/ i # NoEntry /\ on_create(i, ev.name)
           \/ \E D : entries' = Discard(entries, D)
           \/ entries' = entries
        /\ UNCHANGED op
    BY <1>round DEF InotifyRound, Crash
  <2>2. i # NoEntry => i \in DOMAIN entries
    BY <1>0, <1>round, GetByWd
  <2> HIDE DEF i
  <2>3. ASSUME i # NoEntry, on_create(i, ev.name)
        PROVE  Labelled(entries') /\ KindsKept(entries, entries')
    <3> DEFINE p == Append(build_full_path(entries, i), ev.name)
               name == IF Exists(p) THEN ev.name ELSE Ghost
    <3>1. i \in DOMAIN entries
      BY <2>2, <2>3
    <3>2. entries[i].store \in Stores /\ entries[i].handle \in Nat
      BY <1>0, <3>1, TypedFields
    <3>3. PICK isdir \in BOOLEAN :
            /\ Exists(p) => isdir = (ev.name \in DirNames)
            /\ entries' = add_entry(entries, name, isdir, entries[i].handle, entries[i].store)
      BY <2>3 DEF on_create
    <3>4. Exists(p) => ev.name \in Names
      <4>1. Len(p) # 1
        BY PathLength
      <4>2. Last(p) = ev.name
        BY LastBelow
      <4> HIDE DEF p
      <4>3. Exists(p) => p \in Paths
        BY <1>0, <4>1 DEF Exists, ExistsIn
      <4> QED  BY <4>2, <4>3, PathShape
    <3>5. name \in FileNames
      BY <3>4 DEF FileNames
    <3>6. isdir => name \in DirNames \cup {Ghost, RootName}
      BY <3>3
    <3> HIDE DEF name
    <3> QED  BY <1>0, <3>2, <3>3, <3>5, <3>6, AddLabelled
  <2>4. Labelled(entries') /\ KindsKept(entries, entries')
    BY <1>0, <2>1, <2>3, DiscardLabelled
  <2> QED  BY <1>step, <2>1, <2>4
<1>11. CASE InotifyEvent \/ InotifyNext \/ InotifyDangling
  <2>0. /\ Len(entries) \in Int /\ ino.at \in Int /\ ino.at <= Len(entries)
        /\ Len(entries) <= Len(entries)
    BY TypedFields DEF DbInv, DatabaseOK
  <2>1. CASE InotifyEvent
    <3>1. InotifyRound(Head(pending), Len(entries), Tail(pending))
      BY <2>1 DEF InotifyEvent
    <3> QED  BY <1>round, <2>0, <3>1
  <2>2. CASE InotifyNext
    <3>1. InotifyRound(ino.ev, ino.at, pending)
      BY <2>2 DEF InotifyNext
    <3> QED  BY <1>round, <2>0, <3>1
  <2>3. CASE InotifyDangling
    <3>1. UNCHANGED <<entries, op>>
      BY <2>3 DEF InotifyDangling, Crash
    <3> QED  BY <1>0, <1>step, <3>1
  <2> QED  BY <1>11, <2>1, <2>2, <2>3
<1>12. CASE MessageQueue
  <2>1. PICK s \in Stores : \/ MountCmd(s) \/ UnmountCmd(s) \/ LockCmd(s) \/ UnlockCmd(s)
                            \/ AddStorageCmd(s) \/ RemoveStorageCmd(s)
    BY <1>12 DEF MessageQueue
  <2>2. /\ UNCHANGED op
        /\ \/ entries' = entries
           \/ entries' = alloc_root_entry(entries, s)
           \/ \E S : entries' = Discard(entries, S)
    BY <2>1 DEF MountCmd, UnmountCmd, LockCmd, UnlockCmd, AddStorageCmd, RemoveStorageCmd,
                mount_store, umount_store
  <2>3. Labelled(entries') /\ KindsKept(entries, entries')
    BY <1>0, <2>2, AllocLabelled, DiscardLabelled
  <2> QED  BY <1>step, <2>2, <2>3
<1>13. ASSUME NEW p \in Paths, OtherCreates(p) \/ OtherRemoves(p) PROVE LabelInv'
  <2>1. UNCHANGED <<entries, op>>
    BY <1>13 DEF OtherCreates, OtherRemoves
  <2> QED  BY <1>0, <1>step, <2>1
<1>14. CASE UNCHANGED vars
  <2>1. UNCHANGED <<entries, op>>
    BY <1>14 DEF vars
  <2> QED  BY <1>0, <1>step, <2>1
<1> QED  BY <1>1, <1>2, <1>3, <1>4, <1>5, <1>6, <1>7, <1>partial, <1>data, <1>8, <1>9, <1>restore,
            <1>ondisk, <1>fails, <1>10, <1>11, <1>12, <1>13, <1>14
         DEF Next, Responder

\* The flags, the handle to be written next and the inotify thread's pointer.
LEMMA ScalarNext ==
  ASSUME DbInv, RootInv, ScalarInv, [Next]_vars
  PROVE  ScalarInv'
<1>0. /\ DatabaseOK(entries) /\ Len(entries) \in Int /\ ino.at \in Int /\ ino.at <= Len(entries)
      /\ Len(entries) <= Len(entries)
      /\ 0..MaxEntries \subseteq Nat /\ Given \subseteq Nat
  BY BoundsAssumption, TypedFields DEF DbInv, DatabaseOK, Given
<1>pc. /\ Idle.pc = "idle"
       /\ \A path, at : [pc |-> "watch", path |-> path, at |-> at].pc = "watch"
       /\ \A name, at : [pc |-> "renamed", at |-> at, name |-> name].pc = "renamed"
       /\ \A name, at, old, from : [pc |-> "naming", at |-> at, name |-> name, old |-> old,
                                    from |-> from].pc = "naming"
       /\ \A name, at, from, to : [pc |-> "renaming", at |-> at, name |-> name, from |-> from,
                                   to |-> to].pc = "renaming"
       /\ [pc |-> "partial"].pc = "partial"
       /\ \A k : [pc |-> "opening", slot |-> k].pc = "opening"
  BY DEF Idle
<1>step. ASSUME open' = open \/ open' \in BOOLEAN, crashed' = crashed, sendHandle' = sendHandle,
                ino'.at = ino.at \/ ino'.at = Dangling,
                op' = op \/ op'.pc \in {"idle", "opening", "watch", "partial"} \cup Renaming
         PROVE  ScalarInv'
  <2>1. Dangling <= Dangling
    BY DEF Dangling
  <2> QED  BY <1>step, <2>1 DEF ScalarInv
<1>crash. ASSUME NEW cause \in {"null path", "freed entry"}, Crash(cause) PROVE ScalarInv'
  <2>1. crashed' = cause /\ UNCHANGED <<open, sendHandle, ino, op>>
    BY <1>crash DEF Crash
  <2> QED  BY <2>1 DEF ScalarInv
<1>1. CASE OpenSession
  <2>1. open' = TRUE /\ UNCHANGED <<crashed, sendHandle, ino>> /\ op'.pc = "opening"
    BY <1>1 DEF OpenSession
  <2> QED  BY <1>step, <2>1
<1>2. CASE OpenStore
  <2>1. /\ UNCHANGED <<open, crashed, sendHandle, ino>> /\ op.pc = "opening"
        /\ (op' = [op EXCEPT !.slot = op.slot + 1] \/ op' = Idle)
    BY <1>2 DEF OpenStore
  <2>2. op'.pc = "opening" \/ op'.pc = "idle"
    <3> DEFINE k == op.slot + 1
    <3>1. op = [pc |-> "opening", slot |-> op.slot]
      BY <2>1 DEF RootInv
    <3> HIDE DEF k
    <3>2. op' = [pc |-> "opening", slot |-> k] \/ op' = Idle
      BY <2>1, <3>1 DEF k
    <3> QED  BY <1>pc, <3>2, Zenon
  <2> QED  BY <1>step, <2>1, <2>2
<1>3. CASE CloseSession
  <2> DEFINE wds == WdsOf(entries, DOMAIN entries)
             kept == InoWithout(wds)
  <2>1. /\ open' = FALSE /\ UNCHANGED <<crashed, sendHandle, op>>
        /\ ino' = IF ino.at = NoEntry THEN ino ELSE [kept EXCEPT !.at = Dangling]
    BY <1>3 DEF CloseSession
  <2>2. ino'.at = ino.at \/ ino'.at = Dangling
    <3>1. kept = ino \/ kept = [ino EXCEPT !.ev.wd = LostWd]
      BY DEF InoWithout
    <3> QED  BY <2>1, <3>1
  <2> QED  BY <1>step, <2>1, <2>2
<1>4. ASSUME NEW s \in Stores, NEW h \in 0..MaxEntries, ListScan(s, h) PROVE ScalarInv'
  <2>1. \/ Crash("null path")
        \/ \E path, at, wds : /\ UNCHANGED <<open, crashed, sendHandle>> /\ ino' = InoWithout(wds)
                              /\ op' = Idle \/ op' = [pc |-> "watch", path |-> path, at |-> at]
    BY <1>4 DEF ListScan
  <2>2. ASSUME NEW path, NEW at, NEW wds,
               UNCHANGED <<open, crashed, sendHandle>>, ino' = InoWithout(wds),
               op' = Idle \/ op' = [pc |-> "watch", path |-> path, at |-> at]
        PROVE  ScalarInv'
    <3>1. op' = Idle => op'.pc = "idle"
      BY <1>pc, Zenon
    <3>2. ASSUME op' = [pc |-> "watch", path |-> path, at |-> at] PROVE op'.pc = "watch"
      <4>1. [pc |-> "watch", path |-> path, at |-> at].pc = "watch"
        OBVIOUS
      <4> QED  BY <3>2, <4>1, Zenon
    <3> QED  BY <1>step, <2>2, <3>1, <3>2, InoKept
  <2> QED  BY <1>crash, <2>1, <2>2
<1>5. CASE ListWatch \/ RenameEntry \/ RenameFails
  <2>1. UNCHANGED <<open, crashed, sendHandle, ino>> /\ op'.pc = "idle"
    BY <1>5, <1>pc DEF ListWatch, RenameEntry, RenameFails
  <2> QED  BY <1>step, <2>1
<1>6. ASSUME NEW s \in Stores, NEW h \in 0..MaxEntries, NEW n \in Names,
             \/ SendInfoUnplaced(s, h, n) \/ SendFolderInfo(s, h, n) \/ SendFileInfo(s, h, n)
      PROVE  ScalarInv'
  <2> DEFINE new == add_entry(entries, n, FALSE, h, s)
             i == find_entry(new, n, h, s)
  <2>1. /\ UNCHANGED <<open, crashed, op, ino>>
        /\ sendHandle' = sendHandle \/ sendHandle' = new[i].handle
    BY <1>6 DEF SendInfoUnplaced, SendFolderInfo, SendFileInfo
  <2>2. Typed(new) /\ i # NoEntry
    BY <1>0, AddEntryOK, FoundOnceAdded DEF DatabaseOK
  <2> HIDE DEF new
  <2>3. i \in DOMAIN new
    BY <2>2, FindSome
  <2> HIDE DEF i
  <2>4. new[i].handle \in Nat
    BY <2>2, <2>3, TypedFields
  <2> QED  BY <2>1, <2>4 DEF ScalarInv
<1>7. CASE SendObject
  <2>1. Crash("null path") \/ UNCHANGED <<open, crashed, sendHandle, op, ino>>
    BY <1>7 DEF SendObject
  <2> QED  BY <1>crash, <1>step, <2>1
<1>8. ASSUME NEW h \in Given, DeleteObject(h) PROVE ScalarInv'
  <2>1. \/ Crash("null path")
        \/ \E wds : UNCHANGED <<open, crashed, sendHandle, op>> /\ ino' = InoWithout(wds)
    BY <1>8 DEF DeleteObject
  <2> QED  BY <1>crash, <1>step, <2>1, InoKept
<1>9. ASSUME NEW h \in Given, NEW n \in Names, RenameFile(h, n) PROVE ScalarInv'
  <2>1. \/ Crash("null path")
        \/ /\ UNCHANGED <<open, crashed, sendHandle, ino>>
           /\ \E at, old, from : op' = [pc |-> "naming", at |-> at, name |-> n, old |-> old,
                                        from |-> from]
    BY <1>9 DEF RenameFile
  <2>2. ASSUME NEW at, NEW old, NEW from,
               op' = [pc |-> "naming", at |-> at, name |-> n, old |-> old, from |-> from]
        PROVE  op'.pc = "naming"
    <3>1. [pc |-> "naming", at |-> at, name |-> n, old |-> old, from |-> from].pc = "naming"
      OBVIOUS
    <3> QED  BY <2>2, <3>1, Zenon
  <2> QED  BY <1>crash, <1>step, <2>1, <2>2 DEF Renaming
<1>restore. CASE RenameRestore
  <2>1. \/ Crash("null path")
        \/ /\ UNCHANGED <<open, crashed, sendHandle, ino>>
           /\ \E at, name, from, to : op' = [pc |-> "renaming", at |-> at, name |-> name,
                                             from |-> from, to |-> to]
    BY <1>restore DEF RenameRestore
  <2>2. ASSUME NEW at, NEW name, NEW from, NEW to,
               op' = [pc |-> "renaming", at |-> at, name |-> name, from |-> from, to |-> to]
        PROVE  op'.pc = "renaming"
    <3>1. [pc |-> "renaming", at |-> at, name |-> name, from |-> from, to |-> to].pc = "renaming"
      OBVIOUS
    <3> QED  BY <2>2, <3>1, Zenon
  <2> QED  BY <1>crash, <1>step, <2>1, <2>2 DEF Renaming
<1>ondisk. CASE RenameOnDisk
  <2>1. /\ UNCHANGED <<open, crashed, sendHandle, ino>>
        /\ op' = [pc |-> "renamed", at |-> op.at, name |-> op.name]
    BY <1>ondisk DEF RenameOnDisk
  <2>2. op'.pc = "renamed"
    BY <1>pc, <2>1, Zenon
  <2> QED  BY <1>step, <2>1, <2>2 DEF Renaming
<1>partial. ASSUME NEW h \in Given, SendPartialObject(h) PROVE ScalarInv'
  <2>1. /\ UNCHANGED <<open, crashed, ino>> /\ sendHandle' = h
        /\ op' \in {[pc |-> "partial"], Idle}
    BY <1>partial DEF SendPartialObject
  <2>2. op'.pc = "partial" \/ op'.pc = "idle"
    BY <1>pc, <2>1, Zenon
  <2>3. sendHandle' \in Nat
    BY <1>0, <2>1
  <2> QED  BY <2>1, <2>2, <2>3 DEF ScalarInv
<1>data. CASE SendPartialData
  <2>1. \/ Crash("null path")
        \/ op' = Idle /\ UNCHANGED <<open, crashed, sendHandle, ino>>
    BY <1>data, Zenon DEF SendPartialData
  <2>2. op' = Idle => op'.pc = "idle"
    BY <1>pc
  <2> QED  BY <1>crash, <1>step, <2>1, <2>2
<1>round. ASSUME NEW ev, NEW from \in Int, from <= Len(entries), NEW queue,
                 InotifyRound(ev, from, queue)
          PROVE  ScalarInv'
  <2> DEFINE i == get_entry_by_wd(entries, ev.wd, from)
  <2>0. \/ Crash("null path")
        \/ /\ UNCHANGED <<open, crashed, sendHandle, op>>
           /\ ino' = IF i <= 1 THEN InoIdle ELSE [at |-> i - 1, ev |-> ev]
    BY <1>round DEF InotifyRound
  <2>1. SUFFICES ASSUME /\ UNCHANGED <<open, crashed, sendHandle, op>>
                        /\ ino' = IF i <= 1 THEN InoIdle ELSE [at |-> i - 1, ev |-> ev]
                 PROVE  ScalarInv'
    BY <1>crash, <2>0
  <2>2. i \in Int
    <3>1. i # NoEntry => i \in DOMAIN entries
      BY <1>0, <1>round, GetByWd DEF DatabaseOK
    <3>2. DOMAIN entries \subseteq Int
      BY <1>0, TypedFields DEF DatabaseOK
    <3> QED  BY <3>1, <3>2 DEF NoEntry
  <2> HIDE DEF i
  <2> DEFINE k == i - 1
  <2>3. /\ ino' = InoIdle \/ (ino' = [at |-> k, ev |-> ev] /\ Dangling <= k)
        /\ Dangling <= NoEntry
    BY <2>1, <2>2 DEF Dangling, NoEntry
  <2> HIDE DEF k
  <2>4. Dangling <= ino'.at
    <3>1. InoIdle.at = NoEntry /\ [at |-> k, ev |-> ev].at = k
      BY DEF InoIdle
    <3> QED  BY <2>3, <3>1, Zenon
  <2> QED  BY <2>1, <2>4 DEF ScalarInv
<1>10. CASE InotifyEvent \/ InotifyNext \/ InotifyDangling
  <2>1. CASE InotifyEvent
    <3>1. InotifyRound(Head(pending), Len(entries), Tail(pending))
      BY <2>1 DEF InotifyEvent
    <3> QED  BY <1>0, <1>round, <3>1
  <2>2. CASE InotifyNext
    <3>1. InotifyRound(ino.ev, ino.at, pending)
      BY <2>2 DEF InotifyNext
    <3> QED  BY <1>0, <1>round, <3>1
  <2>3. CASE InotifyDangling
    <3>1. Crash("freed entry") \/ (ino' = InoIdle /\ UNCHANGED <<open, crashed, sendHandle, op>>)
      BY <2>3 DEF InotifyDangling
    <3>2. Dangling <= InoIdle.at
      BY DEF InoIdle, NoEntry, Dangling
    <3>3. CASE ino' = InoIdle /\ UNCHANGED <<open, crashed, sendHandle, op>>
      BY <3>2, <3>3 DEF ScalarInv
    <3> QED  BY <1>crash, <3>1, <3>3
  <2> QED  BY <1>10, <2>1, <2>2, <2>3
<1>11. CASE MessageQueue
  <2>1. /\ UNCHANGED <<open, crashed, sendHandle, op>>
        /\ ino' = ino \/ \E wds : ino' = InoWithout(wds)
    BY <1>11 DEF MessageQueue, MountCmd, UnmountCmd, LockCmd, UnlockCmd, AddStorageCmd,
                 RemoveStorageCmd, umount_store
  <2> QED  BY <1>step, <2>1, InoKept
<1>12. ASSUME NEW p \in Paths, OtherCreates(p) \/ OtherRemoves(p) PROVE ScalarInv'
  <2>1. UNCHANGED <<open, crashed, sendHandle, op, ino>>
    BY <1>12 DEF OtherCreates, OtherRemoves
  <2> QED  BY <1>step, <2>1
<1>13. CASE UNCHANGED vars
  <2>1. UNCHANGED <<open, crashed, sendHandle, op, ino>>
    BY <1>13 DEF vars
  <2> QED  BY <1>step, <2>1
<1> QED  BY <1>1, <1>2, <1>3, <1>4, <1>5, <1>6, <1>7, <1>partial, <1>data, <1>8, <1>9, <1>restore,
            <1>ondisk, <1>10, <1>11, <1>12, <1>13
         DEF Next, Responder

\* Every variable keeps its type, whatever the four actors do: a freed database holds
\* no entries, an entry of a folder has the name of a folder or none, and the responder
\* watches nothing but folders (GetObjectHandles, inotify_thread, add_entry).
THEOREM MtpTypeCorrect == Spec => []TypeOK
<1> DEFINE Types == KernelInv /\ LabelInv /\ ScalarInv
<1>1. Init => Types
  <2> SUFFICES ASSUME Init PROVE Types
    OBVIOUS
  <2>1. /\ inode = [f \in Folders |-> <<f, 0>>] /\ watches = {} /\ blind = Folders
        /\ roots = Stores /\ entries = <<>> /\ open = FALSE /\ crashed = "no" /\ sendHandle = 0 /\ op.pc = "idle"
    BY DEF Init, Idle
  <2>2. Dangling <= ino.at
    BY DEF Init, InoIdle, NoEntry, Dangling
  <2>3. KernelInv
    BY <2>1 DEF KernelInv
  <2>4. LabelInv
    BY <2>1 DEF LabelInv, Labelled, RenameLabels, Renaming
  <2>5. ScalarInv
    BY <2>1, <2>2 DEF ScalarInv
  <2> QED  BY <2>3, <2>4, <2>5
<1>2. DbInv /\ ChangesOK /\ RootInv /\ PathInv /\ Types /\ [Next]_vars => Types'
  BY KernelNext, LabelNext, ScalarNext
<1>3. DbInv /\ ChangesOK /\ RootInv /\ Types => TypeOK
  <2> SUFFICES ASSUME DbInv, ChangesOK, RootInv, Types PROVE TypeOK
    OBVIOUS
  <2>1. Typed(entries) /\ Labelled(entries)
    BY DEF DbInv, DatabaseOK, LabelInv
  <2>2. entries \in Seq(Entry)
    <3>1. PICK N, W : entries \in Seq(EntryOf(N, W))
      BY <2>1 DEF Typed
    <3>2. \A i \in DOMAIN entries : entries[i] \in EntryOf(N, W)
      BY <3>1
    <3>3. \A i \in DOMAIN entries : entries[i] \in Entry
      BY <2>1, <3>2 DEF Labelled, EntryOf, Entry, FileNames, Watches
    <3> QED  BY <3>1, <3>3
  <2>3. steady \subseteq Stores
    BY DEF RootInv
  <2> QED  BY <2>1, <2>2, <2>3
           DEF TypeOK, Labelled, DbInv, ChangesOK, RootInv, KernelInv, ScalarInv, Renaming
<1> HIDE DEF Types
<1> QED  BY <1>1, <1>2, <1>3, DbInductive, ChangesInductive, RootInductive, PathInductive, PTL
         DEF Spec
=============================================================================

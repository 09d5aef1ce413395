------------------------ MODULE QuicHandshakeProofs ------------------------
(***************************************************************************)
(* What is known of a QUIC connection, for any ClientHello, any pieces in  *)
(* any order, any buffer and any packets of a datagram.                    *)
(*                                                                         *)
(* The reassembler comes first: its operations are folds over fragments in *)
(* the order of their offsets, so it needs induction over numbers and      *)
(* finite sets, which is derived here from the well-foundedness of <, and  *)
(* the existence of that order.  Sound says that a reassembler's books are *)
(* exact, and every operation preserves it.                                *)
(*                                                                         *)
(* The connection then follows a history, the pieces that arrived and the  *)
(* ones that were read: as long as they fit, the reassembler holds exactly *)
(* the pieces that arrived (Knows), so whichever piece comes last finds    *)
(* all of the others.                                                      *)
(***************************************************************************)
EXTENDS QuicHandshake, FiniteSetTheorems, SequenceTheorems, WellFoundedInduction, TLAPS

-----------------------------------------------------------------------------
(* Induction, finite sets and folds.                                       *)

(* The order of the naturals as a relation, which is well-founded.         *)
Below == OpToRel(<, Nat)

(* It is well-founded, by the theorem of the library, and it is <.         *)
LEMMA BelowFacts ==
  /\ IsWellFoundedOn(Below, Nat)
  /\ \A m, n \in Nat : m < n => <<m, n>> \in Below
<1>1. IsWellFoundedOn(Below, Nat)
  BY NatLessThanWellFounded, Zenon DEF Below
<1>2. ASSUME NEW m \in Nat, NEW n \in Nat, m < n PROVE <<m, n>> \in Below
  <2>1. <<m, n>> \in Nat \X Nat /\ <<m, n>>[1] < <<m, n>>[2]
    BY <1>2
  <2> QED BY <2>1, Zenon DEF Below, OpToRel
<1> QED BY <1>1, <1>2

(* A nonempty set of naturals has a least element.                         *)
LEMMA Least ==
  ASSUME NEW T \in SUBSET Nat, T # {}
  PROVE  \E x \in T : \A y \in T : x <= y
<1>1. IsWellFoundedOn(Below, Nat) /\ T \subseteq Nat
  BY BelowFacts
<1>2. PICK x \in T : \A y \in T : <<y, x>> \notin Below
  BY <1>1, WFMin, Zenon
<1>3. ASSUME NEW y \in T PROVE x <= y
  <2>1. SUFFICES ASSUME y < x PROVE FALSE
    OBVIOUS
  <2>2. <<y, x>> \in Below
    BY <2>1, BelowFacts
  <2> QED BY <1>2, <2>2
<1> QED BY <1>3

(* Induction over the naturals, stated of a set, which is what a lemma can *)
(* take: it follows from Least.                                            *)
LEMMA Induct ==
  ASSUME NEW S \in SUBSET Nat, 0 \in S, \A n \in Nat : n \in S => n + 1 \in S
  PROVE  S = Nat
<1> SUFFICES ASSUME S # Nat PROVE FALSE
  OBVIOUS
<1> DEFINE T == Nat \ S
<1>2. PICK x \in T : \A y \in T : x <= y
  <2>1. T \in SUBSET Nat /\ T # {}
    OBVIOUS
  <2> HIDE DEF T
  <2> QED BY <2>1, Least
<1>3. x \in Nat /\ x # 0 /\ x - 1 \in Nat /\ x - 1 \notin T
  BY <1>2
<1> QED BY <1>3

(* A nonempty set of numbers up to n has a greatest one.                   *)
LEMMA Greatest ==
  ASSUME NEW n \in Nat, NEW s \in SUBSET (1..n), s # {}
  PROVE  Max(s) \in s /\ \A x \in s : x <= Max(s)
<1>1. \E m \in s : \A x \in s : x <= m
  <2> DEFINE T == {n - x : x \in s}
  <2>1. PICK d \in T : \A e \in T : d <= e
    <3>1. \A x \in s : x \in Nat /\ x <= n /\ n - x \in Nat
      OBVIOUS
    <3>2. T \in SUBSET Nat /\ T # {}
      BY <3>1
    <3> HIDE DEF T
    <3> QED BY <3>2, Least
  <2>2. PICK m \in s : d = n - m
    OBVIOUS
  <2>3. \A x \in s : n - m <= n - x
    BY <2>1, <2>2
  <2> QED BY <2>2, <2>3
<1> QED BY <1>1 DEF Max

(* Induction along 0..n.                                                   *)
LEMMA Prefix ==
  ASSUME NEW n \in Nat, NEW S, 0 \in S, \A i \in 1..n : i - 1 \in S => i \in S
  PROVE  \A i \in 0..n : i \in S
<1> DEFINE T == {j \in Nat : j <= n => j \in S}
<1>1. 0 \in T
  OBVIOUS
<1>2. ASSUME NEW j \in Nat, j \in T PROVE j + 1 \in T
  <2> SUFFICES ASSUME j + 1 <= n PROVE j + 1 \in S
    OBVIOUS
  <2>1. j + 1 \in 1..n /\ (j + 1) - 1 = j /\ j \in S
    BY <1>2
  <2> QED BY <2>1
<1>3. T = Nat
  <2>1. T \in SUBSET Nat
    OBVIOUS
  <2> HIDE DEF T
  <2> QED BY <1>1, <1>2, <2>1, Induct
<1> QED BY <1>3

(* What FoldLeft iterates, for a step that is a function: it adds the      *)
(* greatest index to what the other ones gave.                             *)
Recursion(n, base, step, it) ==
  it = [s \in SUBSET (1..n) |->
          IF s = {} THEN base ELSE step[<<it[s \ {Max(s)}], Max(s)>>]]

(* The iteration is defined: such a function exists, so it is the one that *)
(* FoldLeft chooses.                                                       *)
LEMMA Fold ==
  ASSUME NEW T, NEW base \in T, NEW m \in Nat, NEW step \in [T \X (1..m) -> T]
  PROVE  \E it \in [SUBSET (1..m) -> T] : Recursion(m, base, step, it)
<1> DEFINE S == {n \in 0..m : \E it \in [SUBSET (1..n) -> T] : Recursion(n, base, step, it)}
<1>1. 0 \in S
  <2> DEFINE it == [s \in SUBSET (1..0) |-> base]
  <2>1. \A s \in SUBSET (1..0) : s = {}
    OBVIOUS
  <2>2. Recursion(0, base, step, it)
    BY <2>1 DEF Recursion
  <2>3. it \in [SUBSET (1..0) -> T] /\ 0 \in 0..m
    OBVIOUS
  <2> QED BY <2>2, <2>3
<1>2. ASSUME NEW n \in 1..m, n - 1 \in S PROVE n \in S
  <2>1. PICK it \in [SUBSET (1..(n - 1)) -> T] : Recursion(n - 1, base, step, it)
    BY <1>2
  <2> DEFINE g == [s \in SUBSET (1..n) |->
                      IF n \in s THEN step[<<it[s \ {n}], n>>] ELSE it[s]]
  <2>a. n \in Nat /\ n - 1 \in Nat
    OBVIOUS
  <2>2. ASSUME NEW s \in SUBSET (1..n)
        PROVE  /\ g[s] = IF s = {} THEN base ELSE step[<<g[s \ {Max(s)}], Max(s)>>]
               /\ g[s] \in T
    <3>1. CASE n \in s
      <4>1. Max(s) = n
        <5>1. s # {}
          BY <3>1
        <5>2. Max(s) \in s /\ n <= Max(s)
          BY <3>1, <5>1, <2>a, Greatest
        <5>3. Max(s) \in 1..n
          BY <5>2
        <5> QED BY <5>2, <5>3
      <4>2. s \ {n} \in SUBSET (1..(n - 1)) /\ s \ {n} \in SUBSET (1..n)
        OBVIOUS
      <4>3. g[s \ {n}] = it[s \ {n}] /\ it[s \ {n}] \in T
        BY <4>2
      <4>4. g[s] = step[<<it[s \ {n}], n>>]
        BY <3>1
      <4>5. step[<<it[s \ {n}], n>>] \in T
        BY <4>3
      <4> HIDE DEF g
      <4> QED BY <3>1, <4>1, <4>3, <4>4, <4>5
    <3>2. CASE n \notin s
      <4>1. s \in SUBSET (1..(n - 1))
        BY <3>2
      <4>2. it[s] = IF s = {} THEN base ELSE step[<<it[s \ {Max(s)}], Max(s)>>]
        BY <2>1, <4>1 DEF Recursion
      <4>3. s \ {Max(s)} \in SUBSET (1..n) /\ n \notin s \ {Max(s)}
        BY <3>2
      <4>4. g[s] = it[s] /\ g[s \ {Max(s)}] = it[s \ {Max(s)}] /\ it[s] \in T
        BY <3>2, <4>3, <4>1
      <4> HIDE DEF g
      <4> QED BY <4>2, <4>4
    <3> QED BY <3>1, <3>2
  <2>3. g = [s \in SUBSET (1..n) |-> g[s]]
    OBVIOUS
  <2>4. Recursion(n, base, step, g) /\ g \in [SUBSET (1..n) -> T]
    <3> HIDE DEF g
    <3> QED BY <2>2, <2>3 DEF Recursion
  <2>5. n \in 0..m
    OBVIOUS
  <2> HIDE DEF g
  <2> QED BY <2>4, <2>5
<1>3. m \in S
  <2>1. m \in 0..m
    OBVIOUS
  <2> HIDE DEF S
  <2> QED BY <1>1, <1>2, <2>1, Prefix
<1> QED BY <1>3

(* The greatest index of a prefix is its last.                             *)
LEMMA LastOfPrefix ==
  ASSUME NEW n \in Nat, NEW i \in 1..n
  PROVE  /\ 1..i \in SUBSET (1..n) /\ 1..i # {}
         /\ Max(1..i) = i
         /\ (1..i) \ {i} = 1..(i - 1)
<1>1. i \in Nat /\ i \in 1..i
  OBVIOUS
<1>2. 1..i \in SUBSET (1..n)
  OBVIOUS
<1>3. 1..i # {}
  BY <1>1
<1>4. Max(1..i) = i
  <2>1. 1..i \in SUBSET (1..i)
    OBVIOUS
  <2>2. Max(1..i) \in 1..i /\ i <= Max(1..i)
    BY <1>1, <1>3, <2>1, Greatest
  <2> QED BY <2>2
<1> QED BY <1>1, <1>2, <1>3, <1>4

(* A property of the start that every step preserves holds along 0..n.     *)
LEMMA PrefixType ==
  ASSUME NEW n \in Nat, NEW T, NEW f, f[0] \in T,
         \A i \in 1..n : f[i - 1] \in T => f[i] \in T
  PROVE  \A i \in 0..n : f[i] \in T
<1> DEFINE S == {i \in 0..n : f[i] \in T}
<1>1. 0 \in S /\ \A i \in 1..n : i - 1 \in S => i \in S
  OBVIOUS
<1>2. \A i \in 0..n : i \in S
  <2> HIDE DEF S
  <2> QED BY <1>1, Prefix
<1> QED BY <1>2

-----------------------------------------------------------------------------
(* The loops over fragments.                                               *)

(* A fragment starts before it ends.                                       *)
LEMMA FragmentType ==
  ASSUME NEW f \in Fragment
  PROVE  f.off \in Nat /\ f.len \in Nat /\ End(f) \in Nat /\ f.off < End(f)
BY DEF Fragment, End

(* The contiguous offset stays a natural number.                           *)
LEMMA AdvanceType == \A c \in Nat, f \in Fragment : Advance(c, f) \in Nat
BY DEF Advance, Fragment, End

(* FoldLeft of Advance is a loop over the fragments: f[i] is the offset    *)
(* after i of them.  The same is proved below of each operator that is     *)
(* folded, since no lemma can take an operator.                            *)
LEMMA AdvanceFold ==
  ASSUME NEW b \in Nat, NEW q \in Seq(Fragment)
  PROVE  \E f \in [0..Len(q) -> Nat] :
           /\ f[0] = b
           /\ \A i \in 1..Len(q) : f[i] = Advance(f[i - 1], q[i])
           /\ FoldLeft(Advance, b, q) = f[Len(q)]
<1> DEFINE n == Len(q)
           step == [x \in Nat \X (1..n) |-> Advance(x[1], q[x[2]])]
           Eqn(it) ==
             it = [s \in SUBSET (1..n) |->
                     IF s = {} THEN b ELSE Advance(it[s \ {Max(s)}], q[Max(s)])]
           it == CHOOSE it : Eqn(it)
           f == [i \in 0..n |-> it[1..i]]
<1>1. n \in Nat /\ (\A i \in 1..n : q[i] \in Fragment) /\ DOMAIN q = 1..n
  OBVIOUS
<1>2. Eqn(it)
  <2>1. step \in [Nat \X (1..n) -> Nat]
    BY <1>1, AdvanceType
  <2>2. PICK jt \in [SUBSET (1..n) -> Nat] : Recursion(n, b, step, jt)
    <3> HIDE DEF n, step
    <3> QED BY <1>1, <2>1, Fold
  <2>3. ASSUME NEW s \in SUBSET (1..n), s # {}
        PROVE  step[<<jt[s \ {Max(s)}], Max(s)>>] = Advance(jt[s \ {Max(s)}], q[Max(s)])
    <3>1. Max(s) \in 1..n
      <4> HIDE DEF n
      <4> QED BY <1>1, <2>3, Greatest
    <3>2. jt[s \ {Max(s)}] \in Nat
      OBVIOUS
    <3> QED BY <3>1, <3>2
  <2>4. Eqn(jt)
    <3> HIDE DEF n, step
    <3> QED BY <2>2, <2>3 DEF Recursion
  <2> HIDE DEF Eqn
  <2> QED BY <2>4
<1>3. FoldLeft(Advance, b, q) = it[1..n]
  BY <1>1 DEF FoldLeft, MapThenFoldSet
<1> HIDE DEF it, n
<1>4. f[0] = b
  <2>1. 1..0 = {} /\ 0 \in 0..n
    BY <1>1
  <2> QED BY <1>2, <2>1
<1>5. ASSUME NEW i \in 1..n PROVE f[i] = Advance(f[i - 1], q[i])
  <2>1. i \in 0..n /\ i - 1 \in 0..n
    BY <1>1
  <2>2. /\ 1..i \in SUBSET (1..n) /\ 1..i # {} /\ Max(1..i) = i
        /\ (1..i) \ {i} = 1..(i - 1)
    BY <1>1, LastOfPrefix
  <2>3. it[1..i] = Advance(it[(1..i) \ {Max(1..i)}], q[Max(1..i)])
    BY <1>2, <2>2
  <2> QED BY <2>1, <2>2, <2>3
<1>6. f \in [0..n -> Nat]
  <2> HIDE DEF f
  <2>1. ASSUME NEW i \in 1..n, f[i - 1] \in Nat PROVE f[i] \in Nat
    <3>1. q[i] \in Fragment /\ f[i] = Advance(f[i - 1], q[i])
      BY <1>1, <1>5
    <3> QED BY <2>1, <3>1, AdvanceType
  <2>2. \A i \in 0..n : f[i] \in Nat
    BY <1>1, <1>4, <2>1, PrefixType
  <2> QED BY <2>2 DEF f
<1>7. f[n] = it[1..n]
  BY <1>1
<1> HIDE DEF f
<1> QED BY <1>3, <1>4, <1>5, <1>6, <1>7 DEF n

(* The first n bytes of the stream.                                        *)
Stream(n) == [i \in 1..n |-> i - 1]
Streams == {Stream(n) : n \in Nat}

(* n bytes of the stream are a sequence of length n.                       *)
LEMMA StreamFacts ==
  ASSUME NEW n \in Nat
  PROVE  Stream(n) \in Seq(Nat) /\ Len(Stream(n)) = n /\ Stream(n) \in Streams
BY DEF Stream, Streams

(* No bytes at all are a piece of the stream too.                          *)
LEMMA StreamEmpty == <<>> \in Streams /\ <<>> = Stream(0)
<1>1. Stream(0) = <<>>
  BY DEF Stream
<1> QED BY <1>1 DEF Streams

(* The next bytes after the first n of them.                               *)
LEMMA StreamConcat ==
  ASSUME NEW n \in Nat, NEW m \in Nat, n < m
  PROVE  Stream(n) \o Bytes(n, m) = Stream(m)
<1>1. Stream(n) \in Seq(Nat) /\ Len(Stream(n)) = n
  BY StreamFacts
<1>2. Stream(m) \in Seq(Nat) /\ Len(Stream(m)) = m
  BY StreamFacts
<1>3. Bytes(n, m) \in Seq(Nat) /\ Len(Bytes(n, m)) = m - n
  BY DEF Bytes
<1>4. Stream(n) \o Bytes(n, m) \in Seq(Nat) /\ Len(Stream(n) \o Bytes(n, m)) = m
  BY <1>1, <1>3
<1>5. ASSUME NEW i \in 1..m PROVE (Stream(n) \o Bytes(n, m))[i] = Stream(m)[i]
  <2>1. CASE i <= n
    <3>1. i \in 1..n
      BY <2>1
    <3>2. (Stream(n) \o Bytes(n, m))[i] = Stream(n)[i]
      BY <1>1, <1>3, <3>1
    <3> QED BY <3>1, <3>2 DEF Stream
  <2>2. CASE i > n
    <3>1. i - n \in 1..(m - n) /\ i - n \in Nat /\ i = n + (i - n)
      BY <2>2
    <3>2. (Stream(n) \o Bytes(n, m))[i] = Bytes(n, m)[i - n]
      BY <1>1, <1>3, <2>2
    <3>3. Bytes(n, m)[i - n] = n + (i - n) - 1 /\ Stream(m)[i] = i - 1
      BY <3>1 DEF Bytes, Stream
    <3> QED BY <3>1, <3>2, <3>3
  <2>3. i <= n \/ i > n
    OBVIOUS
  <2> QED BY <2>1, <2>2, <2>3
<1> DEFINE joined == Stream(n) \o Bytes(n, m)
           whole == Stream(m)
<1>6. /\ joined \in Seq(Nat) /\ whole \in Seq(Nat) /\ Len(joined) = Len(whole)
      /\ \A i \in 1..Len(joined) : joined[i] = whole[i]
  BY <1>2, <1>4, <1>5
<1>7. joined = whole
  <2> HIDE DEF joined, whole
  <2> QED BY <1>6, SeqEqual
<1> QED BY <1>7

(* A fragment extends a piece of the stream to its own end or not at all.  *)
LEMMA ExtendStream ==
  ASSUME NEW limit, NEW n \in Nat, NEW f \in Fragment
  PROVE  Extend(limit, Stream(n), f) =
           IF f.off <= n /\ End(f) > n /\ n < limit THEN Stream(End(f)) ELSE Stream(n)
<1>1. Len(Stream(n)) = n
  BY StreamFacts
<1>2. End(f) \in Nat
  BY FragmentType
<1> QED BY <1>1, <1>2, StreamConcat DEF Extend

(* What get_contiguous_data collects is always a piece of the stream.      *)
LEMMA ExtendType ==
  ASSUME NEW limit, NEW d \in Streams, NEW f \in Fragment
  PROVE  Extend(limit, d, f) \in Streams
<1>1. PICK n \in Nat : d = Stream(n)
  BY DEF Streams
<1>2. End(f) \in Nat
  BY DEF End, Fragment
<1> QED BY <1>1, <1>2, ExtendStream, StreamFacts

(* get_contiguous_data is a loop over the fragments by offset.             *)
LEMMA ExtendFold ==
  ASSUME NEW r, NEW q \in Seq(Fragment), q = ByOffset(r.fragments)
  PROVE  \E f \in [0..Len(q) -> Streams] :
           /\ f[0] = <<>>
           /\ \A i \in 1..Len(q) : f[i] = Extend(r.contiguous, f[i - 1], q[i])
           /\ get_contiguous_data(r) = f[Len(q)]
<1> DEFINE n == Len(q)
           step == [x \in Streams \X (1..n) |-> Extend(r.contiguous, x[1], q[x[2]])]
           Eqn(it) ==
             it = [s \in SUBSET (1..n) |->
                     IF s = {} THEN <<>>
                     ELSE Extend(r.contiguous, it[s \ {Max(s)}], q[Max(s)])]
           it == CHOOSE it : Eqn(it)
           f == [i \in 0..n |-> it[1..i]]
<1>1. n \in Nat /\ (\A i \in 1..n : q[i] \in Fragment) /\ DOMAIN q = 1..n
  OBVIOUS
<1>2. Eqn(it)
  <2>1. step \in [Streams \X (1..n) -> Streams]
    BY <1>1, ExtendType
  <2>2. PICK jt \in [SUBSET (1..n) -> Streams] : Recursion(n, <<>>, step, jt)
    <3> HIDE DEF n, step
    <3> QED BY <1>1, <2>1, Fold, StreamEmpty
  <2>3. ASSUME NEW s \in SUBSET (1..n), s # {}
        PROVE  step[<<jt[s \ {Max(s)}], Max(s)>>]
                 = Extend(r.contiguous, jt[s \ {Max(s)}], q[Max(s)])
    <3>1. Max(s) \in 1..n
      <4> HIDE DEF n
      <4> QED BY <1>1, <2>3, Greatest
    <3>2. jt[s \ {Max(s)}] \in Streams
      OBVIOUS
    <3> QED BY <3>1, <3>2
  <2>4. Eqn(jt)
    <3> HIDE DEF n, step
    <3> QED BY <2>2, <2>3 DEF Recursion
  <2> HIDE DEF Eqn
  <2> QED BY <2>4
<1>3. get_contiguous_data(r) = it[1..n]
  BY <1>1 DEF get_contiguous_data, FoldLeft, MapThenFoldSet
<1> HIDE DEF it, n
<1>4. f[0] = <<>>
  <2>1. 1..0 = {} /\ 0 \in 0..n
    BY <1>1
  <2> QED BY <1>2, <2>1
<1>5. ASSUME NEW i \in 1..n PROVE f[i] = Extend(r.contiguous, f[i - 1], q[i])
  <2>1. i \in 0..n /\ i - 1 \in 0..n
    BY <1>1
  <2>2. /\ 1..i \in SUBSET (1..n) /\ 1..i # {} /\ Max(1..i) = i
        /\ (1..i) \ {i} = 1..(i - 1)
    BY <1>1, LastOfPrefix
  <2>3. it[1..i] = Extend(r.contiguous, it[(1..i) \ {Max(1..i)}], q[Max(1..i)])
    BY <1>2, <2>2
  <2> QED BY <2>1, <2>2, <2>3
<1>6. f \in [0..n -> Streams]
  <2> HIDE DEF f
  <2>1. ASSUME NEW i \in 1..n, f[i - 1] \in Streams PROVE f[i] \in Streams
    <3>1. q[i] \in Fragment /\ f[i] = Extend(r.contiguous, f[i - 1], q[i])
      BY <1>1, <1>5
    <3> QED BY <2>1, <3>1, ExtendType
  <2>2. \A i \in 0..n : f[i] \in Streams
    BY <1>1, <1>4, <2>1, PrefixType, StreamEmpty
  <2> QED BY <2>2 DEF f
<1>7. f[n] = it[1..n]
  BY <1>1
<1> HIDE DEF f
<1> QED BY <1>3, <1>4, <1>5, <1>6, <1>7 DEF n

-----------------------------------------------------------------------------
(* The order of a BTreeMap.                                                *)

(* Induction over a finite set, stated of a set of its subsets: it follows *)
(* from an enumeration and induction along 0..n.                           *)
LEMMA FiniteInduct ==
  ASSUME NEW S, IsFiniteSet(S), NEW C, {} \in C,
         \A T \in SUBSET S : T \in C => \A x \in S : T \cup {x} \in C
  PROVE  S \in C
<1>0. PICK n \in Nat : ExistsSurjection(1..n, S)
  BY FS_NatSurjection
<1>1. PICK f \in [1..n -> S] : \A x \in S : \E i \in 1..n : f[i] = x
  BY <1>0 DEF ExistsSurjection, Surjection
<1> DEFINE A == {i \in 0..n : {f[j] : j \in 1..i} \in C}
<1>2. 0 \in A
  <2>1. {f[j] : j \in 1..0} = {}
    OBVIOUS
  <2> QED BY <2>1
<1>3. ASSUME NEW i \in 1..n, i - 1 \in A PROVE i \in A
  <2>1. {f[j] : j \in 1..i} = {f[j] : j \in 1..(i - 1)} \cup {f[i]}
    OBVIOUS
  <2>2. {f[j] : j \in 1..(i - 1)} \in SUBSET S /\ f[i] \in S /\ i \in 0..n
    OBVIOUS
  <2>3. {f[j] : j \in 1..(i - 1)} \in C
    BY <1>3
  <2> QED BY <2>1, <2>2, <2>3
<1>4. n \in A
  <2>1. n \in 0..n
    OBVIOUS
  <2> HIDE DEF A
  <2> QED BY <1>2, <1>3, <2>1, Prefix
<1>5. {f[j] : j \in 1..n} = S
  BY <1>1
<1> QED BY <1>4, <1>5

(* Finitely many fragments occupy finitely many bytes.                     *)
LEMMA OccupiedFinite ==
  ASSUME NEW fs \in SUBSET Fragment, IsFiniteSet(fs)
  PROVE  IsFiniteSet(Occupied(fs))
<1> DEFINE C == {T \in SUBSET fs : IsFiniteSet(Occupied(T))}
<1>1. {} \in C
  BY FS_EmptySet DEF Occupied
<1>2. ASSUME NEW T \in SUBSET fs, T \in C, NEW x \in fs PROVE T \cup {x} \in C
  <2>1. Occupied(T \cup {x}) = Occupied(T) \cup (x.off..(End(x) - 1))
    BY DEF Occupied
  <2>2. IsFiniteSet(x.off..(End(x) - 1))
    BY FS_Interval DEF Fragment, End
  <2>3. IsFiniteSet(Occupied(T))
    BY <1>2
  <2>4. IsFiniteSet(Occupied(T) \cup (x.off..(End(x) - 1)))
    BY <2>2, <2>3, FS_Union
  <2> QED BY <2>1, <2>4
<1>3. fs \in C
  <2> HIDE DEF C
  <2> QED BY <1>1, <1>2, FiniteInduct
<1> QED BY <1>3

(* Of fragments that do not overlap one is the first.                      *)
LEMMA FirstFragment ==
  ASSUME NEW fs \in SUBSET Fragment, Disjoint(fs), fs # {}
  PROVE  \E f \in fs : \A g \in fs \ {f} : f.off < g.off
<1> DEFINE T == {f.off : f \in fs}
<1>1. PICK m \in T : \A k \in T : m <= k
  <2>1. T \in SUBSET Nat /\ T # {}
    BY DEF Fragment
  <2> HIDE DEF T
  <2> QED BY <2>1, Least
<1>2. PICK f \in fs : f.off = m
  OBVIOUS
<1>3. ASSUME NEW g \in fs \ {f} PROVE f.off < g.off
  <2>1. f.off <= g.off /\ ~Overlap(f, g)
    BY <1>1, <1>2 DEF Disjoint
  <2> QED BY <2>1 DEF Overlap, End, Fragment
<1> QED BY <1>3

(* s lists the fragments fs by offset.                                     *)
Enumerates(s, fs) ==
  Range(s) = fs /\ \A i, j \in DOMAIN s : i < j => s[i].off < s[j].off

(* Finitely many fragments that do not overlap can be listed by offset:    *)
(* the first one, then a list of the others.  So BTreeMap's order exists,  *)
(* and ByOffset is it.                                                     *)
LEMMA Enumeration ==
  ASSUME NEW fs \in SUBSET Fragment, IsFiniteSet(fs), Disjoint(fs)
  PROVE  \E s \in [1..Cardinality(fs) -> fs] : Enumerates(s, fs)
<1> DEFINE S == {n \in Nat : \A gs \in SUBSET fs :
                    Cardinality(gs) = n => \E s \in [1..n -> gs] : Enumerates(s, gs)}
<1>1. \A gs \in SUBSET fs : /\ IsFiniteSet(gs) /\ Cardinality(gs) \in Nat
                            /\ gs \in SUBSET Fragment /\ Disjoint(gs)
  <2>1. \A gs \in SUBSET fs : IsFiniteSet(gs)
    BY FS_Subset
  <2> QED BY <2>1, FS_CardinalityType DEF Disjoint
<1>2. 0 \in S
  <2> SUFFICES ASSUME NEW gs \in SUBSET fs, Cardinality(gs) = 0
               PROVE  \E s \in [1..0 -> gs] : Enumerates(s, gs)
    OBVIOUS
  <2>1. gs = {}
    BY <1>1, FS_EmptySet
  <2> DEFINE s == [i \in 1..0 |-> 0]
  <2>2. s \in [1..0 -> gs] /\ Range(s) = gs /\ DOMAIN s = {}
    BY <2>1 DEF Range
  <2> HIDE DEF s
  <2> QED BY <2>2 DEF Enumerates
<1>3. ASSUME NEW n \in Nat, n \in S PROVE n + 1 \in S
  <2> SUFFICES ASSUME NEW gs \in SUBSET fs, Cardinality(gs) = n + 1
               PROVE  \E s \in [1..(n + 1) -> gs] : Enumerates(s, gs)
    OBVIOUS
  <2>1. gs # {}
    BY FS_EmptySet
  <2>2. PICK f \in gs : \A g \in gs \ {f} : f.off < g.off
    BY <1>1, <2>1, FirstFragment
  <2>3. Cardinality(gs \ {f}) = n
    BY <1>1, FS_RemoveElement
  <2>4. PICK s \in [1..n -> gs \ {f}] : Enumerates(s, gs \ {f})
    <3>1. gs \ {f} \in SUBSET fs
      OBVIOUS
    <3> QED BY <1>3, <2>3, <3>1
  <2> DEFINE t == [i \in 1..(n + 1) |-> IF i = 1 THEN f ELSE s[i - 1]]
  <2>5. ASSUME NEW i \in 2..(n + 1)
        PROVE  i - 1 \in 1..n /\ t[i] = s[i - 1] /\ s[i - 1] \in gs \ {f}
    OBVIOUS
  <2>6. t[1] = f /\ DOMAIN t = 1..(n + 1) /\ 1 \in 1..(n + 1)
    OBVIOUS
  <2>7. \A i \in 1..(n + 1) : i = 1 \/ i \in 2..(n + 1)
    OBVIOUS
  <2>8. t \in [1..(n + 1) -> gs]
    OBVIOUS
  <2>9. ASSUME NEW g \in gs PROVE \E i \in 1..(n + 1) : t[i] = g
    <3>1. CASE g = f
      BY <2>6, <3>1
    <3>2. CASE g # f
      <4>1. PICK j \in 1..n : s[j] = g
        BY <2>4, <3>2 DEF Enumerates, Range
      <4>2. j + 1 \in 2..(n + 1) /\ (j + 1) - 1 = j /\ j + 1 \in 1..(n + 1)
        OBVIOUS
      <4> HIDE DEF t
      <4> QED BY <2>5, <4>1, <4>2
    <3> QED BY <3>1, <3>2
  <2>10. Range(t) = gs
    <3> HIDE DEF t
    <3> QED BY <2>6, <2>8, <2>9 DEF Range
  <2>11. ASSUME NEW i \in 1..(n + 1), NEW j \in 1..(n + 1), i < j PROVE t[i].off < t[j].off
    <3>1. j \in 2..(n + 1)
      BY <2>11
    <3>2. CASE i = 1
      <4> HIDE DEF t
      <4> QED BY <2>2, <2>5, <2>6, <3>1, <3>2
    <3>3. CASE i # 1
      <4>1. i \in 2..(n + 1) /\ i - 1 \in 1..n /\ j - 1 \in 1..n /\ i - 1 < j - 1
        BY <2>11, <3>3
      <4>2. s[i - 1].off < s[j - 1].off
        BY <2>4, <4>1 DEF Enumerates
      <4> HIDE DEF t
      <4> QED BY <2>5, <3>1, <4>1, <4>2
    <3> QED BY <3>2, <3>3
  <2> HIDE DEF t
  <2> QED BY <2>6, <2>8, <2>10, <2>11 DEF Enumerates
<1>4. S = Nat
  <2>1. S \in SUBSET Nat
    OBVIOUS
  <2> HIDE DEF S
  <2> QED BY <1>2, <1>3, <2>1, Induct
<1> QED BY <1>1, <1>4

(* What ByOffset lists: every fragment, and each ends before the next      *)
(* begins.                                                                 *)
LEMMA ByOffsetFacts ==
  ASSUME NEW fs \in SUBSET Fragment, IsFiniteSet(fs), Disjoint(fs)
  PROVE  /\ ByOffset(fs) \in Seq(Fragment)
         /\ Range(ByOffset(fs)) = fs
         /\ \A i \in 1..Len(ByOffset(fs)) : ByOffset(fs)[i] \in fs
         /\ \A f \in fs : \E i \in 1..Len(ByOffset(fs)) : ByOffset(fs)[i] = f
         /\ \A i, j \in 1..Len(ByOffset(fs)) :
              i < j => End(ByOffset(fs)[i]) <= ByOffset(fs)[j].off
<1> DEFINE n == Cardinality(fs)
           s == ByOffset(fs)
<1>1. n \in Nat
  BY FS_CardinalityType
<1>2. s \in [1..n -> fs] /\ Enumerates(s, fs)
  BY Enumeration DEF ByOffset, Enumerates
<1> HIDE DEF s
<1>3. s \in Seq(Fragment) /\ Len(s) = n
  BY <1>1, <1>2
<1>4. ASSUME NEW i \in 1..n, NEW j \in 1..n, i < j PROVE End(s[i]) <= s[j].off
  <2>1. s[i].off < s[j].off /\ s[i] \in fs /\ s[j] \in fs
    BY <1>2, <1>4 DEF Enumerates
  <2>2. s[i] # s[j]
    BY <2>1 DEF Fragment
  <2>3. ~Overlap(s[i], s[j])
    BY <2>1, <2>2 DEF Disjoint
  <2> QED BY <2>1, <2>3 DEF Overlap, End, Fragment
<1> QED BY <1>2, <1>3, <1>4 DEF Enumerates, Range, s

-----------------------------------------------------------------------------
(* The reassembler.                                                        *)

(* A fragment that reaches back to the covered bytes covers up to its end. *)
LEMMA CoveredStep ==
  ASSUME NEW fs \in SUBSET Fragment, NEW c \in Nat, NEW f \in fs, Covered(fs, c),
         f.off <= c
  PROVE  Covered(fs, End(f))
<1> SUFFICES ASSUME NEW i \in 0..(End(f) - 1)
             PROVE  \E g \in fs : g.off <= i /\ i < End(g)
  BY DEF Covered
<1>1. End(f) \in Nat /\ f.off \in Nat
  BY DEF End, Fragment
<1>2. CASE i < c
  BY <1>2 DEF Covered
<1>3. CASE i >= c
  BY <1>1, <1>3
<1> QED BY <1>2, <1>3

(* The covered bytes end where no fragment holds the next one.             *)
LEMMA CoveredEnd ==
  ASSUME NEW fs \in SUBSET Fragment, NEW c \in Nat, Covered(fs, c)
  PROVE  ~Covered(fs, c + 1) <=> \A f \in fs : ~(f.off <= c /\ c < End(f))
<1>1. \A i \in 0..((c + 1) - 1) : i \in 0..(c - 1) \/ i = c
  OBVIOUS
<1>2. c \in 0..((c + 1) - 1)
  OBVIOUS
<1> QED BY <1>1, <1>2 DEF Covered

(* Fewer bytes are covered by the same fragments.                          *)
LEMMA CoveredBelow ==
  ASSUME NEW fs, NEW c \in Nat, NEW d \in Nat, Covered(fs, c), d <= c
  PROVE  Covered(fs, d)
BY DEF Covered

(* The same bytes are covered by more fragments.                           *)
LEMMA CoveredMore ==
  ASSUME NEW fs, NEW gs, fs \subseteq gs, NEW c, Covered(fs, c)
  PROVE  Covered(gs, c)
BY DEF Covered

(* update_contiguous_offset finds the longest covered prefix, when it      *)
(* starts from a covered one.  Along the list, what is covered so far ends *)
(* where the fragments that were passed end; the list is by offset, so a   *)
(* fragment that was passed without effect never becomes useful.           *)
LEMMA Contiguous ==
  ASSUME NEW fs \in SUBSET Fragment, IsFiniteSet(fs), Disjoint(fs),
         NEW c \in Nat, Covered(fs, c)
  PROVE  /\ FoldLeft(Advance, c, ByOffset(fs)) \in Nat
         /\ Covered(fs, FoldLeft(Advance, c, ByOffset(fs)))
         /\ ~Covered(fs, FoldLeft(Advance, c, ByOffset(fs)) + 1)
<1> DEFINE s == ByOffset(fs)
           n == Len(s)
<1>1. /\ s \in Seq(Fragment) /\ n \in Nat
      /\ \A i \in 1..n : s[i] \in fs
      /\ \A f \in fs : \E i \in 1..n : s[i] = f
      /\ \A i, j \in 1..n : i < j => End(s[i]) <= s[j].off
  BY ByOffsetFacts
<1> HIDE DEF s
<1>2. PICK f \in [0..n -> Nat] :
        /\ f[0] = c
        /\ \A i \in 1..n : f[i] = Advance(f[i - 1], s[i])
        /\ FoldLeft(Advance, c, s) = f[n]
  BY <1>1, AdvanceFold
<1> HIDE DEF n
<1> DEFINE P(i) == /\ Covered(fs, f[i])
                   /\ \A j \in 1..i : ~(s[j].off <= f[i] /\ f[i] < End(s[j]))
           S == {i \in 0..n : P(i)}
<1>3. 0 \in S
  BY <1>1, <1>2
<1>4. ASSUME NEW i \in 1..n, i - 1 \in S PROVE i \in S
  <2>1. i \in 0..n /\ i - 1 \in 0..n /\ P(i - 1) /\ f[i] = Advance(f[i - 1], s[i])
    BY <1>1, <1>2, <1>4
  <2>2. f[i - 1] \in Nat /\ s[i] \in fs /\ s[i].off \in Nat /\ End(s[i]) \in Nat
    <3>1. s[i] \in Fragment
      BY <1>1
    <3> QED BY <1>1, <2>1, <3>1, FragmentType
  <2>3. \A j \in 1..i : j = i \/ j \in 1..(i - 1)
    OBVIOUS
  <2>4. CASE s[i].off <= f[i - 1] /\ End(s[i]) > f[i - 1]
    <3>1. f[i] = End(s[i])
      BY <2>1, <2>4 DEF Advance
    <3>2. Covered(fs, f[i])
      BY <2>1, <2>2, <2>4, <3>1, CoveredStep
    <3>3. ASSUME NEW j \in 1..(i - 1) PROVE ~(f[i] < End(s[j]))
      <4>1. j \in 1..n /\ j < i
        BY <1>1
      <4>2. End(s[j]) <= s[i].off
        BY <1>1, <4>1
      <4>3. s[i] \in Fragment /\ s[j] \in Fragment
        BY <1>1, <4>1
      <4>4. s[i].off <= End(s[i]) /\ End(s[j]) \in Nat
        BY <2>2, <4>3, FragmentType
      <4> QED BY <2>2, <3>1, <4>2, <4>4
    <3> QED BY <2>1, <2>2, <2>3, <3>1, <3>2, <3>3
  <2>5. CASE ~(s[i].off <= f[i - 1] /\ End(s[i]) > f[i - 1])
    <3>1. f[i] = f[i - 1]
      BY <2>1, <2>5 DEF Advance
    <3> QED BY <2>1, <2>2, <2>3, <2>5, <3>1
  <2> QED BY <2>4, <2>5
<1>5. P(n)
  <2>1. n \in S
    <3>1. n \in 0..n
      BY <1>1
    <3> HIDE DEF S
    <3> QED BY <1>1, <1>3, <1>4, <3>1, Prefix
  <2> QED BY <2>1
<1>6. f[n] \in Nat /\ \A g \in fs : ~(g.off <= f[n] /\ f[n] < End(g))
  BY <1>1, <1>2, <1>5
<1> QED BY <1>2, <1>5, <1>6, CoveredEnd DEF s

(* A reassembler whose books are exact.  Every operation on one keeps it   *)
(* so.                                                                     *)
Sound == {r \in CryptoFrameReassembler : IsFiniteSet(r.fragments) /\ Exact(r)}

(* get_contiguous_data returns the first bytes of the stream, up to the    *)
(* contiguous offset: it takes a fragment exactly when                     *)
(* update_contiguous_offset would advance over it.                         *)
LEMMA ContiguousData ==
  ASSUME NEW r \in Sound
  PROVE  get_contiguous_data(r) = Stream(r.contiguous)
<1> DEFINE fs == r.fragments
           c == r.contiguous
           s == ByOffset(fs)
           n == Len(s)
<1>1. /\ fs \in SUBSET Fragment /\ c \in Nat /\ IsFiniteSet(fs) /\ Disjoint(fs)
      /\ Covered(fs, c) /\ ~Covered(fs, c + 1)
  BY DEF Sound, CryptoFrameReassembler, Exact
<1> HIDE DEF fs, c
<1>2. /\ s \in Seq(Fragment) /\ n \in Nat
      /\ \A i \in 1..n : s[i] \in fs
      /\ \A f \in fs : \E i \in 1..n : s[i] = f
      /\ \A i, j \in 1..n : i < j => End(s[i]) <= s[j].off
  BY <1>1, ByOffsetFacts
<1>3. PICK f \in [0..n -> Streams] :
        /\ f[0] = <<>>
        /\ \A i \in 1..n : f[i] = Extend(c, f[i - 1], s[i])
        /\ get_contiguous_data(r) = f[n]
  BY <1>2, ExtendFold DEF fs, c
<1> HIDE DEF n, s
<1> DEFINE P(i, m) == /\ f[i] = Stream(m) /\ m <= c /\ Covered(fs, m)
                      /\ m = c \/ \A j \in 1..i : ~(s[j].off <= m /\ m < End(s[j]))
           S == {i \in 0..n : \E m \in Nat : P(i, m)}
<1>4. 0 \in S
  <2>1. Covered(fs, 0) /\ 0 \in Nat /\ 0 <= c
    BY <1>1 DEF Covered
  <2> QED BY <1>2, <1>3, <2>1, StreamEmpty
<1>5. ASSUME NEW i \in 1..n, i - 1 \in S PROVE i \in S
  <2>1. i \in 0..n /\ f[i] = Extend(c, f[i - 1], s[i])
    BY <1>2, <1>3
  <2>2. PICK m \in Nat : P(i - 1, m)
    BY <1>5
  <2>3. s[i] \in fs /\ s[i] \in Fragment /\ s[i].off \in Nat /\ End(s[i]) \in Nat
    BY <1>1, <1>2 DEF Fragment, End
  <2>4. \A j \in 1..i : j = i \/ j \in 1..(i - 1)
    OBVIOUS
  <2>5. f[i] = IF s[i].off <= m /\ End(s[i]) > m /\ m < c
               THEN Stream(End(s[i])) ELSE Stream(m)
    BY <2>1, <2>2, <2>3, ExtendStream
  <2>6. CASE s[i].off <= m /\ End(s[i]) > m /\ m < c
    <3>1. Covered(fs, End(s[i]))
      BY <1>1, <2>2, <2>3, <2>6, CoveredStep
    <3>2. End(s[i]) <= c
      <4>1. SUFFICES ASSUME End(s[i]) >= c + 1 PROVE FALSE
        BY <1>1, <2>3
      <4> QED BY <1>1, <2>3, <3>1, <4>1, CoveredBelow
    <3>3. ASSUME NEW j \in 1..(i - 1) PROVE ~(End(s[i]) < End(s[j]))
      <4>1. j \in 1..n /\ j < i
        BY <1>2
      <4>2. End(s[j]) <= s[i].off
        BY <1>2, <4>1
      <4>3. s[j] \in Fragment
        BY <1>1, <1>2, <4>1
      <4>4. s[i].off <= End(s[i]) /\ End(s[j]) \in Nat
        BY <2>3, <4>3, FragmentType
      <4> QED BY <2>3, <4>2, <4>4
    <3>4. \A j \in 1..i : ~(s[j].off <= End(s[i]) /\ End(s[i]) < End(s[j]))
      BY <2>3, <2>4, <3>3
    <3>5. P(i, End(s[i]))
      BY <2>5, <2>6, <3>1, <3>2, <3>4
    <3> QED BY <2>1, <2>3, <3>5
  <2>7. CASE ~(s[i].off <= m /\ End(s[i]) > m /\ m < c)
    <3>1. P(i, m)
      BY <1>1, <2>2, <2>3, <2>4, <2>5, <2>7
    <3> QED BY <2>1, <3>1
  <2> QED BY <2>6, <2>7
<1>6. PICK m \in Nat : P(n, m)
  <2>1. n \in S
    <3>1. n \in 0..n
      BY <1>2
    <3> HIDE DEF S
    <3> QED BY <1>2, <1>4, <1>5, <3>1, Prefix
  <2> QED BY <2>1
<1>7. m = c
  <2>1. SUFFICES ASSUME m < c PROVE FALSE
    BY <1>1, <1>6
  <2>2. \A g \in fs : ~(g.off <= m /\ m < End(g))
    BY <1>2, <1>6, <2>1
  <2>3. ~Covered(fs, m + 1)
    BY <1>1, <1>6, <2>2, CoveredEnd
  <2> QED BY <1>1, <2>1, <2>3, CoveredBelow
<1> QED BY <1>3, <1>6, <1>7 DEF c

(* The new reassembler is sound.                                           *)
LEMMA NewSound == NewReassembler \in Sound /\ NewReassembler.fragments = {}
                  /\ NewReassembler.cached = NoTls
<1>1. NewReassembler \in CryptoFrameReassembler
  BY DEF NewReassembler, CryptoFrameReassembler, NoTls, Tls, TlsInfo
<1>2. Occupied({}) = {} /\ Buffered({}) = 0 /\ IsFiniteSet({})
  BY FS_EmptySet DEF Occupied, Buffered
<1>3. Disjoint({}) /\ Covered({}, 0) /\ ~Covered({}, 0 + 1)
  BY DEF Disjoint, Covered
<1>4. MaxBufferSize \in Nat
  BY QuicHandshakeAssumption
<1> QED BY <1>1, <1>2, <1>3, <1>4 DEF NewReassembler, Sound, Exact

(* Overlap is symmetric, and a fragment, which is not empty, overlaps      *)
(* itself.                                                                 *)
LEMMA OverlapSymmetric ==
  ASSUME NEW f \in Fragment, NEW g \in Fragment
  PROVE  (Overlap(f, g) <=> Overlap(g, f)) /\ Overlap(f, f)
BY FragmentType DEF Overlap

(* The size grows by the length of a fragment that overlaps no other.      *)
LEMMA BufferedAdd ==
  ASSUME NEW fs \in SUBSET Fragment, IsFiniteSet(fs), NEW f \in Fragment,
         \A g \in fs : ~Overlap(f, g)
  PROVE  Buffered(fs) \in Nat /\ Buffered(fs \cup {f}) = Buffered(fs) + f.len
<1> DEFINE I == f.off..(End(f) - 1)
<1>1. IsFiniteSet(Occupied(fs)) /\ Buffered(fs) \in Nat
  BY OccupiedFinite, FS_CardinalityType DEF Buffered
<1>2. IsFiniteSet(I) /\ Cardinality(I) = f.len
  <2>1. f.off \in Int /\ End(f) - 1 \in Int /\ f.off <= End(f) - 1
        /\ (End(f) - 1) - f.off + 1 = f.len
    BY FragmentType DEF End
  <2> QED BY <2>1, FS_Interval
<1>3. Occupied(fs \cup {f}) = Occupied(fs) \cup I
  BY DEF Occupied
<1>4. Occupied(fs) \cap I = {}
  <2> SUFFICES ASSUME NEW g \in fs, NEW x \in g.off..(End(g) - 1), x \in I PROVE FALSE
    BY DEF Occupied
  <2>1. g.off \in Nat /\ End(g) \in Nat /\ f.off \in Nat /\ End(f) \in Nat
    BY FragmentType
  <2> QED BY <2>1 DEF Overlap
<1>5. Cardinality(Occupied(fs) \cap I) = 0
  BY <1>4, FS_EmptySet
<1> HIDE DEF I
<1>6. Cardinality(Occupied(fs) \cup I) = Cardinality(Occupied(fs)) + f.len - 0
  BY <1>1, <1>2, <1>5, FS_Union
<1>7. Buffered(fs \cup {f}) = Cardinality(Occupied(fs) \cup I)
  BY <1>3 DEF Buffered
<1>8. Buffered(fs) = Cardinality(Occupied(fs)) /\ f.len \in Nat
  BY FragmentType DEF Buffered
<1> QED BY <1>1, <1>6, <1>7, <1>8

(* Fewer fragments take no more of the buffer.                             *)
LEMMA BufferedSubset ==
  ASSUME NEW A \in SUBSET Fragment, IsFiniteSet(A), NEW fs \in SUBSET A
  PROVE  Buffered(fs) <= Buffered(A)
<1>1. IsFiniteSet(Occupied(A))
  BY OccupiedFinite
<1>2. Occupied(fs) \in SUBSET Occupied(A)
  BY DEF Occupied
<1> QED BY <1>1, <1>2, FS_Subset DEF Buffered

(* add_fragment leaves f out.                                              *)
Refused(r, f) ==
  r.size + f.len > MaxBufferSize \/ (\E g \in r.fragments : Overlap(f, g))

(* add_fragment keeps the reassembler sound and adds the fragment unless   *)
(* it is refused.                                                          *)
LEMMA AddFragment ==
  ASSUME NEW r \in Sound, NEW f \in Fragment
  PROVE  /\ add_fragment(r, f) \in Sound
         /\ add_fragment(r, f).cached = r.cached
         /\ add_fragment(r, f).fragments =
              IF Refused(r, f) THEN r.fragments ELSE r.fragments \cup {f}
<1>1. CASE Refused(r, f)
  BY <1>1 DEF add_fragment, Refused
<1>2. CASE ~Refused(r, f)
  <2> DEFINE fs == r.fragments \cup {f}
             u == [r EXCEPT !.fragments = @ \cup {f}, !.size = @ + f.len]
             c == FoldLeft(Advance, r.contiguous, ByOffset(fs))
             t == [fragments |-> fs, contiguous |-> c, size |-> r.size + f.len,
                   cached |-> r.cached]
  <2>1. /\ r \in CryptoFrameReassembler /\ IsFiniteSet(r.fragments) /\ Disjoint(r.fragments)
        /\ r.size = Buffered(r.fragments) /\ Covered(r.fragments, r.contiguous)
    BY DEF Sound, Exact
  <2>2. /\ r.fragments \in SUBSET Fragment /\ r.contiguous \in Nat /\ r.size \in Nat
        /\ r.cached \in TlsInfo
        /\ r = [fragments |-> r.fragments, contiguous |-> r.contiguous, size |-> r.size,
                cached |-> r.cached]
    BY <2>1 DEF CryptoFrameReassembler
  <2>3. \A g \in r.fragments : ~Overlap(f, g) /\ ~Overlap(g, f)
    BY <1>2, <2>2, OverlapSymmetric DEF Refused
  <2>4. fs \in SUBSET Fragment /\ IsFiniteSet(fs) /\ Disjoint(fs) /\ Covered(fs, r.contiguous)
    <3>1. IsFiniteSet(fs)
      BY <2>1, FS_AddElement
    <3>2. Disjoint(fs)
      BY <2>1, <2>3 DEF Disjoint
    <3>3. Covered(fs, r.contiguous)
      BY <2>1, CoveredMore
    <3> QED BY <2>2, <3>1, <3>2, <3>3
  <2>5. r.size + f.len = Buffered(fs) /\ r.size + f.len <= MaxBufferSize
        /\ r.size + f.len \in Nat
    <3>1. Buffered(fs) = r.size + f.len
      BY <2>1, <2>2, <2>3, BufferedAdd
    <3>2. MaxBufferSize \in Nat /\ f.len \in Nat
      BY QuicHandshakeAssumption, FragmentType
    <3> QED BY <1>2, <2>2, <3>1, <3>2 DEF Refused
  <2>6. c \in Nat /\ Covered(fs, c) /\ ~Covered(fs, c + 1)
    <3> HIDE DEF fs
    <3> QED BY <2>2, <2>4, Contiguous
  <2>7. add_fragment(r, f) = t
    <3>1. add_fragment(r, f) = update_contiguous_offset(u)
      BY <1>2 DEF add_fragment, Refused
    <3>2. u = [fragments |-> fs, contiguous |-> r.contiguous, size |-> r.size + f.len,
               cached |-> r.cached]
      <4> DEFINE v == [r EXCEPT !.fragments = @ \cup {f}]
      <4>1. v = [fragments |-> fs, contiguous |-> r.contiguous, size |-> r.size,
                 cached |-> r.cached]
        BY <2>1 DEF CryptoFrameReassembler
      <4>2. [v EXCEPT !.size = r.size + f.len]
              = [fragments |-> fs, contiguous |-> r.contiguous, size |-> r.size + f.len,
                 cached |-> r.cached]
        <5> HIDE DEF v, fs
        <5> QED BY <4>1
      <4>3. u = [v EXCEPT !.size = r.size + f.len]
        OBVIOUS
      <4> QED BY <4>2, <4>3
    <3>3. update_contiguous_offset(u) = t
      <4> HIDE DEF u
      <4> QED BY <3>2 DEF update_contiguous_offset
    <3> QED BY <3>1, <3>3
  <2>8. t \in CryptoFrameReassembler
    <3> HIDE DEF c, fs
    <3> QED BY <2>2, <2>4, <2>5, <2>6 DEF CryptoFrameReassembler
  <2>9. Exact(t)
    <3> HIDE DEF c, fs
    <3> QED BY <2>4, <2>5, <2>6 DEF Exact
  <2>10. t.fragments = fs /\ t.cached = r.cached
    OBVIOUS
  <2> HIDE DEF t
  <2> QED BY <1>2, <2>4, <2>7, <2>8, <2>9, <2>10 DEF Sound
<1> QED BY <1>1, <1>2

(* Pieces that neither overlap nor exceed the buffer: HelloRead speaks of  *)
(* these.                                                                  *)
Fits(A) ==
  A \in SUBSET Fragment /\ IsFiniteSet(A) /\ Disjoint(A) /\ Buffered(A) <= MaxBufferSize

(* A piece is not refused as long as all of those that arrive fit: a       *)
(* duplicate that the limit refuses is there already.                      *)
LEMMA AddFits ==
  ASSUME NEW r \in Sound, NEW f \in Fragment, NEW A, Fits(A), r.fragments \cup {f} \subseteq A
  PROVE  add_fragment(r, f).fragments = r.fragments \cup {f}
<1>1. r.fragments \in SUBSET Fragment /\ IsFiniteSet(r.fragments)
      /\ r.size = Buffered(r.fragments)
  BY DEF Sound, Exact, CryptoFrameReassembler
<1>2. CASE f \in r.fragments
  BY <1>2, AddFragment
<1>3. CASE f \notin r.fragments
  <2>1. \A g \in r.fragments : ~Overlap(f, g)
    BY <1>3 DEF Fits, Disjoint
  <2>2. Buffered(r.fragments \cup {f}) = r.size + f.len
    BY <1>1, <2>1, BufferedAdd
  <2>3. Buffered(r.fragments \cup {f}) <= Buffered(A)
    BY BufferedSubset DEF Fits
  <2>4. Buffered(A) \in Nat /\ MaxBufferSize \in Nat /\ r.size + f.len \in Nat
    <3>1. Buffered(A) \in Nat /\ Buffered(r.fragments) \in Nat
      BY <1>1, OccupiedFinite, FS_CardinalityType DEF Fits, Buffered
    <3> QED BY <1>1, <3>1, QuicHandshakeAssumption, FragmentType
  <2>5. ~Refused(r, f)
    BY <2>1, <2>2, <2>3, <2>4 DEF Refused, Fits
  <2> QED BY <2>5, AddFragment
<1> QED BY <1>2, <1>3

(* Adding a packet's frames is a loop.                                     *)
LEMMA FramesFold ==
  ASSUME NEW b \in Sound, NEW q \in Seq(Fragment)
  PROVE  \E f \in [0..Len(q) -> Sound] :
           /\ f[0] = b
           /\ \A i \in 1..Len(q) : f[i] = add_fragment(f[i - 1], q[i])
           /\ FoldLeft(add_fragment, b, q) = f[Len(q)]
<1> DEFINE n == Len(q)
           step == [x \in Sound \X (1..n) |-> add_fragment(x[1], q[x[2]])]
           Eqn(it) ==
             it = [s \in SUBSET (1..n) |->
                     IF s = {} THEN b ELSE add_fragment(it[s \ {Max(s)}], q[Max(s)])]
           it == CHOOSE it : Eqn(it)
           f == [i \in 0..n |-> it[1..i]]
<1>1. n \in Nat /\ (\A i \in 1..n : q[i] \in Fragment) /\ DOMAIN q = 1..n
  OBVIOUS
<1>2. Eqn(it)
  <2>1. step \in [Sound \X (1..n) -> Sound]
    BY <1>1, AddFragment
  <2>2. PICK jt \in [SUBSET (1..n) -> Sound] : Recursion(n, b, step, jt)
    <3> HIDE DEF n, step
    <3> QED BY <1>1, <2>1, Fold
  <2>3. ASSUME NEW s \in SUBSET (1..n), s # {}
        PROVE  step[<<jt[s \ {Max(s)}], Max(s)>>] = add_fragment(jt[s \ {Max(s)}], q[Max(s)])
    <3>1. Max(s) \in 1..n
      <4> HIDE DEF n
      <4> QED BY <1>1, <2>3, Greatest
    <3>2. jt[s \ {Max(s)}] \in Sound
      OBVIOUS
    <3> QED BY <3>1, <3>2
  <2>4. Eqn(jt)
    <3> HIDE DEF n, step
    <3> QED BY <2>2, <2>3 DEF Recursion
  <2> HIDE DEF Eqn
  <2> QED BY <2>4
<1>3. FoldLeft(add_fragment, b, q) = it[1..n]
  BY <1>1 DEF FoldLeft, MapThenFoldSet
<1> HIDE DEF it, n
<1>4. f[0] = b
  <2>1. 1..0 = {} /\ 0 \in 0..n
    BY <1>1
  <2> QED BY <1>2, <2>1
<1>5. ASSUME NEW i \in 1..n PROVE f[i] = add_fragment(f[i - 1], q[i])
  <2>1. i \in 0..n /\ i - 1 \in 0..n
    BY <1>1
  <2>2. /\ 1..i \in SUBSET (1..n) /\ 1..i # {} /\ Max(1..i) = i
        /\ (1..i) \ {i} = 1..(i - 1)
    BY <1>1, LastOfPrefix
  <2>3. it[1..i] = add_fragment(it[(1..i) \ {Max(1..i)}], q[Max(1..i)])
    BY <1>2, <2>2
  <2> QED BY <2>1, <2>2, <2>3
<1>6. f \in [0..n -> Sound]
  <2> HIDE DEF f
  <2>1. ASSUME NEW i \in 1..n, f[i - 1] \in Sound PROVE f[i] \in Sound
    <3>1. q[i] \in Fragment /\ f[i] = add_fragment(f[i - 1], q[i])
      BY <1>1, <1>5
    <3> QED BY <2>1, <3>1, AddFragment
  <2>2. \A i \in 0..n : f[i] \in Sound
    BY <1>1, <1>4, <2>1, PrefixType
  <2> QED BY <2>2 DEF f
<1>7. f[n] = it[1..n]
  BY <1>1
<1> HIDE DEF f
<1> QED BY <1>3, <1>4, <1>5, <1>6, <1>7 DEF n

(* Frames are added one by one: the reassembler stays sound, and it keeps  *)
(* every piece when all of them fit.                                       *)
LEMMA AddAll ==
  ASSUME NEW b \in Sound, NEW q \in Seq(Fragment)
  PROVE  /\ FoldLeft(add_fragment, b, q) \in Sound
         /\ FoldLeft(add_fragment, b, q).cached = b.cached
         /\ \A A : Fits(A) /\ b.fragments \cup Range(q) \subseteq A =>
              FoldLeft(add_fragment, b, q).fragments = b.fragments \cup Range(q)
<1> DEFINE n == Len(q)
<1>1. /\ n \in Nat /\ Range(q) = {q[j] : j \in 1..n}
      /\ \A i \in 1..n : q[i] \in Fragment
  BY DEF Range
<1>2. PICK f \in [0..n -> Sound] :
        /\ f[0] = b
        /\ \A i \in 1..n : f[i] = add_fragment(f[i - 1], q[i])
        /\ FoldLeft(add_fragment, b, q) = f[n]
  BY FramesFold
<1> HIDE DEF n
<1>a. \A i \in 1..n : f[i - 1] \in Sound /\ i \in 0..n /\ i - 1 \in 0..n
  BY <1>1
<1>3. f[n].cached = b.cached /\ f[n] \in Sound
  <2> DEFINE S == {i \in 0..n : f[i].cached = b.cached}
  <2>1. 0 \in S
    BY <1>1, <1>2
  <2>2. ASSUME NEW i \in 1..n, i - 1 \in S PROVE i \in S
    <3>1. f[i - 1].cached = b.cached /\ i \in 0..n
      BY <1>a, <2>2
    <3>2. add_fragment(f[i - 1], q[i]).cached = f[i - 1].cached
      BY <1>1, <1>a, AddFragment
    <3> QED BY <1>2, <3>1, <3>2
  <2>3. n \in 0..n
    BY <1>1
  <2>4. n \in S
    <3> HIDE DEF S
    <3> QED BY <1>1, <2>1, <2>2, <2>3, Prefix
  <2> QED BY <2>3, <2>4
<1>4. ASSUME NEW A, Fits(A), b.fragments \cup Range(q) \subseteq A
      PROVE  f[n].fragments = b.fragments \cup Range(q)
  <2> DEFINE S == {i \in 0..n : f[i].fragments = b.fragments \cup {q[j] : j \in 1..i}}
  <2>1. 0 \in S
    <3>1. {q[j] : j \in 1..0} = {}
      OBVIOUS
    <3> QED BY <1>1, <1>2, <3>1
  <2>2. ASSUME NEW i \in 1..n, i - 1 \in S PROVE i \in S
    <3>1. {q[j] : j \in 1..i} = {q[j] : j \in 1..(i - 1)} \cup {q[i]}
      BY <1>1
    <3>2. {q[j] : j \in 1..i} \subseteq Range(q)
      BY <1>1
    <3>3. f[i - 1].fragments \cup {q[i]} \subseteq A
      BY <1>4, <2>2, <3>1, <3>2
    <3>4. f[i].fragments = f[i - 1].fragments \cup {q[i]}
      BY <1>1, <1>2, <1>4, <1>a, <3>3, AddFits
    <3> QED BY <1>a, <2>2, <3>1, <3>4
  <2>3. n \in 0..n
    BY <1>1
  <2>4. n \in S
    <3> HIDE DEF S
    <3> QED BY <1>1, <2>1, <2>2, <2>3, Prefix
  <2> QED BY <1>1, <2>4
<1> QED BY <1>2, <1>3, <1>4

-----------------------------------------------------------------------------
(* The search for the name.                                                *)

(* Min of SequencesExt returns the least element.                          *)
LEMMA LeastOf ==
  ASSUME NEW S \in SUBSET Nat, S # {}
  PROVE  Min(S) \in S /\ \A x \in S : Min(S) <= x
BY Least DEF Min

(* What the strategies return is TLS info.                                 *)
LEMMA TlsTypes ==
  /\ NoTls \in TlsInfo
  /\ \A n, allow_partial : ParseHello(n, allow_partial) \in TlsInfo
  /\ \A f : ShownName(f) \in TlsInfo
  /\ Tls("guess", FALSE) \in TlsInfo
BY DEF NoTls, Tls, TlsInfo, ParseHello, ShownName

(* Caching TLS info changes nothing else.                                  *)
LEMMA CacheSound ==
  ASSUME NEW r \in Sound, NEW t \in TlsInfo
  PROVE  [r EXCEPT !.cached = t] \in Sound /\ [r EXCEPT !.cached = t].fragments = r.fragments
BY DEF Sound, Exact, CryptoFrameReassembler

(* The search for the name leaves the fragments alone, and it finds a      *)
(* complete name when they hold the whole ClientHello: the cached one, or  *)
(* the one that the first strategy reads from the contiguous data.         *)
LEMMA Extract ==
  ASSUME NEW r \in Sound, NEW allow_partial \in BOOLEAN, NEW guess,
         NEW e, e = try_extract_tls_from_reassembler(r, allow_partial, guess)
  PROVE  /\ e.tls \in TlsInfo
         /\ e.reassembler \in Sound /\ e.reassembler.fragments = r.fragments
         /\ Covered(r.fragments, HelloLen) => Complete(e.tls)
<1> DEFINE found == <<try_extract_from_contiguous(r, allow_partial),
                      try_extract_from_fragments(r, allow_partial),
                      Reconstruct(r, guess)>>
           hits == {i \in DOMAIN found : found[i] # NoTls}
           first == found[Min(hits)]
           greedy == try_extract_greedy_from_reassembler(r)
<1>1. r.cached \in TlsInfo /\ r.contiguous \in Nat
  BY DEF Sound, CryptoFrameReassembler
<1>2. /\ try_extract_from_contiguous(r, allow_partial) \in TlsInfo
      /\ try_extract_from_fragments(r, allow_partial) \in TlsInfo
      /\ Reconstruct(r, guess) \in TlsInfo
      /\ greedy \in TlsInfo
  BY TlsTypes DEF try_extract_from_contiguous, try_extract_from_fragments, Reconstruct,
     try_extract_greedy_from_reassembler
<1>3. /\ DOMAIN found = 1..3 /\ \A i \in 1..3 : found[i] \in TlsInfo
      /\ found[1] = try_extract_from_contiguous(r, allow_partial)
  BY <1>2
<1>4. e = IF UsableCache(r) THEN [tls |-> r.cached, reassembler |-> r]
          ELSE IF hits # {}
          THEN [tls |-> first,
                reassembler |-> IF Complete(first) THEN [r EXCEPT !.cached = first] ELSE r]
          ELSE [tls |-> greedy,
                reassembler |-> IF greedy # NoTls THEN [r EXCEPT !.cached = greedy] ELSE r]
  BY DEF try_extract_tls_from_reassembler
<1> HIDE DEF found, greedy
<1>5. hits # {} => Min(hits) \in hits /\ first \in TlsInfo /\ \A i \in hits : Min(hits) <= i
  <2>1. hits \in SUBSET Nat
    BY <1>3
  <2>2. hits # {} => Min(hits) \in hits /\ \A i \in hits : Min(hits) <= i
    <3> HIDE DEF hits
    <3> QED BY <2>1, LeastOf
  <2> QED BY <1>3, <2>2
<1>6. ASSUME Covered(r.fragments, HelloLen), ~UsableCache(r)
      PROVE  hits # {} /\ Complete(first)
  <2>1. /\ HelloLen \in Nat /\ HelloLen > 0 /\ SniEnd \in Nat /\ SniEnd <= HelloLen
        /\ Enough \in Nat /\ Enough <= HelloLen /\ EnoughPartial \in Nat
        /\ EnoughPartial <= Enough
    BY QuicHandshakeAssumption
  <2>2. r.contiguous >= HelloLen
    <3>1. SUFFICES ASSUME r.contiguous + 1 <= HelloLen PROVE FALSE
      BY <1>1, <2>1
    <3>2. Covered(r.fragments, r.contiguous + 1)
      BY <1>1, <1>6, <2>1, <3>1, CoveredBelow
    <3> QED BY <3>2 DEF Sound, Exact
  <2>3. Len(get_contiguous_data(r)) = r.contiguous
    BY <1>1, ContiguousData, StreamFacts
  <2>4. found[1] = ParseHello(r.contiguous, allow_partial)
    BY <1>1, <1>3, <2>1, <2>2, <2>3 DEF try_extract_from_contiguous
  <2>5. found[1].sni = "full"
    BY <1>1, <2>1, <2>2, <2>4 DEF ParseHello, Tls
  <2>6. 1 \in hits
    BY <1>3, <2>5 DEF NoTls, Tls
  <2>7. Min(hits) = 1
    BY <1>3, <1>5, <2>6
  <2> QED BY <2>5, <2>6, <2>7 DEF Complete
<1> HIDE DEF hits, first
<1>7. CASE UsableCache(r)
  BY <1>1, <1>4, <1>7 DEF UsableCache
<1>8. CASE ~UsableCache(r) /\ hits # {}
  <2>1. e.tls = first /\ e.reassembler \in {r, [r EXCEPT !.cached = first]}
    BY <1>4, <1>8
  <2>2. e.reassembler \in Sound /\ e.reassembler.fragments = r.fragments
    <3>1. first \in TlsInfo
      BY <1>5, <1>8
    <3>2. [r EXCEPT !.cached = first] \in Sound
      /\ [r EXCEPT !.cached = first].fragments = r.fragments
      BY <3>1, CacheSound
    <3> QED BY <2>1, <3>2
  <2> QED BY <1>5, <1>6, <1>8, <2>1, <2>2
<1>9. CASE ~UsableCache(r) /\ hits = {}
  <2>1. e.tls = greedy /\ e.reassembler \in {r, [r EXCEPT !.cached = greedy]}
    BY <1>4, <1>9
  <2> QED BY <1>2, <1>6, <1>9, <2>1, CacheSound DEF greedy
<1> QED BY <1>7, <1>8, <1>9

-----------------------------------------------------------------------------
(* The packets of a datagram.                                              *)

(* What is known of a connection, with a sound reassembler if there is     *)
(* one.                                                                    *)
SoundInfo ==
  {i \in QuicInfo : i.reassembler # NoReassembler => i.reassembler \in Sound}

(* A state that ends the connection within 10 seconds.                     *)
Over(i) == i.state \in {"Draining", "Closed"}

(* A sound reassembler is one.                                             *)
LEMMA SoundReassembler ==
  ASSUME NEW r \in Sound
  PROVE  r # NoReassembler /\ r \in CryptoFrameReassembler
BY QuicHandshakeAssumption DEF Sound

(* What one packet shows: a CONNECTION_CLOSE ends the connection, and only *)
(* a readable Initial has a reassembler, which keeps the frames and finds  *)
(* the name if they fit and are all of the ClientHello.                    *)
LEMMA ParseFacts ==
  ASSUME NEW pkt \in Packets, NEW guess, NEW i, i = Parse(pkt, guess)
  PROVE  /\ i \in SoundInfo
         /\ pkt.close # NoClose => Over(i)
         /\ pkt.type # "initial" => i.reassembler = NoReassembler
         /\ pkt.type = "initial" => i.reassembler # NoReassembler
         /\ pkt.type = "initial" /\ Fits(Range(pkt.frames)) =>
              /\ i.reassembler.fragments = Range(pkt.frames)
              /\ ~pkt.cut /\ Covered(Range(pkt.frames), HelloLen) => Complete(i.tls)
<1> DEFINE reassembler == FoldLeft(add_fragment, NewReassembler, pkt.frames)
           extracted == try_extract_tls_from_reassembler(reassembler, FALSE, guess)
           extract == pkt.frames # <<>> /\ ~pkt.cut
           fs == Range(pkt.frames)
<1>1. /\ pkt \in Packet /\ (pkt.close # NoClose => pkt.type = "initial")
      /\ pkt.frames \in Seq(Fragment) /\ pkt.close \in QuicCloseInfo \cup {NoClose}
      /\ pkt.type \in {"initial", "unreadable", "handshake", "one_rtt", "malformed"}
  BY QuicHandshakeAssumption DEF Packet
<1>2. CASE pkt.type # "initial"
  <2>1. i = [state |-> StateOfType[pkt.type], tls |-> NoTls, reassembler |-> NoReassembler,
             close |-> NoClose]
    BY <1>2 DEF Parse
  <2>2. StateOfType[pkt.type] \in QuicConnectionState
    BY <1>1, <1>2 DEF StateOfType, QuicConnectionState
  <2>3. i \in QuicInfo
    BY <2>1, <2>2, TlsTypes DEF QuicInfo
  <2> QED BY <1>1, <1>2, <2>1, <2>3 DEF SoundInfo
<1>3. CASE pkt.type = "initial"
  <2>1. reassembler \in Sound /\ (Fits(fs) => reassembler.fragments = fs)
    <3>1. NewReassembler.fragments \cup Range(pkt.frames) = Range(pkt.frames)
      BY NewSound
    <3> QED BY <1>1, <3>1, NewSound, AddAll
  <2>2. i = [state |-> IF pkt.close = NoClose THEN "Initial"
                       ELSE IF pkt.close.code = 0 THEN "Draining" ELSE "Closed",
             tls |-> IF extract THEN extracted.tls ELSE NoTls,
             reassembler |-> IF extract THEN extracted.reassembler ELSE reassembler,
             close |-> pkt.close]
    BY <1>3 DEF Parse
  <2> HIDE DEF reassembler
  <2>3. /\ extracted.tls \in TlsInfo
        /\ extracted.reassembler \in Sound
        /\ extracted.reassembler.fragments = reassembler.fragments
        /\ Covered(reassembler.fragments, HelloLen) => Complete(extracted.tls)
    BY <2>1, Extract
  <2> HIDE DEF extracted
  <2>4. i.reassembler \in Sound /\ i.reassembler.fragments = reassembler.fragments
    BY <2>1, <2>2, <2>3
  <2>5. i.tls \in TlsInfo /\ i.state \in QuicConnectionState /\ i.close = pkt.close
    BY <2>2, <2>3, TlsTypes DEF QuicConnectionState
  <2>6. i \in SoundInfo
    <3>1. i = [state |-> i.state, tls |-> i.tls, reassembler |-> i.reassembler,
               close |-> i.close]
      BY <2>2
    <3>2. i.reassembler \in CryptoFrameReassembler
      BY <2>4, SoundReassembler
    <3>3. i \in QuicInfo
      BY <1>1, <2>5, <3>1, <3>2 DEF QuicInfo
    <3> QED BY <2>4, <3>3 DEF SoundInfo
  <2>7. pkt.close # NoClose => Over(i)
    BY <2>2 DEF Over
  <2>8. ASSUME Fits(fs), ~pkt.cut, Covered(fs, HelloLen) PROVE Complete(i.tls)
    <3>1. fs # {}
      <4>1. HelloLen \in Nat /\ HelloLen > 0
        BY QuicHandshakeAssumption
      <4>2. 0 \in 0..(HelloLen - 1)
        BY <4>1
      <4> QED BY <2>8, <4>2 DEF Covered
    <3>2. pkt.frames # <<>>
      BY <3>1 DEF Range
    <3>3. i.tls = extracted.tls
      BY <2>2, <2>8, <3>2
    <3> QED BY <2>1, <2>3, <2>8, <3>3
  <2> QED BY <1>3, <2>1, <2>4, <2>6, <2>7, <2>8, SoundReassembler
<1> QED BY <1>2, <1>3

(* A closing state is never left for one that is not.                      *)
LEMMA ProgressFacts ==
  ASSUME NEW old \in QuicConnectionState, NEW new \in QuicConnectionState
  PROVE  /\ Progress(old, new) \in QuicConnectionState
         /\ old \in {"Draining", "Closed"} \/ new \in {"Draining", "Closed"}
            => Progress(old, new) \in {"Draining", "Closed"}
BY DEF Progress, quic_state_priority, QuicConnectionState

(* The further packets of a datagram: the name, the end of the connection  *)
(* and the first reassembler are kept.                                     *)
LEMMA MergePacket ==
  ASSUME NEW old \in SoundInfo, NEW new \in SoundInfo, NEW m,
         m = merge_quic_packet_info(old, new)
  PROVE  /\ m \in SoundInfo
         /\ Complete(old.tls) \/ Complete(new.tls) => Complete(m.tls)
         /\ Over(old) \/ Over(new) => Over(m)
         /\ m.reassembler =
              IF old.reassembler = NoReassembler THEN new.reassembler ELSE old.reassembler
<1>1. /\ old \in QuicInfo /\ new \in QuicInfo
      /\ old.state \in QuicConnectionState /\ new.state \in QuicConnectionState
      /\ old.tls \in TlsInfo /\ new.tls \in TlsInfo
  BY DEF SoundInfo, QuicInfo
<1> DEFINE state == Progress(old.state, new.state)
           replace == \/ ~Complete(old.tls) /\ Complete(new.tls)
                      \/ old.tls.sni = "none" /\ new.tls.sni # "none"
                      \/ old.tls = NoTls
           tls == IF replace THEN new.tls ELSE old.tls
           reassembler == IF old.reassembler = NoReassembler THEN new.reassembler
                          ELSE old.reassembler
<1>2. m = [state |-> state, tls |-> tls, reassembler |-> reassembler, close |-> old.close]
  <2> DEFINE u == [old EXCEPT !.state = state]
             v == [u EXCEPT !.tls = tls]
             w == [v EXCEPT !.reassembler = reassembler]
  <2>1. u = [state |-> state, tls |-> old.tls, reassembler |-> old.reassembler,
             close |-> old.close]
    <3> HIDE DEF state
    <3> QED BY <1>1 DEF QuicInfo
  <2>2. v = [state |-> state, tls |-> tls, reassembler |-> old.reassembler,
             close |-> old.close]
    <3> HIDE DEF u, state, tls
    <3> QED BY <2>1
  <2>3. w = [state |-> state, tls |-> tls, reassembler |-> reassembler, close |-> old.close]
    <3> HIDE DEF v, state, tls, reassembler
    <3> QED BY <2>2
  <2>4. m = w
    BY DEF merge_quic_packet_info
  <2> QED BY <2>3, <2>4
<1> HIDE DEF state
<1>3. /\ state \in QuicConnectionState
      /\ Over(old) \/ Over(new) => state \in {"Draining", "Closed"}
  BY <1>1, ProgressFacts DEF state, Over
<1>4. Complete(old.tls) \/ Complete(new.tls) => Complete(tls)
  BY DEF Complete, NoTls, Tls
<1>5. tls \in TlsInfo
  BY <1>1
<1>6. /\ reassembler \in CryptoFrameReassembler \cup {NoReassembler}
      /\ reassembler # NoReassembler => reassembler \in Sound
  BY DEF SoundInfo, QuicInfo
<1>7. old.close \in QuicCloseInfo \cup {NoClose}
  BY <1>1 DEF QuicInfo
<1> HIDE DEF tls, reassembler
<1>8. m \in SoundInfo
  BY <1>2, <1>3, <1>5, <1>6, <1>7 DEF SoundInfo, QuicInfo
<1> QED BY <1>2, <1>3, <1>4, <1>8 DEF Over, reassembler

LEMMA MergeType ==
  ASSUME NEW guess, NEW old \in SoundInfo, NEW pkt \in Packets
  PROVE  merge_quic_packet_info(old, Parse(pkt, guess)) \in SoundInfo
BY ParseFacts, MergePacket

(* parse_quic_packet is a loop over the packets after the first one.       *)
LEMMA PacketsFold ==
  ASSUME NEW guess, NEW pkts,
         Parse(Head(pkts), guess) \in SoundInfo, Tail(pkts) \in Seq(Packets)
  PROVE  \E f \in [0..Len(Tail(pkts)) -> SoundInfo] :
           /\ f[0] = Parse(Head(pkts), guess)
           /\ \A i \in 1..Len(Tail(pkts)) :
                f[i] = merge_quic_packet_info(f[i - 1], Parse(Tail(pkts)[i], guess))
           /\ parse_quic_packet(pkts, guess) = f[Len(Tail(pkts))]
<1> DEFINE b == Parse(Head(pkts), guess)
           q == Tail(pkts)
<1>0. b \in SoundInfo /\ q \in Seq(Packets)
  OBVIOUS
<1> HIDE DEF b, q
<1> DEFINE n == Len(q)
           step == [x \in SoundInfo \X (1..n) |->
                      merge_quic_packet_info(x[1], Parse(q[x[2]], guess))]
           Eqn(it) ==
             it = [s \in SUBSET (1..n) |->
                     IF s = {} THEN b
                     ELSE merge_quic_packet_info(it[s \ {Max(s)}], Parse(q[Max(s)], guess))]
           it == CHOOSE it : Eqn(it)
           f == [i \in 0..n |-> it[1..i]]
<1>1. n \in Nat /\ (\A i \in 1..n : q[i] \in Packets) /\ DOMAIN q = 1..n
  BY <1>0
<1>2. Eqn(it)
  <2>1. step \in [SoundInfo \X (1..n) -> SoundInfo]
    BY <1>1, MergeType
  <2>2. PICK jt \in [SUBSET (1..n) -> SoundInfo] : Recursion(n, b, step, jt)
    <3> HIDE DEF n, step
    <3> QED BY <1>1, <2>1, Fold, <1>0
  <2>3. ASSUME NEW s \in SUBSET (1..n), s # {}
        PROVE  step[<<jt[s \ {Max(s)}], Max(s)>>]
                 = merge_quic_packet_info(jt[s \ {Max(s)}], Parse(q[Max(s)], guess))
    <3>1. Max(s) \in 1..n
      <4> HIDE DEF n
      <4> QED BY <1>1, <2>3, Greatest
    <3>2. jt[s \ {Max(s)}] \in SoundInfo
      OBVIOUS
    <3> QED BY <3>1, <3>2
  <2>4. Eqn(jt)
    <3> HIDE DEF n, step
    <3> QED BY <2>2, <2>3 DEF Recursion
  <2> HIDE DEF Eqn
  <2> QED BY <2>4
<1>3. parse_quic_packet(pkts, guess) = it[1..n]
  BY <1>1 DEF b, q, parse_quic_packet, FoldLeft, MapThenFoldSet
<1> HIDE DEF it, n
<1>4. f[0] = b
  <2>1. 1..0 = {} /\ 0 \in 0..n
    BY <1>1
  <2> QED BY <1>2, <2>1
<1>5. ASSUME NEW i \in 1..n PROVE f[i] = merge_quic_packet_info(f[i - 1], Parse(q[i], guess))
  <2>1. i \in 0..n /\ i - 1 \in 0..n
    BY <1>1
  <2>2. /\ 1..i \in SUBSET (1..n) /\ 1..i # {} /\ Max(1..i) = i
        /\ (1..i) \ {i} = 1..(i - 1)
    BY <1>1, LastOfPrefix
  <2>3. it[1..i] = merge_quic_packet_info(it[(1..i) \ {Max(1..i)}], Parse(q[Max(1..i)], guess))
    BY <1>2, <2>2
  <2> QED BY <2>1, <2>2, <2>3
<1>6. f \in [0..n -> SoundInfo]
  <2> HIDE DEF f
  <2>1. ASSUME NEW i \in 1..n, f[i - 1] \in SoundInfo PROVE f[i] \in SoundInfo
    <3>1. q[i] \in Packets /\ f[i] = merge_quic_packet_info(f[i - 1], Parse(q[i], guess))
      BY <1>1, <1>5
    <3> QED BY <2>1, <3>1, MergeType
  <2>2. \A i \in 0..n : f[i] \in SoundInfo
    BY <1>1, <1>4, <2>1, PrefixType, <1>0
  <2> QED BY <2>2 DEF f
<1>7. f[n] = it[1..n]
  BY <1>1
<1> HIDE DEF f
<1> QED BY <1>3, <1>4, <1>5, <1>6, <1>7 DEF n, b, q

(* Packet i is the first readable Initial of its datagram.                 *)
First(pkts, i) ==
  pkts[i].type = "initial" /\ \A j \in 1..(i - 1) : pkts[j].type # "initial"

(* What a whole datagram shows: a close in any of its packets ends the     *)
(* connection, though only the close of the first one is recorded, and the *)
(* reassembler is that of its first readable Initial.                      *)
LEMMA ParseDatagram ==
  ASSUME NEW pkts \in Datagrams, NEW guess
  PROVE  LET new == parse_quic_packet(pkts, guess)
         IN  /\ new \in SoundInfo
             /\ (\E i \in DOMAIN pkts : pkts[i].close # NoClose) => Over(new)
             /\ \/ new.reassembler = NoReassembler /\ Carrier(pkts) = {}
                \/ \E pkt \in Packets :
                     /\ Carrier(pkts) = {pkt} /\ new.reassembler # NoReassembler
                     /\ Fits(Range(pkt.frames)) =>
                          /\ new.reassembler.fragments = Range(pkt.frames)
                          /\ ~pkt.cut /\ Covered(Range(pkt.frames), HelloLen)
                               => Complete(new.tls)
<1> DEFINE new == parse_quic_packet(pkts, guess)
           q == Tail(pkts)
           n == Len(q)
<1>0. new = parse_quic_packet(pkts, guess)
  OBVIOUS
<1> HIDE DEF new
<1>1. PICK m \in Nat : m >= 1 /\ pkts \in [1..m -> Packets]
  <2>1. PICK m \in 0..MaxCoalesced : pkts \in [1..m -> Packets]
    BY DEF Datagrams, SeqOf
  <2>2. m \in Nat
    BY QuicHandshakeAssumption
  <2>3. m # 0
    BY <2>1 DEF Datagrams
  <2> QED BY <2>1, <2>2, <2>3
<1>2. pkts \in Seq(Packets) /\ Len(pkts) = m /\ pkts # <<>>
  BY <1>1
<1>3. /\ q \in Seq(Packets) /\ n = m - 1 /\ n \in Nat
      /\ \A i \in 1..n : q[i] = pkts[i + 1]
      /\ Head(pkts) = pkts[1]
  BY <1>1, <1>2
<1> DEFINE P(i) == Parse(pkts[i], guess)
<1>4. \A i \in 1..m : pkts[i] \in Packets /\ P(i) \in SoundInfo
  BY <1>1, ParseFacts
<1>5. 1 \in 1..m
  BY <1>1
<1>6. PICK f \in [0..n -> SoundInfo] :
        /\ f[0] = P(1)
        /\ \A i \in 1..n : f[i] = merge_quic_packet_info(f[i - 1], Parse(q[i], guess))
        /\ parse_quic_packet(pkts, guess) = f[n]
  <2> DEFINE b == P(1)
  <2>1. b \in SoundInfo /\ b = Parse(Head(pkts), guess)
    BY <1>3, <1>4, <1>5
  <2>2. q \in Seq(Packets) /\ q = Tail(pkts) /\ n = Len(q)
    BY <1>3
  <2>3. b = P(1)
    OBVIOUS
  <2> HIDE DEF P, b, q, n
  <2>4. \E f \in [0..Len(q) -> SoundInfo] :
          /\ f[0] = b
          /\ \A i \in 1..Len(q) : f[i] = merge_quic_packet_info(f[i - 1], Parse(q[i], guess))
          /\ parse_quic_packet(pkts, guess) = f[Len(q)]
    <3>1. Parse(Head(pkts), guess) \in SoundInfo /\ Tail(pkts) \in Seq(Packets)
      BY <2>1, <2>2
    <3> QED BY <2>1, <2>2, <3>1, PacketsFold
  <2> QED BY <2>2, <2>3, <2>4
<1> HIDE DEF q, n
<1>7. \A i \in 1..n : /\ f[i] = merge_quic_packet_info(f[i - 1], P(i + 1))
                      /\ i \in 0..n /\ i - 1 \in 0..n /\ i + 1 \in 1..m
                      /\ f[i - 1] \in SoundInfo
  BY <1>3, <1>6
<1> DEFINE Unread(k) == \A j \in 1..k : pkts[j].type # "initial"
           Shown(i, k) == /\ First(pkts, k)
                          /\ f[i].reassembler = P(k).reassembler
                          /\ Complete(P(k).tls) => Complete(f[i].tls)
           Inv(i) == /\ (\E j \in 1..(i + 1) : pkts[j].close # NoClose) => Over(f[i])
                     /\ \/ f[i].reassembler = NoReassembler /\ Unread(i + 1)
                        \/ \E k \in 1..(i + 1) : Shown(i, k)
           S == {i \in 0..n : Inv(i)}
<1>8. 0 \in S
  <2>1. \A j \in 1..(0 + 1) : j = 1
    OBVIOUS
  <2>2. (\E j \in 1..(0 + 1) : pkts[j].close # NoClose) => Over(f[0])
    BY <1>4, <1>5, <1>6, <2>1, ParseFacts
  <2>3. CASE pkts[1].type # "initial"
    <3>1. f[0].reassembler = NoReassembler
      BY <1>4, <1>5, <1>6, <2>3, ParseFacts
    <3> QED BY <1>3, <2>1, <2>2, <2>3, <3>1
  <2>4. CASE pkts[1].type = "initial"
    <3>1. 1 \in 1..(0 + 1) /\ First(pkts, 1)
      BY <2>4 DEF First
    <3>2. Shown(0, 1)
      BY <1>6, <3>1
    <3> QED BY <1>3, <2>2, <3>1, <3>2
  <2> QED BY <2>3, <2>4
<1>9. ASSUME NEW i \in 1..n, i - 1 \in S PROVE i \in S
  <2>1. /\ i \in 0..n /\ Inv(i - 1) /\ i \in Nat /\ i + 1 \in 1..m
        /\ f[i] = merge_quic_packet_info(f[i - 1], P(i + 1)) /\ f[i - 1] \in SoundInfo
        /\ P(i + 1) \in SoundInfo /\ pkts[i + 1] \in Packets
        /\ (i - 1) + 1 = i
    BY <1>3, <1>4, <1>7, <1>9
  <2>2. \A j \in 1..(i + 1) : j \in 1..i \/ j = i + 1
    BY <2>1
  <2>3. /\ Complete(f[i - 1].tls) \/ Complete(P(i + 1).tls) => Complete(f[i].tls)
        /\ Over(f[i - 1]) \/ Over(P(i + 1)) => Over(f[i])
        /\ f[i].reassembler = IF f[i - 1].reassembler = NoReassembler
                              THEN P(i + 1).reassembler ELSE f[i - 1].reassembler
    <3> HIDE DEF P
    <3> QED BY <2>1, MergePacket
  <2>4. /\ pkts[i + 1].close # NoClose => Over(P(i + 1))
        /\ pkts[i + 1].type # "initial" => P(i + 1).reassembler = NoReassembler
    BY <2>1, ParseFacts
  <2>5. (\E j \in 1..(i + 1) : pkts[j].close # NoClose) => Over(f[i])
    <3> HIDE DEF P
    <3> QED BY <2>1, <2>2, <2>3, <2>4
  <2>6. CASE f[i - 1].reassembler = NoReassembler /\ Unread(i)
    <3>1. CASE pkts[i + 1].type # "initial"
      <4>1. f[i].reassembler = NoReassembler
        BY <2>3, <2>4, <2>6, <3>1
      <4>2. Unread(i + 1)
        BY <2>2, <2>6, <3>1
      <4> QED BY <2>1, <2>5, <4>1, <4>2
    <3>2. CASE pkts[i + 1].type = "initial"
      <4>1. First(pkts, i + 1) /\ i + 1 \in 1..(i + 1)
        <5>1. (i + 1) - 1 = i /\ i + 1 \in 1..(i + 1)
          BY <2>1
        <5> QED BY <2>6, <3>2, <5>1 DEF First
      <4>2. Shown(i, i + 1)
        BY <2>3, <2>6, <4>1
      <4> HIDE DEF Shown
      <4> QED BY <2>1, <2>5, <4>1, <4>2
    <3> QED BY <3>1, <3>2
  <2>7. ASSUME NEW k \in 1..i, Shown(i - 1, k) PROVE i \in S
    <3>1. P(k).reassembler # NoReassembler
      <4>1. k \in 1..m /\ pkts[k].type = "initial"
        BY <1>3, <2>1, <2>7 DEF First
      <4> QED BY <1>4, <4>1, ParseFacts
    <3>2. Shown(i, k) /\ k \in 1..(i + 1)
      <4> HIDE DEF P
      <4> QED BY <2>1, <2>3, <2>7, <3>1
    <3> HIDE DEF Shown
    <3> QED BY <2>1, <2>5, <3>2
  <2> HIDE DEF Shown, Unread, S
  <2> QED BY <2>1, <2>6, <2>7
<1>10. Inv(n) /\ n + 1 = m /\ DOMAIN pkts = 1..m
  <2>1. n \in S
    <3>1. n \in 0..n
      BY <1>3
    <3> HIDE DEF S
    <3> QED BY <1>3, <1>8, <1>9, <3>1, Prefix
  <2> QED BY <1>1, <1>3, <2>1
<1>11. new = f[n] /\ new \in SoundInfo
  <2>1. n \in 0..n
    BY <1>3
  <2> QED BY <1>0, <1>6, <2>1
<1>12. Carrier(pkts) = {pkts[i] : i \in {i \in 1..m : First(pkts, i)}}
  BY <1>10 DEF Carrier, First
<1>13. CASE new.reassembler = NoReassembler /\ Unread(m)
  <2>1. Carrier(pkts) = {}
    BY <1>12, <1>13 DEF First
  <2> QED BY <1>0, <1>10, <1>11, <1>13, <2>1
<1>14. ASSUME NEW k \in 1..m, Shown(n, k)
       PROVE  \E pkt \in Packets :
                /\ Carrier(pkts) = {pkt} /\ new.reassembler # NoReassembler
                /\ Fits(Range(pkt.frames)) =>
                     /\ new.reassembler.fragments = Range(pkt.frames)
                     /\ ~pkt.cut /\ Covered(Range(pkt.frames), HelloLen)
                          => Complete(new.tls)
  <2>1. First(pkts, k) /\ pkts[k].type = "initial" /\ pkts[k] \in Packets
    BY <1>4, <1>14 DEF First
  <2>2. ASSUME NEW i \in 1..m, First(pkts, i) PROVE i = k
    <3>1. i < k => i \in 1..(k - 1)
      OBVIOUS
    <3>2. k < i => k \in 1..(i - 1)
      OBVIOUS
    <3> QED BY <2>1, <2>2, <3>1, <3>2 DEF First
  <2>3. Carrier(pkts) = {pkts[k]}
    BY <1>12, <2>1, <2>2
  <2>4. new.reassembler = P(k).reassembler /\ (Complete(P(k).tls) => Complete(new.tls))
    BY <1>11, <1>14
  <2>5. /\ P(k).reassembler # NoReassembler
        /\ Fits(Range(pkts[k].frames)) =>
             /\ P(k).reassembler.fragments = Range(pkts[k].frames)
             /\ ~pkts[k].cut /\ Covered(Range(pkts[k].frames), HelloLen)
                  => Complete(P(k).tls)
    BY <2>1, ParseFacts
  <2> QED BY <2>1, <2>3, <2>4, <2>5
<1>15. (\E i \in DOMAIN pkts : pkts[i].close # NoClose) => Over(new)
  BY <1>10, <1>11
<1> HIDE DEF Shown, Unread
<1> QED BY <1>0, <1>10, <1>11, <1>13, <1>14, <1>15

-----------------------------------------------------------------------------
(* The merge.                                                              *)

(* One reassembler takes in the fragments of another.                      *)
LEMMA ByOffsetAll ==
  ASSUME NEW b \in Sound, NEW r \in Sound, NEW c,
         c = FoldLeft(add_fragment, b, ByOffset(r.fragments))
  PROVE  /\ c \in Sound
         /\ Fits(b.fragments \cup r.fragments) => c.fragments = b.fragments \cup r.fragments
<1>1. r.fragments \in SUBSET Fragment /\ IsFiniteSet(r.fragments) /\ Disjoint(r.fragments)
  BY DEF Sound, CryptoFrameReassembler, Exact
<1> DEFINE q == ByOffset(r.fragments)
<1>2. q \in Seq(Fragment) /\ Range(q) = r.fragments
  BY <1>1, ByOffsetFacts
<1> HIDE DEF q
<1> QED BY <1>2, AddAll DEF q

(* Two reassemblers become one: it is sound and keeps what fits, the name  *)
(* is found when the pieces of both are the whole ClientHello, a complete  *)
(* name stays, and a partial one gives way only to something.              *)
LEMMA MergeReassemblerFacts ==
  ASSUME NEW old \in SoundInfo, NEW new \in SoundInfo, NEW guess,
         old.reassembler # NoReassembler, new.reassembler # NoReassembler
  PROVE  LET m == MergeReassembler(old, new, guess)
             both == old.reassembler.fragments \cup new.reassembler.fragments
         IN  /\ m \in SoundInfo /\ m.reassembler # NoReassembler
             /\ m.close = old.close /\ m.state = old.state
             /\ Complete(old.tls) => m.tls = old.tls
             /\ old.tls.sni = "partial" => m.tls # NoTls
             /\ Fits(both) =>
                  /\ m.reassembler.fragments = both
                  /\ Covered(both, HelloLen) => Complete(m.tls)
<1> DEFINE m == MergeReassembler(old, new, guess)
           merged == FoldLeft(add_fragment, old.reassembler,
                              ByOffset(new.reassembler.fragments))
           whole == try_extract_tls_from_reassembler(merged, FALSE, guess)
           partly == try_extract_tls_from_reassembler(whole.reassembler, TRUE, guess)
           extracted == IF whole.tls # NoTls THEN whole ELSE partly
           retry == ~Complete(old.tls)
           tls == IF retry /\ extracted.tls # NoTls THEN extracted.tls ELSE old.tls
           cached == new.reassembler.cached
           reassembler == IF retry THEN extracted.reassembler ELSE merged
           best == IF cached # NoTls /\ Better(tls, cached) THEN cached ELSE tls
           both == old.reassembler.fragments \cup new.reassembler.fragments
<1>0. m = MergeReassembler(old, new, guess)
  OBVIOUS
<1> HIDE DEF m
<1>1. /\ old \in QuicInfo /\ old.reassembler \in Sound /\ new.reassembler \in Sound
      /\ old.tls \in TlsInfo /\ cached \in TlsInfo
  BY DEF SoundInfo, QuicInfo, Sound, CryptoFrameReassembler
<1>2. m = [state |-> old.state, tls |-> best, reassembler |-> reassembler,
           close |-> old.close]
  <2> DEFINE u == [old EXCEPT !.reassembler = reassembler]
  <2>1. m = [u EXCEPT !.tls = best]
    BY <1>0 DEF MergeReassembler
  <2>2. u = [state |-> old.state, tls |-> old.tls, reassembler |-> reassembler,
             close |-> old.close]
    <3> HIDE DEF reassembler
    <3> QED BY <1>1 DEF QuicInfo
  <2> HIDE DEF u, best, reassembler
  <2> QED BY <2>1, <2>2
<1>3. merged \in Sound /\ (Fits(both) => merged.fragments = both)
  BY <1>1, ByOffsetAll
<1> HIDE DEF merged
<1>4. /\ whole.tls \in TlsInfo
      /\ whole.reassembler \in Sound /\ whole.reassembler.fragments = merged.fragments
      /\ Covered(merged.fragments, HelloLen) => Complete(whole.tls)
  BY <1>3, Extract
<1> HIDE DEF whole
<1>5. /\ partly.tls \in TlsInfo
      /\ partly.reassembler \in Sound /\ partly.reassembler.fragments = merged.fragments
  BY <1>4, Extract
<1> HIDE DEF partly
<1>6. /\ extracted.tls \in TlsInfo
      /\ extracted.reassembler \in Sound
      /\ extracted.reassembler.fragments = merged.fragments
      /\ Covered(merged.fragments, HelloLen) => Complete(extracted.tls)
  BY <1>4, <1>5 DEF Complete, NoTls, Tls
<1> HIDE DEF extracted
<1>7. reassembler \in Sound /\ reassembler.fragments = merged.fragments
  BY <1>3, <1>6
<1>8. /\ tls \in TlsInfo
      /\ Complete(old.tls) => tls = old.tls
      /\ old.tls.sni = "partial" => tls # NoTls
      /\ Covered(merged.fragments, HelloLen) => Complete(tls)
  BY <1>1, <1>6 DEF Complete, NoTls, Tls
<1> HIDE DEF tls, reassembler
<1>9. /\ best \in TlsInfo
      /\ Complete(tls) => best = tls
      /\ tls # NoTls => best # NoTls
  BY <1>1, <1>8 DEF Better, Complete
<1> HIDE DEF best
<1>10. /\ m.reassembler \in Sound /\ m.reassembler.fragments = merged.fragments
       /\ m.tls = best /\ m.close = old.close /\ m.state = old.state
  BY <1>2, <1>7
<1>11. m \in SoundInfo /\ m.reassembler # NoReassembler
  <2>1. m.reassembler \in CryptoFrameReassembler /\ m.reassembler # NoReassembler
    BY <1>10, SoundReassembler
  <2>2. m \in QuicInfo
    BY <1>1, <1>2, <1>9, <1>10, <2>1 DEF QuicInfo
  <2> QED BY <1>10, <2>1, <2>2 DEF SoundInfo
<1>12. Complete(old.tls) => m.tls = old.tls
  BY <1>8, <1>9, <1>10
<1>13. old.tls.sni = "partial" => m.tls # NoTls
  BY <1>8, <1>9, <1>10
<1>14. Covered(merged.fragments, HelloLen) => Complete(m.tls)
  BY <1>8, <1>9, <1>10
<1> QED BY <1>0, <1>3, <1>10, <1>11, <1>12, <1>13, <1>14

(* MergeTls keeps a complete name and takes one where there was none.      *)
LEMMA MergeTlsFacts ==
  ASSUME NEW old \in TlsInfo, NEW new \in TlsInfo
  PROVE  /\ MergeTls(old, new) \in TlsInfo
         /\ Complete(old) => MergeTls(old, new).sni = old.sni
         /\ Complete(old) \/ Complete(new) => Complete(MergeTls(old, new))
         /\ old # NoTls =>
              MergeTls(old, new).sni # "none" \/ MergeTls(old, new).alpn
BY DEF MergeTls, Better, Complete, NoTls, Tls, TlsInfo

(* The connection is over within 10 seconds: a close is recorded or the    *)
(* state is a closing one.                                                 *)
Hastened(i) == i.close # NoClose \/ Over(i)

(* The reassembler of m is the one of old and new, or what both make       *)
(* together.                                                               *)
Joins(m, old, new) ==
  LET both == old.reassembler.fragments \cup new.reassembler.fragments
  IN  /\ new.reassembler = NoReassembler => m.reassembler = old.reassembler
      /\ old.reassembler = NoReassembler => m.reassembler = new.reassembler
      /\ old.reassembler # NoReassembler /\ new.reassembler # NoReassembler =>
           /\ m.reassembler # NoReassembler
           /\ Fits(both) => /\ m.reassembler.fragments = both
                            /\ Covered(both, HelloLen) => Complete(m.tls)

(* What merge_quic_info makes of the two: nothing of what matters is lost. *)
LEMMA MergeFacts ==
  ASSUME NEW old \in SoundInfo, NEW new \in SoundInfo, NEW guess
  PROVE  LET m == merge_quic_info(old, new, guess)
         IN  /\ m \in SoundInfo /\ Joins(m, old, new)
             /\ Hastened(old) \/ Hastened(new) => Hastened(m)
             /\ Complete(old.tls) => m.tls.sni = old.tls.sni
             /\ Complete(new.tls) => Complete(m.tls)
             /\ old.tls.sni = "partial" => m.tls.sni # "none" \/ m.tls.alpn
<1> DEFINE m == merge_quic_info(old, new, guess)
           added == AddReassembler(old, new, guess)
           tls == MergeTls(added.tls, new.tls)
           close == IF new.close # NoClose THEN new.close ELSE added.close
           state == IF new.close # NoClose THEN StateAfterClose(new.close)
                    ELSE Progress(added.state, new.state)
<1>0. m = merge_quic_info(old, new, guess)
  OBVIOUS
<1> HIDE DEF m
<1>1. /\ old \in QuicInfo /\ new \in QuicInfo
      /\ old.state \in QuicConnectionState /\ new.state \in QuicConnectionState
      /\ old.tls \in TlsInfo /\ new.tls \in TlsInfo
      /\ old.close \in QuicCloseInfo \cup {NoClose}
      /\ new.close \in QuicCloseInfo \cup {NoClose}
  BY DEF SoundInfo, QuicInfo
<1>2. /\ added \in SoundInfo /\ added.close = old.close /\ added.state = old.state
      /\ Complete(old.tls) => added.tls = old.tls
      /\ old.tls.sni = "partial" => added.tls # NoTls
      /\ Joins(added, old, new)
  <2>1. CASE new.reassembler = NoReassembler
    BY <2>1 DEF AddReassembler, Joins, NoTls, Tls
  <2>2. CASE new.reassembler # NoReassembler /\ old.reassembler = NoReassembler
    <3>1. added = [state |-> old.state, tls |-> old.tls, reassembler |-> new.reassembler,
                   close |-> old.close]
      BY <1>1, <2>2 DEF AddReassembler, QuicInfo
    <3>2. added \in SoundInfo
      BY <1>1, <3>1 DEF SoundInfo, QuicInfo
    <3> HIDE DEF added
    <3> QED BY <2>2, <3>1, <3>2 DEF Joins, NoTls, Tls
  <2>3. CASE new.reassembler # NoReassembler /\ old.reassembler # NoReassembler
    <3>1. added = MergeReassembler(old, new, guess)
      BY <2>3 DEF AddReassembler
    <3> HIDE DEF added
    <3>2. /\ added \in SoundInfo /\ added.reassembler # NoReassembler
          /\ added.close = old.close /\ added.state = old.state
          /\ Complete(old.tls) => added.tls = old.tls
          /\ old.tls.sni = "partial" => added.tls # NoTls
          /\ Joins(added, old, new)
      <4> DEFINE mr == MergeReassembler(old, new, guess)
                 both == old.reassembler.fragments \cup new.reassembler.fragments
      <4>1. /\ mr \in SoundInfo /\ mr.reassembler # NoReassembler
            /\ mr.close = old.close /\ mr.state = old.state
            /\ Complete(old.tls) => mr.tls = old.tls
            /\ old.tls.sni = "partial" => mr.tls # NoTls
            /\ Fits(both) =>
                 /\ mr.reassembler.fragments = both
                 /\ Covered(both, HelloLen) => Complete(mr.tls)
        BY <2>3, MergeReassemblerFacts
      <4> HIDE DEF mr
      <4>2. added = mr
        BY <3>1 DEF mr
      <4> QED BY <2>3, <4>1, <4>2 DEF Joins
    <3> QED BY <3>2
  <2> QED BY <2>1, <2>2, <2>3
<1>3. m = [state |-> state, tls |-> tls, reassembler |-> added.reassembler, close |-> close]
  <2> DEFINE u == [added EXCEPT !.tls = tls]
             v == [u EXCEPT !.close = close]
  <2>1. m = [v EXCEPT !.state = state]
    BY <1>0 DEF merge_quic_info
  <2> HIDE DEF added, tls, close, state
  <2>2. u = [state |-> added.state, tls |-> tls, reassembler |-> added.reassembler,
             close |-> added.close]
    BY <1>2 DEF SoundInfo, QuicInfo
  <2> HIDE DEF u
  <2>3. v = [state |-> added.state, tls |-> tls, reassembler |-> added.reassembler,
             close |-> close]
    BY <2>2
  <2> HIDE DEF v
  <2> QED BY <2>1, <2>3
<1> HIDE DEF added
<1>4. /\ added.tls \in TlsInfo
      /\ added.reassembler \in CryptoFrameReassembler \cup {NoReassembler}
  BY <1>2 DEF SoundInfo, QuicInfo
<1>5. /\ tls \in TlsInfo
      /\ Complete(added.tls) => tls.sni = added.tls.sni
      /\ Complete(added.tls) \/ Complete(new.tls) => Complete(tls)
      /\ added.tls # NoTls => tls.sni # "none" \/ tls.alpn
  BY <1>1, <1>4, MergeTlsFacts
<1>6. close \in QuicCloseInfo \cup {NoClose} /\ state \in QuicConnectionState
  <2>1. StateAfterClose(new.close) \in QuicConnectionState
    BY DEF StateAfterClose, QuicConnectionState
  <2>2. Progress(added.state, new.state) \in QuicConnectionState
    BY <1>1, <1>2, ProgressFacts
  <2> QED BY <1>1, <1>2, <2>1, <2>2
<1>7. Hastened(old) \/ Hastened(new) => Hastened(m)
  <2>1. CASE new.close # NoClose
    BY <1>3, <2>1 DEF Hastened
  <2>2. CASE new.close = NoClose
    <3>1. m.close = old.close /\ m.state = Progress(old.state, new.state)
      BY <1>2, <1>3, <2>2
    <3> QED BY <1>1, <2>2, <3>1, ProgressFacts DEF Hastened, Over
  <2> QED BY <2>1, <2>2
<1> HIDE DEF tls, close, state
<1>8. m.tls = tls /\ m.reassembler = added.reassembler
  BY <1>3
<1>9. m \in SoundInfo
  BY <1>2, <1>3, <1>4, <1>5, <1>6 DEF SoundInfo, QuicInfo
<1>10. /\ Complete(old.tls) => m.tls.sni = old.tls.sni
       /\ Complete(new.tls) => Complete(m.tls)
       /\ old.tls.sni = "partial" => m.tls.sni # "none" \/ m.tls.alpn
       /\ Complete(added.tls) => Complete(m.tls)
  BY <1>2, <1>5, <1>8
<1>11. Joins(m, old, new)
  BY <1>2, <1>3, <1>10 DEF Joins
<1> QED BY <1>0, <1>7, <1>9, <1>10, <1>11

-----------------------------------------------------------------------------
(* What arrived and what is known of it.                                   *)

(* The frames of a packet are finitely many fragments.                     *)
LEMMA FramesFinite ==
  ASSUME NEW frames \in Seq(Fragment)
  PROVE  Range(frames) \in SUBSET Fragment /\ IsFiniteSet(Range(frames))
<1>1. PICK n \in Nat : frames \in [1..n -> Fragment]
  OBVIOUS
<1>2. Range(frames) = {frames[i] : i \in 1..n}
  BY <1>1 DEF Range
<1>3. frames \in [1..n -> Range(frames)]
  BY <1>1, <1>2
<1>4. ExistsSurjection(1..n, Range(frames))
  <2>1. frames \in Surjection(1..n, Range(frames))
    BY <1>2, <1>3 DEF Surjection
  <2> QED BY <2>1 DEF ExistsSurjection
<1> QED BY <1>1, <1>2, <1>4, FS_NatSurjection

(* Fewer pieces fit too.                                                   *)
LEMMA FitsSubset ==
  ASSUME NEW A, NEW B, Fits(B), A \subseteq B
  PROVE  Fits(A)
<1>1. IsFiniteSet(A)
  BY FS_Subset DEF Fits
<1>2. Buffered(A) <= Buffered(B)
  BY BufferedSubset DEF Fits
<1>3. Buffered(A) \in Nat /\ Buffered(B) \in Nat
  BY <1>1, OccupiedFinite, FS_CardinalityType DEF Fits, Buffered
<1> QED BY <1>1, <1>2, <1>3, QuicHandshakeAssumption DEF Fits, Disjoint

(* What is known of a connection to which these pieces came, those in seen *)
(* in a packet that was read to its end.  This is the induction            *)
(* hypothesis: it says, for every set of pieces that fits, which fragments *)
(* are kept, so that the pieces still missing are the only ones missing.   *)
Knows(i, pieces, seen) ==
  /\ i \in SoundInfo
  /\ pieces \in SUBSET Fragment /\ IsFiniteSet(pieces) /\ seen \in SUBSET pieces
  /\ i.reassembler = NoReassembler => pieces = {}
  /\ i.reassembler # NoReassembler /\ Fits(pieces) => i.reassembler.fragments = pieces
  /\ Covered(seen, HelloLen) /\ Fits(pieces) => Complete(i.tls)

(* The ClientHello is not empty.                                           *)
LEMMA NothingCovered == ~Covered({}, HelloLen)
BY QuicHandshakeAssumption DEF Covered

(* It holds of what one datagram shows.                                    *)
LEMMA KnowsDatagram ==
  ASSUME NEW pkts \in Datagrams, NEW guess
  PROVE  LET new == parse_quic_packet(pkts, guess)
         IN  /\ Knows(new, Pieces(Carrier(pkts)),
                      Pieces({pkt \in Carrier(pkts) : ~pkt.cut}))
             /\ (\E i \in DOMAIN pkts : pkts[i].close # NoClose) => Hastened(new)
<1> DEFINE new == parse_quic_packet(pkts, guess)
           pieces == Pieces(Carrier(pkts))
           seen == Pieces({pkt \in Carrier(pkts) : ~pkt.cut})
<1>1. /\ new \in SoundInfo
      /\ (\E i \in DOMAIN pkts : pkts[i].close # NoClose) => Hastened(new)
  BY ParseDatagram DEF Hastened
<1>2. CASE new.reassembler = NoReassembler /\ Carrier(pkts) = {}
  <2>1. pieces = {} /\ seen = {} /\ IsFiniteSet(pieces)
    BY <1>2, FS_EmptySet DEF Pieces
  <2> HIDE DEF new, pieces, seen
  <2>2. Knows(new, pieces, seen)
    BY <1>1, <1>2, <2>1, NothingCovered DEF Knows
  <2> QED BY <1>1, <2>2 DEF new, pieces, seen
<1>3. ASSUME NEW pkt \in Packets, Carrier(pkts) = {pkt}, new.reassembler # NoReassembler,
             Fits(Range(pkt.frames)) =>
               /\ new.reassembler.fragments = Range(pkt.frames)
               /\ ~pkt.cut /\ Covered(Range(pkt.frames), HelloLen) => Complete(new.tls)
      PROVE  Knows(new, pieces, seen)
  <2>1. pieces = Range(pkt.frames) /\ seen = IF pkt.cut THEN {} ELSE Range(pkt.frames)
    BY <1>3 DEF Pieces
  <2>2. pieces \in SUBSET Fragment /\ IsFiniteSet(pieces)
    BY <2>1, QuicHandshakeAssumption, FramesFinite DEF Packet
  <2> HIDE DEF new, pieces, seen
  <2> QED BY <1>1, <1>3, <2>1, <2>2, NothingCovered DEF Knows
<1>4. \/ new.reassembler = NoReassembler /\ Carrier(pkts) = {}
      \/ \E pkt \in Packets :
           /\ Carrier(pkts) = {pkt} /\ new.reassembler # NoReassembler
           /\ Fits(Range(pkt.frames)) =>
                /\ new.reassembler.fragments = Range(pkt.frames)
                /\ ~pkt.cut /\ Covered(Range(pkt.frames), HelloLen) => Complete(new.tls)
  BY ParseDatagram
<1> HIDE DEF new, pieces, seen
<1>5. Knows(new, pieces, seen) \/ (new.reassembler = NoReassembler /\ Carrier(pkts) = {})
  BY <1>3, <1>4
<1> QED BY <1>1, <1>2, <1>5 DEF new, pieces, seen

(* It holds of what two halves make together, whichever came first: the    *)
(* reassembler is theirs united, and the ClientHello may be whole only     *)
(* now.                                                                    *)
LEMMA KnowsMerge ==
  ASSUME NEW old, NEW A, NEW R, Knows(old, A, R),
         NEW new, NEW B, NEW Q, Knows(new, B, Q), NEW guess
  PROVE  Knows(merge_quic_info(old, new, guess), A \cup B, R \cup Q)
<1> DEFINE m == merge_quic_info(old, new, guess)
           both == old.reassembler.fragments \cup new.reassembler.fragments
<1>1. old \in SoundInfo /\ new \in SoundInfo
  BY DEF Knows
<1>2. /\ m \in SoundInfo
      /\ Complete(old.tls) => m.tls.sni = old.tls.sni
      /\ Complete(new.tls) => Complete(m.tls)
      /\ Joins(m, old, new)
  BY <1>1, MergeFacts
<1> HIDE DEF m
<1>3. Complete(old.tls) => Complete(m.tls)
  BY <1>2 DEF Complete
<1>4. /\ A \cup B \in SUBSET Fragment /\ IsFiniteSet(A \cup B)
      /\ R \cup Q \in SUBSET (A \cup B)
  BY FS_Union DEF Knows
<1>5. m.reassembler = NoReassembler => A \cup B = {}
  BY <1>2 DEF Knows, Joins
<1>6. ASSUME Fits(A \cup B)
      PROVE  /\ m.reassembler # NoReassembler => m.reassembler.fragments = A \cup B
             /\ Covered(R \cup Q, HelloLen) => Complete(m.tls)
  <2>1. Fits(A) /\ Fits(B)
    BY <1>6, FitsSubset
  <2>2. /\ old.reassembler # NoReassembler => old.reassembler.fragments = A
        /\ new.reassembler # NoReassembler => new.reassembler.fragments = B
        /\ old.reassembler = NoReassembler => A = {} /\ R = {}
        /\ new.reassembler = NoReassembler => B = {} /\ Q = {}
        /\ Covered(R, HelloLen) => Complete(old.tls)
        /\ Covered(Q, HelloLen) => Complete(new.tls)
    BY <2>1 DEF Knows
  <2>3. CASE old.reassembler = NoReassembler \/ new.reassembler = NoReassembler
    <3>1. A \cup B = B \/ A \cup B = A
      BY <2>2, <2>3
    <3>2. CASE old.reassembler = NoReassembler
      <4>1. A \cup B = B /\ R \cup Q = Q
        BY <2>2, <3>2
      <4> QED BY <1>2, <2>2, <3>2, <4>1 DEF Joins
    <3>3. CASE new.reassembler = NoReassembler
      <4>1. A \cup B = A /\ R \cup Q = R
        BY <2>2, <3>3
      <4> QED BY <1>2, <1>3, <2>2, <3>3, <4>1 DEF Joins
    <3> QED BY <2>3, <3>2, <3>3
  <2>4. CASE old.reassembler # NoReassembler /\ new.reassembler # NoReassembler
    <3>1. both = A \cup B
      BY <2>2, <2>4
    <3>2. Covered(R \cup Q, HelloLen) => Covered(both, HelloLen)
      BY <1>4, <3>1, CoveredMore
    <3> QED BY <1>2, <1>6, <2>4, <3>1, <3>2 DEF Joins
  <2> QED BY <2>3, <2>4
<1>7. Knows(m, A \cup B, R \cup Q)
  BY <1>2, <1>4, <1>5, <1>6 DEF Knows
<1> QED BY <1>7 DEF m

(* The inductive invariant of the connection: what is known matches what   *)
(* arrived, and a close that was read ends the connection.                 *)
QuicInv ==
  /\ closing \in BOOLEAN
  /\ info = NoInfo => arrived = {} /\ read = {} /\ closing = FALSE
  /\ info # NoInfo => Knows(info, arrived, read) /\ (closing => Hastened(info))

(* Known info is not the absence of it.                                    *)
LEMMA InfoExists == \A i \in SoundInfo : i # NoInfo
BY QuicHandshakeAssumption DEF SoundInfo

(* A datagram preserves the invariant and the name.                        *)
LEMMA DatagramStep ==
  ASSUME QuicInv, NEW pkts \in Datagrams, Datagram(pkts)
  PROVE  /\ QuicInv'
         /\ info # NoInfo =>
              /\ Complete(info.tls) => info'.tls.sni = info.tls.sni
              /\ info.tls.sni = "partial" => info'.tls.sni # "none" \/ info'.tls.alpn
<1> DEFINE pieces == Pieces(Carrier(pkts))
           seen == Pieces({pkt \in Carrier(pkts) : ~pkt.cut})
           closes == \E i \in DOMAIN pkts : pkts[i].close # NoClose
<1>1. PICK early, late :
        /\ info' = IF info = NoInfo THEN parse_quic_packet(pkts, early)
                   ELSE merge_quic_info(info, parse_quic_packet(pkts, early), late)
        /\ arrived' = arrived \cup pieces
        /\ read' = read \cup seen
        /\ closing' = (closing \/ closes)
  BY Zenon DEF Datagram
<1> DEFINE new == parse_quic_packet(pkts, early)
<1>2. Knows(new, pieces, seen) /\ (closes => Hastened(new)) /\ new \in SoundInfo
  BY KnowsDatagram DEF Knows
<1>3. closing' \in BOOLEAN
  BY <1>1
<1>4. CASE info = NoInfo
  <2>1. info' = new /\ new # NoInfo
    BY <1>1, <1>2, <1>4, InfoExists
  <2>2. arrived' = pieces /\ read' = seen
    BY <1>1, <1>4 DEF QuicInv
  <2>3. closing' => closes
    BY <1>1, <1>4 DEF QuicInv
  <2> HIDE DEF new, pieces, seen, closes
  <2> QED BY <1>2, <1>3, <1>4, <2>1, <2>2, <2>3 DEF QuicInv
<1>5. CASE info # NoInfo
  <2> DEFINE m == merge_quic_info(info, new, late)
  <2>1. Knows(info, arrived, read) /\ (closing => Hastened(info)) /\ info \in SoundInfo
    BY <1>5 DEF QuicInv, Knows
  <2>2. Knows(m, arrived \cup pieces, read \cup seen) /\ m \in SoundInfo
    <3>1. Knows(m, arrived \cup pieces, read \cup seen)
      <4> HIDE DEF new, pieces, seen
      <4> QED BY <1>2, <2>1, KnowsMerge
    <3> QED BY <3>1 DEF Knows
  <2> HIDE DEF new, pieces, seen, closes
  <2>3. /\ Hastened(info) \/ Hastened(new) => Hastened(m)
        /\ Complete(info.tls) => m.tls.sni = info.tls.sni
        /\ info.tls.sni = "partial" => m.tls.sni # "none" \/ m.tls.alpn
    BY <1>2, <2>1, MergeFacts
  <2>4. info' = m
    BY <1>1, <1>5 DEF new
  <2> HIDE DEF m
  <2>5. closing' => Hastened(m)
    BY <1>1, <1>2, <2>1, <2>3
  <2>6. QuicInv'
    BY <1>1, <1>3, <2>2, <2>4, <2>5, InfoExists DEF QuicInv
  <2> QED BY <2>3, <2>4, <2>6
<1> QED BY <1>4, <1>5

(* Every step preserves the invariant.                                     *)
LEMMA QuicInvNext ==
  ASSUME QuicInv, [Next]_vars
  PROVE  QuicInv'
<1>1. CASE RemoveConnection
  BY <1>1 DEF RemoveConnection, QuicInv
<1>2. CASE \E pkts \in Datagrams : Datagram(pkts)
  BY <1>2, DatagramStep
<1>3. CASE UNCHANGED vars
  BY <1>3, Zenon DEF vars, QuicInv
<1> QED BY <1>1, <1>2, <1>3 DEF Next

-----------------------------------------------------------------------------
(* The theorems.                                                           *)

(* However datagrams arrive, in any order, again, cut off or coalesced,    *)
(* what merge_dpi_info keeps of a connection matches what reached it.      *)
THEOREM QuicInvariant == Spec => []QuicInv
<1>1. Init => QuicInv
  BY DEF Init, QuicInv
<1>2. QuicInv /\ [Next]_vars => QuicInv'
  BY QuicInvNext
<1> QED BY <1>1, <1>2, PTL DEF Spec

(* CryptoFrameReassembler's books are exact: its fragments are disjoint    *)
(* and accounted for within the limit, and its contiguous offset and data  *)
(* are the longest prefix of the stream they cover, for any fragments in   *)
(* any order and any buffer size.                                          *)
THEOREM ReassemblyIsExact == Spec => []ReassemblyExact
<1>1. QuicInv => ReassemblyExact
  <2> SUFFICES ASSUME QuicInv, info # NoInfo, info.reassembler # NoReassembler
               PROVE  /\ Exact(info.reassembler)
                      /\ get_contiguous_data(info.reassembler)
                           = [i \in 1..info.reassembler.contiguous |-> i - 1]
    BY DEF ReassemblyExact
  <2>1. info.reassembler \in Sound
    BY DEF QuicInv, Knows, SoundInfo
  <2> QED BY <2>1, ContiguousData DEF Sound, Stream
<1> QED BY <1>1, QuicInvariant, PTL

(* Once the whole ClientHello was read by process_crypto_frames_in_packet, *)
(* in any order and in any pieces that fit the buffer, the name is         *)
(* complete, for any ClientHello.                                          *)
THEOREM HelloIsRead == Spec => []HelloRead
<1>1. QuicInv => HelloRead
  <2> SUFFICES ASSUME QuicInv, Covered(read, HelloLen), Disjoint(arrived),
                      Buffered(arrived) <= MaxBufferSize
               PROVE  Complete(info.tls)
    BY DEF HelloRead
  <2>1. info # NoInfo
    BY NothingCovered DEF QuicInv
  <2> QED BY <2>1 DEF QuicInv, Knows, Fits
<1> QED BY <1>1, QuicInvariant, PTL

(* From the first CONNECTION_CLOSE on get_quic_timeout gives the           *)
(* connection up within 10 seconds, whatever is coalesced with it or       *)
(* follows.                                                                *)
THEOREM CloseIsHeeded == Spec => []CloseHastens
<1>1. QuicInv => CloseHastens
  <2> SUFFICES ASSUME QuicInv, closing PROVE get_quic_timeout(info) <= 10
    BY DEF CloseHastens
  <2>1. Hastened(info)
    BY DEF QuicInv
  <2> QED BY <2>1 DEF Hastened, Over, get_quic_timeout, StateTimeout
<1> QED BY <1>1, QuicInvariant, PTL

(* merge_quic_info never replaces a complete name, and a partial one only  *)
(* by a better one or by TLS info that has ALPN.                           *)
THEOREM NameIsFinal == Spec => NameFinal
<1>1. ASSUME QuicInv, [Next]_vars
      PROVE  [info # NoInfo /\ info' # NoInfo =>
                /\ Complete(info.tls) => info'.tls.sni = info.tls.sni
                /\ info.tls.sni = "partial" => info'.tls.sni # "none" \/ info'.tls.alpn]_vars
  <2>1. CASE RemoveConnection
    BY <2>1 DEF RemoveConnection
  <2>2. CASE \E pkts \in Datagrams : Datagram(pkts)
    BY <1>1, <2>2, DatagramStep
  <2>3. CASE UNCHANGED vars
    BY <2>3
  <2> QED BY <1>1, <2>1, <2>2, <2>3 DEF Next
<1> QED BY <1>1, QuicInvariant, PTL DEF Spec, NameFinal

=============================================================================

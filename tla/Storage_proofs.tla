----------------------------- MODULE Storage_proofs ----------------------------
(***************************************************************************)
(* Storage, for any number of threads and requests: the usage that metrics *)
(* show and limits rest on is what is stored, through expiry, purges,      *)
(* interrupted requests and uploads behind the service, and a limited      *)
(* organization whose requests do not overlap stays within its bytes.  And *)
(* a listing by page misses no key and shows none twice.                   *)
(***************************************************************************)
EXTENDS MCPlatform, FiniteSetTheorems, SequenceTheorems, TLAPS

(***************************************************************************)
(* Sums over finite sets.                                                  *)

\* Induction over the subsets of a finite set: one that is good when all that
\* have a member less are good.
LEMMA BySubsets ==
    ASSUME NEW S, IsFiniteSet(S), NEW Good,
           \A s \in SUBSET S : (\A x \in s : s \ {x} \in Good) => s \in Good
    PROVE  SUBSET S \subseteq Good
<1> DEFINE Bad == (SUBSET S) \ Good
<1> SUFFICES ASSUME Bad # {} PROVE FALSE OBVIOUS
<1>1. Bad \subseteq FiniteSubsetsOf(S) BY FS_FiniteSubsetsOfFinite
<1>2. IsWellFoundedOn(StrictSubsetOrdering(S), FiniteSubsetsOf(S)) BY FS_StrictSubsetOrderingWellFounded
<1>3. PICK s \in Bad : \A r \in Bad : <<r, s>> \notin StrictSubsetOrdering(S) BY <1>1, <1>2, WFMin
<1>4. ASSUME NEW x \in s PROVE s \ {x} \in Good
    <2>1. PICK r : r = s \ {x} OBVIOUS
    <2>2. r \in SUBSET S /\ s \in SUBSET S /\ r \subseteq s /\ r # s BY <1>4, <2>1
    <2>3. <<r, s>> \in StrictSubsetOrdering(S) BY <2>2 DEF StrictSubsetOrdering
    <2> QED BY <1>3, <2>1, <2>2, <2>3
<1>5. s \in SUBSET S /\ s \notin Good OBVIOUS
<1>6. s \in Good BY <1>4, <1>5
<1> QED BY <1>5, <1>6

\* A table of the sums of all subsets, in the order the library's fold takes their members.
AnyOf(s) == CHOOSE x \in s : TRUE
SumTable(g, w, S) ==
    g = [s \in SUBSET S |-> IF s = {} THEN 0 ELSE w[AnyOf(s)] + g[s \ {AnyOf(s)}]]

\* What a table has for a set depends on the weights of its members only.
LEMMA SumTablesAgree ==
    ASSUME NEW S, IsFiniteSet(S), NEW T, IsFiniteSet(T), NEW v, NEW w, NEW f, NEW g,
           SumTable(f, v, S), SumTable(g, w, T), \A x \in S \cap T : v[x] = w[x]
    PROVE  \A s \in SUBSET (S \cap T) : f[s] = g[s]
<1> DEFINE U == S \cap T
           Good == {s \in SUBSET U : f[s] = g[s]}
<1>1. IsFiniteSet(U) BY FS_Subset
<1>2. ASSUME NEW s \in SUBSET U, \A x \in s : s \ {x} \in Good PROVE s \in Good
    <2>1. CASE s = {} BY <2>1 DEF SumTable
    <2>2. CASE s # {}
        <3>1. PICK x : x = AnyOf(s) OBVIOUS
        <3>2. x \in s BY <2>2, <3>1 DEF AnyOf
        <3>3. f[s] = v[x] + f[s \ {x}] BY <2>2, <3>1 DEF SumTable
        <3>4. g[s] = w[x] + g[s \ {x}] BY <2>2, <3>1 DEF SumTable
        <3> QED BY <1>2, <3>2, <3>3, <3>4
    <2> QED BY <2>1, <2>2
<1>3. SUBSET U \subseteq Good
    <2> HIDE DEF U, Good
    <2> QED BY <1>1, <1>2, BySubsets
<1> QED BY <1>3

\* There is a table for every finite set.
LEMMA SumTableExists ==
    ASSUME NEW S, IsFiniteSet(S), NEW w
    PROVE  \E g : SumTable(g, w, S)
<1> DEFINE Good == {s \in SUBSET S : \A r \in SUBSET s : \E g : SumTable(g, w, r)}
<1>1. ASSUME NEW s \in SUBSET S, \A x \in s : s \ {x} \in Good PROVE s \in Good
    <2>1. \A r \in SUBSET s : r # s => \E g : SumTable(g, w, r) BY <1>1
    <2> DEFINE G(r) == CHOOSE g : SumTable(g, w, r)
               h == [r \in SUBSET s |-> IF r = {} THEN 0
                                        ELSE w[AnyOf(r)] + G(r \ {AnyOf(r)})[r \ {AnyOf(r)}]]
    <2>2. \A r \in SUBSET s : r # s => SumTable(G(r), w, r)  BY <2>1
    <2>3. \A r \in SUBSET s : r # {} => AnyOf(r) \in r BY DEF AnyOf
    <2>4. \A r \in SUBSET s : r # s => h[r] = G(r)[r]
        <3> SUFFICES ASSUME NEW r \in SUBSET s, r # s PROVE h[r] = G(r)[r] OBVIOUS
        <3>1. SumTable(G(r), w, r) BY <2>2
        <3>2. CASE r = {} BY <3>1, <3>2 DEF SumTable
        <3>3. CASE r # {}
            <4>1. PICK q : q = r \ {AnyOf(r)} OBVIOUS
            <4>2. q \in SUBSET r /\ q # r /\ q \in SUBSET s /\ q # s BY <2>3, <3>3, <4>1
            <4>3. SumTable(G(q), w, q) BY <2>2, <4>2
            <4>4. IsFiniteSet(r) /\ IsFiniteSet(q) BY <4>2, FS_Subset
            <4>5. \A a \in SUBSET (r \cap q) : G(r)[a] = G(q)[a]
                BY <3>1, <4>3, <4>4, SumTablesAgree
            <4>6. G(r)[q] = G(q)[q] BY <4>2, <4>5
            <4>7. G(r)[r] = w[AnyOf(r)] + G(r)[q] BY <3>1, <3>3, <4>1 DEF SumTable
            <4> QED BY <3>3, <4>1, <4>6, <4>7
        <3> QED BY <3>2, <3>3
    <2>5. SumTable(h, w, s)
        <3>1. ASSUME NEW r \in SUBSET s, r # {} PROVE h[r] = w[AnyOf(r)] + h[r \ {AnyOf(r)}]
            BY <2>3, <3>1, <2>4
        <3>2. h[{}] = 0 OBVIOUS
        <3>3. h = [r \in SUBSET s |-> h[r]] OBVIOUS
        <3> HIDE DEF h
        <3> QED BY <3>1, <3>2, <3>3 DEF SumTable
    <2>6. \E g : SumTable(g, w, s) BY <2>5
    <2> QED BY <2>1, <2>6
<1>2. SUBSET S \subseteq Good
    <2> HIDE DEF Good
    <2> QED BY <1>1, BySubsets
<1> QED BY <1>2

\* A sum is read off such a table.
LEMMA SumIsTable ==
    ASSUME NEW S, IsFiniteSet(S), NEW w
    PROVE  \E g : SumTable(g, w, S) /\ SumOf(w, S) = g[S]
<1>1. \E g : SumTable(g, w, S) BY SumTableExists
<1> DEFINE it == CHOOSE g : g = [s \in SUBSET S |-> IF s = {} THEN 0
                                   ELSE w[CHOOSE x \in s : TRUE] + g[s \ {CHOOSE x \in s : TRUE}]]
<1>2. SumOf(w, S) = it[S] BY DEF SumOf, MapThenSumSet, MapThenFoldSet
<1>3. SumTable(it, w, S) BY <1>1 DEF SumTable, AnyOf
<1> QED BY <1>2, <1>3

\* Sums of equal weights are equal.
LEMMA SumSame ==
    ASSUME NEW S, IsFiniteSet(S), NEW v, NEW w, \A x \in S : v[x] = w[x]
    PROVE  SumOf(v, S) = SumOf(w, S)
BY SumIsTable, SumTablesAgree

\* The empty sum, and the first step of the fold.
LEMMA SumEmpty == \A w : SumOf(w, {}) = 0
BY FS_EmptySet, SumIsTable DEF SumTable

LEMMA SumPicks ==
    ASSUME NEW S, IsFiniteSet(S), S # {}, NEW w
    PROVE  SumOf(w, S) = w[AnyOf(S)] + SumOf(w, S \ {AnyOf(S)})
<1>1. PICK f : SumTable(f, w, S) /\ SumOf(w, S) = f[S] BY SumIsTable
<1>2. PICK T : T = S \ {AnyOf(S)} OBVIOUS
<1>3. IsFiniteSet(T) /\ T \in SUBSET (S \cap T) BY <1>2, FS_Subset
<1>4. PICK g : SumTable(g, w, T) /\ SumOf(w, T) = g[T] BY <1>3, SumIsTable
<1>5. \A s \in SUBSET (S \cap T) : f[s] = g[s] BY <1>1, <1>3, <1>4, SumTablesAgree
<1>6. f[T] = g[T] BY <1>3, <1>5
<1>7. f[S] = w[AnyOf(S)] + f[T] BY <1>1, <1>2 DEF SumTable
<1> QED BY <1>1, <1>2, <1>4, <1>6, <1>7

\* Weights are numbers of bytes.
Weights(w, S) == \A x \in S : w[x] \in Nat

LEMMA SumNat ==
    ASSUME NEW S, IsFiniteSet(S), NEW w, Weights(w, S)
    PROVE  SumOf(w, S) \in Nat
<1> DEFINE Good == {s \in SUBSET S : SumOf(w, s) \in Nat}
<1>1. ASSUME NEW s \in SUBSET S, \A x \in s : s \ {x} \in Good PROVE s \in Good
    <2>1. CASE s = {} BY <2>1, SumEmpty
    <2>2. CASE s # {}
        <3>1. PICK x : x = AnyOf(s) OBVIOUS
        <3>2. x \in s BY <2>2, <3>1 DEF AnyOf
        <3>3. IsFiniteSet(s) BY FS_Subset
        <3>4. SumOf(w, s) = w[x] + SumOf(w, s \ {x}) BY <2>2, <3>1, <3>3, SumPicks
        <3> QED BY <1>1, <3>2, <3>4 DEF Weights
    <2> QED BY <2>1, <2>2
<1>2. SUBSET S \subseteq Good
    <2> HIDE DEF Good
    <2> QED BY <1>1, BySubsets
<1> QED BY <1>2

\* The order of summation does not matter.
LEMMA SumSplits ==
    ASSUME NEW S, IsFiniteSet(S), NEW w, Weights(w, S)
    PROVE  \A x \in S : SumOf(w, S) = w[x] + SumOf(w, S \ {x})
<1> DEFINE Good == {s \in SUBSET S : \A x \in s : SumOf(w, s) = w[x] + SumOf(w, s \ {x})}
<1>1. ASSUME NEW s \in SUBSET S, \A x \in s : s \ {x} \in Good PROVE s \in Good
    <2> SUFFICES ASSUME NEW x \in s PROVE SumOf(w, s) = w[x] + SumOf(w, s \ {x}) OBVIOUS
    <2>1. PICK a : a = AnyOf(s) OBVIOUS
    <2>2. a \in s BY <2>1 DEF AnyOf
    <2>3. IsFiniteSet(s) BY FS_Subset
    <2>4. SumOf(w, s) = w[a] + SumOf(w, s \ {a}) BY <2>1, <2>3, SumPicks
    <2>5. CASE a = x BY <2>4, <2>5
    <2>6. CASE a # x
        <3>1. PICK r : r = (s \ {a}) \ {x} OBVIOUS
        <3>2. r = (s \ {x}) \ {a} BY <3>1
        <3>3. SumOf(w, s \ {a}) = w[x] + SumOf(w, r) BY <1>1, <2>2, <2>6, <3>1
        <3>4. SumOf(w, s \ {x}) = w[a] + SumOf(w, r) BY <1>1, <2>2, <2>6, <3>2
        <3>5. w[a] \in Nat /\ w[x] \in Nat BY <2>2 DEF Weights
        <3>6. IsFiniteSet(r) /\ Weights(w, r) BY <2>3, <3>1, FS_Subset DEF Weights
        <3>7. SumOf(w, r) \in Nat BY <3>6, SumNat
        <3> QED BY <2>4, <3>3, <3>4, <3>5, <3>7
    <2> QED BY <2>5, <2>6
<1>2. SUBSET S \subseteq Good
    <2> HIDE DEF Good
    <2> QED BY <1>1, BySubsets
<1> QED BY <1>2

\* The sum of a set is that of a part of it and of the rest.
LEMMA SumWithin ==
    ASSUME NEW S, IsFiniteSet(S), NEW w, Weights(w, S), NEW T \in SUBSET S
    PROVE  SumOf(w, S) = SumOf(w, T) + SumOf(w, S \ T)
<1> DEFINE Good == {s \in SUBSET T : SumOf(w, S) = SumOf(w, s) + SumOf(w, S \ s)}
<1>1. ASSUME NEW s \in SUBSET T, \A x \in s : s \ {x} \in Good PROVE s \in Good
    <2>1. CASE s = {} BY SumNat, <2>1, SumEmpty
    <2>2. CASE s # {}
        <3>1. PICK x : x \in s BY <2>2
        <3>2. PICK r : r = s \ {x} OBVIOUS
        <3>3. PICK R : R = S \ r OBVIOUS
        <3>4. x \in R /\ R \ {x} = S \ s BY <3>1, <3>2, <3>3
        <3>5. /\ IsFiniteSet(s) /\ Weights(w, s) /\ IsFiniteSet(R) /\ Weights(w, R)
              /\ IsFiniteSet(r) /\ Weights(w, r) /\ IsFiniteSet(S \ s) /\ Weights(w, S \ s)
            BY <3>2, <3>3, FS_Subset DEF Weights
        <3>6. SumOf(w, s) = w[x] + SumOf(w, r) BY <3>1, <3>2, <3>5, SumSplits
        <3>7. SumOf(w, R) = w[x] + SumOf(w, S \ s) BY <3>4, <3>5, SumSplits
        <3>8. SumOf(w, S) = SumOf(w, r) + SumOf(w, R) BY <1>1, <3>1, <3>2, <3>3
        <3>9. /\ SumOf(w, r) \in Nat /\ SumOf(w, S \ s) \in Nat /\ w[x] \in Nat
            BY <3>1, <3>5, SumNat DEF Weights
        <3> QED BY <3>6, <3>7, <3>8, <3>9
    <2> QED BY <2>1, <2>2
<1>2. SUBSET T \subseteq Good
    <2>1. IsFiniteSet(T) BY FS_Subset
    <2> HIDE DEF Good
    <2> QED BY <1>1, <2>1, BySubsets
<1> QED BY <1>2

---------------------------------------------------------------------------
(* Bytes of rows, of entries of a map and of objects.                      *)

\* Finitely many rows with sizes.
SgSized(R) == IsFiniteSet(R) /\ \A r \in R : r.size \in Nat

LEMMA SgNoRows == Total({}) = 0
BY SumEmpty DEF Total

\* The bytes of a part of the rows and of the rest add up.
LEMMA SgParts ==
    ASSUME NEW R, SgSized(R), NEW T \in SUBSET R
    PROVE  /\ SgSized(T) /\ SgSized(R \ T)
           /\ Total(T) \in Nat /\ Total(R \ T) \in Nat /\ Total(R) \in Nat
           /\ Total(R) = Total(T) + Total(R \ T)
<1> DEFINE w(S) == [r \in S |-> r.size]
<1>1. PICK U : U = R \ T OBVIOUS
<1>2. U \in SUBSET R /\ IsFiniteSet(R) /\ IsFiniteSet(T) /\ IsFiniteSet(U)
    BY <1>1, FS_Subset DEF SgSized
<1>3. Weights(w(R), R) /\ Weights(w(T), T) /\ Weights(w(U), U) BY <1>2 DEF Weights, SgSized
<1>4. PICK f, g, h : f = w(R) /\ g = w(T) /\ h = w(U) OBVIOUS
<1>5. Total(R) = SumOf(f, R) /\ Total(T) = SumOf(g, T) /\ Total(U) = SumOf(h, U)
    BY <1>4 DEF Total
<1>6. (\A x \in T : f[x] = g[x]) /\ (\A x \in U : f[x] = h[x]) BY <1>2, <1>4
<1>7. Weights(f, R) /\ Weights(g, T) /\ Weights(h, U) BY <1>3, <1>4
<1> HIDE DEF w
<1>8. SumOf(f, T) = SumOf(g, T) BY <1>2, <1>6, SumSame
<1>9. SumOf(f, U) = SumOf(h, U) BY <1>2, <1>6, SumSame
<1>10. SumOf(f, R) = SumOf(f, T) + SumOf(f, R \ T) BY <1>2, <1>7, SumWithin
<1>11. SumOf(f, R) \in Nat /\ SumOf(g, T) \in Nat /\ SumOf(h, U) \in Nat BY <1>2, <1>7, SumNat
<1>12. SgSized(T) /\ SgSized(U) BY <1>2 DEF SgSized
<1> QED BY <1>1, <1>5, <1>8, <1>9, <1>10, <1>11, <1>12

LEMMA SgTotalNat == ASSUME NEW R, SgSized(R) PROVE Total(R) \in Nat
BY SgParts

LEMMA SgTotalMonotone ==
    ASSUME NEW R, SgSized(R), NEW T \in SUBSET R
    PROVE  SgSized(T) /\ Total(T) \in Nat /\ Total(R) \in Nat /\ Total(T) <= Total(R)
<1>1. SgSized(T) /\ Total(T) \in Nat /\ Total(R \ T) \in Nat BY SgParts
<1>2. Total(R) = Total(T) + Total(R \ T) BY SgParts
<1> QED BY <1>1, <1>2

\* One row, and one row more.
LEMMA SgOneRow == ASSUME NEW r, r.size \in Nat PROVE SgSized({r}) /\ Total({r}) = r.size
<1>1. PICK f : f = [x \in {r} |-> x.size] OBVIOUS
<1>2. IsFiniteSet({r}) BY FS_Singleton
<1>3. Weights(f, {r}) /\ f[r] = r.size BY <1>1 DEF Weights
<1>4. \A x \in {r} : SumOf(f, {r}) = f[x] + SumOf(f, {r} \ {x}) BY <1>2, <1>3, SumSplits
<1>5. {r} \ {r} = {} OBVIOUS
<1>6. SumOf(f, {r}) = f[r] + SumOf(f, {}) BY <1>4, <1>5
<1>7. Total({r}) = SumOf(f, {r}) BY <1>1 DEF Total
<1>8. SgSized({r}) BY <1>2 DEF SgSized
<1> QED BY <1>3, <1>6, <1>7, <1>8, SumEmpty

LEMMA SgOneMore ==
    ASSUME NEW R, SgSized(R), NEW r, r \notin R, r.size \in Nat
    PROVE  SgSized(R \cup {r}) /\ Total(R \cup {r}) = Total(R) + r.size
<1>1. PICK S : S = R \cup {r} OBVIOUS
<1>2. SgSized(S) BY FS_AddElement, <1>1 DEF SgSized
<1>3. PICK T \in SUBSET S : T = {r} BY <1>1
<1>4. Total(S) = Total(T) + Total(S \ T) BY <1>2, SgParts
<1>5. Total(T) = r.size /\ S \ T = R BY <1>1, <1>3, SgOneRow
<1>6. Total(R) \in Nat BY SgTotalNat
<1>7. Total(S) = r.size + Total(R) BY <1>4, <1>5
<1>8. Total(S) = Total(R) + r.size BY <1>6, <1>7
<1> QED BY <1>1, <1>2, <1>8

\* The same for the entries of a map of values.
SgEntries(kv, K) == IsFiniteSet(K) /\ \A k \in K : kv[k].size \in Nat
SgSizeOf(kv, K, k) == IF k \in K THEN kv[k].size ELSE 0

LEMMA SgBytesSame ==
    ASSUME NEW K, NEW f, NEW g, \A k \in K : f[k] = g[k]
    PROVE  Bytes(f, K) = Bytes(g, K)
BY DEF Bytes

LEMMA SgBytesParts ==
    ASSUME NEW kv, NEW K, SgEntries(kv, K), NEW T \in SUBSET K
    PROVE  /\ SgEntries(kv, T) /\ SgEntries(kv, K \ T)
           /\ Bytes(kv, T) \in Nat /\ Bytes(kv, K \ T) \in Nat /\ Bytes(kv, K) \in Nat
           /\ Bytes(kv, K) = Bytes(kv, T) + Bytes(kv, K \ T)
<1> DEFINE w(S) == [k \in S |-> kv[k].size]
<1>1. PICK U : U = K \ T OBVIOUS
<1>2. U \in SUBSET K /\ IsFiniteSet(K) /\ IsFiniteSet(T) /\ IsFiniteSet(U)
    BY <1>1, FS_Subset DEF SgEntries
<1>3. Weights(w(K), K) /\ Weights(w(T), T) /\ Weights(w(U), U) BY <1>2 DEF Weights, SgEntries
<1>4. PICK f, g, h : f = w(K) /\ g = w(T) /\ h = w(U) OBVIOUS
<1>5. Bytes(kv, K) = SumOf(f, K) /\ Bytes(kv, T) = SumOf(g, T) /\ Bytes(kv, U) = SumOf(h, U)
    BY <1>4 DEF Bytes
<1>6. (\A x \in T : f[x] = g[x]) /\ (\A x \in U : f[x] = h[x]) BY <1>2, <1>4
<1>7. Weights(f, K) /\ Weights(g, T) /\ Weights(h, U) BY <1>3, <1>4
<1> HIDE DEF w
<1>8. SumOf(f, T) = SumOf(g, T) BY <1>2, <1>6, SumSame
<1>9. SumOf(f, U) = SumOf(h, U) BY <1>2, <1>6, SumSame
<1>10. SumOf(f, K) = SumOf(f, T) + SumOf(f, K \ T) BY <1>2, <1>7, SumWithin
<1>11. SumOf(f, K) \in Nat /\ SumOf(g, T) \in Nat /\ SumOf(h, U) \in Nat BY <1>2, <1>7, SumNat
<1>12. SgEntries(kv, T) /\ SgEntries(kv, U) BY <1>2 DEF SgEntries
<1> QED BY <1>1, <1>5, <1>8, <1>9, <1>10, <1>11, <1>12

\* With and without one entry.
LEMMA SgBytesWithout ==
    ASSUME NEW kv, NEW K, SgEntries(kv, K), NEW k
    PROVE  /\ SgSizeOf(kv, K, k) \in Nat /\ Bytes(kv, K \ {k}) \in Nat
           /\ Bytes(kv, K) = SgSizeOf(kv, K, k) + Bytes(kv, K \ {k})
<1>1. CASE k \notin K
    <2>1. K \ {k} = K /\ SgSizeOf(kv, K, k) = 0 BY <1>1 DEF SgSizeOf
    <2>2. PICK T \in SUBSET K : T = K OBVIOUS
    <2>3. Bytes(kv, T) \in Nat BY SgBytesParts
    <2> QED BY <2>1, <2>2, <2>3
<1>2. CASE k \in K
    <2>1. PICK T \in SUBSET K : T = {k} BY <1>2
    <2>2. Bytes(kv, K) = Bytes(kv, T) + Bytes(kv, K \ T) BY SgBytesParts
    <2>3. Bytes(kv, K \ T) \in Nat BY SgBytesParts
    <2>4. kv[k].size \in Nat BY <1>2 DEF SgEntries
    <2>5. Bytes(kv, {k}) = kv[k].size
        <3>1. PICK f : f = [x \in {k} |-> kv[x].size] OBVIOUS
        <3>2. IsFiniteSet({k}) BY FS_Singleton
        <3>3. Weights(f, {k}) /\ f[k] = kv[k].size BY <2>4, <3>1 DEF Weights
        <3>4. \A x \in {k} : SumOf(f, {k}) = f[x] + SumOf(f, {k} \ {x}) BY <3>2, <3>3, SumSplits
        <3>5. {k} \ {k} = {} OBVIOUS
        <3>6. SumOf(f, {k}) = f[k] + SumOf(f, {}) BY <3>4, <3>5
        <3>7. Bytes(kv, {k}) = SumOf(f, {k}) BY <3>1 DEF Bytes
        <3> QED BY <2>4, <3>3, <3>6, <3>7, SumEmpty
    <2>6. SgSizeOf(kv, K, k) = kv[k].size BY <1>2 DEF SgSizeOf
    <2> QED BY <2>1, <2>2, <2>3, <2>4, <2>5, <2>6
<1> QED BY <1>1, <1>2

LEMMA SgBytesNat == ASSUME NEW kv, NEW K, SgEntries(kv, K) PROVE Bytes(kv, K) \in Nat
BY SgBytesParts

---------------------------------------------------------------------------
(* The rows of PostgreSQL: what values a namespace has, and their bytes.   *)

SgNames == {"n", "m", "x"}
SgNamed == [id : Int, org : {Org}, name : SgNames]
SgIn(R, ns) == {r \in R : r.ns = ns}
SgKeyed(R, ns, key) == {r \in R : r.ns = ns /\ r.key = key}

\* The usage recorded for an id is b bytes; none are if there is no record.
SgMetered(rows, id, b) ==
    /\ \A r \in rows : r.id = id => r.m.size = b
    /\ (\A r \in rows : r.id # id) => b = 0
SgMeters(rows, kv) == \A id \in Int : SgMetered(rows, id, Total(SgIn(kv, id)))
SgSizesIn(rows) == \A r \in rows : "size" \in DOMAIN r.m

SgValues(kv, namespaces) ==
    /\ SgSized(kv)
    /\ \A r, s \in kv : r.ns = s.ns /\ r.key = s.key => r = s
    /\ \A r \in kv : r.expires \in Nat /\ \E n \in namespaces : n.id = r.ns

SgObjectMeters(rows) ==
    /\ \A r \in rows : /\ {"size", "count"} \subseteq DOMAIN r.m
                       /\ r.m.size \in Nat /\ r.m.count \in Nat
    /\ \A r, s \in rows : r.id = s.id => r = s

SgBuckets(buckets) == /\ buckets \subseteq SgNamed /\ IsFiniteSet(buckets)
                      /\ \E b \in buckets : b.id = Bucket

SgPg(db) ==
    /\ DOMAIN PgResources \subseteq DOMAIN db
    /\ db.kv_namespaces \subseteq SgNamed
    /\ SgValues(db.runtime_kv, db.kv_namespaces)
    /\ SgSizesIn(db.kv_namespace_metrics)
    /\ SgBuckets(db.object_storage_buckets)
    /\ SgObjectMeters(db.object_storage_bucket_metrics)
    /\ \E d \in db.deployments : <<"bucket", Bucket>> \in d.binds

\* Usage is what is stored, as it is until a write was miscounted.
SgExact(db) == SgMeters(db.kv_namespace_metrics, db.runtime_kv)

\* The values that have not expired, of namespaces of the organization.
SgLiveRows(db, now) == {r \in db.runtime_kv : ~Expired(r, now)
                          /\ \E n \in db.kv_namespaces : n.id = r.ns /\ n.org = Org}
SgLive(db, now) == Total(SgLiveRows(db, now))
SgUsed(db) == RowOf(db.object_storage_bucket_metrics, Bucket, ZeroObjects)

\* A call that adds no values and leaves the usage of the bucket alone.
SgSameUse(d, e) == SgUsed(e).size = SgUsed(d).size /\ SgUsed(e).count = SgUsed(d).count
SgQuiet(d, e) == /\ SgPg(e) /\ SgSameUse(d, e) /\ e.runtime_kv \subseteq d.runtime_kv
                 /\ SgExact(d) => SgExact(e)

LEMMA SgTables ==
    DOMAIN PgResources = {"workers", "deployments", "worker_secrets", "kv_namespaces", "databases",
        "object_storage_buckets", "runtime_kv", "kv_namespace_metrics", "database_metrics",
        "object_storage_bucket_metrics"}
BY DEF PgResources

LEMMA SgMeteredRow ==
    ASSUME NEW rows, NEW id, NEW b, SgMetered(rows, id, b)
    PROVE  RowOf(rows, id, ZeroKV).size = b
BY DEF RowOf, SgMetered, ZeroKV

\* What a row of metrics says of the size can be changed.
LEMMA SgRowHasSize ==
    ASSUME NEW rows, NEW id, SgSizesIn(rows)
    PROVE  "size" \in DOMAIN RowOf(rows, id, ZeroKV)
BY DEF RowOf, ZeroKV, SgSizesIn
LEMMA SgRowsPut ==
    ASSUME NEW rows, NEW id, NEW m, SgSizesIn(rows), "size" \in DOMAIN m
    PROVE  SgSizesIn(PutRow(rows, id, m))
BY DEF PutRow, SgSizesIn

LEMMA SgMeteredPut ==
    ASSUME NEW rows, NEW id, NEW m, NEW j, NEW b, IF j = id THEN m.size = b ELSE SgMetered(rows, j, b)
    PROVE  SgMetered(PutRow(rows, id, m), j, b)
<1>1. \A r \in PutRow(rows, id, m) :
        IF r.id = id THEN r = [id |-> id, m |-> m] ELSE r \in rows
    BY DEF PutRow
<1>2. [id |-> id, m |-> m] \in PutRow(rows, id, m) BY DEF PutRow
<1>3. \A r \in rows : r.id # id => r \in PutRow(rows, id, m) BY DEF PutRow
<1>4. CASE j = id BY <1>1, <1>2, <1>4 DEF SgMetered
<1>5. CASE j # id BY <1>1, <1>3, <1>5 DEF SgMetered
<1> QED BY <1>4, <1>5

\* The values of one namespace change and its metrics with them; or they keep their bytes.
LEMMA SgMetersPut ==
    ASSUME NEW rows, NEW kv, SgMeters(rows, kv), NEW id \in Int, NEW m, NEW new,
           \A j \in Int : j # id => SgIn(new, j) = SgIn(kv, j), m.size = Total(SgIn(new, id))
    PROVE  SgMeters(PutRow(rows, id, m), new)
<1>1. ASSUME NEW j \in Int PROVE SgMetered(PutRow(rows, id, m), j, Total(SgIn(new, j)))
    BY SgMeteredPut DEF SgMeters
<1> QED BY <1>1 DEF SgMeters

LEMMA SgMetersKeep ==
    ASSUME NEW rows, NEW kv, SgMeters(rows, kv), NEW id, NEW new,
           \A j \in Int : j # id => SgIn(new, j) = SgIn(kv, j), Total(SgIn(new, id)) = Total(SgIn(kv, id))
    PROVE  SgMeters(rows, new)
BY DEF SgMeters

\* Values and their metrics are all that changes.
SgWith(d, kv, rows) == [d EXCEPT !.runtime_kv = kv, !.kv_namespace_metrics = rows]
LEMMA SgValuesChange ==
    ASSUME NEW d, SgPg(d), NEW kv, NEW rows, SgValues(kv, d.kv_namespaces), SgSizesIn(rows)
    PROVE  /\ SgPg(SgWith(d, kv, rows)) /\ SgUsed(SgWith(d, kv, rows)) = SgUsed(d)
           /\ SgExact(SgWith(d, kv, rows)) = SgMeters(rows, kv)
           /\ SgWith(d, kv, rows).runtime_kv = kv
           /\ SgWith(d, kv, rows).kv_namespaces = d.kv_namespaces
BY SgTables DEF SgPg, SgWith, SgUsed, SgExact

\* Fewer values are values still.
LEMMA SgValuesFewer ==
    ASSUME NEW kv, NEW namespaces, SgValues(kv, namespaces), NEW T \in SUBSET kv
    PROVE  SgValues(T, namespaces)
BY SgParts DEF SgValues

\* A purge takes expired values away, and their bytes from the usage.
LEMMA SgPgPurge ==
    ASSUME NEW d, SgPg(d), NEW ns \in Int, NEW now
    PROVE  SgQuiet(d, PgPurgeExpiredKV(d, ns, now))
<1> DEFINE kv == d.runtime_kv
           rows == d.kv_namespace_metrics
           gone == {r \in kv : r.ns = ns /\ Expired(r, now)}
           new == kv \ gone
           m == RowOf(rows, ns, ZeroKV)
           less == [m EXCEPT !.size = Clamp(@ - Total(gone))]
           after == IF Total(gone) = 0 THEN rows ELSE PutRow(rows, ns, less)
           e == SgWith(d, new, after)
<1>1. PgPurgeExpiredKV(d, ns, now) = e
    BY SgTables DEF PgPurgeExpiredKV, SgPg, SgWith
<1>2. SgValues(kv, d.kv_namespaces) /\ SgSizesIn(rows) BY DEF SgPg
<1>3. SgValues(new, d.kv_namespaces) BY <1>2, SgValuesFewer
<1>4. /\ Total(gone) \in Nat /\ Total(SgIn(new, ns)) \in Nat
      /\ Total(SgIn(kv, ns)) = Total(gone) + Total(SgIn(new, ns))
    <2>1. PICK R : R = SgIn(kv, ns) OBVIOUS
    <2>2. PICK T : T = gone OBVIOUS
    <2>3. T \in SUBSET R /\ R \ T = SgIn(new, ns) BY <2>1, <2>2 DEF SgIn
    <2>4. SgSized(R) BY <2>1, <1>2, SgParts DEF SgIn, SgValues
    <2>5. Total(T) \in Nat /\ Total(R \ T) \in Nat BY <2>3, <2>4, SgParts
    <2>6. Total(R) = Total(T) + Total(R \ T) BY <2>3, <2>4, SgParts
    <2> HIDE DEF gone, new, kv
    <2> QED BY <2>1, <2>2, <2>3, <2>5, <2>6
<1>5. \A j \in Int : j # ns => SgIn(new, j) = SgIn(kv, j) BY DEF SgIn
<1>6. "size" \in DOMAIN m BY <1>2, SgRowHasSize
<1>7. ASSUME SgMeters(rows, kv) PROVE SgMeters(after, new)
    <2>1. CASE Total(gone) = 0 BY <1>4, <2>1, <1>7, <1>5, SgMetersKeep
    <2>2. CASE Total(gone) # 0
        <3>1. m.size = Total(SgIn(kv, ns)) BY <1>7, SgMeteredRow DEF SgMeters
        <3> QED BY <1>6, <1>7, <3>1, <1>4, <2>2, <1>5, SgMetersPut DEF Clamp
    <2> QED BY <2>1, <2>2
<1>8. SgSizesIn(after) BY <1>2, <1>6, SgRowsPut
<1>9. /\ SgPg(e) /\ SgUsed(e) = SgUsed(d) /\ e.runtime_kv = new
      /\ SgExact(e) = SgMeters(after, new)
    <2>1. PICK a, b : a = new /\ b = after OBVIOUS
    <2>2. e = SgWith(d, a, b) BY <2>1
    <2>3. SgValues(a, d.kv_namespaces) /\ SgSizesIn(b) BY <1>3, <1>8, <2>1
    <2> HIDE DEF new, after, e, kv, rows, gone, m, less
    <2> QED BY <2>1, <2>2, <2>3, SgValuesChange
<1> HIDE DEF e
<1>10. e.runtime_kv \subseteq d.runtime_kv BY <1>9
<1> QED BY <1>1, <1>7, <1>9, <1>10 DEF SgQuiet, SgSameUse, SgExact

\* The live value of a key, as a set of at most one.
SgAt(db, now, ns, key) == SgKeyed(SgLiveRows(db, now), ns, key)

\* Rows that can take the place of the value of a key.
SgNew(rows, ns, key, namespaces) ==
    /\ SgSized(rows) /\ \A r, s \in rows : r = s
    /\ \A r \in rows : /\ r.ns = ns /\ r.key = key /\ r.expires \in Nat
                       /\ \E n \in namespaces : n.id = ns

\* Parts of two sets of rows.
LEMMA SgReplaced ==
    ASSUME NEW R, SgSized(R), NEW old \in SUBSET R, NEW rows, SgSized(rows), rows \cap (R \ old) = {}
    PROVE  /\ SgSized((R \ old) \cup rows)
           /\ Total((R \ old) \cup rows) = Total(R) - Total(old) + Total(rows)
<1>1. PICK U : U = (R \ old) \cup rows OBVIOUS
<1>2. SgSized(R \ old) /\ Total(old) \in Nat /\ Total(R \ old) \in Nat BY SgParts
<1>3. Total(R) = Total(old) + Total(R \ old) BY SgParts
<1>4. SgSized(U) BY <1>2, FS_Union, <1>1 DEF SgSized
<1>5. rows \in SUBSET U /\ U \ rows = R \ old BY <1>1
<1>6. Total(U) = Total(rows) + Total(U \ rows) BY <1>4, <1>5, SgParts
<1>7. Total(rows) \in Nat BY SgTotalNat
<1>8. Total(U \ rows) = Total(R \ old) BY <1>5
<1>9. Total(U) = Total(R) - Total(old) + Total(rows) BY <1>2, <1>3, <1>6, <1>7, <1>8
<1> QED BY <1>1, <1>4, <1>9

\* The change in bytes.
SgDelta(d, ns, key, rows, delta) == delta = Total(rows) - Total(SgKeyed(d.runtime_kv, ns, key))

LEMMA SgPgWrite ==
    ASSUME NEW d, SgPg(d), NEW ns \in Int, NEW key, NEW rows, SgNew(rows, ns, key, d.kv_namespaces),
           NEW delta \in Int
    PROVE  /\ SgPg(PgSizeDelta(d, ns, key, rows, delta))
           /\ SgUsed(PgSizeDelta(d, ns, key, rows, delta)) = SgUsed(d)
           /\ SgDelta(d, ns, key, rows, delta) /\ SgExact(d)
                => SgExact(PgSizeDelta(d, ns, key, rows, delta))
           /\ \A now \in Nat : SgLive(PgSizeDelta(d, ns, key, rows, delta), now)
                <= SgLive(d, now) - Total(SgAt(d, now, ns, key)) + Total(rows)
<1>1. PICK kv, metrics, old, new, m : /\ kv = d.runtime_kv /\ metrics = d.kv_namespace_metrics
                                      /\ old = SgKeyed(kv, ns, key) /\ new = (kv \ old) \cup rows
                                      /\ m = RowOf(metrics, ns, ZeroKV)
    OBVIOUS
<1>2. PICK l : l = [m EXCEPT !.size = Clamp(@ + delta)] OBVIOUS
<1>3. PICK after : after = IF delta = 0 THEN metrics ELSE PutRow(metrics, ns, l) OBVIOUS
<1>4. PgSizeDelta(d, ns, key, rows, delta) = SgWith(d, new, after)
    BY <1>1, <1>2, <1>3, SgTables DEF SgKeyed, SgPg, PgSizeDelta, SgWith
<1>5. SgValues(kv, d.kv_namespaces) /\ SgSizesIn(metrics) BY <1>1 DEF SgPg
<1>6. SgSized(kv) /\ SgSized(rows) BY <1>5 DEF SgValues, SgNew
<1>7. old \in SUBSET kv /\ old \in SUBSET SgIn(kv, ns) /\ rows \cap (kv \ old) = {}
    BY <1>1 DEF SgKeyed, SgIn, SgNew
<1>8. SgValues(new, d.kv_namespaces)
    <2>1. SgSized(new) BY <1>1, <1>6, <1>7, SgReplaced
    <2> QED BY <1>1, <1>5, <2>1 DEF SgValues, SgNew, SgKeyed
<1>9. /\ SgDelta(d, ns, key, rows, delta)
            => Total(SgIn(new, ns)) = Total(SgIn(kv, ns)) + delta
      /\ Total(SgIn(new, ns)) \in Nat /\ Total(SgIn(kv, ns)) \in Nat
    <2>1. PICK R : R = SgIn(kv, ns) OBVIOUS
    <2>2. SgSized(R) BY <2>1, <1>6, SgParts DEF SgIn
    <2>3. old \in SUBSET R /\ rows \cap (R \ old) = {} BY <1>7, <2>1 DEF SgIn
    <2>4. SgIn(new, ns) = (R \ old) \cup rows BY <1>1, <2>1 DEF SgIn, SgNew, SgKeyed
    <2>5. SgSized((R \ old) \cup rows) BY <1>6, <2>2, <2>3, SgReplaced
    <2>6. Total((R \ old) \cup rows) = Total(R) - Total(old) + Total(rows)
        BY <1>6, <2>2, <2>3, SgReplaced
    <2>7. SgSized(old) BY <1>6, <1>7, SgParts
    <2>8. Total(R) \in Nat /\ Total(old) \in Nat /\ Total(rows) \in Nat
        BY <1>6, <2>2, <2>7, SgTotalNat
    <2>9. Total(SgIn(new, ns)) \in Nat BY <2>4, <2>5, SgTotalNat
    <2>10. SgDelta(d, ns, key, rows, delta) => delta = Total(rows) - Total(old) BY <1>1 DEF SgDelta
    <2> QED BY <2>1, <2>4, <2>6, <2>8, <2>9, <2>10
<1>10. \A j \in Int : j # ns => SgIn(new, j) = SgIn(kv, j) BY <1>1 DEF SgIn, SgNew, SgKeyed
<1>11. "size" \in DOMAIN m BY <1>1, <1>5, SgRowHasSize
<1>12. SgSizesIn(after) BY <1>2, <1>3, <1>5, <1>11, SgRowsPut
<1>13. PICK e : e = SgWith(d, new, after) OBVIOUS
<1>14. /\ SgPg(e) /\ SgUsed(e) = SgUsed(d) /\ SgExact(e) = SgMeters(after, new)
       /\ e.runtime_kv = new /\ e.kv_namespaces = d.kv_namespaces
    BY <1>8, <1>12, <1>13, SgValuesChange
<1>15. ASSUME SgDelta(d, ns, key, rows, delta), SgExact(d) PROVE SgExact(e)
    <2>1. SgMeters(metrics, kv) BY <1>1, <1>15 DEF SgExact
    <2>2. m.size = Total(SgIn(kv, ns)) BY <1>1, <2>1, SgMeteredRow DEF SgMeters
    <2>3. Total(SgIn(new, ns)) = Total(SgIn(kv, ns)) + delta BY <1>9, <1>15
    <2>4. CASE delta = 0 BY <1>3, <1>9, <1>10, <1>14, <2>1, <2>3, <2>4, SgMetersKeep
    <2>5. CASE delta # 0
        <3>1. l.size = Total(SgIn(new, ns)) BY <1>2, <1>9, <1>11, <2>2, <2>3 DEF Clamp
        <3> QED BY <1>3, <1>10, <1>14, <2>1, <2>5, <3>1, SgMetersPut
    <2> QED BY <2>4, <2>5
<1>16. ASSUME NEW now \in Nat
       PROVE  SgLive(e, now) <= SgLive(d, now) - Total(SgAt(d, now, ns, key)) + Total(rows)
    <2>1. PICK X, Y, A : X = SgLiveRows(d, now) /\ Y = SgLiveRows(e, now) /\ A = SgAt(d, now, ns, key)
        OBVIOUS
    <2>2. A \in SUBSET X BY <2>1 DEF SgAt, SgKeyed
    <2>3. X \in SUBSET kv /\ Y \in SUBSET new BY <1>1, <1>14, <2>1 DEF SgLiveRows
    <2>4. Y \ rows \in SUBSET (X \ A) /\ Y \cap rows \in SUBSET rows
        BY <1>1, <1>14, <2>1, <2>3 DEF SgLiveRows, SgAt, SgKeyed
    <2>5. SgSized(new) BY <1>8 DEF SgValues
    <2>6. SgSized(X) /\ SgSized(Y) BY <1>6, <2>3, <2>5, SgParts
    <2>7. PICK T, U, V : T = Y \cap rows /\ U = Y \ rows /\ V = X \ A OBVIOUS
    <2>8. T \in SUBSET Y /\ Y \ T = U /\ U \in SUBSET V /\ T \in SUBSET rows BY <2>4, <2>7
    <2>9. Total(Y) = Total(T) + Total(Y \ T) BY <2>6, <2>8, SgParts
    <2>10. Total(X) = Total(A) + Total(X \ A) BY <2>2, <2>6, SgParts
    <2>11. SgSized(V) /\ Total(A) \in Nat BY <2>2, <2>6, <2>7, SgParts
    <2>12. Total(T) \in Nat /\ Total(rows) \in Nat /\ Total(T) <= Total(rows)
        BY <1>6, <2>8, SgTotalMonotone
    <2>13. Total(U) \in Nat /\ Total(V) \in Nat /\ Total(U) <= Total(V)
        BY <2>8, <2>11, SgTotalMonotone
    <2>14. Total(Y) = Total(T) + Total(U) BY <2>8, <2>9
    <2>15. Total(X) = Total(A) + Total(V) BY <2>7, <2>10
    <2>16. Total(Y) <= Total(X) - Total(A) + Total(rows) BY <2>11, <2>12, <2>13, <2>14, <2>15
    <2> QED BY <2>1, <2>16 DEF SgLive
<1> QED BY <1>4, <1>13, <1>14, <1>15, <1>16

---------------------------------------------------------------------------
(* The calls on PostgreSQL about values.                                   *)

LEMMA SgMissing ==
    ASSUME NEW a, "id" \in DOMAIN a PROVE a # NotFound
BY DEF NotFound

\* Every value that has not expired counts, since all namespaces are the organization's.
LEMMA SgLiveAll ==
    ASSUME NEW d, SgPg(d), NEW now
    PROVE  SgLiveRows(d, now) = {r \in d.runtime_kv : ~Expired(r, now)}
BY DEF SgPg, SgValues, SgNamed, SgLiveRows

LEMMA SgLiveNat ==
    ASSUME NEW d, SgPg(d), NEW now PROVE SgSized(SgLiveRows(d, now)) /\ SgLive(d, now) \in Nat
BY SgParts DEF SgPg, SgValues, SgLiveRows, SgLive

\* A call that adds no values leaves no more in use, nor does time.
LEMMA SgFewerLive ==
    ASSUME NEW d, SgPg(d), NEW e, SgPg(e), e.runtime_kv \subseteq d.runtime_kv,
           NEW now \in Nat, NEW then \in Nat, now <= then
    PROVE  SgLive(e, then) <= SgLive(d, now)
BY SgLiveAll, SgLiveNat, SgTotalMonotone DEF SgPg, SgValues, Expired, SgLive

\* What the live value of a key takes is known when its size is asked for.
LEMMA SgAtNat ==
    ASSUME NEW d, SgPg(d), NEW now, NEW ns, NEW key
    PROVE  Total(SgAt(d, now, ns, key)) \in Nat
BY SgLiveNat, SgParts DEF SgAt, SgKeyed

SgSizeOrNone(v) == IF v = Missing THEN 0 ELSE v
LEMMA SgPgValueSize ==
    ASSUME NEW d, SgPg(d), NEW cap, NEW ns, NEW key, NEW now
    PROVE  /\ SgSizeOrNone(PgKVValueSize(d, cap, ns, key, now).val) \in Nat
           /\ SgSizeOrNone(PgKVValueSize(d, cap, ns, key, now).val) <= Total(SgAt(d, now, ns, key))
           /\ PgKVValueSize(d, cap, ns, key, now).db = d
<1>1. PICK rows : rows = {r \in d.runtime_kv : r.ns = ns /\ r.key = key /\ ~Expired(r, now)} OBVIOUS
<1>2. rows = SgAt(d, now, ns, key) BY SgLiveAll, <1>1 DEF SgAt, SgKeyed
<1>3. Total(rows) \in Nat BY <1>2, SgAtNat
<1>4. PICK p : p = PgKVValueSize(d, cap, ns, key, now) OBVIOUS
<1>5. CASE rows = {}
    BY <1>1, <1>4, <1>5, <1>2, <1>3 DEF PgKVValueSize, PgKVGet, Answer, SgSizeOrNone
<1>6. CASE rows # {}
    <2>1. PICK r \in rows : r = One(rows) BY <1>6 DEF One
    <2>2. rows = {r} /\ r.size \in Nat BY <1>1, <2>1 DEF SgPg, SgValues, SgSized
    <2>3. Total(rows) = r.size BY <2>2, SgOneRow
    <2>4. p.val \in {Missing, r.size} /\ p.db = d
        BY <1>1, <1>4, <1>6, <2>1 DEF PgKVValueSize, PgKVGet, Answer
    <2> QED BY <1>2, <1>3, <1>4, <2>2, <2>3, <2>4 DEF SgSizeOrNone, Missing
<1> QED BY <1>5, <1>6

\* A write changes the value of one key, or nothing when it is refused; the usage is right
\* after it if the size it had read is the one it replaces.
SgWrote(d, p, key, grow, old) ==
    /\ SgPg(p.db) /\ SgUsed(p.db) = SgUsed(d) /\ p.val \in Int
    /\ SgExact(d) /\ old = PgKVOldSize(d, NS, key) => SgExact(p.db)
    /\ \/ p.db = d /\ p.val = 0
       \/ \A now \in Nat : SgLive(p.db, now) <= SgLive(d, now) - Total(SgAt(d, now, NS, key)) + grow

LEMMA SgPgPut ==
    ASSUME NEW d, SgPg(d), NEW cap, NEW key, NEW v, v.size \in Nat, v.expires \in Nat, NEW old \in Nat
    PROVE  SgWrote(d, PgKVPutWithSizeDelta(d, cap, NS, key, v, old), key, v.size, old)
<1>1. PICK delta, row, p : /\ delta = v.size - old
                           /\ row = PgKVRow(NS, key, v)
                           /\ p = PgKVPutWithSizeDelta(d, cap, NS, key, v, old)
    OBVIOUS
<1>2. NS \in Int /\ delta \in Int BY <1>1 DEF NS
<1>3. PgKVOldSize(d, NS, key) = Total(SgKeyed(d.runtime_kv, NS, key)) BY DEF PgKVOldSize, SgKeyed
<1>4. CASE ~PgKVAllowed(d, cap, NS) BY <1>1, <1>4 DEF PgKVPutWithSizeDelta, Answer, SgWrote
<1>5. CASE PgKVAllowed(d, cap, NS)
    <2>1. p = Answer(PgSizeDelta(d, NS, key, {row}, delta), "ok", delta)
        BY <1>1, <1>5 DEF PgKVPutWithSizeDelta
    <2>2. PICK rows : rows = {row} OBVIOUS
    <2>3. p.db = PgSizeDelta(d, NS, key, rows, delta) /\ p.val = delta BY <2>1, <2>2 DEF Answer
    <2>4. row.ns = NS /\ row.key = key /\ row.size = v.size /\ row.expires = v.expires
        BY <1>1 DEF PgKVRow
    <2>5. SgSized(rows) /\ Total(rows) = v.size BY <2>2, <2>4, SgOneRow
    <2>6. \E n \in d.kv_namespaces : n.id = NS BY <1>5 DEF PgKVAllowed, PgGetKVNamespace, One
    <2>7. SgNew(rows, NS, key, d.kv_namespaces) BY <2>2, <2>4, <2>5, <2>6 DEF SgNew
    <2>8. old = PgKVOldSize(d, NS, key) => SgDelta(d, NS, key, rows, delta)
        BY <1>1, <1>3, <2>5 DEF SgDelta
    <2>9. /\ SgPg(p.db) /\ SgUsed(p.db) = SgUsed(d)
          /\ SgDelta(d, NS, key, rows, delta) /\ SgExact(d) => SgExact(p.db)
        BY <1>2, <2>3, <2>7, SgPgWrite
    <2>10. \A now \in Nat : SgLive(p.db, now)
                <= SgLive(d, now) - Total(SgAt(d, now, NS, key)) + Total(rows)
        BY <1>2, <2>3, <2>7, SgPgWrite
    <2> QED BY <1>1, <1>2, <2>3, <2>5, <2>8, <2>9, <2>10 DEF SgWrote
<1> QED BY <1>4, <1>5

LEMMA SgPgDelete ==
    ASSUME NEW d, SgPg(d), NEW cap, NEW key, NEW old \in Nat
    PROVE  SgWrote(d, PgKVDeleteWithSizeDelta(d, cap, NS, key, old), key, 0, old)
<1>1. PICK delta, p : delta = 0 - old /\ p = PgKVDeleteWithSizeDelta(d, cap, NS, key, old)
    OBVIOUS
<1>2. NS \in Int /\ delta \in Int BY <1>1 DEF NS
<1>3. PgKVOldSize(d, NS, key) = Total(SgKeyed(d.runtime_kv, NS, key)) BY DEF PgKVOldSize, SgKeyed
<1>4. CASE ~PgKVAllowed(d, cap, NS) BY <1>1, <1>4 DEF PgKVDeleteWithSizeDelta, Answer, SgWrote
<1>5. CASE PgKVAllowed(d, cap, NS)
    <2>1. p = Answer(PgSizeDelta(d, NS, key, {}, delta), "ok", delta)
        BY <1>1, <1>5 DEF PgKVDeleteWithSizeDelta
    <2>2. PICK rows : rows = {} OBVIOUS
    <2>3. p.db = PgSizeDelta(d, NS, key, rows, delta) /\ p.val = delta BY <2>1, <2>2 DEF Answer
    <2>4. SgSized(rows) /\ Total(rows) = 0 BY FS_EmptySet, <2>2, SgNoRows DEF SgSized
    <2>5. SgNew(rows, NS, key, d.kv_namespaces) BY <2>2, <2>4 DEF SgNew
    <2>6. old = PgKVOldSize(d, NS, key) => SgDelta(d, NS, key, rows, delta)
        BY <1>1, <1>3, <2>4 DEF SgDelta
    <2>7. /\ SgPg(p.db) /\ SgUsed(p.db) = SgUsed(d)
          /\ SgDelta(d, NS, key, rows, delta) /\ SgExact(d) => SgExact(p.db)
        BY <1>2, <2>3, <2>5, SgPgWrite
    <2>8. \A now \in Nat : SgLive(p.db, now)
                <= SgLive(d, now) - Total(SgAt(d, now, NS, key)) + Total(rows)
        BY <1>2, <2>3, <2>5, SgPgWrite
    <2> QED BY <1>1, <1>2, <2>3, <2>4, <2>6, <2>7, <2>8 DEF SgWrote
<1> QED BY <1>4, <1>5

---------------------------------------------------------------------------
(* The calls on PostgreSQL about counters, buckets and the catalog.        *)

LEMMA SgRefused == \A db, why : Refused(db, why).db = db
BY DEF Refused
LEMMA SgDone == \A db : Done(db).db = db
BY DEF Done

\* A change that touches none of the tables in question.
SgFrame(d, e) ==
    /\ DOMAIN e = DOMAIN d /\ e.runtime_kv = d.runtime_kv
    /\ e.kv_namespaces = d.kv_namespaces /\ e.kv_namespace_metrics = d.kv_namespace_metrics
    /\ e.object_storage_buckets = d.object_storage_buckets
    /\ e.object_storage_bucket_metrics = d.object_storage_bucket_metrics
    /\ e.deployments = d.deployments
LEMMA SgFrameQuiet == ASSUME NEW d, SgPg(d), NEW e, SgFrame(d, e) PROVE SgQuiet(d, e)
BY DEF SgPg, SgFrame, SgQuiet, SgSameUse, SgUsed, SgExact
LEMMA SgSame == ASSUME NEW d, SgPg(d) PROVE SgQuiet(d, d)
BY DEF SgQuiet, SgSameUse

\* Counting a read or a write of a namespace.
SgKVCounted(rows, ns, m) == m.size = RowOf(rows, ns, ZeroKV).size /\ "size" \in DOMAIN m
LEMMA SgPgKVCounted ==
    ASSUME NEW d, SgPg(d), NEW ns \in Int, NEW m, SgKVCounted(d.kv_namespace_metrics, ns, m)
    PROVE  SgQuiet(d, [d EXCEPT !.kv_namespace_metrics = PutRow(@, ns, m)])
<1>1. PICK rows, kv, b : /\ rows = d.kv_namespace_metrics /\ kv = d.runtime_kv
                         /\ b = Total(SgIn(kv, ns))
    OBVIOUS
<1>2. SgSizesIn(rows) /\ SgValues(kv, d.kv_namespaces) BY <1>1 DEF SgPg
<1>3. ASSUME SgMeters(rows, kv) PROVE SgMeters(PutRow(rows, ns, m), kv)
    <2>1. m.size = b BY <1>1, <1>3, SgMeteredRow DEF SgMeters, SgKVCounted
    <2> QED BY <1>1, <1>3, <2>1, SgMetersPut
<1>4. SgSizesIn(PutRow(rows, ns, m)) BY <1>1, <1>2, SgRowsPut DEF SgKVCounted
<1>5. PICK after : after = PutRow(rows, ns, m) OBVIOUS
<1>6. SgPg(SgWith(d, kv, after)) /\ SgUsed(SgWith(d, kv, after)) = SgUsed(d)
      /\ SgWith(d, kv, after).runtime_kv = kv
      /\ SgExact(SgWith(d, kv, after)) = SgMeters(after, kv)
    BY <1>2, <1>4, <1>5, SgValuesChange
<1>7. [d EXCEPT !.kv_namespace_metrics = PutRow(@, ns, m)] = SgWith(d, kv, after)
    BY <1>1, <1>5, SgTables DEF SgWith, SgPg
<1> QED BY <1>1, <1>3, <1>5, <1>6, <1>7 DEF SgQuiet, SgSameUse, SgExact

LEMMA SgPgKVReads ==
    ASSUME NEW d, SgPg(d)
    PROVE  /\ SgQuiet(d, PgIncrementKVNamespaceReads(d, NS).db)
           /\ SgQuiet(d, PgIncrementKVNamespaceWrites(d, NS).db)
<1>1. PICK m, rows : rows = d.kv_namespace_metrics /\ m = RowOf(rows, NS, ZeroKV) OBVIOUS
<1>2. PICK r, w : r = OneRead(m) /\ w = OneWrite(m) OBVIOUS
<1>3. "size" \in DOMAIN m BY <1>1, SgRowHasSize DEF SgPg
<1>4. SgKVCounted(rows, NS, r) /\ SgKVCounted(rows, NS, w)
    BY <1>1, <1>2, <1>3 DEF SgKVCounted, OneRead, OneWrite
<1>5. NS \in Int BY DEF NS
<1>6. /\ SgQuiet(d, [d EXCEPT !.kv_namespace_metrics = PutRow(@, NS, r)])
      /\ SgQuiet(d, [d EXCEPT !.kv_namespace_metrics = PutRow(@, NS, w)])
    BY <1>1, <1>4, <1>5, SgPgKVCounted
<1>7. \/ PgIncrementKVNamespaceReads(d, NS).db = d
      \/ PgIncrementKVNamespaceReads(d, NS).db = [d EXCEPT !.kv_namespace_metrics = PutRow(@, NS, r)]
    BY <1>1, <1>2, SgRefused, SgDone, Zenon DEF PgIncrementKVNamespaceReads, PgCountUse
<1>8. \/ PgIncrementKVNamespaceWrites(d, NS).db = d
      \/ PgIncrementKVNamespaceWrites(d, NS).db = [d EXCEPT !.kv_namespace_metrics = PutRow(@, NS, w)]
    BY <1>1, <1>2, SgRefused, SgDone, Zenon DEF PgIncrementKVNamespaceWrites, PgCountUse
<1> QED BY <1>6, <1>7, <1>8, SgSame, Zenon

\* The metrics of the bucket.
LEMMA SgUsedRow ==
    ASSUME NEW rows, SgObjectMeters(rows), NEW id
    PROVE  LET m == RowOf(rows, id, ZeroObjects)
           IN  /\ {"size", "count"} \subseteq DOMAIN m /\ m.size \in Nat /\ m.count \in Nat
               /\ \A r \in rows : r.id = id => m = r.m
               /\ (\A r \in rows : r.id # id) => m = ZeroObjects
BY DEF SgObjectMeters, RowOf, ZeroObjects

SgObjectMetrics(m) == {"size", "count"} \subseteq DOMAIN m /\ m.size \in Nat /\ m.count \in Nat
\* The usage of the bucket becomes that of m; nothing else changes.
SgAdjusted(d, e, size, count) ==
    /\ SgPg(e) /\ e.runtime_kv = d.runtime_kv /\ SgExact(e) = SgExact(d)
    /\ SgUsed(e).size = size /\ SgUsed(e).count = count
LEMMA SgUsedNat ==
    ASSUME NEW d, SgPg(d) PROVE SgObjectMetrics(SgUsed(d))
BY SgUsedRow DEF SgPg, SgUsed, SgObjectMetrics
LEMMA SgPgObjects ==
    ASSUME NEW d, SgPg(d), NEW m, SgObjectMetrics(m)
    PROVE  SgAdjusted(d, [d EXCEPT !.object_storage_bucket_metrics = PutRow(@, Bucket, m)],
                      m.size, m.count)
<1>1. PICK rows, after, e : /\ rows = d.object_storage_bucket_metrics
                            /\ after = PutRow(rows, Bucket, m)
                            /\ e = [d EXCEPT !.object_storage_bucket_metrics = after]
    OBVIOUS
<1>2. SgObjectMeters(rows) BY <1>1 DEF SgPg
<1>3. PICK x : x = [id |-> Bucket, m |-> m] OBVIOUS
<1>4. \A r \in after : IF r.id = Bucket THEN r = x ELSE r \in rows
    BY <1>1, <1>3 DEF PutRow
<1>5. x \in after /\ x.id = Bucket /\ x.m = m BY <1>1, <1>3 DEF PutRow
<1>6. SgObjectMeters(after) BY <1>2, <1>4, <1>5 DEF SgObjectMeters, SgObjectMetrics
<1>7. RowOf(after, Bucket, ZeroObjects) = m BY <1>5, <1>6, SgUsedRow
<1>8. /\ DOMAIN e = DOMAIN d /\ e.runtime_kv = d.runtime_kv
      /\ e.kv_namespaces = d.kv_namespaces /\ e.kv_namespace_metrics = d.kv_namespace_metrics
      /\ e.object_storage_buckets = d.object_storage_buckets
      /\ e.object_storage_bucket_metrics = after /\ e.deployments = d.deployments
    BY <1>1, SgTables DEF SgPg
<1>9. SgPg(e) BY <1>6, <1>8 DEF SgPg
<1>10. SgUsed(e) = m BY <1>7, <1>8 DEF SgUsed
<1> QED BY <1>1, <1>8, <1>9, <1>10 DEF SgAdjusted, SgExact

\* The bucket is there, so its counters change.
LEMMA SgBucketThere ==
    ASSUME NEW d, SgPg(d)
    PROVE  /\ \E r \in d.object_storage_buckets : r.id = Bucket
           /\ PgGetObjectStorageBucket(d, Bucket) # NotFound
BY SgMissing DEF SgPg, SgBuckets, SgNamed, One, PgGetObjectStorageBucket

LEMMA SgClamp == \A n \in Int : Clamp(n) \in Nat
BY DEF Clamp

LEMMA SgPgObjectCalls ==
    ASSUME NEW d, SgPg(d), NEW delta \in Int
    PROVE  LET u == SgUsed(d)
           IN  /\ SgAdjusted(d, PgIncrementObjectStorageBucketReads(d, Bucket).db, u.size, u.count)
               /\ SgAdjusted(d, PgIncrementObjectStorageBucketWrites(d, Bucket).db, u.size, u.count)
               /\ SgAdjusted(d, PgAdjustObjectStorageBucketSize(d, Bucket, delta).db,
                             Clamp(u.size + delta), u.count)
               /\ SgAdjusted(d, PgAdjustObjectStorageBucketObjectCount(d, Bucket, delta).db,
                             u.size, Clamp(u.count + delta))
               /\ SgAdjusted(d, PgSetObjectStorageBucketObjectCount(d, Bucket, delta).db,
                             u.size, Clamp(delta))
<1>1. PICK u : u = SgUsed(d) OBVIOUS
<1>2. SgObjectMetrics(u) BY <1>1, SgUsedNat
<1>3. u.size \in Nat /\ u.count \in Nat /\ {"size", "count"} \subseteq DOMAIN u
    BY <1>2 DEF SgObjectMetrics
<1>4. PICK r, w, s, c, n :
        /\ r = [u EXCEPT !.reads = @ + 1] /\ w = [u EXCEPT !.writes = @ + 1]
        /\ s = [u EXCEPT !.size = Clamp(@ + delta)] /\ c = [u EXCEPT !.count = Clamp(@ + delta)]
        /\ n = [u EXCEPT !.count = Clamp(delta)]
    OBVIOUS
<1>5. /\ Clamp(u.size + delta) \in Nat /\ Clamp(u.count + delta) \in Nat /\ Clamp(delta) \in Nat
    BY <1>3, SgClamp
<1>6. /\ SgObjectMetrics(r) /\ r.size = u.size /\ r.count = u.count
      /\ SgObjectMetrics(w) /\ w.size = u.size /\ w.count = u.count
    BY <1>3, <1>4 DEF SgObjectMetrics
<1>7. /\ SgObjectMetrics(s) /\ s.size = Clamp(u.size + delta) /\ s.count = u.count
      /\ SgObjectMetrics(c) /\ c.size = u.size /\ c.count = Clamp(u.count + delta)
      /\ SgObjectMetrics(n) /\ n.size = u.size /\ n.count = Clamp(delta)
    BY <1>3, <1>4, <1>5 DEF SgObjectMetrics
<1>8. \E x \in d.object_storage_buckets : x.id = Bucket BY SgBucketThere
<1> DEFINE with(m) == [d EXCEPT !.object_storage_bucket_metrics = PutRow(@, Bucket, m)]
<1>9. /\ PgIncrementObjectStorageBucketReads(d, Bucket) = Done(with(r))
      /\ PgIncrementObjectStorageBucketWrites(d, Bucket) = Done(with(w))
    BY <1>1, <1>4, <1>8, Zenon DEF PgIncrementObjectStorageBucketReads,
       PgIncrementObjectStorageBucketWrites, PgObjects, PgCountUse, SgUsed, OneRead, OneWrite
<1>10. /\ PgAdjustObjectStorageBucketSize(d, Bucket, delta) = Done(with(s))
       /\ PgAdjustObjectStorageBucketObjectCount(d, Bucket, delta) = Done(with(c))
       /\ PgSetObjectStorageBucketObjectCount(d, Bucket, delta) = Done(with(n))
    BY <1>1, <1>4, <1>8, Zenon DEF PgAdjustObjectStorageBucketSize,
       PgAdjustObjectStorageBucketObjectCount, PgSetObjectStorageBucketObjectCount, PgObjects,
       PgCountUse, SgUsed
<1>11. \A m : SgObjectMetrics(m) => SgAdjusted(d, with(m), m.size, m.count) BY SgPgObjects
<1> HIDE DEF with
<1>12. /\ SgAdjusted(d, with(r), u.size, u.count) /\ SgAdjusted(d, with(w), u.size, u.count)
       /\ SgAdjusted(d, with(s), Clamp(u.size + delta), u.count)
       /\ SgAdjusted(d, with(c), u.size, Clamp(u.count + delta))
       /\ SgAdjusted(d, with(n), u.size, Clamp(delta))
    BY <1>6, <1>7, <1>11, Zenon
<1> QED BY <1>1, <1>9, <1>10, <1>12, SgDone, Zenon

---------------------------------------------------------------------------
(* The catalog.                                                            *)

SgKeeps(S, T) == T \subseteq SgNamed /\ \A x \in S : \E y \in T : y.id = x.id

\* Names change, ids and organizations do not.
SgRename(S, rows, name) == Replace(S, rows, {[x EXCEPT !.name = name] : x \in rows})
LEMMA SgRenamed ==
    ASSUME NEW S, S \subseteq SgNamed, NEW rows \in SUBSET S, NEW name \in SgNames
    PROVE  /\ SgKeeps(S, SgRename(S, rows, name))
           /\ IsFiniteSet(S) => IsFiniteSet(SgRename(S, rows, name))
<1> DEFINE new == {[x EXCEPT !.name = name] : x \in rows}
           T == Replace(S, rows, new)
<1>1. new \subseteq SgNamed BY DEF SgNamed
<1>2. T \subseteq SgNamed BY <1>1 DEF Replace
<1>3. ASSUME NEW x \in S PROVE \E y \in T : y.id = x.id
    <2>1. CASE x \in rows
        <3>1. [x EXCEPT !.name = name] \in T BY <2>1 DEF Replace
        <3>2. [x EXCEPT !.name = name].id = x.id BY DEF SgNamed
        <3> QED BY <3>1, <3>2
    <2>2. CASE x \notin rows BY <2>2 DEF Replace
    <2> QED BY <2>1, <2>2
<1>4. ASSUME IsFiniteSet(S) PROVE IsFiniteSet(T)
    <2>1. PICK f : f = [x \in rows |-> [x EXCEPT !.name = name]] OBVIOUS
    <2>2. f \in Surjection(rows, new) BY <2>1 DEF Surjection
    <2>3. IsFiniteSet(rows) /\ IsFiniteSet(S \ rows) BY <1>4, FS_Subset
    <2>4. PICK N : N = new OBVIOUS
    <2>5. IsFiniteSet(N) BY <2>2, <2>3, <2>4, FS_Surjection
    <2>6. IsFiniteSet((S \ rows) \cup N) BY <2>3, <2>5, FS_Union
    <2> QED BY <2>4, <2>6 DEF Replace
<1> QED BY <1>2, <1>3, <1>4 DEF SgRename, SgKeeps

\* Tables of namespaces and of buckets change so that every id there was is kept.
SgCatalog(d, e, namespaces, buckets) ==
    /\ DOMAIN e = DOMAIN d /\ e.runtime_kv = d.runtime_kv
    /\ e.kv_namespaces = namespaces /\ e.kv_namespace_metrics = d.kv_namespace_metrics
    /\ e.object_storage_buckets = buckets
    /\ e.object_storage_bucket_metrics = d.object_storage_bucket_metrics
    /\ e.deployments = d.deployments
LEMMA SgCatalogQuiet ==
    ASSUME NEW d, SgPg(d), NEW e, NEW namespaces, NEW buckets, SgCatalog(d, e, namespaces, buckets),
           SgKeeps(d.kv_namespaces, namespaces), SgKeeps(d.object_storage_buckets, buckets),
           IsFiniteSet(buckets)
    PROVE  SgQuiet(d, e)
BY DEF SgPg, SgBuckets, SgKeeps, SgValues, SgCatalog, SgQuiet, SgSameUse, SgUsed, SgExact

LEMMA SgPgCreate ==
    ASSUME NEW d, SgPg(d), NEW r \in SgNamed
    PROVE  /\ SgQuiet(d, PgCreateKVNamespace(d, r).db) /\ SgQuiet(d, PgCreateDatabase(d, r).db)
           /\ SgQuiet(d, PgCreateObjectStorageBucket(d, r).db)
<1> DEFINE with(table) == [d EXCEPT ![table] = @ \cup {r}]
<1>1. \A table : PgCreateNamed(d, table, r).db = d \/ PgCreateNamed(d, table, r).db = with(table)
    BY SgRefused, SgDone, Zenon DEF PgCreateNamed
<1>2. DOMAIN PgResources \subseteq DOMAIN d /\ d.kv_namespaces \subseteq SgNamed
      /\ d.object_storage_buckets \subseteq SgNamed /\ IsFiniteSet(d.object_storage_buckets)
    BY DEF SgPg, SgBuckets
<1>3. PICK N, B, M, C : /\ N = d.kv_namespaces /\ B = d.object_storage_buckets
                        /\ M = N \cup {r} /\ C = B \cup {r}
    OBVIOUS
<1>4. SgCatalog(d, with("kv_namespaces"), M, B) BY <1>2, <1>3, SgTables DEF SgCatalog
<1>5. SgCatalog(d, with("databases"), N, B) BY <1>2, <1>3, SgTables DEF SgCatalog
<1>6. SgCatalog(d, with("object_storage_buckets"), N, C) BY <1>2, <1>3, SgTables DEF SgCatalog
<1>7. IsFiniteSet(C) /\ IsFiniteSet(B) BY <1>2, <1>3, FS_AddElement
<1>8. SgKeeps(N, N) /\ SgKeeps(N, M) /\ SgKeeps(B, B) /\ SgKeeps(B, C)
    BY <1>2, <1>3 DEF SgKeeps
<1> HIDE DEF with
<1>9. SgQuiet(d, with("kv_namespaces")) BY <1>3, <1>4, <1>7, <1>8, SgCatalogQuiet
<1>10. SgQuiet(d, with("databases")) BY <1>3, <1>5, <1>7, <1>8, SgCatalogQuiet
<1>11. SgQuiet(d, with("object_storage_buckets")) BY <1>3, <1>6, <1>7, <1>8, SgCatalogQuiet
<1>12. SgQuiet(d, d) BY SgSame
<1> QED BY <1>1, <1>9, <1>10, <1>11, <1>12, Zenon
      DEF PgCreateKVNamespace, PgCreateDatabase, PgCreateObjectStorageBucket

LEMMA SgPgUpdate ==
    ASSUME NEW d, SgPg(d), NEW r, r.name \in SgNames
    PROVE  /\ SgQuiet(d, PgUpdateKVNamespace(d, r).db)
           /\ SgQuiet(d, PgUpdateObjectStorageBucket(d, r).db)
<1> DEFINE rows(table) == {x \in d[table] : x.id = r.id}
           new(table) == Replace(d[table], rows(table), {[x EXCEPT !.name = r.name] : x \in rows(table)})
           with(table) == [d EXCEPT ![table] = new(table)]
<1>1. \A table : PgUpdateNamed(d, table, r).db = d \/ PgUpdateNamed(d, table, r).db = with(table)
    BY SgRefused, SgDone, Zenon DEF PgUpdateNamed
<1>2. DOMAIN PgResources \subseteq DOMAIN d /\ d.kv_namespaces \subseteq SgNamed
      /\ d.object_storage_buckets \subseteq SgNamed /\ IsFiniteSet(d.object_storage_buckets)
    BY DEF SgPg, SgBuckets
<1>3. PICK N, B, M, C : /\ N = d.kv_namespaces /\ B = d.object_storage_buckets
                        /\ M = new("kv_namespaces") /\ C = new("object_storage_buckets")
    OBVIOUS
<1>4. SgKeeps(N, M) BY <1>3, <1>2, SgRenamed DEF SgRename
<1>5. SgKeeps(B, C) /\ IsFiniteSet(C) BY <1>3, <1>2, SgRenamed DEF SgRename
<1> HIDE DEF new
<1>6. SgCatalog(d, with("kv_namespaces"), M, B) BY <1>2, <1>3, SgTables DEF SgCatalog
<1>7. SgCatalog(d, with("object_storage_buckets"), N, C) BY <1>2, <1>3, SgTables DEF SgCatalog
<1>8. SgKeeps(N, N) /\ SgKeeps(B, B) BY <1>2, <1>3 DEF SgKeeps
<1> HIDE DEF with
<1>9. SgQuiet(d, with("kv_namespaces")) BY <1>2, <1>3, <1>4, <1>6, <1>8, SgCatalogQuiet
<1>10. SgQuiet(d, with("object_storage_buckets")) BY <1>2, <1>3, <1>5, <1>7, <1>8, SgCatalogQuiet
<1>11. SgQuiet(d, d) BY SgSame
<1> QED BY <1>1, <1>9, <1>10, <1>11, Zenon DEF PgUpdateKVNamespace, PgUpdateObjectStorageBucket

\* A namespace goes with its values and its metrics.
LEMMA SgPgDeleteNamespace ==
    ASSUME NEW d, SgPg(d), NEW id PROVE SgQuiet(d, PgDeleteKVNamespace(d, id).db)
<1> DEFINE e == [d EXCEPT !.kv_namespaces = {r \in @ : r.id # id},
                          !.runtime_kv = {r \in @ : r.ns # id},
                          !.kv_namespace_metrics = {r \in @ : r.id # id}]
<1>1. PgDeleteKVNamespace(d, id).db = d \/ PgDeleteKVNamespace(d, id).db = e
    BY SgRefused, SgDone, Zenon DEF PgDeleteKVNamespace
<1>2. PICK N, kv, rows : /\ N = {r \in d.kv_namespaces : r.id # id}
                         /\ kv = {r \in d.runtime_kv : r.ns # id}
                         /\ rows = {r \in d.kv_namespace_metrics : r.id # id}
    OBVIOUS
<1>3. /\ DOMAIN e = DOMAIN d /\ e.runtime_kv = kv
      /\ e.kv_namespaces = N /\ e.kv_namespace_metrics = rows
      /\ e.object_storage_buckets = d.object_storage_buckets
      /\ e.object_storage_bucket_metrics = d.object_storage_bucket_metrics
      /\ e.deployments = d.deployments
    BY <1>2, SgTables DEF SgPg
<1> HIDE DEF e
<1>4. SgValues(kv, N) BY <1>2, SgParts DEF SgPg, SgValues
<1>5. ASSUME SgExact(d) PROVE SgMeters(rows, kv)
    <2>1. ASSUME NEW j \in Int PROVE SgMetered(rows, j, Total(SgIn(kv, j)))
        <3>1. CASE j = id BY <1>2, <3>1, SgNoRows DEF SgIn, SgMetered
        <3>2. CASE j # id
            <4>1. SgIn(kv, j) = SgIn(d.runtime_kv, j) BY <1>2, <3>2 DEF SgIn
            <4>2. SgMetered(d.kv_namespace_metrics, j, Total(SgIn(d.runtime_kv, j)))
                BY <1>5 DEF SgExact, SgMeters
            <4>3. PICK b : b = Total(SgIn(d.runtime_kv, j)) OBVIOUS
            <4>4. SgMetered(d.kv_namespace_metrics, j, b) BY <4>2, <4>3
            <4>5. SgMetered(rows, j, b) BY <1>2, <3>2, <4>4 DEF SgMetered
            <4> QED BY <4>1, <4>3, <4>5
        <3> QED BY <3>1, <3>2
    <2> QED BY <2>1 DEF SgMeters
<1>6. N \subseteq SgNamed /\ kv \subseteq d.runtime_kv /\ SgSizesIn(rows)
    BY <1>2 DEF SgPg, SgSizesIn
<1>7. SgQuiet(d, e) BY <1>3, <1>4, <1>5, <1>6 DEF SgPg, SgQuiet, SgSameUse, SgUsed, SgExact
<1> QED BY <1>1, <1>7, SgSame

LEMMA SgPgDeleteDatabase ==
    ASSUME NEW d, SgPg(d), NEW id PROVE SgQuiet(d, PgDeleteDatabase(d, id).db)
<1> DEFINE e == [d EXCEPT !.databases = {r \in @ : r.id # id},
                          !.database_metrics = {r \in @ : r.id # id}]
<1>1. PgDeleteDatabase(d, id).db = d \/ PgDeleteDatabase(d, id).db = e
    BY SgRefused, SgDone, Zenon DEF PgDeleteDatabase
<1>2. SgFrame(d, e) BY SgTables DEF SgPg, SgFrame
<1> QED BY <1>1, <1>2, SgSame, SgFrameQuiet

\* The bucket stays, since a deployment binds it.
LEMMA SgPgDeleteBucket ==
    ASSUME NEW d, SgPg(d), NEW id PROVE SgQuiet(d, PgDeleteObjectStorageBucket(d, id).db)
<1> DEFINE e == [d EXCEPT !.object_storage_buckets = {r \in @ : r.id # id},
                          !.object_storage_bucket_metrics = {r \in @ : r.id # id}]
<1>1. \/ PgDeleteObjectStorageBucket(d, id).db = d
      \/ PgDeleteObjectStorageBucket(d, id).db = e /\ ~PgBinds(d, <<"bucket", id>>)
    BY SgRefused, SgDone, Zenon DEF PgDeleteObjectStorageBucket
<1>2. SUFFICES ASSUME ~PgBinds(d, <<"bucket", id>>) PROVE SgQuiet(d, e) BY <1>1, SgSame
<1>3. id # Bucket BY <1>2 DEF PgBinds, SgPg
<1>4. PICK B, rows, old : /\ B = {r \in d.object_storage_buckets : r.id # id}
                          /\ old = d.object_storage_bucket_metrics
                          /\ rows = {r \in old : r.id # id}
    OBVIOUS
<1>5. /\ DOMAIN e = DOMAIN d /\ e.runtime_kv = d.runtime_kv
      /\ e.kv_namespaces = d.kv_namespaces /\ e.kv_namespace_metrics = d.kv_namespace_metrics
      /\ e.object_storage_buckets = B /\ e.object_storage_bucket_metrics = rows
      /\ e.deployments = d.deployments
    BY <1>4, SgTables DEF SgPg
<1> HIDE DEF e
<1>6. SgBuckets(B) BY <1>4, FS_Subset, <1>3 DEF SgPg, SgBuckets
<1>7. SgObjectMeters(rows) /\ SgObjectMeters(old) BY <1>4 DEF SgPg, SgObjectMeters
<1>8. RowOf(rows, Bucket, ZeroObjects) = RowOf(old, Bucket, ZeroObjects)
    BY <1>7, SgUsedRow, <1>3, <1>4
<1>9. SgUsed(e) = SgUsed(d) BY <1>4, <1>5, <1>8 DEF SgUsed
<1> QED BY <1>5, <1>6, <1>7, <1>9 DEF SgPg, SgQuiet, SgSameUse, SgExact

\* What is recorded of databases is in other tables.
LEMMA SgPgDatabase ==
    ASSUME NEW d, SgPg(d), NEW id, NEW n, NEW q
    PROVE  /\ SgQuiet(d, PgUpdateDatabaseRuntimeStats(d, id, n).db)
           /\ SgQuiet(d, PgRecordDatabaseQueryMetrics(d, id, q).db)
<1> DEFINE with(m) == [d EXCEPT !.database_metrics = PutRow(@, id, m)]
<1>1. PgUpdateDatabaseRuntimeStats(d, id, n).db = d \/ \E m : PgUpdateDatabaseRuntimeStats(d, id, n).db = with(m)
    <2>1. \/ PgUpdateDatabaseRuntimeStats(d, id, n) = Refused(d, "not found")
          \/ \E m : PgUpdateDatabaseRuntimeStats(d, id, n) = Done(with(m))
        BY Zenon DEF PgUpdateDatabaseRuntimeStats, PgCountUse
    <2>2. CASE PgUpdateDatabaseRuntimeStats(d, id, n) = Refused(d, "not found")
        BY <2>2, SgRefused, Zenon
    <2>3. CASE \E m : PgUpdateDatabaseRuntimeStats(d, id, n) = Done(with(m))
        <3>1. PICK m : PgUpdateDatabaseRuntimeStats(d, id, n) = Done(with(m)) BY <2>3, Zenon
        <3>2. PgUpdateDatabaseRuntimeStats(d, id, n).db = with(m) BY <3>1, SgDone, Zenon
        <3> QED BY <3>2, Zenon
    <2> QED BY <2>1, <2>2, <2>3, Zenon
<1>2. PgRecordDatabaseQueryMetrics(d, id, q).db = d \/ \E m : PgRecordDatabaseQueryMetrics(d, id, q).db = with(m)
    <2>1. \/ PgRecordDatabaseQueryMetrics(d, id, q) = Refused(d, "not found")
          \/ \E m : PgRecordDatabaseQueryMetrics(d, id, q) = Done(with(m))
        BY Zenon DEF PgRecordDatabaseQueryMetrics, PgCountUse
    <2>2. CASE PgRecordDatabaseQueryMetrics(d, id, q) = Refused(d, "not found")
        BY <2>2, SgRefused, Zenon
    <2>3. CASE \E m : PgRecordDatabaseQueryMetrics(d, id, q) = Done(with(m))
        <3>1. PICK m : PgRecordDatabaseQueryMetrics(d, id, q) = Done(with(m)) BY <2>3, Zenon
        <3>2. PgRecordDatabaseQueryMetrics(d, id, q).db = with(m) BY <3>1, SgDone, Zenon
        <3> QED BY <3>2, Zenon
    <2> QED BY <2>1, <2>2, <2>3, Zenon
<1>3. ASSUME NEW m PROVE SgQuiet(d, with(m)) BY SgTables, SgFrameQuiet DEF SgPg, SgFrame
<1> HIDE DEF with
<1> QED BY <1>1, <1>2, <1>3, SgSame

\* Looking at a namespace purges it.
LEMMA SgPgLook ==
    ASSUME NEW d, SgPg(d), NEW now
    PROVE  /\ SgQuiet(d, PgKVNamespaceMetrics(d, NS, now).db)
           /\ \A cap : SgQuiet(d, PgKVList(d, cap, NS, now).db)
           /\ \A prefix, cursor, limit :
                SgQuiet(d, PgKVListPage(d, Keys, NS, prefix, cursor, limit, now).db)
BY SgPgPurge, SgSame DEF NS, PgKVNamespaceMetrics, Answer, PgKVList, PgKVListPage

\* What the organization's buckets take is at least what the bucket takes.
LEMMA SgPgObjectBytes ==
    ASSUME NEW d, SgPg(d)
    PROVE  /\ PgObjectStorageBytesByOrg(d, Org) \in Nat
           /\ SgUsed(d).size <= PgObjectStorageBytesByOrg(d, Org)
<1>1. PICK rows, f : /\ rows = {r \in d.object_storage_buckets : r.org = Org}
                     /\ f = [r \in rows |->
                                RowOf(d.object_storage_bucket_metrics, r.id, ZeroObjects).size]
    OBVIOUS
<1>2. PgObjectStorageBytesByOrg(d, Org) = SumOf(f, rows)
    BY <1>1 DEF PgObjectStorageBytesByOrg
<1>3. SgBuckets(d.object_storage_buckets) /\ SgObjectMeters(d.object_storage_bucket_metrics)
    BY DEF SgPg
<1>4. PICK b \in rows : b.id = Bucket BY <1>1, <1>3 DEF SgBuckets, SgNamed
<1>5. IsFiniteSet(rows) BY <1>1, <1>3, FS_Subset DEF SgBuckets
<1>6. Weights(f, rows) BY <1>1, <1>3, SgUsedRow DEF Weights
<1>7. f[b] = SgUsed(d).size BY <1>1, <1>4 DEF SgUsed
<1>8. SumOf(f, rows) = f[b] + SumOf(f, rows \ {b}) BY <1>4, <1>5, <1>6, SumSplits
<1>9. PICK rest : rest = rows \ {b} OBVIOUS
<1>10. IsFiniteSet(rest) /\ Weights(f, rest) BY <1>5, <1>6, <1>9, FS_Subset DEF Weights
<1>11. SumOf(f, rest) \in Nat BY <1>10, SumNat
<1>12. f[b] \in Nat BY <1>4, <1>6 DEF Weights
<1> QED BY <1>2, <1>7, <1>8, <1>9, <1>11, <1>12

---------------------------------------------------------------------------
(* The maps of the store.                                                  *)

SgKeysIn(kv, ns) == {k \in DOMAIN kv : k[1] = ns}
SgMapMeters(metrics, kv) ==
    /\ \A n \in DOMAIN metrics : "size" \in DOMAIN metrics[n]
    /\ \A n \in Int : MetricsOf(metrics, n, ZeroKV).size = Bytes(kv, SgKeysIn(kv, n))
SgStore(db) ==
    /\ DOMAIN StoreResources \subseteq DOMAIN db
    /\ DOMAIN db.kvNamespaces \subseteq Int
    /\ SgEntries(db.kv, DOMAIN db.kv)
    /\ SgMapMeters(db.kvMetrics, db.kv)

LEMMA SgMaps ==
    DOMAIN StoreResources = {"apps", "capabilityToApp", "deployments", "active", "secrets",
        "kvNamespaces", "databases", "objectBuckets", "kv", "kvMetrics", "dbMetrics", "objectMetrics"}
BY DEF StoreResources

LEMMA SgMapHasSize ==
    ASSUME NEW metrics, \A n \in DOMAIN metrics : "size" \in DOMAIN metrics[n], NEW n
    PROVE  "size" \in DOMAIN MetricsOf(metrics, n, ZeroKV)
BY DEF MetricsOf, ZeroKV

LEMMA SgKeysEntries ==
    ASSUME NEW kv, SgEntries(kv, DOMAIN kv), NEW n PROVE SgEntries(kv, SgKeysIn(kv, n))
BY SgBytesParts DEF SgKeysIn

\* What matters of a store is these three maps.
LEMMA SgStoreChange ==
    ASSUME NEW d, SgStore(d), NEW e, DOMAIN e = DOMAIN d, DOMAIN e.kvNamespaces \subseteq Int,
           SgEntries(e.kv, DOMAIN e.kv), SgMapMeters(e.kvMetrics, e.kv)
    PROVE  SgStore(e)
BY DEF SgStore

\* One namespace changes, and its metrics with it.
LEMMA SgMapPut ==
    ASSUME NEW metrics, NEW kv, SgMapMeters(metrics, kv), NEW ns, NEW new, NEW m, "size" \in DOMAIN m,
           m.size = Bytes(new, SgKeysIn(new, ns)),
           \A n \in Int : n # ns => /\ SgKeysIn(new, n) = SgKeysIn(kv, n)
                                    /\ \A k \in SgKeysIn(kv, n) : new[k] = kv[k]
    PROVE  SgMapMeters(Put(metrics, ns, m), new)
<1>1. PICK after : after = Put(metrics, ns, m) OBVIOUS
<1>2. DOMAIN after = DOMAIN metrics \cup {ns} /\ after[ns] = m
      /\ \A n \in DOMAIN metrics : n # ns => after[n] = metrics[n]
    BY <1>1 DEF Put
<1>3. \A n \in DOMAIN after : "size" \in DOMAIN after[n] BY <1>2 DEF SgMapMeters
<1>4. ASSUME NEW n \in Int PROVE MetricsOf(after, n, ZeroKV).size = Bytes(new, SgKeysIn(new, n))
    BY <1>2, SgBytesSame DEF MetricsOf, SgMapMeters
<1> QED BY <1>1, <1>3, <1>4 DEF SgMapMeters

\* The value of one key is written or dropped.
SgKeySize(kv, k) == IF k \in DOMAIN kv THEN kv[k].size ELSE 0
LEMMA SgStoreDrop ==
    ASSUME NEW d, SgStore(d), NEW ns \in Int, NEW key
    PROVE  LET k == <<ns, key>>
               m == MetricsOf(d.kvMetrics, ns, ZeroKV)
           IN  SgStore([d EXCEPT !.kv = Drop(@, k), !.kvMetrics = Put(@, ns,
                            [m EXCEPT !.size = Clamp(@ - SgKeySize(d.kv, k))])])
<1>1. PICK k, m, kv, metrics, new, K : /\ k = <<ns, key>> /\ m = MetricsOf(d.kvMetrics, ns, ZeroKV)
                                       /\ kv = d.kv /\ metrics = d.kvMetrics /\ new = Drop(kv, k)
                                       /\ K = SgKeysIn(kv, ns)
    OBVIOUS
<1>2. k[1] = ns BY <1>1
<1>3. SgMapMeters(metrics, kv) /\ SgEntries(kv, DOMAIN kv) BY <1>1 DEF SgStore
<1>4. SgEntries(kv, K) BY <1>1, <1>3, SgKeysEntries
<1>5. /\ SgSizeOf(kv, K, k) \in Nat /\ Bytes(kv, K \ {k}) \in Nat
      /\ Bytes(kv, K) = SgSizeOf(kv, K, k) + Bytes(kv, K \ {k})
    BY <1>4, SgBytesWithout
<1>6. SgSizeOf(kv, K, k) = SgKeySize(kv, k) BY <1>1, <1>2 DEF SgSizeOf, SgKeySize, SgKeysIn
<1>7. m.size = Bytes(kv, K) /\ "size" \in DOMAIN m BY <1>1, <1>3, SgMapHasSize DEF SgMapMeters
<1>8. DOMAIN new = DOMAIN kv \ {k} /\ \A x \in DOMAIN new : new[x] = kv[x] BY <1>1 DEF Drop
<1>9. SgKeysIn(new, ns) = K \ {k} BY <1>1, <1>8 DEF SgKeysIn
<1>10. PICK l : l = [m EXCEPT !.size = Clamp(@ - SgKeySize(kv, k))] OBVIOUS
<1>11. "size" \in DOMAIN l /\ l.size = Bytes(new, SgKeysIn(new, ns))
    <2>1. PICK T : T = K \ {k} OBVIOUS
    <2>2. \A x \in T : new[x] = kv[x] BY <1>1, <1>8, <2>1 DEF SgKeysIn
    <2>3. Bytes(new, T) = Bytes(kv, T) BY <2>2, SgBytesSame
    <2>4. l.size = Clamp(m.size - SgKeySize(kv, k)) /\ "size" \in DOMAIN l BY <1>7, <1>10
    <2>5. l.size = Bytes(kv, T) BY <1>5, <1>6, <1>7, <2>1, <2>4 DEF Clamp
    <2> QED BY <1>9, <2>1, <2>3, <2>4, <2>5
<1>12. SgMapMeters(Put(metrics, ns, l), new) BY <1>2, <1>8, <1>3, <1>11, SgMapPut DEF SgKeysIn
<1>13. SgEntries(new, DOMAIN new) BY <1>3, <1>8, FS_Subset DEF SgEntries
<1>14. PICK e : e = [d EXCEPT !.kv = new, !.kvMetrics = Put(metrics, ns, l)] OBVIOUS
<1>15. /\ DOMAIN e = DOMAIN d /\ e.kvNamespaces = d.kvNamespaces /\ e.kv = new
       /\ e.kvMetrics = Put(metrics, ns, l)
    BY <1>14, SgMaps DEF SgStore
<1>16. SgStore(e) BY <1>12, <1>13, <1>15, SgStoreChange DEF SgStore
<1>17. e = [d EXCEPT !.kv = Drop(@, k), !.kvMetrics = Put(@, ns, l)]
    BY <1>1, <1>14
<1> QED BY <1>1, <1>10, <1>16, <1>17

LEMMA SgStorePut ==
    ASSUME NEW d, SgStore(d), NEW ns \in Int, NEW key, NEW v, v.size \in Nat
    PROVE  LET k == <<ns, key>>
               m == MetricsOf(d.kvMetrics, ns, ZeroKV)
           IN  SgStore([d EXCEPT !.kv = Put(@, k, v), !.kvMetrics = Put(@, ns,
                            [m EXCEPT !.size = Clamp(@ + (v.size - SgKeySize(d.kv, k)))])])
<1>1. PICK k, m, kv, metrics, new, K : /\ k = <<ns, key>> /\ m = MetricsOf(d.kvMetrics, ns, ZeroKV)
                                       /\ kv = d.kv /\ metrics = d.kvMetrics /\ new = Put(kv, k, v)
                                       /\ K = SgKeysIn(kv, ns)
    OBVIOUS
<1>2. k[1] = ns BY <1>1
<1>3. SgMapMeters(metrics, kv) /\ SgEntries(kv, DOMAIN kv) BY <1>1 DEF SgStore
<1>4. SgEntries(kv, K) BY <1>1, <1>3, SgKeysEntries
<1>5. /\ SgSizeOf(kv, K, k) \in Nat /\ Bytes(kv, K \ {k}) \in Nat
      /\ Bytes(kv, K) = SgSizeOf(kv, K, k) + Bytes(kv, K \ {k})
    BY <1>4, SgBytesWithout
<1>6. SgSizeOf(kv, K, k) = SgKeySize(kv, k) BY <1>1, <1>2 DEF SgSizeOf, SgKeySize, SgKeysIn
<1>7. m.size = Bytes(kv, K) /\ "size" \in DOMAIN m BY <1>1, <1>3, SgMapHasSize DEF SgMapMeters
<1>8. DOMAIN new = DOMAIN kv \cup {k} /\ new[k] = v /\ \A x \in DOMAIN kv \ {k} : new[x] = kv[x]
    BY <1>1 DEF Put
<1>9. PICK N : N = SgKeysIn(new, ns) OBVIOUS
<1>10. N = K \cup {k} /\ k \in N /\ N \ {k} = K \ {k} BY <1>1, <1>2, <1>8, <1>9 DEF SgKeysIn
<1>11. SgEntries(new, DOMAIN new) BY <1>3, <1>8, FS_AddElement DEF SgEntries
<1>12. Bytes(new, N) = v.size + Bytes(kv, K \ {k})
    <2>1. SgEntries(new, N) BY <1>9, <1>11, SgKeysEntries
    <2>2. Bytes(new, N) = SgSizeOf(new, N, k) + Bytes(new, N \ {k}) BY <2>1, SgBytesWithout
    <2>3. SgSizeOf(new, N, k) = v.size BY <1>8, <1>10 DEF SgSizeOf
    <2>4. PICK T : T = K \ {k} OBVIOUS
    <2>5. \A x \in T : new[x] = kv[x] BY <1>1, <1>8, <2>4 DEF SgKeysIn
    <2>6. Bytes(new, T) = Bytes(kv, T) BY <2>5, SgBytesSame
    <2> QED BY <1>10, <2>2, <2>3, <2>4, <2>6
<1>13. PICK l : l = [m EXCEPT !.size = Clamp(@ + (v.size - SgKeySize(kv, k)))] OBVIOUS
<1>14. "size" \in DOMAIN l /\ l.size = Bytes(new, SgKeysIn(new, ns))
    BY <1>7, <1>13, <1>5, <1>6, <1>9, <1>12 DEF Clamp
<1>15. SgMapMeters(Put(metrics, ns, l), new) BY <1>2, <1>8, <1>3, <1>14, SgMapPut DEF SgKeysIn
<1>16. PICK e : e = [d EXCEPT !.kv = new, !.kvMetrics = Put(metrics, ns, l)] OBVIOUS
<1>17. /\ DOMAIN e = DOMAIN d /\ e.kvNamespaces = d.kvNamespaces /\ e.kv = new
       /\ e.kvMetrics = Put(metrics, ns, l)
    BY <1>16, SgMaps DEF SgStore
<1>18. SgStore(e) BY <1>11, <1>15, <1>17, SgStoreChange DEF SgStore
<1>19. e = [d EXCEPT !.kv = Put(@, k, v), !.kvMetrics = Put(@, ns, l)]
    BY <1>1, <1>16
<1> QED BY <1>1, <1>13, <1>18, <1>19

\* Expired values go, from any namespaces.
LEMMA SgStorePurge ==
    ASSUME NEW d, SgStore(d), NEW nss, NEW now PROVE SgStore(StorePurgeExpiredKV(d, nss, now))
<1> DEFINE left(gone, n) == [MetricsOf(d.kvMetrics, n, ZeroKV) EXCEPT
                                !.size = Clamp(@ - Bytes(d.kv, {k \in gone : k[1] = n}))]
<1>1. PICK kv, metrics, gone, purged, new, after :
        /\ kv = d.kv /\ metrics = d.kvMetrics
        /\ gone = {k \in DOMAIN kv : k[1] \in nss /\ Expired(kv[k], now)}
        /\ purged = {k[1] : k \in gone}
        /\ new = [k \in DOMAIN kv \ gone |-> kv[k]]
        /\ after = [n \in DOMAIN metrics \cup purged |->
                        IF n \in purged THEN left(gone, n) ELSE metrics[n]]
    OBVIOUS
<1>2. StorePurgeExpiredKV(d, nss, now) = [d EXCEPT !.kv = new, !.kvMetrics = after]
    BY <1>1, SgMaps DEF StorePurgeExpiredKV, SgStore
<1>3. SgMapMeters(metrics, kv) /\ SgEntries(kv, DOMAIN kv) BY <1>1 DEF SgStore
<1>4. DOMAIN new = DOMAIN kv \ gone /\ \A k \in DOMAIN new : new[k] = kv[k] BY <1>1
<1>5. SgEntries(new, DOMAIN new) BY <1>3, <1>4, FS_Subset DEF SgEntries
<1>6. \A n : "size" \in DOMAIN MetricsOf(metrics, n, ZeroKV)
    BY <1>3, SgMapHasSize DEF SgMapMeters
<1>7. DOMAIN after = DOMAIN metrics \cup purged
      /\ (\A n \in purged : after[n] = left(gone, n))
      /\ (\A n \in DOMAIN metrics \ purged : after[n] = metrics[n])
    BY <1>1
<1>8. ASSUME NEW n
      PROVE  /\ "size" \in DOMAIN left(gone, n)
             /\ left(gone, n).size = Clamp(MetricsOf(metrics, n, ZeroKV).size
                                            - Bytes(kv, {k \in gone : k[1] = n}))
    BY <1>1, <1>6
<1> HIDE DEF left
<1>9. \A n \in DOMAIN after : "size" \in DOMAIN after[n] BY <1>3, <1>7, <1>8 DEF SgMapMeters
<1>10. ASSUME NEW n \in Int PROVE MetricsOf(after, n, ZeroKV).size = Bytes(new, SgKeysIn(new, n))
    <2>1. PICK K, G, R : /\ K = SgKeysIn(kv, n) /\ G = {k \in gone : k[1] = n} /\ R = K \ G OBVIOUS
    <2>2. G \in SUBSET K BY <1>1, <2>1 DEF SgKeysIn
    <2>3. SgKeysIn(new, n) = R BY <1>4, <2>1 DEF SgKeysIn
    <2>4. SgEntries(kv, K) BY <1>3, <2>1, SgKeysEntries
    <2>5. Bytes(kv, K) = Bytes(kv, G) + Bytes(kv, K \ G) BY <2>2, <2>4, SgBytesParts
    <2>6. Bytes(kv, G) \in Nat /\ Bytes(kv, K \ G) \in Nat BY <2>2, <2>4, SgBytesParts
    <2>7. Bytes(new, R) = Bytes(kv, R) BY <1>4, <2>1, SgBytesSame DEF SgKeysIn
    <2>8. MetricsOf(metrics, n, ZeroKV).size = Bytes(kv, K) BY <1>3, <2>1 DEF SgMapMeters
    <2>9. CASE n \in purged
        <3>1. MetricsOf(after, n, ZeroKV).size = Clamp(Bytes(kv, K) - Bytes(kv, G))
            BY <1>7, <1>8, <2>1, <2>8, <2>9 DEF MetricsOf
        <3>2. Clamp(Bytes(kv, K) - Bytes(kv, G)) = Bytes(kv, K \ G) BY <2>5, <2>6 DEF Clamp
        <3> QED BY <2>1, <2>3, <2>7, <3>1, <3>2
    <2>10. CASE n \notin purged
        <3>1. G = {} BY <1>1, <2>1, <2>10
        <3>2. R = K BY <2>1, <3>1
        <3>3. MetricsOf(after, n, ZeroKV) = MetricsOf(metrics, n, ZeroKV)
            BY <1>7, <2>10 DEF MetricsOf
        <3> QED BY <2>3, <2>7, <2>8, <3>2, <3>3
    <2> QED BY <2>9, <2>10
<1>11. SgMapMeters(after, new) BY <1>9, <1>10 DEF SgMapMeters
<1>12. PICK e : e = [d EXCEPT !.kv = new, !.kvMetrics = after] OBVIOUS
<1>13. DOMAIN e = DOMAIN d /\ e.kvNamespaces = d.kvNamespaces /\ e.kv = new /\ e.kvMetrics = after
    BY <1>12, SgMaps DEF SgStore
<1>14. SgStore(e) BY <1>5, <1>11, <1>13, SgStoreChange DEF SgStore
<1> QED BY <1>2, <1>12, <1>14

---------------------------------------------------------------------------
(* The calls on the store.                                                 *)

SgStoreFrame(d, e) ==
    /\ DOMAIN e = DOMAIN d /\ DOMAIN e.kvNamespaces \subseteq Int
    /\ e.kv = d.kv /\ e.kvMetrics = d.kvMetrics
LEMMA SgStoreFrameKept == ASSUME NEW d, SgStore(d), NEW e, SgStoreFrame(d, e) PROVE SgStore(e)
BY SgStoreChange DEF SgStore, SgStoreFrame

LEMMA SgAnswer == \A db, out, val : Answer(db, out, val).db = db
BY DEF Answer
LEMMA SgEither ==
    ASSUME NEW a, NEW d, NEW e, \/ \E out, val : a = Answer(d, out, val)
                                \/ \E out, val : a = Answer(e, out, val)
    PROVE  a.db = d \/ a.db = e
BY SgAnswer

\* A value that has expired is dropped when it is met.
LEMMA SgStoreGet ==
    ASSUME NEW d, SgStore(d), NEW cap, NEW key, NEW now
    PROVE  /\ SgStore(StoreKVGet(d, cap, NS, key, now).db)
           /\ SgStore(StoreKVValueSize(d, cap, NS, key, now).db)
<1>1. PICK k, m : k = <<NS, key>> /\ m = MetricsOf(d.kvMetrics, NS, ZeroKV) OBVIOUS
<1>2. PICK e : e = StoreDropExpired(d, NS, key, now) OBVIOUS
<1>3. NS \in Int BY DEF NS
<1>4. SgStore(e) BY <1>1, <1>3, SgStoreDrop, <1>2 DEF SgKeySize, StoreDropExpired
<1>5. StoreKVGet(d, cap, NS, key, now).db = d \/ StoreKVGet(d, cap, NS, key, now).db = e
    <2>1. \/ \E out, val : StoreKVGet(d, cap, NS, key, now) = Answer(d, out, val)
          \/ \E out, val : StoreKVGet(d, cap, NS, key, now) = Answer(e, out, val)
        BY <1>2, Zenon DEF StoreKVGet
    <2> QED BY <2>1, SgEither, Zenon
<1> QED BY <1>4, <1>5, Zenon DEF StoreKVValueSize

\* Counting a read or a write leaves the size as it is.
LEMMA SgStoreCounted ==
    ASSUME NEW d, SgStore(d), NEW ns, NEW m, "size" \in DOMAIN m,
           m.size = MetricsOf(d.kvMetrics, ns, ZeroKV).size
    PROVE  SgStore([d EXCEPT !.kvMetrics = Put(@, ns, m)])
BY SgMaps, SgStoreChange DEF SgStore, Put, SgMapMeters, MetricsOf

LEMMA SgStoreKVReads ==
    ASSUME NEW d, SgStore(d)
    PROVE  /\ SgStore(StoreIncrementKVNamespaceReads(d, NS).db)
           /\ SgStore(StoreIncrementKVNamespaceWrites(d, NS).db)
<1>1. PICK metrics, m : metrics = d.kvMetrics /\ m = MetricsOf(metrics, NS, ZeroKV) OBVIOUS
<1>2. PICK r, w : r = OneRead(m) /\ w = OneWrite(m) OBVIOUS
<1>3. "size" \in DOMAIN m BY <1>1, SgMapHasSize DEF SgStore, SgMapMeters
<1>4. /\ "size" \in DOMAIN r /\ r.size = m.size /\ "size" \in DOMAIN w /\ w.size = m.size
    BY <1>2, <1>3 DEF OneRead, OneWrite
<1>5. /\ SgStore([d EXCEPT !.kvMetrics = Put(@, NS, r)])
      /\ SgStore([d EXCEPT !.kvMetrics = Put(@, NS, w)])
    BY <1>1, <1>4, SgStoreCounted
<1>6. \/ StoreIncrementKVNamespaceReads(d, NS).db = d
      \/ StoreIncrementKVNamespaceReads(d, NS).db = [d EXCEPT !.kvMetrics = Put(@, NS, r)]
    BY <1>1, <1>2, SgRefused, SgDone DEF StoreIncrementKVNamespaceReads, StoreCountUse
<1>7. \/ StoreIncrementKVNamespaceWrites(d, NS).db = d
      \/ StoreIncrementKVNamespaceWrites(d, NS).db = [d EXCEPT !.kvMetrics = Put(@, NS, w)]
    BY <1>1, <1>2, SgRefused, SgDone DEF StoreIncrementKVNamespaceWrites, StoreCountUse
<1> QED BY <1>5, <1>6, <1>7, Zenon

LEMMA SgStoreWrites ==
    ASSUME NEW d, SgStore(d), NEW cap, NEW key
    PROVE  /\ \A v : v.size \in Nat => SgStore(StoreKVPutWithSizeDelta(d, cap, NS, key, v).db)
           /\ SgStore(StoreKVDeleteWithSizeDelta(d, cap, NS, key).db)
<1>1. PICK k, m : k = <<NS, key>> /\ m = MetricsOf(d.kvMetrics, NS, ZeroKV) OBVIOUS
<1>2. NS \in Int BY DEF NS
<1>3. SgKeySize(d.kv, k) \in Nat BY <1>1 DEF SgKeySize, SgStore, SgEntries
<1>4. ASSUME NEW v, v.size \in Nat PROVE SgStore(StoreKVPutWithSizeDelta(d, cap, NS, key, v).db)
    <2>1. PICK e : e = [d EXCEPT !.kv = Put(@, k, v), !.kvMetrics = Put(@, NS,
                            [m EXCEPT !.size = Clamp(@ + (v.size - SgKeySize(d.kv, k)))])]
        OBVIOUS
    <2>2. SgStore(e) BY <1>1, <1>2, <1>4, <2>1, SgStorePut
    <2>3. StoreKVPutWithSizeDelta(d, cap, NS, key, v).db = d \/ StoreKVPutWithSizeDelta(d, cap, NS, key, v).db = e
        <3>1. \/ \E out, val : StoreKVPutWithSizeDelta(d, cap, NS, key, v) = Answer(d, out, val)
              \/ \E out, val : StoreKVPutWithSizeDelta(d, cap, NS, key, v) = Answer(e, out, val)
            BY <1>1, <2>1, Zenon DEF StoreKVPutWithSizeDelta, SgKeySize
        <3> QED BY <3>1, SgEither, Zenon
    <2> QED BY <2>2, <2>3, Zenon
<1>5. SgStore(StoreKVDeleteWithSizeDelta(d, cap, NS, key).db)
    <2>1. PICK e : e = [d EXCEPT !.kv = Drop(@, k), !.kvMetrics = Put(@, NS,
                            [m EXCEPT !.size = Clamp(@ - SgKeySize(d.kv, k))])]
        OBVIOUS
    <2>2. SgStore(e) BY <1>1, <1>2, <2>1, SgStoreDrop
    <2>3. e = [d EXCEPT !.kv = Drop(@, k), !.kvMetrics = Put(@, NS,
                            [m EXCEPT !.size = Clamp(@ + (0 - SgKeySize(d.kv, k)))])]
        <3>1. m.size \in Int /\ "size" \in DOMAIN m
            <4>1. PICK K, kv : kv = d.kv /\ K = SgKeysIn(kv, NS) OBVIOUS
            <4>2. SgEntries(kv, K) BY <4>1, SgKeysEntries DEF SgStore
            <4>3. Bytes(kv, K) \in Nat BY <4>2, SgBytesNat
            <4>4. m.size = Bytes(kv, K) BY <1>1, <1>2, <4>1 DEF SgStore, SgMapMeters
            <4>5. \A n \in DOMAIN d.kvMetrics : "size" \in DOMAIN d.kvMetrics[n]
                BY DEF SgStore, SgMapMeters
            <4>6. "size" \in DOMAIN m BY <1>1, <4>5, SgMapHasSize
            <4> QED BY <4>3, <4>4, <4>6
        <3>2. PICK s : s = SgKeySize(d.kv, k) OBVIOUS
        <3>3. m.size - s = m.size + (0 - s) BY <1>3, <3>1, <3>2
        <3>4. Clamp(m.size - s) = Clamp(m.size + (0 - s)) BY <3>3
        <3>5. [m EXCEPT !.size = Clamp(@ - s)] = [m EXCEPT !.size = Clamp(@ + (0 - s))]
            BY <3>1, <3>4
        <3> QED BY <2>1, <3>2, <3>5
    <2>4. StoreKVDeleteWithSizeDelta(d, cap, NS, key).db = d \/ StoreKVDeleteWithSizeDelta(d, cap, NS, key).db = e
        <3>1. \/ \E out, val : StoreKVDeleteWithSizeDelta(d, cap, NS, key) = Answer(d, out, val)
              \/ \E out, val : StoreKVDeleteWithSizeDelta(d, cap, NS, key) = Answer(e, out, val)
            BY <1>1, <2>3, Zenon DEF StoreKVDeleteWithSizeDelta, SgKeySize
        <3> QED BY <3>1, SgEither, Zenon
    <2> QED BY <2>2, <2>4, Zenon
<1> QED BY <1>4, <1>5

\* Looking at namespaces purges them.
LEMMA SgStoreLook ==
    ASSUME NEW d, SgStore(d), NEW now
    PROVE  /\ SgStore(StoreKVNamespaceMetrics(d, NS, now).db)
           /\ \A cap : SgStore(StoreKVList(d, cap, NS, now).db)
           /\ \A prefix, cursor, limit :
                SgStore(StoreKVListPage(d, Keys, NS, prefix, cursor, limit, now).db)
           /\ SgStore(StoreKVStorageBytesByOrg(d, Org, now).db)
<1>1. PICK one : one = {NS} OBVIOUS
<1>2. PICK e : e = StorePurgeExpiredKV(d, one, now) OBVIOUS
<1>3. SgStore(e) BY <1>2, SgStorePurge
<1>4. \/ \E val : StoreKVNamespaceMetrics(d, NS, now) = Answer(d, "refused", val)
      \/ \E val : StoreKVNamespaceMetrics(d, NS, now) = Answer(e, "ok", val)
    BY <1>1, <1>2, Zenon DEF StoreKVNamespaceMetrics
<1>5. \A cap : \E val : StoreKVList(d, cap, NS, now) = Answer(e, "ok", val)
    BY <1>1, <1>2, Zenon DEF StoreKVList
<1>6. \A prefix, cursor, limit : \E val :
        StoreKVListPage(d, Keys, NS, prefix, cursor, limit, now) = Answer(e, "ok", val)
    BY <1>1, <1>2, Zenon DEF StoreKVListPage
<1>7. PICK ids : ids = {n \in DOMAIN d.kvNamespaces : d.kvNamespaces[n].org = Org} OBVIOUS
<1>8. PICK f : f = StorePurgeExpiredKV(d, ids, now) OBVIOUS
<1>9. SgStore(f) BY <1>8, SgStorePurge
<1>10. \E val : StoreKVStorageBytesByOrg(d, Org, now) = Answer(f, "ok", val)
    BY <1>7, <1>8, Zenon DEF StoreKVStorageBytesByOrg
<1>11. StoreKVNamespaceMetrics(d, NS, now).db = d \/ StoreKVNamespaceMetrics(d, NS, now).db = e
    BY <1>4, SgEither, Zenon
<1>12. ASSUME NEW cap PROVE StoreKVList(d, cap, NS, now).db = e BY <1>5, SgAnswer
<1>13. ASSUME NEW prefix, NEW cursor, NEW limit
       PROVE  StoreKVListPage(d, Keys, NS, prefix, cursor, limit, now).db = e BY <1>6, SgAnswer
<1>14. StoreKVStorageBytesByOrg(d, Org, now).db = f BY <1>10, SgAnswer, Zenon
<1> QED BY <1>3, <1>9, <1>11, <1>12, <1>13, <1>14, Zenon

LEMMA SgStoreOther ==
    ASSUME NEW d, SgStore(d), NEW x
    PROVE  /\ SgStore([d EXCEPT !.objectMetrics = x]) /\ SgStore([d EXCEPT !.dbMetrics = x])
           /\ SgStore([d EXCEPT !.objectBuckets = x]) /\ SgStore([d EXCEPT !.databases = x])
           /\ DOMAIN x \subseteq Int => SgStore([d EXCEPT !.kvNamespaces = x])
BY SgMaps, SgStoreFrameKept DEF SgStore, SgStoreFrame

\* The metrics of a bucket or of a database.
LEMMA SgStoreCall ==
    ASSUME NEW d, SgStore(d), NEW a,
           \/ \E why : a = Refused(d, why)
           \/ \E x : a = Done([d EXCEPT !.objectMetrics = x]) \/ a = Done([d EXCEPT !.dbMetrics = x])
    PROVE  SgStore(a.db)
<1>1. ASSUME NEW why, a = Refused(d, why) PROVE SgStore(a.db) BY <1>1, SgRefused
<1>2. ASSUME NEW x, a = Done([d EXCEPT !.objectMetrics = x]) PROVE SgStore(a.db)
    <2>1. a.db = [d EXCEPT !.objectMetrics = x] BY <1>2, SgDone, Zenon
    <2>2. SgStore([d EXCEPT !.objectMetrics = x]) BY SgStoreOther
    <2> QED BY <2>1, <2>2
<1>3. ASSUME NEW x, a = Done([d EXCEPT !.dbMetrics = x]) PROVE SgStore(a.db)
    <2>1. a.db = [d EXCEPT !.dbMetrics = x] BY <1>3, SgDone, Zenon
    <2>2. SgStore([d EXCEPT !.dbMetrics = x]) BY SgStoreOther
    <2> QED BY <2>1, <2>2
<1> QED BY <1>1, <1>2, <1>3, Zenon

LEMMA SgStoreCounters ==
    ASSUME NEW d, SgStore(d), NEW id, NEW n, NEW q
    PROVE  /\ SgStore(StoreIncrementObjectStorageBucketReads(d, id).db)
           /\ SgStore(StoreIncrementObjectStorageBucketWrites(d, id).db)
           /\ SgStore(StoreAdjustObjectStorageBucketSize(d, id, n).db)
           /\ SgStore(StoreAdjustObjectStorageBucketObjectCount(d, id, n).db)
           /\ SgStore(StoreSetObjectStorageBucketObjectCount(d, id, n).db)
           /\ SgStore(StoreUpdateDatabaseRuntimeStats(d, id, n).db)
           /\ SgStore(StoreRecordDatabaseQueryMetrics(d, id, q).db)
<1> DEFINE either(a) == \/ \E why : a = Refused(d, why)
                        \/ \E x : \/ a = Done([d EXCEPT !.objectMetrics = x])
                                  \/ a = Done([d EXCEPT !.dbMetrics = x])
<1>1. \A a : either(a) => SgStore(a.db) BY SgStoreCall
<1>2. either(StoreIncrementObjectStorageBucketReads(d, id))
    BY Zenon DEF StoreIncrementObjectStorageBucketReads, StoreObjects, StoreCountUse
<1>3. either(StoreIncrementObjectStorageBucketWrites(d, id))
    BY Zenon DEF StoreIncrementObjectStorageBucketWrites, StoreObjects, StoreCountUse
<1>4. either(StoreAdjustObjectStorageBucketSize(d, id, n))
    BY Zenon DEF StoreAdjustObjectStorageBucketSize, StoreObjects, StoreCountUse
<1>5. either(StoreAdjustObjectStorageBucketObjectCount(d, id, n))
    BY Zenon DEF StoreAdjustObjectStorageBucketObjectCount, StoreObjects, StoreCountUse
<1>6. either(StoreSetObjectStorageBucketObjectCount(d, id, n))
    BY Zenon DEF StoreSetObjectStorageBucketObjectCount, StoreObjects, StoreCountUse
<1>7. either(StoreUpdateDatabaseRuntimeStats(d, id, n))
    BY Zenon DEF StoreUpdateDatabaseRuntimeStats, StoreCountUse
<1>8. either(StoreRecordDatabaseQueryMetrics(d, id, q))
    BY Zenon DEF StoreRecordDatabaseQueryMetrics
<1> HIDE DEF either
<1> QED BY <1>1, <1>2, <1>3, <1>4, <1>5, <1>6, <1>7, <1>8, Zenon

\* The catalog.
SgEdited(d, a) == \/ \E why : a = Refused(d, why)
                  \/ \E x : \/ a = Done([d EXCEPT !.kvNamespaces = x]) /\ DOMAIN x \subseteq Int
                            \/ a = Done([d EXCEPT !.databases = x])
                            \/ a = Done([d EXCEPT !.objectBuckets = x])
LEMMA SgStoreEdited ==
    ASSUME NEW d, SgStore(d), NEW a, SgEdited(d, a) PROVE SgStore(a.db)
<1>1. ASSUME NEW why, a = Refused(d, why) PROVE SgStore(a.db) BY <1>1, SgRefused
<1>2. ASSUME NEW x, a = Done([d EXCEPT !.kvNamespaces = x]), DOMAIN x \subseteq Int
      PROVE  SgStore(a.db)
    <2>1. a.db = [d EXCEPT !.kvNamespaces = x] BY <1>2, SgDone, Zenon
    <2>2. SgStore([d EXCEPT !.kvNamespaces = x]) BY <1>2, SgStoreOther
    <2> QED BY <2>1, <2>2
<1>3. ASSUME NEW x, a = Done([d EXCEPT !.databases = x]) PROVE SgStore(a.db)
    <2>1. a.db = [d EXCEPT !.databases = x] BY <1>3, SgDone, Zenon
    <2>2. SgStore([d EXCEPT !.databases = x]) BY SgStoreOther
    <2> QED BY <2>1, <2>2
<1>4. ASSUME NEW x, a = Done([d EXCEPT !.objectBuckets = x]) PROVE SgStore(a.db)
    <2>1. a.db = [d EXCEPT !.objectBuckets = x] BY <1>4, SgDone, Zenon
    <2>2. SgStore([d EXCEPT !.objectBuckets = x]) BY SgStoreOther
    <2> QED BY <2>1, <2>2
<1> QED BY <1>1, <1>2, <1>3, <1>4, Zenon DEF SgEdited

LEMMA SgStoreCreate ==
    ASSUME NEW d, SgStore(d), NEW r \in SgNamed
    PROVE  /\ SgStore(StoreCreateKVNamespace(d, r).db) /\ SgStore(StoreCreateDatabase(d, r).db)
           /\ SgStore(StoreCreateObjectStorageBucket(d, r).db)
<1>1. DOMAIN Put(d.kvNamespaces, r.id, r) \subseteq Int BY DEF SgStore, SgNamed, Put
<1> DEFINE with(kind) == [d EXCEPT ![kind] = Put(@, r.id, r)]
<1>2. \A kind : \/ \E why : StoreCreateNamed(d, kind, r) = Refused(d, why)
                \/ StoreCreateNamed(d, kind, r) = Done(with(kind))
    BY Zenon DEF StoreCreateNamed
<1>3. /\ with("kvNamespaces") = [d EXCEPT !.kvNamespaces = Put(d.kvNamespaces, r.id, r)]
      /\ with("databases") = [d EXCEPT !.databases = Put(d.databases, r.id, r)]
      /\ with("objectBuckets") = [d EXCEPT !.objectBuckets = Put(d.objectBuckets, r.id, r)]
    OBVIOUS
<1> HIDE DEF with
<1>4. /\ SgEdited(d, StoreCreateKVNamespace(d, r)) /\ SgEdited(d, StoreCreateDatabase(d, r))
      /\ SgEdited(d, StoreCreateObjectStorageBucket(d, r))
    BY <1>1, <1>2, <1>3, Zenon DEF SgEdited, StoreCreateKVNamespace, StoreCreateDatabase,
       StoreCreateObjectStorageBucket
<1> QED BY <1>4, SgStoreEdited

LEMMA SgStoreUpdate ==
    ASSUME NEW d, SgStore(d), NEW r
    PROVE  /\ SgStore(StoreUpdateKVNamespace(d, r).db)
           /\ SgStore(StoreUpdateObjectStorageBucket(d, r).db)
<1> DEFINE with(kind) == [d EXCEPT ![kind] = Put(@, r.id, [r EXCEPT !.org = d[kind][r.id].org])]
           put(kind) == Put(d[kind], r.id, [r EXCEPT !.org = d[kind][r.id].org])
<1>1. \A kind : \/ \E why : StoreUpdateNamed(d, kind, r) = Refused(d, why)
                \/ StoreUpdateNamed(d, kind, r) = Done(with(kind)) /\ r.id \in DOMAIN d[kind]
    BY Zenon DEF StoreUpdateNamed
<1>2. r.id \in DOMAIN d["kvNamespaces"] => DOMAIN put("kvNamespaces") \subseteq Int
    BY DEF SgStore, Put
<1>3. /\ with("kvNamespaces") = [d EXCEPT !.kvNamespaces = put("kvNamespaces")]
      /\ with("objectBuckets") = [d EXCEPT !.objectBuckets = put("objectBuckets")]
    OBVIOUS
<1> HIDE DEF with, put
<1>4. /\ SgEdited(d, StoreUpdateKVNamespace(d, r))
      /\ SgEdited(d, StoreUpdateObjectStorageBucket(d, r))
    BY <1>1, <1>2, <1>3, Zenon DEF SgEdited, StoreUpdateKVNamespace, StoreUpdateObjectStorageBucket
<1> QED BY <1>4, SgStoreEdited

LEMMA SgStoreDelete ==
    ASSUME NEW d, SgStore(d), NEW id
    PROVE  /\ SgStore(StoreDeleteDatabase(d, id).db)
           /\ SgStore(StoreDeleteObjectStorageBucket(d, id).db)
<1>1. \/ \E why : StoreDeleteDatabase(d, id) = Refused(d, why)
      \/ StoreDeleteDatabase(d, id) = Done([d EXCEPT !.databases = Drop(@, id),
                                                     !.dbMetrics = Drop(@, id)])
    BY Zenon DEF StoreDeleteDatabase
<1>2. \/ \E why : StoreDeleteObjectStorageBucket(d, id) = Refused(d, why)
      \/ StoreDeleteObjectStorageBucket(d, id) = Done([d EXCEPT !.objectBuckets = Drop(@, id),
                                                                !.objectMetrics = Drop(@, id)])
    BY Zenon DEF StoreDeleteObjectStorageBucket
<1>3. PICK e, f : /\ e = [d EXCEPT !.databases = Drop(@, id), !.dbMetrics = Drop(@, id)]
                  /\ f = [d EXCEPT !.objectBuckets = Drop(@, id), !.objectMetrics = Drop(@, id)]
    OBVIOUS
<1>4. SgStoreFrame(d, e) /\ SgStoreFrame(d, f) BY <1>3, SgMaps DEF SgStoreFrame, SgStore
<1>5. SgStore(e) /\ SgStore(f) BY <1>4, SgStoreFrameKept
<1>6. StoreDeleteDatabase(d, id).db = d \/ StoreDeleteDatabase(d, id).db = e
    BY <1>1, <1>3, SgRefused, SgDone, Zenon
<1>7. StoreDeleteObjectStorageBucket(d, id).db = d \/ StoreDeleteObjectStorageBucket(d, id).db = f
    BY <1>2, <1>3, SgRefused, SgDone, Zenon
<1> QED BY <1>5, <1>6, <1>7, Zenon

\* A namespace goes with its values and its metrics.
LEMMA SgStoreDeleteNamespace ==
    ASSUME NEW d, SgStore(d), NEW id PROVE SgStore(StoreDeleteKVNamespace(d, id).db)
<1>1. PICK kv, metrics, new, after, e :
        /\ kv = d.kv /\ metrics = d.kvMetrics
        /\ new = [k \in {x \in DOMAIN kv : x[1] # id} |-> kv[k]] /\ after = Drop(metrics, id)
        /\ e = [d EXCEPT !.kvNamespaces = Drop(@, id), !.kvMetrics = after, !.kv = new]
    OBVIOUS
<1>2. StoreDeleteKVNamespace(d, id).db = d \/ StoreDeleteKVNamespace(d, id).db = e
    <2>1. e = [d EXCEPT !.kvNamespaces = Drop(@, id), !.kvMetrics = Drop(@, id),
                        !.kv = [k \in {x \in DOMAIN @ : x[1] # id} |-> @[k]]]
        BY <1>1, SgMaps DEF SgStore
    <2>2. \/ \E why : StoreDeleteKVNamespace(d, id) = Refused(d, why)
          \/ StoreDeleteKVNamespace(d, id) = Done(e)
        BY <2>1, Zenon DEF StoreDeleteKVNamespace
    <2> QED BY <2>2, SgRefused, SgDone, Zenon
<1>3. SgMapMeters(metrics, kv) /\ SgEntries(kv, DOMAIN kv) BY <1>1 DEF SgStore
<1>4. DOMAIN new = {x \in DOMAIN kv : x[1] # id} /\ \A k \in DOMAIN new : new[k] = kv[k] BY <1>1
<1>5. SgEntries(new, DOMAIN new) BY <1>3, <1>4, FS_Subset DEF SgEntries
<1>6. DOMAIN after = DOMAIN metrics \ {id} /\ \A n \in DOMAIN after : after[n] = metrics[n]
    BY <1>1 DEF Drop
<1>7. \A n \in DOMAIN after : "size" \in DOMAIN after[n] BY <1>3, <1>6 DEF SgMapMeters
<1>8. ASSUME NEW n \in Int PROVE MetricsOf(after, n, ZeroKV).size = Bytes(new, SgKeysIn(new, n))
    <2>1. CASE n = id BY <1>4, <2>1, SumEmpty, <1>6 DEF SgKeysIn, Bytes, MetricsOf, ZeroKV
    <2>2. CASE n # id BY <1>4, <2>2, SgBytesSame, <1>6, <1>3 DEF SgKeysIn, MetricsOf, SgMapMeters
    <2> QED BY <2>1, <2>2
<1>9. SgMapMeters(after, new) BY <1>7, <1>8 DEF SgMapMeters
<1>10. /\ DOMAIN e = DOMAIN d /\ DOMAIN e.kvNamespaces \subseteq Int /\ e.kv = new
       /\ e.kvMetrics = after
    BY <1>1, SgMaps DEF SgStore, Drop
<1>11. SgStore(e) BY <1>5, <1>9, <1>10, SgStoreChange
<1> QED BY <1>2, <1>11, Zenon

---------------------------------------------------------------------------
(* The object store.                                                       *)

SgStored(b) == SumOf(b, DOMAIN b)
SgSizeAt(b, path) == IF path \in DOMAIN b THEN b[path] ELSE 0
SgObjectsIn(b) == IsFiniteSet(DOMAIN b) /\ \A p \in DOMAIN b : b[p] \in Nat

LEMMA SgStoredNat ==
    ASSUME NEW b, SgObjectsIn(b)
    PROVE  SgStored(b) \in Nat /\ Cardinality(DOMAIN b) \in Nat /\ \A p : SgSizeAt(b, p) \in Nat
BY SumNat, FS_CardinalityType DEF SgObjectsIn, Weights, SgStored, SgSizeAt

\* What is stored without one object.
LEMMA SgWithout ==
    ASSUME NEW b, SgObjectsIn(b), NEW p
    PROVE  /\ SumOf(b, DOMAIN b \ {p}) = SgStored(b) - SgSizeAt(b, p)
           /\ IsFiniteSet(DOMAIN b \ {p})
           /\ Cardinality(DOMAIN b \ {p}) = Cardinality(DOMAIN b) - (IF p \in DOMAIN b THEN 1 ELSE 0)
<1>1. PICK K, L : K = DOMAIN b /\ L = K \ {p} OBVIOUS
<1>2. IsFiniteSet(K) /\ Weights(b, K) /\ IsFiniteSet(L)
    BY <1>1, FS_Subset DEF SgObjectsIn, Weights
<1>3. CASE p \in K
    BY <1>2, <1>3, SumSplits, <1>1, SumNat, FS_RemoveElement DEF Weights, SgStored, SgSizeAt
<1>4. CASE p \notin K
    <2>1. L = K BY <1>1, <1>4
    <2>2. SumOf(b, K) \in Nat /\ Cardinality(K) \in Nat BY <1>2, SumNat, FS_CardinalityType
    <2> QED BY <1>1, <1>2, <1>4, <2>1, <2>2 DEF SgStored, SgSizeAt
<1> QED BY <1>3, <1>4

LEMMA SgDropObject ==
    ASSUME NEW b, SgObjectsIn(b), NEW p
    PROVE  /\ SgObjectsIn(Drop(b, p)) /\ SgStored(Drop(b, p)) = SgStored(b) - SgSizeAt(b, p)
           /\ Cardinality(DOMAIN Drop(b, p))
                = Cardinality(DOMAIN b) - (IF p \in DOMAIN b THEN 1 ELSE 0)
BY SgWithout, SumSame DEF Drop, SgObjectsIn, SgStored

LEMMA SgPutObject ==
    ASSUME NEW b, SgObjectsIn(b), NEW p, NEW n \in Nat
    PROVE  /\ SgObjectsIn(Put(b, p, n)) /\ SgStored(Put(b, p, n)) = SgStored(b) - SgSizeAt(b, p) + n
           /\ Cardinality(DOMAIN Put(b, p, n))
                = Cardinality(DOMAIN b) + (IF p \in DOMAIN b THEN 0 ELSE 1)
<1>1. PICK c, K, L : c = Put(b, p, n) /\ K = DOMAIN c /\ L = DOMAIN b \ {p} OBVIOUS
<1>2. K = DOMAIN b \cup {p} /\ K \ {p} = L /\ p \in K BY <1>1 DEF Put
<1>3. c[p] = n /\ \A x \in L : c[x] = b[x] BY <1>1 DEF Put
<1>4. IsFiniteSet(L) BY <1>1, SgWithout
<1>5. SgObjectsIn(c) BY <1>2, FS_AddElement, <1>1, <1>3 DEF SgObjectsIn
<1>6. IsFiniteSet(K) /\ Weights(c, K) BY <1>1, <1>5 DEF SgObjectsIn, Weights
<1>7. SumOf(c, K) = c[p] + SumOf(c, K \ {p}) BY <1>2, <1>6, SumSplits
<1>8. SumOf(c, L) = SumOf(b, L) BY <1>3, <1>4, SumSame
<1>9. SumOf(b, L) = SgStored(b) - SgSizeAt(b, p) BY <1>1, SgWithout
<1>10. SgStored(b) \in Nat /\ SgSizeAt(b, p) \in Nat BY SgStoredNat
<1>11. SumOf(c, K) = SgStored(b) - SgSizeAt(b, p) + n BY <1>2, <1>3, <1>7, <1>8, <1>9, <1>10
<1>12. Cardinality(L) = Cardinality(K) - 1 BY <1>2, <1>6, FS_RemoveElement
<1>13. Cardinality(L) = Cardinality(DOMAIN b) - (IF p \in DOMAIN b THEN 1 ELSE 0)
    BY <1>1, SgWithout
<1>14. Cardinality(K) \in Nat /\ Cardinality(DOMAIN b) \in Nat
    BY <1>6, SgStoredNat, FS_CardinalityType
<1>15. Cardinality(K) = Cardinality(DOMAIN b) + (IF p \in DOMAIN b THEN 0 ELSE 1)
    BY <1>12, <1>13, <1>14
<1> QED BY <1>1, <1>5, <1>11, <1>15 DEF SgStored

---------------------------------------------------------------------------
(* Requests.                                                               *)

SgWrite(r) ==
    /\ {"op", "key", "v", "delta", "org", "counted"} \subseteq DOMAIN r /\ r.delta \in Int
    /\ r.v # NotFound => r.v.size \in Nat /\ r.v.expires \in Nat
    /\ r.org \/ r.delta <= 0
SgRequest(r) ==
    /\ "op" \in DOMAIN r
    /\ r.op \in {"kvLimit", "kvWrite"} => SgWrite(r)
    /\ r.op = "kvFill" => SgWrite(r.r) /\ r.current \in Nat
    /\ r.op = "kvCommit" => SgWrite(r.r) /\ r.old \in Nat
    /\ r.op = "kvCache" => r.delta \in Int
    /\ r.op \in {"objectLimit", "objectPut"} =>
        /\ {"op", "path", "size", "old", "existed"} \subseteq DOMAIN r
        /\ r.old \in Nat /\ r.size \in Nat
    /\ r.op = "objectDelete" => r.old \in Nat
    /\ r.op = "objectList" => r.was \in Nat
    /\ r.op \in {"objectSize", "objectCount", "objectCorrect", "objectRecount"} =>
        {"op", "delta", "count"} \subseteq DOMAIN r /\ r.delta \in Int /\ r.count \in Int
    /\ r.op \in {"objectCorrect", "objectRecount"} => r.count \in Nat
    /\ r.op = "create" => r.r \in SgNamed
    /\ r.op = "rename" => r.r.name \in SgNames

SgRequests == /\ DOMAIN stReq = StorageThreads /\ stLeft \in Nat
              /\ \A t \in StorageThreads : SgRequest(stReq[t])
SgRows == SgPg(rsPg) /\ SgStore(rsStore) /\ (~rsMiscounted => SgExact(rsPg))
SgShared == /\ stNow \in Nat /\ SgObjectsIn(bucket)
            /\ {"size", "known", "fresh"} \subseteq DOMAIN usageCache
            /\ usageCache.size \in Nat /\ (usageCache.fresh => usageCache.known)

---------------------------------------------------------------------------
(* What a request knows when it is the only one.                           *)

\* What a write will add is no more than the difference it asked room for.
SgGrow(r) == IF r.v = NotFound THEN 0 ELSE r.v.size
SgAsked(r) == SgGrow(r) - Total(SgAt(rsPg, stNow, NS, r.key)) <= r.delta

\* What the request will still do to the entry of the cache.
SgPending(r) == IF r.op = "kvCache" /\ r.org THEN r.delta ELSE 0
SgDropped(r) == r.op = "kvCache" /\ r.org /\ ~r.exact

SgValuesKnown(r) ==
    /\ SgLive(rsPg, stNow) <= ByteLimit
    /\ r.op \in {"kvLimit", "kvWrite"} => SgAsked(r)
    /\ r.op = "kvFill" => SgAsked(r.r) /\ SgLive(rsPg, stNow) <= r.current
    /\ r.op = "kvCommit" => SgAsked(r.r)
    /\ r.op = "kvWrite" /\ r.delta > 0 => SgLive(rsPg, stNow) + r.delta <= ByteLimit
    /\ r.op = "kvCommit" /\ r.r.delta > 0 => SgLive(rsPg, stNow) + r.r.delta <= ByteLimit
    /\ usageCache.known /\ ~SgDropped(r) => SgLive(rsPg, stNow) <= usageCache.size + SgPending(r)

\* What the request will still do to the usage of the bucket.
SgOwedSize(r) == IF r.op \in {"objectSize", "objectCorrect"} THEN r.delta ELSE 0
SgOwedCount(r) == IF r.op \in {"objectSize", "objectCount"} THEN r.count ELSE 0

SgFoundObject(r) == /\ r.old = SgSizeAt(bucket, r.path)
                    /\ IF r.existed THEN r.path \in DOMAIN bucket ELSE r.path \notin DOMAIN bucket
SgCounted(r) ==
    IF r.op \in {"objectCorrect", "objectRecount"} THEN r.count = Cardinality(DOMAIN bucket)
    ELSE SgUsed(rsPg).count + SgOwedCount(r) = Cardinality(DOMAIN bucket)
SgObjectsKnown(r) ==
    /\ r.op = "objectList" => r.was = SgUsed(rsPg).size
    /\ drifted # "yes" =>
        /\ r.op \in {"objectLimit", "objectPut", "objectDelete"} => SgFoundObject(r)
        /\ SgUsed(rsPg).size + SgOwedSize(r) = SgStored(bucket)
        /\ SgCounted(r)
    /\ limited /\ drifted = "never" =>
        /\ SgStored(bucket) <= ByteLimit
        /\ r.op = "objectPut" => SgStored(bucket) + r.size - r.old <= ByteLimit

\* The size it has read is that of the value it will replace.
SgReadNow(r) == r.op = "kvCommit" => r.old = PgKVOldSize(rsPg, NS, r.r.key)

SgSerial(r) == /\ SgObjectsKnown(r) /\ (limited => SgValuesKnown(r))
               /\ SgReadNow(r) /\ ~rsMiscounted

\* The one request there is, Idle for none.
SgOnly(r) == \/ r = Idle /\ \A t \in StorageThreads : stReq[t] = Idle
             \/ \E t \in StorageThreads : stReq[t] = r /\ \A u \in StorageThreads \ {t} : stReq[u] = Idle

SgInv == /\ SgRequests /\ SgRows /\ SgShared
         /\ ~overlapped => \E r : SgOnly(r) /\ SgSerial(r)

---------------------------------------------------------------------------
\* A request begins when there is no other, or it overlaps.
LEMMA SgBegun ==
    ASSUME SgInv, NEW t \in StorageThreads, NEW r, SgRequest(r), Begin(t, r), SgRows', SgShared',
           ~overlapped /\ SgSerial(Idle) => SgSerial(r)'
    PROVE  SgInv'
<1>1. stReq' = [stReq EXCEPT ![t] = r] /\ stLeft > 0 /\ stLeft' = stLeft - 1
    BY DEF Begin, Then
<1>2. DOMAIN stReq = StorageThreads /\ stLeft \in Nat BY DEF SgInv, SgRequests
<1>3. SgRequests' BY <1>1, <1>2 DEF SgInv, SgRequests
<1>4. ASSUME ~overlapped' PROVE \E q : SgOnly(q)' /\ SgSerial(q)'
    BY <1>4, <1>1, <1>2 DEF Begin, SgInv, SgOnly
<1> QED BY <1>3, <1>4 DEF SgInv

\* A request goes on, or ends.
LEMMA SgWent ==
    ASSUME SgInv, NEW t \in StorageThreads, NEW q, q = stReq[t], q.op # "idle", NEW r, SgRequest(r),
           Then(t, r), Carry, SgRows', SgShared', SgSerial(q) => SgSerial(r)'
    PROVE  SgInv'
BY DEF Then, Carry, SgInv, SgRequests, Idle, SgOnly

SgObjectOps == {"objectList", "objectLimit", "objectPut", "objectDelete", "objectSize",
                "objectCount", "objectCorrect", "objectRecount"}
SgValueOps == {"kvLimit", "kvFill", "kvWrite", "kvCommit", "kvCache"}

\* Requests about other things leave the objects and their usage alone,
LEMMA SgObjectsFrame ==
    ASSUME NEW q, SgObjectsKnown(q), q.op \notin SgObjectOps, NEW r, r.op \notin SgObjectOps,
           UNCHANGED <<bucket, limited, drifted>>, SgSameUse(rsPg, rsPg')
    PROVE  SgObjectsKnown(r)'
BY DEF SgObjectsKnown, SgObjectOps, SgSameUse, SgOwedSize, SgOwedCount, SgCounted

\* and the values and what the cache says of them.
LEMMA SgValuesFrame ==
    ASSUME NEW q, SgValuesKnown(q), q.op \notin SgValueOps, NEW r, r.op \notin SgValueOps,
           SgPg(rsPg), SgPg(rsPg'), rsPg'.runtime_kv \subseteq rsPg.runtime_kv,
           stNow \in Nat, stNow' \in Nat, stNow <= stNow', ByteLimit \in Nat, usageCache.size \in Nat,
           usageCache'.known => usageCache.known, usageCache'.size = usageCache.size
    PROVE  SgValuesKnown(r)'
BY SgFewerLive, SgLiveNat DEF SgValuesKnown, SgValueOps, SgPending, SgDropped

LEMMA SgLimit == ByteLimit \in Nat /\ Sizes \subseteq Nat
BY StorageAssumption

\* A step of a request about values, and one of a request about objects.
LEMMA SgValueStep ==
    ASSUME NEW q, q.op \notin SgObjectOps, NEW r, r.op \notin SgObjectOps, SgSerial(q),
           UNCHANGED <<bucket, limited, drifted>>, SgSameUse(rsPg, rsPg'),
           SgReadNow(r)', SgReadNow(q) /\ ~rsMiscounted => ~rsMiscounted',
           limited /\ SgValuesKnown(q) => SgValuesKnown(r)'
    PROVE  SgSerial(r)'
BY SgObjectsFrame DEF SgSerial
LEMMA SgObjectStep ==
    ASSUME NEW q, q.op \notin SgValueOps, NEW r, r.op \notin SgValueOps, SgSerial(q),
           SgShared, SgPg(rsPg), SgPg(rsPg'), rsPg'.runtime_kv \subseteq rsPg.runtime_kv,
           UNCHANGED <<rsMiscounted, stNow, usageCache, limited>>,
           SgObjectsKnown(q) => SgObjectsKnown(r)'
    PROVE  SgSerial(r)'
BY SgLimit, SgValuesFrame DEF SgSerial, SgShared, SgReadNow, SgValueOps

\* A call that adds no values, within a request about neither.
SgStill == UNCHANGED <<rsMiscounted, stNow, usageCache, bucket, limited, drifted>>
SgNeither(r) == r.op \notin SgObjectOps /\ r.op \notin SgValueOps
LEMMA SgSharedStill == ASSUME SgShared, SgStill PROVE SgShared'
BY DEF SgShared, SgStill
LEMMA SgStillSerial ==
    ASSUME SgShared, SgPg(rsPg), SgQuiet(rsPg, rsPg'), SgStill, NEW q, SgNeither(q), NEW r, SgNeither(r),
           SgSerial(q)
    PROVE  SgSerial(r)'
BY SgObjectsFrame, SgObjectStep DEF SgQuiet, SgStill, SgNeither

LEMMA SgBeginsQuietly ==
    ASSUME SgInv, NEW t \in StorageThreads, NEW r, SgRequest(r), SgNeither(r), Begin(t, r),
           SgStore(rsStore'), SgQuiet(rsPg, rsPg'), SgStill
    PROVE  SgInv'
BY SgSharedStill, SgStillSerial, SgBegun DEF SgInv, SgRows, SgQuiet, SgNeither, Idle,
   SgObjectOps, SgValueOps, SgStill
LEMMA SgGoesQuietly ==
    ASSUME SgInv, NEW t \in StorageThreads, NEW q, q = stReq[t], q.op # "idle", SgNeither(q),
           NEW r, SgRequest(r), SgNeither(r), Then(t, r), Carry,
           SgStore(rsStore'), SgQuiet(rsPg, rsPg'), SgStill
    PROVE  SgInv'
BY SgSharedStill, SgStillSerial, SgWent DEF SgInv, SgRows, SgQuiet, SgStill

LEMMA SgIdle == SgRequest(Idle) /\ SgNeither(Idle) /\ Idle.op = "idle"
BY DEF SgRequest, SgNeither, Idle, SgObjectOps, SgValueOps

---------------------------------------------------------------------------
(* Values.                                                                 *)

LEMMA SgRuntimeKVGet ==
    ASSUME SgInv, NEW t \in StorageThreads, NEW key, RuntimeKVGet(t, key) PROVE SgInv'
<1>1. PICK s, p : /\ s = StoreKVGet(rsStore, Cap, NS, key, stNow)
                  /\ p = PgKVGet(rsPg, Cap, NS, key, stNow)
    OBVIOUS
<1>2. PICK r : r = IF p.val = Missing THEN Idle ELSE [op |-> "kvRead"] OBVIOUS
<1>3. Begin(t, r) /\ rsStore' = s.db /\ rsPg' = p.db /\ SgStill
    BY <1>1, <1>2 DEF RuntimeKVGet, KVRest, SgStill
<1>4. SgStore(rsStore) /\ SgPg(rsPg) BY DEF SgInv, SgRows
<1>5. SgStore(s.db) BY <1>1, <1>4, SgStoreGet
<1>6. p.db = rsPg BY <1>1, <1>4, SgPgValueSize DEF PgKVValueSize
<1>7. SgQuiet(rsPg, rsPg') BY <1>3, <1>4, <1>6, SgSame
<1>8. SgRequest(r) /\ SgNeither(r)
    BY <1>2, SgIdle DEF SgRequest, SgNeither, SgObjectOps, SgValueOps
<1> QED BY <1>3, <1>5, <1>7, <1>8, SgBeginsQuietly

LEMMA SgRecordRuntimeKVRead ==
    ASSUME SgInv, NEW t \in StorageThreads, RecordRuntimeKVRead(t) \/ RecordRuntimeKVWrite(t) PROVE SgInv'
<1>1. PICK q : q = stReq[t] OBVIOUS
<1>2. SgStore(rsStore) /\ SgPg(rsPg) BY DEF SgInv, SgRows
<1>3. q.op # "idle" /\ SgNeither(q)
    BY <1>1 DEF RecordRuntimeKVRead, RecordRuntimeKVWrite, Step, SgNeither, SgObjectOps, SgValueOps
<1>4. Then(t, Idle) /\ Carry /\ SgStill
    BY DEF RecordRuntimeKVRead, RecordRuntimeKVWrite, KVRest, SgStill, Both
<1>5. SgStore(rsStore')
    BY <1>2, SgStoreKVReads DEF RecordRuntimeKVRead, RecordRuntimeKVWrite, Both
<1>6. SgQuiet(rsPg, rsPg')
    BY <1>2, SgPgKVReads DEF RecordRuntimeKVRead, RecordRuntimeKVWrite, Both
<1> QED BY <1>1, <1>3, <1>4, <1>5, <1>6, SgIdle, SgGoesQuietly

LEMMA SgKVNamespaceLook ==
    ASSUME SgInv, NEW t \in StorageThreads, KVNamespaceMetrics(t) \/ KVNamespaceList(t) PROVE SgInv'
<1>1. SgStore(rsStore) /\ SgPg(rsPg) BY DEF SgInv, SgRows
<1>2. Begin(t, Idle) /\ SgStill BY DEF KVNamespaceMetrics, KVNamespaceList, KVRest, SgStill, Both
<1>3. \/ /\ rsStore' = StoreKVNamespaceMetrics(rsStore, NS, stNow).db
         /\ rsPg' = PgKVNamespaceMetrics(rsPg, NS, stNow).db
      \/ /\ rsStore' = StoreKVList(rsStore, "", NS, stNow).db
         /\ rsPg' = PgKVList(rsPg, "", NS, stNow).db
    BY DEF KVNamespaceMetrics, KVNamespaceList, Both
<1>4. SgStore(rsStore') /\ SgQuiet(rsPg, rsPg') BY <1>1, SgStoreLook, SgPgLook, <1>3
<1> QED BY <1>2, <1>4, SgIdle, SgBeginsQuietly

\* The size of what is there is asked for before a write begins.
LEMMA SgSizeRead ==
    ASSUME SgInv, NEW key
    PROVE  /\ SizeNow(key) \in Nat /\ SizeNow(key) <= Total(SgAt(rsPg, stNow, NS, key))
           /\ Total(SgAt(rsPg, stNow, NS, key)) \in Nat
           /\ ReadValueSize(key) => SgStore(rsStore') /\ rsPg' = rsPg
BY SgPgValueSize, SgAtNat, SgStoreGet DEF SgInv, SgRows, SizeNow, SgSizeOrNone, ReadValueSize,
   Both

LEMMA SgBeginsWrite ==
    ASSUME SgInv, NEW t \in StorageThreads, NEW key, NEW r, SgWrite(r), r.key = key,
           (r.op = "kvWrite" /\ r.delta <= 0) \/ r.op = "kvLimit",
           r.delta = SgGrow(r) - SizeNow(key), SgGrow(r) \in Nat,
           Begin(t, r), ReadValueSize(key), SgStill
    PROVE  SgInv'
<1>1. SgShared /\ SgPg(rsPg) /\ SgRows BY DEF SgInv, SgRows
<1>2. /\ SizeNow(key) \in Nat /\ SizeNow(key) <= Total(SgAt(rsPg, stNow, NS, key))
      /\ Total(SgAt(rsPg, stNow, NS, key)) \in Nat /\ SgStore(rsStore') /\ rsPg' = rsPg
    BY SgSizeRead
<1>3. SgRows' BY <1>1, <1>2 DEF SgRows, SgStill
<1>4. SgShared' BY <1>1, SgSharedStill
<1>5. SgRequest(r) BY DEF SgRequest, SgWrite
<1>6. Idle.op \notin SgObjectOps /\ r.op \notin SgObjectOps BY DEF Idle, SgObjectOps
<1>7. UNCHANGED <<bucket, limited, drifted>> /\ stNow' = stNow /\ usageCache' = usageCache
    BY DEF SgStill
<1>8. SgSameUse(rsPg, rsPg') BY <1>2 DEF SgSameUse
<1>9. SgAsked(r)' BY <1>2, <1>7 DEF SgAsked
<1>10. ASSUME SgValuesKnown(Idle) PROVE SgValuesKnown(r)'
    BY <1>10, <1>2, <1>7, <1>9 DEF SgWrite, SgValuesKnown, SgPending, SgDropped, Idle
<1>11. SgReadNow(r)' /\ rsMiscounted' = rsMiscounted BY DEF SgReadNow, SgStill
<1>12. SgSerial(Idle) => SgSerial(r)' BY <1>6, <1>7, <1>8, <1>10, <1>11, SgValueStep
<1> QED BY <1>3, <1>4, <1>5, <1>12, SgBegun

LEMMA SgKVPut ==
    ASSUME SgInv, NEW t \in StorageThreads, NEW key, NEW v, "size" \in DOMAIN v, v.size \in Nat,
           v.expires \in Nat, NEW counted, KVPutWithOptions(t, key, v, counted)
    PROVE  SgInv'
<1>1. PICK delta : delta = v.size - SizeNow(key) OBVIOUS
<1>2. PICK r : r = [op |-> IF delta <= 0 THEN "kvWrite" ELSE "kvLimit", key |-> key, v |-> v,
                    delta |-> delta, org |-> delta > 0, counted |-> counted]
    OBVIOUS
<1>3. Begin(t, r) /\ ReadValueSize(key) /\ SgStill
    BY <1>1, <1>2 DEF KVPutWithOptions, KVRest, SgStill, ReadValueSize, Both
<1>4. delta \in Int BY <1>1, SgSizeRead
<1>5. v # NotFound BY DEF NotFound
<1>6. /\ r.key = key /\ r.v = v /\ r.delta = delta
      /\ {"op", "key", "v", "delta", "org", "counted"} \subseteq DOMAIN r
      /\ r.op = IF delta <= 0 THEN "kvWrite" ELSE "kvLimit"
    BY <1>2
<1>7. SgWrite(r)
    <2>1. r.org = (delta > 0) BY <1>2, Zenon
    <2>2. delta > 0 \/ delta <= 0 BY <1>4
    <2>3. r.org \/ delta <= 0 BY <2>1, <2>2, Zenon
    <2> QED BY <1>4, <1>6, <2>3 DEF SgWrite
<1>8. SgGrow(r) = v.size BY <1>5, <1>6 DEF SgGrow
<1>9. (r.op = "kvWrite" /\ r.delta <= 0) \/ r.op = "kvLimit" BY <1>6
<1>10. r.delta = SgGrow(r) - SizeNow(key) /\ SgGrow(r) \in Nat BY <1>1, <1>6, <1>8
<1> QED BY <1>3, <1>6, <1>7, <1>9, <1>10, SgBeginsWrite

LEMMA SgKVDelete ==
    ASSUME SgInv, NEW t \in StorageThreads, NEW key, NEW counted, KVDelete(t, key, counted)
    PROVE  SgInv'
BY SgSizeRead, SgBeginsWrite DEF KVDelete, KVRest, SgStill, SgWrite, SgGrow, ReadValueSize, Both

\* Asking for room: there is enough by the cache's entry, or by what the repository says.
LEMMA SgEnforceKV ==
    ASSUME SgInv, NEW t \in StorageThreads, EnforceKVStorageBytesLimit(t)
    PROVE  SgInv'
<1>1. PICK q, p, n : q = stReq[t] /\ p = PgKVStorageBytesByOrg(rsPg, Org, stNow)
                     /\ n = SgLive(rsPg, stNow)
    OBVIOUS
<1>2. SgShared /\ SgPg(rsPg) /\ SgStore(rsStore) /\ SgRows BY DEF SgInv, SgRows
<1>3. q.op = "kvLimit" /\ SgWrite(q)
    BY <1>1 DEF EnforceKVStorageBytesLimit, Step, SgInv, SgRequests, SgRequest
<1>4. p.db = rsPg /\ p.val = n
    BY <1>1 DEF PgKVStorageBytesByOrg, Answer, SgLive, SgLiveRows
<1>5. PICK w, f : w = [q EXCEPT !.op = "kvWrite"] /\ f = [op |-> "kvFill", r |-> q, current |-> n]
    OBVIOUS
<1>6. PICK r : /\ Then(t, r)
               /\ \/ ~limited /\ r = w
                  \/ usageCache.fresh /\ r = w /\ Room(q, usageCache.size)
                  \/ r = Idle
                  \/ r = f
    BY <1>1, <1>4, <1>5 DEF EnforceKVStorageBytesLimit
<1>7. Carry /\ SgStill BY DEF EnforceKVStorageBytesLimit, KVRest, SgStill, repositories, Both
<1>8. SgStore(rsStore') /\ rsPg' = rsPg
    BY <1>1, <1>2, SgStoreLook, <1>4 DEF EnforceKVStorageBytesLimit, repositories, Both
<1>9. w.op = "kvWrite" /\ w.key = q.key /\ w.v = q.v /\ w.delta = q.delta /\ w.org = q.org
      /\ DOMAIN w = DOMAIN q
    BY <1>3, <1>5 DEF SgWrite
<1>10. SgWrite(w) BY <1>3, <1>9 DEF SgWrite
<1>11. n \in Nat BY <1>1, <1>2, SgLiveNat
<1>12. SgRequest(r) BY <1>9, <1>10, <1>3, <1>5, <1>11, <1>6, SgIdle DEF SgRequest, SgWrite
<1>13. q.op \notin SgObjectOps /\ r.op \notin SgObjectOps /\ r.op # "kvCommit"
    <2>1. f.op = "kvFill" BY <1>5
    <2>2. r.op \in {"kvWrite", "kvFill", "idle"} BY <1>6, <1>9, <2>1, SgIdle
    <2> QED BY <1>3, <2>2 DEF SgObjectOps
<1>14. /\ UNCHANGED <<bucket, limited, drifted>> /\ stNow' = stNow /\ usageCache' = usageCache
       /\ rsMiscounted' = rsMiscounted
    BY <1>7 DEF SgStill
<1>15. SgSameUse(rsPg, rsPg') BY <1>8 DEF SgSameUse
<1>16. ASSUME limited, SgValuesKnown(q) PROVE SgValuesKnown(r)'
    <2>1. SgAsked(q) /\ n <= ByteLimit /\ (usageCache.known => n <= usageCache.size + 0)
        BY <1>1, <1>3, <1>16 DEF SgValuesKnown, SgPending, SgDropped
    <2>2. q.delta \in Int /\ usageCache.size \in Nat /\ (usageCache.fresh => usageCache.known)
        BY <1>2, <1>3 DEF SgWrite, SgShared
    <2>3. SgLive(rsPg', stNow') = n BY <1>1, <1>8, <1>14
    <2>4. CASE r = Idle
        BY <1>14, <2>1, <2>3, <2>4 DEF SgValuesKnown, SgPending, SgDropped, Idle
    <2>5. CASE r = f
        BY <1>5, <1>8, <1>14, <2>1, <1>11, <2>3, <2>5 DEF SgAsked, SgValuesKnown, SgPending,
           SgDropped
    <2>6. CASE usageCache.fresh /\ r = w /\ Room(q, usageCache.size)
        <3>1. SgAsked(w)' BY <1>8, <1>9, <1>14, <2>1 DEF SgAsked, SgGrow
        <3>2. usageCache.size + w.delta <= ByteLimit BY <1>9, <2>6 DEF Room
        <3>3. n + w.delta <= ByteLimit BY <1>9, <1>11, <2>1, <2>2, <2>6, <3>2, SgLimit
        <3> QED BY <1>9, <1>14, <2>1, <2>3, <2>6, <3>1, <3>3 DEF SgValuesKnown, SgPending, SgDropped
    <2> QED BY <1>6, <1>16, <2>4, <2>5, <2>6
<1>17. SgSerial(q) => SgSerial(r)' BY <1>13, <1>14, <1>15, <1>16, SgValueStep DEF SgReadNow
<1>18. SgRows' BY <1>2, <1>8, <1>14 DEF SgRows
<1>19. SgShared' BY <1>2, <1>7, SgSharedStill
<1> QED BY <1>1, <1>3, <1>6, <1>7, <1>12, <1>17, <1>18, <1>19, SgWent

\* The repository's answer becomes the cache's entry.
LEMMA SgFillsCache ==
    ASSUME SgInv, NEW t \in StorageThreads, KVStorageBytesByOrg(t) PROVE SgInv'
<1>1. PICK f, q, w, n : /\ f = stReq[t] /\ q = f.r /\ w = [q EXCEPT !.op = "kvWrite"]
                        /\ n = SgLive(rsPg, stNow)
    OBVIOUS
<1>2. SgShared /\ SgPg(rsPg) /\ SgRows BY DEF SgInv, SgRows
<1>3. f.op = "kvFill" /\ SgWrite(q) /\ f.current \in Nat
    BY <1>1 DEF KVStorageBytesByOrg, Step, SgInv, SgRequests, SgRequest
<1>4. usageCache' = [size |-> f.current, known |-> TRUE, fresh |-> TRUE]
    BY <1>1 DEF KVStorageBytesByOrg
<1>5. PICK r : Then(t, r) /\ ((r = w /\ Room(q, f.current)) \/ r = Idle)
    BY <1>1 DEF KVStorageBytesByOrg
<1>6. /\ Carry /\ rsPg' = rsPg /\ rsStore' = rsStore /\ stNow' = stNow
      /\ rsMiscounted' = rsMiscounted /\ UNCHANGED <<bucket, limited, drifted>>
    BY DEF KVStorageBytesByOrg, KVRest, repositories
<1>7. w.op = "kvWrite" /\ w.key = q.key /\ w.v = q.v /\ w.delta = q.delta /\ w.org = q.org
      /\ DOMAIN w = DOMAIN q
    BY <1>1, <1>3 DEF SgWrite
<1>8. SgWrite(w) BY <1>3, <1>7 DEF SgWrite
<1>9. SgRequest(r) BY <1>7, <1>8, <1>5, SgIdle DEF SgRequest, SgWrite
<1>10. f.op \notin SgObjectOps /\ r.op \notin SgObjectOps /\ r.op # "kvCommit"
    BY <1>5, <1>7, SgIdle, <1>3 DEF SgObjectOps
<1>11. SgSameUse(rsPg, rsPg') BY <1>6 DEF SgSameUse
<1>12. n \in Nat BY <1>1, <1>2, SgLiveNat
<1>13. ASSUME limited, SgValuesKnown(f) PROVE SgValuesKnown(r)'
    <2>1. SgAsked(q) /\ n <= ByteLimit /\ n <= f.current
        BY <1>1, <1>3, <1>13 DEF SgValuesKnown
    <2>2. SgLive(rsPg', stNow') = n BY <1>1, <1>6
    <2>3. usageCache'.size = f.current BY <1>4
    <2>4. CASE r = Idle
        BY <1>3, <1>12, <2>1, <2>2, <2>3, <2>4 DEF SgValuesKnown, SgPending, SgDropped, Idle
    <2>5. CASE r = w /\ Room(q, f.current)
        <3>1. SgAsked(w)' BY <1>6, <1>7, <2>1 DEF SgAsked, SgGrow
        <3>2. n + w.delta <= ByteLimit BY <1>3, <1>7, <1>12, <2>1, <2>5, SgLimit DEF SgWrite, Room
        <3> QED BY <1>3, <1>7, <1>12, <2>1, <2>2, <2>3, <2>5, <3>1, <3>2
              DEF SgValuesKnown, SgPending, SgDropped
    <2> QED BY <1>5, <2>4, <2>5
<1>14. SgSerial(f) => SgSerial(r)' BY <1>6, <1>10, <1>11, <1>13, SgValueStep DEF SgReadNow
<1>15. SgRows' BY <1>2, <1>6 DEF SgRows
<1>16. SgShared' BY <1>2, <1>3, <1>4, <1>6 DEF SgShared
<1>17. f.op # "idle" BY <1>3
<1> QED BY <1>1, <1>5, <1>6, <1>9, <1>14, <1>15, <1>16, <1>17, SgWent

\* The write: the size it replaces,
LEMMA SgOldNat ==
    ASSUME NEW d, SgPg(d), NEW key PROVE PgKVOldSize(d, NS, key) \in Nat
BY SgParts DEF SgPg, SgValues, PgKVOldSize

LEMMA SgKVReadSize ==
    ASSUME SgInv, NEW t \in StorageThreads, KVReadSize(t) PROVE SgInv'
<1>1. PICK q, n : q = stReq[t] /\ n = PgKVOldSize(rsPg, NS, q.key) OBVIOUS
<1>2. PICK r : r = [op |-> "kvCommit", r |-> q, old |-> n] OBVIOUS
<1>3. SgShared /\ SgPg(rsPg) /\ SgRows BY DEF SgInv, SgRows
<1>4. q.op = "kvWrite" /\ SgWrite(q)
    BY <1>1 DEF KVReadSize, Step, SgInv, SgRequests, SgRequest
<1>5. Then(t, r) /\ Carry /\ SgStill /\ rsPg' = rsPg /\ rsStore' = rsStore
    BY <1>1, <1>2 DEF KVReadSize, KVRest, SgStill, repositories
<1>6. r.op = "kvCommit" /\ r.r = q /\ r.old = n /\ "op" \in DOMAIN r BY <1>2
<1>7. n \in Nat BY <1>1, <1>3, SgOldNat
<1>8. SgRequest(r) BY <1>4, <1>6, <1>7 DEF SgRequest
<1>9. q.op \notin SgObjectOps /\ r.op \notin SgObjectOps BY <1>4, <1>6 DEF SgObjectOps
<1>10. /\ UNCHANGED <<bucket, limited, drifted>> /\ stNow' = stNow /\ usageCache' = usageCache
       /\ rsMiscounted' = rsMiscounted
    BY <1>5 DEF SgStill
<1>11. SgSameUse(rsPg, rsPg') BY <1>5 DEF SgSameUse
<1>12. SgReadNow(r)' BY <1>1, <1>5, <1>6 DEF SgReadNow
<1>13. ASSUME SgValuesKnown(q) PROVE SgValuesKnown(r)'
    <2>1. SgAsked(q)' BY <1>4, <1>5, <1>10, <1>13 DEF SgValuesKnown, SgAsked
    <2> QED BY <1>4, <1>5, <1>6, <1>10, <1>13, <2>1 DEF SgValuesKnown, SgPending, SgDropped
<1>14. SgSerial(q) => SgSerial(r)' BY <1>9, <1>10, <1>11, <1>12, <1>13, SgValueStep
<1>15. SgRows' BY <1>3, <1>5, <1>10 DEF SgRows
<1>16. SgShared' BY <1>3, <1>5, SgSharedStill
<1>17. q.op # "idle" BY <1>4
<1> QED BY <1>1, <1>5, <1>8, <1>14, <1>15, <1>16, <1>17, SgWent

\* and the change.
LEMMA SgKVWrite ==
    ASSUME SgInv, NEW t \in StorageThreads, KVWrite(t) PROVE SgInv'
<1>1. PICK c, q, key, old : c = stReq[t] /\ q = c.r /\ key = q.key /\ old = c.old OBVIOUS
<1>2. PICK p, s : /\ p = IF q.v # NotFound THEN PgKVPutWithSizeDelta(rsPg, Cap, NS, key, q.v, old)
                         ELSE PgKVDeleteWithSizeDelta(rsPg, Cap, NS, key, old)
                  /\ s = IF q.v # NotFound THEN StoreKVPutWithSizeDelta(rsStore, Cap, NS, key, q.v)
                         ELSE StoreKVDeleteWithSizeDelta(rsStore, Cap, NS, key)
    OBVIOUS
<1>3. PICK r : r = [op |-> "kvCache", org |-> q.org, counted |-> q.counted,
                    delta |-> p.val, exact |-> p.val = q.delta]
    OBVIOUS
<1>4. SgShared /\ SgPg(rsPg) /\ SgStore(rsStore) /\ SgRows BY DEF SgInv, SgRows
<1>5. c.op = "kvCommit" /\ SgWrite(q) /\ old \in Nat
    BY <1>1 DEF KVWrite, Step, SgInv, SgRequests, SgRequest
<1>6. Then(t, r) /\ Carry /\ rsStore' = s.db /\ rsPg' = p.db
      /\ rsMiscounted' = (rsMiscounted \/ old # PgKVOldSize(rsPg, NS, key))
      /\ UNCHANGED <<stNow, usageCache, bucket, limited, drifted>>
    BY <1>1, <1>2, <1>3 DEF KVWrite, KVRest
<1>7. SgStore(s.db) BY <1>5, <1>4, SgStoreWrites, <1>2 DEF SgWrite
<1>8. SgWrote(rsPg, p, key, SgGrow(q), old)
    BY <1>5, <1>4, SgPgPut, <1>2, SgPgDelete DEF SgWrite, SgGrow
<1>9. SgPg(p.db) /\ SgUsed(p.db) = SgUsed(rsPg) /\ p.val \in Int BY <1>8 DEF SgWrote
<1>10. /\ r.op = "kvCache" /\ r.delta = p.val /\ "op" \in DOMAIN r
       /\ r.org = q.org /\ r.exact = (p.val = q.delta)
    BY <1>3, Zenon
<1>11. SgRequest(r) BY <1>9, <1>10 DEF SgRequest
<1>12. c.op \notin SgObjectOps /\ r.op \notin SgObjectOps BY <1>5, <1>10 DEF SgObjectOps
<1>13. UNCHANGED <<bucket, limited, drifted>> /\ stNow' = stNow /\ usageCache' = usageCache
    BY <1>6
<1>14. SgSameUse(rsPg, rsPg') BY <1>6, <1>9 DEF SgSameUse
<1>15. ASSUME limited, SgValuesKnown(c) PROVE SgValuesKnown(r)'
    <2>1. PICK n, m, a, g : /\ n = SgLive(rsPg, stNow) /\ m = SgLive(p.db, stNow)
                            /\ a = Total(SgAt(rsPg, stNow, NS, key)) /\ g = SgGrow(q)
        OBVIOUS
    <2>2. n \in Nat /\ m \in Nat /\ a \in Nat BY <1>4, <1>9, <2>1, SgLiveNat, SgAtNat
    <2>3. g \in Nat BY <1>5, <2>1 DEF SgGrow, SgWrite
    <2>4. /\ n <= ByteLimit /\ g - a <= q.delta
          /\ (q.delta > 0 => n + q.delta <= ByteLimit)
          /\ (usageCache.known => n <= usageCache.size + 0)
        BY <1>1, <1>5, <1>15, <2>1 DEF SgValuesKnown, SgAsked, SgPending, SgDropped
    <2>5. q.delta \in Int /\ (q.org \/ q.delta <= 0) /\ stNow \in Nat /\ usageCache.size \in Nat
        BY <1>4, <1>5 DEF SgWrite, SgShared
    <2>6. m <= n \/ m <= n + q.delta BY <2>1, <2>2, <2>5, <2>3, <2>4, <1>8 DEF SgWrote
    <2>7. p.val = q.delta => m <= n + p.val BY <2>1, <2>2, <2>5, <2>3, <2>4, <1>8 DEF SgWrote
    <2>8. m <= ByteLimit BY <2>2, <2>4, <2>5, <2>6, SgLimit
    <2>9. usageCache.known /\ ~(q.org /\ ~(p.val = q.delta))
            => m <= usageCache.size + (IF q.org THEN p.val ELSE 0)
        BY <1>9, <2>2, <2>4, <2>5, <2>6, <2>7
    <2>10. usageCache.known /\ ~SgDropped(r) => m <= usageCache.size + SgPending(r)
        BY <1>10, <2>9 DEF SgDropped, SgPending
    <2>11. SgLive(rsPg', stNow') = m BY <1>6, <1>13, <2>1
    <2> QED BY <1>10, <1>13, <2>8, <2>10, <2>11 DEF SgValuesKnown
<1>16. SgReadNow(r)' BY <1>10 DEF SgReadNow
<1>17. SgReadNow(c) /\ ~rsMiscounted => ~rsMiscounted' BY <1>1, <1>5, <1>6 DEF SgReadNow
<1>18. SgSerial(c) => SgSerial(r)' BY <1>12, <1>13, <1>14, <1>15, <1>16, <1>17, SgValueStep
<1>19. SgRows' BY <1>4, <1>6, <1>7, <1>8, <1>9 DEF SgRows, SgWrote
<1>20. SgShared' BY <1>4, <1>13 DEF SgShared
<1>21. c.op # "idle" BY <1>5
<1> QED BY <1>1, <1>6, <1>11, <1>18, <1>19, <1>20, <1>21, SgWent

\* The cache follows.
LEMMA SgAdjustCache ==
    ASSUME SgInv, NEW t \in StorageThreads, AdjustKVOrgUsageCache(t) PROVE SgInv'
<1>1. PICK q, n : q = stReq[t] /\ n = SgLive(rsPg, stNow) OBVIOUS
<1>2. SgShared /\ SgRows /\ SgPg(rsPg) BY DEF SgInv, SgRows
<1>3. q.op = "kvCache" /\ q.delta \in Int
    BY <1>1 DEF AdjustKVOrgUsageCache, Step, SgInv, SgRequests, SgRequest
<1>4. PICK r : Then(t, r) /\ r \in {[op |-> "kvWrote"], Idle}
    BY DEF AdjustKVOrgUsageCache
<1>5. /\ Carry /\ rsPg' = rsPg /\ rsStore' = rsStore /\ stNow' = stNow
      /\ rsMiscounted' = rsMiscounted /\ UNCHANGED <<bucket, limited, drifted>>
    BY DEF AdjustKVOrgUsageCache, KVRest, repositories
<1>6. usageCache' = IF q.org THEN AdjustedUsage(q) ELSE usageCache
    BY <1>1 DEF AdjustKVOrgUsageCache
<1>7. SgRequest(r) /\ SgNeither(r)
    BY <1>4, SgIdle DEF SgRequest, SgNeither, SgObjectOps, SgValueOps
<1>8. PICK c, d : c = usageCache /\ d = usageCache' OBVIOUS
<1>9. {"size", "known", "fresh"} \subseteq DOMAIN c /\ c.size \in Nat /\ (c.fresh => c.known)
    BY <1>2, <1>8 DEF SgShared
<1> DEFINE more == [size |-> Clamp(c.size + q.delta), known |-> TRUE, fresh |-> TRUE]
<1>10. \/ d = c /\ (~q.org \/ (q.exact /\ ~c.known))
       \/ d = NoUsage /\ q.org
       \/ q.org /\ q.exact /\ c.known /\ d = more BY <1>6, <1>8 DEF AdjustedUsage
<1>11. Clamp(c.size + q.delta) \in Nat /\ Clamp(c.size + q.delta) >= c.size + q.delta
    BY <1>3, <1>9 DEF Clamp
<1>12. {"size", "known", "fresh"} \subseteq DOMAIN d /\ d.size \in Nat /\ (d.fresh => d.known)
    BY <1>9, <1>10, <1>11 DEF NoUsage
<1>13. SgShared' BY <1>2, <1>5, <1>8, <1>12 DEF SgShared
<1>14. SgSameUse(rsPg, rsPg') BY <1>5 DEF SgSameUse
<1>15. n \in Nat BY <1>1, <1>2, SgLiveNat
<1>16. ASSUME limited, SgValuesKnown(q) PROVE SgValuesKnown(r)'
    <2>1. n <= ByteLimit BY <1>1, <1>16 DEF SgValuesKnown
    <2>2. c.known /\ ~(q.org /\ ~q.exact) => n <= c.size + (IF q.org THEN q.delta ELSE 0)
        BY <1>1, <1>3, <1>8, <1>16 DEF SgValuesKnown, SgPending, SgDropped
    <2>3. d.known => n <= d.size + 0
        BY <1>3, <1>9, <1>10, <1>11, <1>15, <2>2 DEF NoUsage
    <2>4. SgLive(rsPg', stNow') = n BY <1>1, <1>5
    <2> QED BY <1>7, <1>8, <2>1, <2>3, <2>4
          DEF SgValuesKnown, SgPending, SgDropped, SgNeither, SgValueOps
<1>17. q.op \notin SgObjectOps /\ r.op \notin SgObjectOps /\ r.op # "kvCommit"
    BY <1>3, <1>7 DEF SgObjectOps, SgValueOps, SgNeither
<1>18. SgSerial(q) => SgSerial(r)' BY <1>5, <1>14, <1>16, <1>17, SgValueStep
    DEF SgReadNow
<1>19. SgRows' BY <1>2, <1>5 DEF SgRows
<1>20. q.op # "idle" BY <1>3
<1> QED BY <1>1, <1>4, <1>5, <1>7, <1>13, <1>18, <1>19, <1>20, SgWent

---------------------------------------------------------------------------
(* Steps of no request: time, the cache, the process, a client that lists. *)

LEMMA SgElsewhere ==
    ASSUME SgInv, stReq' = stReq, stLeft' \in Nat, overlapped' = overlapped, SgRows', SgShared',
           \A r : SgSerial(r) => SgSerial(r)'
    PROVE  SgInv'
BY DEF SgInv, SgRequests, SgOnly

LEMMA SgUsageCacheExpires == ASSUME SgInv, UsageCacheExpires PROVE SgInv'
<1>1. /\ stReq' = stReq /\ stLeft' = stLeft /\ overlapped' = overlapped /\ rsPg' = rsPg
      /\ rsStore' = rsStore /\ UNCHANGED <<rsMiscounted, stNow, bucket, limited, drifted>>
    BY DEF UsageCacheExpires, repositories, KVRest
<1>2. SgRows /\ SgShared /\ stLeft \in Nat BY DEF SgInv, SgRequests
<1>3. /\ DOMAIN usageCache' = DOMAIN usageCache /\ usageCache'.size = usageCache.size
      /\ usageCache'.known = usageCache.known /\ ~usageCache'.fresh
    BY <1>2 DEF UsageCacheExpires, SgShared
<1>4. SgRows' BY <1>1, <1>2 DEF SgRows
<1>5. SgShared' BY <1>1, <1>2, <1>3 DEF SgShared
<1>6. ASSUME NEW r, SgSerial(r) PROVE SgSerial(r)'
    BY <1>1, <1>6, <1>3 DEF SgSerial, SgObjectsKnown, SgFoundObject, SgCounted, SgValuesKnown,
       SgAsked, SgReadNow
<1> QED BY <1>1, <1>2, <1>4, <1>5, <1>6, SgElsewhere

LEMMA SgExpiryPasses == ASSUME SgInv, ExpiryPasses PROVE SgInv'
<1>1. /\ stReq' = stReq /\ stLeft' = stLeft /\ rsPg' = rsPg /\ rsStore' = rsStore
      /\ stNow = 0 /\ stNow' = 1 /\ UNCHANGED <<rsMiscounted, usageCache, bucket, limited, drifted>>
    BY DEF ExpiryPasses, repositories
<1>2. SgRows /\ SgShared BY DEF SgInv
<1>3. SgRows' BY <1>1, <1>2 DEF SgRows
<1>4. SgShared' BY <1>1, <1>2 DEF SgShared
<1>5. SgRequests' BY <1>1 DEF SgInv, SgRequests
<1>6. ASSUME ~overlapped' PROVE \E r : SgOnly(r)' /\ SgSerial(r)'
    <2>1. ~overlapped /\ \A t \in StorageThreads : stReq[t] = Idle BY <1>6 DEF ExpiryPasses, Meanwhile
    <2>2. PICK q : SgOnly(q) /\ SgSerial(q) BY <2>1 DEF SgInv
    <2>3. q = Idle BY <2>1, <2>2 DEF SgOnly
    <2>4. SgObjectsKnown(Idle) /\ (limited => SgValuesKnown(Idle)) /\ ~rsMiscounted
        BY <2>2, <2>3 DEF SgSerial
    <2>5. Idle.op \notin SgObjectOps /\ Idle.op \notin SgValueOps BY SgIdle DEF SgNeither
    <2>6. SgPg(rsPg) /\ SgPg(rsPg') /\ SgSameUse(rsPg, rsPg') BY <1>1, <1>2 DEF SgRows, SgSameUse
    <2>7. UNCHANGED <<bucket, limited, drifted>> BY <1>1
    <2>8. SgObjectsKnown(Idle)' BY <2>4, <2>5, <2>6, <2>7, SgObjectsFrame
    <2>9. /\ rsPg'.runtime_kv \subseteq rsPg.runtime_kv /\ stNow \in Nat /\ stNow' \in Nat
          /\ stNow <= stNow' /\ usageCache.size \in Nat
          /\ (usageCache'.known => usageCache.known) /\ usageCache'.size = usageCache.size
        BY <1>1, <1>2 DEF SgShared
    <2>10. limited' => SgValuesKnown(Idle)' BY <1>1, <2>4, <2>5, <2>6, <2>9, SgLimit, SgValuesFrame
    <2>11. SgOnly(Idle)' BY <1>1, <2>1 DEF SgOnly
    <2> QED BY <1>1, <2>4, <2>8, <2>10, <2>11 DEF SgSerial, SgReadNow, Idle
<1> QED BY <1>3, <1>4, <1>5, <1>6 DEF SgInv

\* After a stop there are no requests, and objects may not be what the usage says.
LEMMA SgStorageCrash == ASSUME SgInv, StorageCrash PROVE SgInv'
<1>1. /\ stReq' = [t \in StorageThreads |-> Idle] /\ stLeft' = stLeft /\ overlapped' = overlapped
      /\ usageCache' = NoUsage /\ drifted' = "yes"
      /\ UNCHANGED <<rsMiscounted, stNow, bucket, limited>> /\ rsPg' = rsPg /\ rsStore' = rsStore
    BY DEF StorageCrash, repositories
<1>2. SgRows /\ SgShared /\ stLeft \in Nat BY DEF SgInv, SgRequests
<1>3. SgRows' BY <1>1, <1>2 DEF SgRows
<1>4. SgShared' BY <1>1, <1>2 DEF SgShared, NoUsage
<1>5. SgRequests' BY <1>1, <1>2, SgIdle DEF SgRequests
<1>6. ASSUME ~overlapped' PROVE SgOnly(Idle)' /\ SgSerial(Idle)'
    BY <1>1, <1>6 DEF SgInv, SgObjectsKnown, Idle, SgSerial, SgValuesKnown, NoUsage, SgOnly,
       SgReadNow
<1> QED BY <1>3, <1>4, <1>5, <1>6 DEF SgInv

\* A listing, and the writes that go with it, are of an organization without limits, and are
\* seen by no request that is the only one.
LEMMA SgListed ==
    ASSUME SgInv, ~limited, stReq' = stReq, stLeft' \in Nat, Meanwhile, SgStill,
           SgStore(rsStore'), SgPg(rsPg'), SgSameUse(rsPg, rsPg'), SgExact(rsPg) => SgExact(rsPg')
    PROVE  SgInv'
<1>1. SgRows' /\ SgRequests' BY DEF SgInv, SgRows, SgRequests, SgStill
<1>2. SgShared' BY SgSharedStill DEF SgInv
<1>3. ASSUME ~overlapped' PROVE SgOnly(Idle)' /\ SgSerial(Idle)'
    <2>1. ~overlapped /\ \A t \in StorageThreads : stReq[t] = Idle BY <1>3 DEF Meanwhile
    <2>2. PICK q : SgOnly(q) /\ SgSerial(q) BY <2>1 DEF SgInv
    <2>3. SgSerial(Idle) BY <2>1, <2>2 DEF SgOnly
    <2>4. SgObjectsKnown(Idle)' BY <2>3, SgIdle, SgObjectsFrame DEF SgSerial, SgStill, SgNeither
    <2>5. ~limited' /\ ~rsMiscounted' BY <2>3 DEF SgStill, SgSerial
    <2> QED BY <2>1, <2>4, <2>5 DEF SgOnly, SgSerial, SgReadNow, Idle
<1> QED BY <1>1, <1>2, <1>3 DEF SgInv

LEMMA SgListing == ASSUME SgInv, ~limited, ListingNext PROVE SgInv'
<1>1. SgStore(rsStore) /\ SgPg(rsPg) /\ stLeft \in Nat BY DEF SgInv, SgRows, SgRequests
<1>2. ASSUME NEW key, ListedDelete(key) PROVE SgInv'
    <2>1. PICK old : old = PgKVOldSize(rsPg, NS, key) OBVIOUS
    <2>2. /\ stReq' = stReq /\ stLeft' \in Nat /\ Meanwhile /\ SgStill
          /\ rsStore' = StoreKVDeleteWithSizeDelta(rsStore, Cap, NS, key).db
          /\ rsPg' = PgKVDeleteWithSizeDelta(rsPg, Cap, NS, key, old).db
        BY <1>1, <1>2, <2>1 DEF ListedDelete, Both, SgStill
    <2>3. SgWrote(rsPg, PgKVDeleteWithSizeDelta(rsPg, Cap, NS, key, old), key, 0, old)
        BY <1>1, <2>1, SgOldNat, SgPgDelete
    <2>4. SgPg(rsPg') /\ SgSameUse(rsPg, rsPg') /\ (SgExact(rsPg) => SgExact(rsPg'))
        BY <2>1, <2>2, <2>3 DEF SgWrote, SgSameUse
    <2>5. SgStore(rsStore') BY <1>1, <2>2, SgStoreWrites
    <2> QED BY <2>2, <2>4, <2>5, SgListed
<1>3. ASSUME NEW key, NEW v, v.size \in Nat, v.expires \in Nat, ListedPut(key, v) PROVE SgInv'
    <2>5. PICK old : old = PgKVOldSize(rsPg, NS, key) OBVIOUS
    <2>1. /\ stReq' = stReq /\ stLeft' \in Nat /\ Meanwhile /\ SgStill
          /\ rsStore' = StoreKVPutWithSizeDelta(rsStore, Cap, NS, key, v).db
          /\ rsPg' = PgKVPutWithSizeDelta(rsPg, Cap, NS, key, v, old).db
        BY <1>1, <1>3, <2>5 DEF ListedPut, Both, SgStill
    <2>2. SgWrote(rsPg, PgKVPutWithSizeDelta(rsPg, Cap, NS, key, v, old), key, v.size, old)
        BY <1>1, <1>3, <2>5, SgOldNat, SgPgPut
    <2>3. SgPg(rsPg') /\ SgSameUse(rsPg, rsPg') /\ (SgExact(rsPg) => SgExact(rsPg'))
        BY <2>1, <2>2, <2>5 DEF SgWrote, SgSameUse
    <2>4. SgStore(rsStore') BY <1>1, <1>3, <2>1, SgStoreWrites
    <2> QED BY <2>1, <2>3, <2>4, SgListed
<1>4. ASSUME NEW prefix, StartListing(prefix) PROVE SgInv'
    <2>1. /\ stReq' = stReq /\ stLeft' \in Nat /\ overlapped' = overlapped
          /\ rsPg' = rsPg /\ rsStore' = rsStore /\ SgStill
        BY <1>1, <1>4 DEF StartListing, repositories, SgStill
    <2>2. SgRows' BY <2>1 DEF SgInv, SgRows, SgStill
    <2>3. SgShared' BY <2>1, SgSharedStill DEF SgInv
    <2>4. ASSUME NEW r, SgSerial(r) PROVE SgSerial(r)'
        BY <2>1, <2>4 DEF SgStill, SgSerial, SgObjectsKnown, SgFoundObject, SgCounted, SgReadNow
    <2> QED BY <2>1, <2>2, <2>3, <2>4, SgElsewhere
<1>5. CASE RuntimeKVList
    BY <1>1, <1>5, SgPgLook, SgStoreLook, SgListed DEF RuntimeKVList, SgStill, SgQuiet
<1>6. CASE ExpiryPasses BY <1>6, SgExpiryPasses
<1>7. \/ \E key : ListedDelete(key)
      \/ \E key, e : e \in {0, 1} /\ ListedPut(key, [size |-> 1, expires |-> e])
      \/ \E prefix : StartListing(prefix)
      \/ RuntimeKVList \/ ExpiryPasses
    BY Zenon DEF ListingNext
<1>8. ASSUME NEW key, NEW e, e \in {0, 1}, ListedPut(key, [size |-> 1, expires |-> e]) PROVE SgInv'
    BY <1>8, <1>3
<1> QED BY <1>2, <1>4, <1>5, <1>6, <1>7, <1>8, Zenon

---------------------------------------------------------------------------
(* Objects.                                                                *)

\* A step of a request about objects.
SgObjectsOnly == UNCHANGED <<rsMiscounted, stNow, usageCache, limited>>
LEMMA SgObjectBegins ==
    ASSUME SgInv, NEW t \in StorageThreads, NEW r, SgRequest(r), r.op \notin SgValueOps, Begin(t, r),
           rsStore' = rsStore, rsPg' = rsPg, bucket' = bucket, SgObjectsOnly,
           SgObjectsKnown(Idle) => SgObjectsKnown(r)'
    PROVE  SgInv'
BY SgIdle, SgObjectStep, SgBegun DEF SgInv, SgRows, SgShared, SgObjectsOnly, SgNeither

LEMMA SgObjectGoes ==
    ASSUME SgInv, NEW t \in StorageThreads, NEW q, q = stReq[t], q.op # "idle", q.op \notin SgValueOps,
           NEW r, SgRequest(r), r.op \notin SgValueOps, Then(t, r), Carry,
           SgStore(rsStore'), SgPg(rsPg'), rsPg'.runtime_kv \subseteq rsPg.runtime_kv,
           SgExact(rsPg) => SgExact(rsPg'), SgObjectsIn(bucket'), SgObjectsOnly, SgObjectsKnown(q) => SgObjectsKnown(r)'
    PROVE  SgInv'
BY SgObjectStep, SgWent DEF SgInv, SgRows, SgShared, SgObjectsOnly

\* What is known of the usage and of the objects, as numbers.
LEMMA SgBucketNumbers ==
    ASSUME SgInv
    PROVE  /\ SgUsed(rsPg).size \in Nat /\ SgUsed(rsPg).count \in Nat
           /\ SgStored(bucket) \in Nat /\ Cardinality(DOMAIN bucket) \in Nat
           /\ \A p : SgSizeAt(bucket, p) \in Nat
           /\ SgObjectsIn(bucket) /\ SgPg(rsPg) /\ SgStore(rsStore)
BY SgUsedNat, SgStoredNat DEF SgInv, SgRows, SgShared, SgObjectMetrics

\* The object is looked up,
LEMMA SgObjectLook ==
    ASSUME SgInv, NEW t \in StorageThreads, NEW path, NEW n \in Nat,
           RuntimeObjectPut(t, path, n) \/ RuntimeObjectDelete(t, path)
    PROVE  SgInv'
<1>1. PICK old, existed : old = SizeAt(path) /\ existed = (path \in DOMAIN bucket) OBVIOUS
<1>2. old = SgSizeAt(bucket, path) BY <1>1 DEF SizeAt, SgSizeAt
<1>3. old \in Nat /\ n \in Nat BY <1>2, SgBucketNumbers
<1>4. PICK r : /\ Begin(t, r)
               /\ \/ r = [op |-> "objectLimit", path |-> path, size |-> n, old |-> old,
                          existed |-> existed]
                  \/ r = [op |-> "objectDelete", path |-> path, old |-> old, existed |-> existed]
    BY <1>1, Zenon DEF RuntimeObjectPut, RuntimeObjectDelete
<1>5. /\ rsStore' = rsStore /\ rsPg' = rsPg /\ bucket' = bucket /\ drifted' = drifted
      /\ SgObjectsOnly
    BY DEF RuntimeObjectPut, RuntimeObjectDelete, ObjectRest, repositories, SgObjectsOnly
<1>6. r.op \in {"objectLimit", "objectDelete"} /\ r.path = path /\ r.old = old BY <1>4
<1>7. r.existed = existed
    <2>1. CASE r = [op |-> "objectLimit", path |-> path, size |-> n, old |-> old, existed |-> existed]
        BY <2>1, Zenon
    <2>2. CASE r = [op |-> "objectDelete", path |-> path, old |-> old, existed |-> existed]
        BY <2>2, Zenon
    <2> QED BY <1>4, <2>1, <2>2, Zenon
<1>8. SgRequest(r) /\ r.op \notin SgValueOps BY <1>3, <1>4 DEF SgRequest, SgValueOps
<1>9. ASSUME SgObjectsKnown(Idle) PROVE SgObjectsKnown(r)'
    BY <1>1, <1>7, <1>2, <1>5, <1>6, <1>9 DEF SgFoundObject, SgObjectsOnly, SgObjectsKnown,
       SgOwedSize, SgOwedCount, SgCounted, Idle
<1> QED BY <1>4, <1>5, <1>8, <1>9, SgObjectBegins

\* room for it is looked for,
LEMMA SgEnforceObjects ==
    ASSUME SgInv, NEW t \in StorageThreads, EnforceObjectStorageBytesLimit(t) PROVE SgInv'
<1>1. PICK q, x, u, s, in : /\ q = stReq[t] /\ x = [q EXCEPT !.op = "objectPut"]
                            /\ u = SgUsed(rsPg).size /\ s = SgStored(bucket)
                            /\ in = PgObjectStorageBytesByOrg(rsPg, Org)
    OBVIOUS
<1>2. q.op = "objectLimit"
    BY <1>1 DEF EnforceObjectStorageBytesLimit, Step
<1>3. /\ {"op", "path", "size", "old", "existed"} \subseteq DOMAIN q /\ q.old \in Nat /\ q.size \in Nat
    BY <1>1, <1>2 DEF SgInv, SgRequests, SgRequest
<1>4. PICK r : /\ Then(t, r) /\ Carry
               /\ \/ r = Idle
                  \/ r = x /\ (q.size <= q.old \/ ~limited \/ in + q.size - q.old <= ByteLimit)
    BY <1>1 DEF EnforceObjectStorageBytesLimit
<1>5. /\ rsStore' = rsStore /\ rsPg' = rsPg /\ bucket' = bucket /\ drifted' = drifted
      /\ SgObjectsOnly /\ limited' = limited
    BY DEF EnforceObjectStorageBytesLimit, ObjectRest, repositories, SgObjectsOnly
<1>6. /\ x.op = "objectPut" /\ DOMAIN x = DOMAIN q /\ x.path = q.path /\ x.size = q.size
      /\ x.old = q.old
    BY <1>1, <1>3
<1>7. x.existed = q.existed BY <1>1, <1>3
<1>8. /\ u \in Nat /\ s \in Nat /\ SgObjectsIn(bucket) /\ SgPg(rsPg) /\ SgStore(rsStore)
    BY <1>1, SgBucketNumbers
<1>9. in \in Nat /\ u <= in BY <1>1, <1>8, SgPgObjectBytes
<1>10. SgRequest(r) /\ r.op \notin SgValueOps
    BY <1>3, <1>4, <1>6, SgIdle DEF SgRequest, SgValueOps, SgNeither
<1>11. ASSUME SgObjectsKnown(q) PROVE SgObjectsKnown(r)'
    <2>1. CASE r = Idle
        BY <1>2, <1>5, <1>11, <2>1 DEF SgObjectsKnown, SgOwedSize, SgOwedCount, SgCounted, Idle
    <2>2. CASE r = x /\ (q.size <= q.old \/ ~limited \/ in + q.size - q.old <= ByteLimit)
        <3>1. drifted # "yes" => u + 0 = s
            BY <1>1, <1>2, <1>11 DEF SgObjectsKnown, SgOwedSize
        <3>2. limited /\ drifted = "never" => s <= ByteLimit
            BY <1>1, <1>11 DEF SgObjectsKnown
        <3>3. limited /\ drifted = "never" => s + q.size - q.old <= ByteLimit
            BY <1>3, <1>8, <1>9, <2>2, <3>1, <3>2, SgLimit
        <3>4. drifted # "yes" => SgFoundObject(r)'
            BY <1>2, <1>11, <1>5, <1>6, <1>7, <2>2 DEF SgObjectsKnown, SgFoundObject
        <3>5. drifted # "yes" => SgCounted(r)'
            BY <1>11, <1>2, <1>5, <1>6, <2>2 DEF SgObjectsKnown, SgCounted, SgOwedCount
        <3>6. r.op = "objectPut" /\ r.size = q.size /\ r.old = q.old BY <1>6, <2>2
        <3> QED BY <1>1, <1>5, <3>1, <3>2, <3>3, <3>4, <3>5, <3>6 DEF SgObjectsKnown, SgOwedSize
    <2> QED BY <1>4, <2>1, <2>2
<1>12. rsPg'.runtime_kv \subseteq rsPg.runtime_kv /\ q.op # "idle" /\ q.op \notin SgValueOps
    BY <1>2, <1>5 DEF SgValueOps
<1> QED BY <1>1, <1>4, <1>5, <1>8, <1>10, <1>11, <1>12, SgObjectGoes

\* it is written or deleted, and the usage is owed the difference.
LEMMA SgObjectChanges ==
    ASSUME SgInv, NEW t \in StorageThreads, ObjectPut(t) \/ DeleteObject(t) PROVE SgInv'
<1>1. PICK q, b : q = stReq[t] /\ b = bucket' OBVIOUS
<1>2. \/ q.op = "objectPut" /\ b = Put(bucket, q.path, q.size)
      \/ q.op = "objectDelete" /\ b = Drop(bucket, q.path)
    BY <1>1 DEF ObjectPut, DeleteObject, Step
<1>3. q.old \in Nat /\ (q.op = "objectPut" => q.size \in Nat)
    BY <1>1, <1>2 DEF SgInv, SgRequests, SgRequest
<1>4. PICK size, k, r :
        /\ size = (IF q.op = "objectPut" THEN q.size ELSE 0)
        /\ k = (IF q.op = "objectPut" THEN (IF q.existed THEN 0 ELSE 1)
                ELSE (IF q.existed THEN -1 ELSE 0))
        /\ r = [op |-> "objectSize", delta |-> size - q.old, count |-> k]
    OBVIOUS
<1>5. Then(t, r) /\ Carry
    BY <1>1, <1>2, <1>4 DEF ObjectPut, DeleteObject, Adjusting, Step
<1>6. /\ rsStore' = rsStore /\ rsPg' = rsPg /\ drifted' = drifted /\ SgObjectsOnly
      /\ limited' = limited
    BY DEF ObjectPut, DeleteObject, ObjectRest, repositories, SgObjectsOnly
<1>7. PICK s, n, a : s = SgStored(bucket) /\ n = Cardinality(DOMAIN bucket)
                     /\ a = SgSizeAt(bucket, q.path)
    OBVIOUS
<1>8. /\ s \in Nat /\ n \in Nat /\ a \in Nat /\ SgUsed(rsPg).size \in Nat
      /\ SgUsed(rsPg).count \in Nat /\ SgObjectsIn(bucket) /\ SgPg(rsPg) /\ SgStore(rsStore)
    BY <1>7, SgBucketNumbers
<1>9. size \in Nat /\ k \in Int BY <1>3, <1>4
<1>10. /\ SgObjectsIn(b) /\ SgStored(b) = s - a + size
       /\ Cardinality(DOMAIN b) = n + (IF q.op = "objectPut"
              THEN (IF q.path \in DOMAIN bucket THEN 0 ELSE 1)
              ELSE (IF q.path \in DOMAIN bucket THEN -1 ELSE 0))
    BY <1>3, <1>8, SgPutObject, <1>4, <1>7, SgDropObject, <1>2
<1>11. r.op = "objectSize" /\ r.delta = size - q.old /\ r.count = k BY <1>4
<1>12. SgRequest(r) /\ r.op \notin SgValueOps
    BY <1>3, <1>4, <1>9 DEF SgRequest, SgValueOps
<1>13. ASSUME SgObjectsKnown(q) PROVE SgObjectsKnown(r)'
    <2>1. drifted # "yes" => SgFoundObject(q) BY <1>2, <1>13 DEF SgObjectsKnown
    <2>2. drifted # "yes" => q.old = a BY <1>7, <2>1 DEF SgFoundObject
    <2>3. drifted # "yes" => Cardinality(DOMAIN b) = n + k
        BY <1>4, <1>8, <1>10, <2>1 DEF SgFoundObject
    <2>4. drifted # "yes" => SgUsed(rsPg).size = s /\ SgUsed(rsPg).count = n
        BY <1>2, <1>7, <1>8, <1>13 DEF SgObjectsKnown, SgOwedSize, SgOwedCount, SgCounted
    <2>5. limited /\ drifted = "never" => SgStored(b) <= ByteLimit
        BY <1>7, <1>13, <1>3, <1>4, <1>8, <1>10, <2>2, SgLimit DEF SgObjectsKnown
    <2>6. drifted # "yes" => SgUsed(rsPg).size + (size - q.old) = SgStored(b)
        BY <1>3, <1>8, <1>9, <1>10, <2>2, <2>4
    <2>7. drifted # "yes" => SgUsed(rsPg).count + k = Cardinality(DOMAIN b)
        BY <2>3, <2>4
    <2> QED BY <1>1, <1>6, <1>11, <2>5, <2>6, <2>7
          DEF SgObjectsKnown, SgOwedSize, SgOwedCount, SgCounted
<1>14. rsPg'.runtime_kv \subseteq rsPg.runtime_kv /\ q.op # "idle" /\ q.op \notin SgValueOps
    BY <1>2, <1>6 DEF SgValueOps
<1> QED BY <1>1, <1>5, <1>6, <1>8, <1>10, <1>12, <1>13, <1>14, SgObjectGoes

\* The usage follows: its size, then its count.
LEMMA SgAdjustObjects ==
    ASSUME SgInv, NEW t \in StorageThreads,
           \/ AdjustObjectSize(t) \/ AdjustObjectCount(t)
           \/ CorrectObjectSize(t) \/ CorrectObjectCount(t)
    PROVE  SgInv'
<1>1. PICK q, u, e : q = stReq[t] /\ u = SgUsed(rsPg) /\ e = rsPg' OBVIOUS
<1>2. /\ Carry /\ bucket' = bucket /\ drifted' = drifted /\ limited' = limited /\ SgObjectsOnly
      /\ q.op \in {"objectSize", "objectCount", "objectCorrect", "objectRecount"}
    BY <1>1 DEF AdjustObjectSize, AdjustObjectCount, CorrectObjectSize, CorrectObjectCount, Step,
       ObjectRest, SgObjectsOnly, Both, repositories
<1>3. /\ {"op", "delta", "count"} \subseteq DOMAIN q /\ q.delta \in Int /\ q.count \in Int
      /\ (q.op \in {"objectCorrect", "objectRecount"} => q.count \in Nat)
    BY <1>1, <1>2 DEF SgInv, SgRequests, SgRequest
<1>4. /\ u.size \in Nat /\ u.count \in Nat /\ SgStored(bucket) \in Nat
      /\ Cardinality(DOMAIN bucket) \in Nat /\ SgObjectsIn(bucket) /\ SgPg(rsPg) /\ SgStore(rsStore)
    BY <1>1, SgBucketNumbers
<1> DEFINE becomes(size, count) == SgAdjusted(rsPg, e, size, count)
<1>5. \/ /\ q.op = "objectSize" /\ Then(t, [q EXCEPT !.op = "objectCount"])
         /\ becomes(Clamp(u.size + q.delta), u.count)
      \/ /\ q.op = "objectCount" /\ Then(t, [op |-> "objectWrote"])
         /\ becomes(u.size, Clamp(u.count + q.count))
      \/ /\ q.op = "objectCorrect" /\ Then(t, [q EXCEPT !.op = "objectRecount"])
         /\ becomes(Clamp(u.size + q.delta), u.count)
      \/ /\ q.op = "objectRecount" /\ Then(t, Idle)
         /\ becomes(u.size, Clamp(q.count))
    <2>1. PICK delta, count : delta = q.delta /\ count = q.count OBVIOUS
    <2>2. delta \in Int /\ count \in Int BY <1>3, <2>1
    <2>3. SgAdjusted(rsPg, PgAdjustObjectStorageBucketSize(rsPg, Bucket, delta).db,
                     Clamp(u.size + delta), u.count)
        BY <1>1, <1>4, <2>2, SgPgObjectCalls
    <2>4. SgAdjusted(rsPg, PgAdjustObjectStorageBucketObjectCount(rsPg, Bucket, count).db,
                     u.size, Clamp(u.count + count))
        BY <1>1, <1>4, <2>2, SgPgObjectCalls
    <2>5. SgAdjusted(rsPg, PgSetObjectStorageBucketObjectCount(rsPg, Bucket, count).db,
                     u.size, Clamp(count))
        BY <1>1, <1>4, <2>2, SgPgObjectCalls
    <2>6. CASE AdjustObjectSize(t) BY <1>1, <2>1, <2>6, <2>3 DEF AdjustObjectSize, Step, Both
    <2>7. CASE AdjustObjectCount(t)
        BY <1>1, <2>1, <2>7, <1>4, <2>4 DEF AdjustObjectCount, Step, Both, repositories, Clamp,
           SgAdjusted
    <2>8. CASE CorrectObjectSize(t) BY <1>1, <2>1, <2>8, <2>3 DEF CorrectObjectSize, Step, Both
    <2>9. CASE CorrectObjectCount(t) BY <1>1, <2>1, <2>9, <2>5 DEF CorrectObjectCount, Step, Both
    <2> QED BY <2>6, <2>7, <2>8, <2>9
<1> HIDE DEF becomes
<1>6. SgStore(rsStore')
    BY <1>4, SgStoreCounters, <1>1 DEF AdjustObjectSize, AdjustObjectCount, CorrectObjectSize,
       CorrectObjectCount, Both, repositories
<1>7. PICK r : /\ Then(t, r)
               /\ \/ r = [q EXCEPT !.op = "objectCount"] /\ q.op = "objectSize"
                  \/ r = [op |-> "objectWrote"] /\ q.op = "objectCount"
                  \/ r = [q EXCEPT !.op = "objectRecount"] /\ q.op = "objectCorrect"
                  \/ r = Idle /\ q.op = "objectRecount"
    BY <1>5
<1>8. /\ q.op = "objectSize" =>
            /\ r.op = "objectCount" /\ r.count = q.count /\ r.delta = q.delta
            /\ {"op", "delta", "count"} \subseteq DOMAIN r
      /\ q.op = "objectCount" => r.op = "objectWrote"
      /\ q.op = "objectCorrect" =>
            /\ r.op = "objectRecount" /\ r.count = q.count /\ r.delta = q.delta
            /\ {"op", "delta", "count"} \subseteq DOMAIN r
      /\ q.op = "objectRecount" => r.op = "idle"
      /\ "op" \in DOMAIN r
    BY <1>3, <1>7 DEF Idle
<1>9. SgRequest(r) /\ r.op \notin SgValueOps
    BY <1>2, <1>3, <1>8 DEF SgRequest, SgValueOps
<1>10. /\ SgPg(e) /\ e.runtime_kv = rsPg.runtime_kv /\ SgExact(e) = SgExact(rsPg)
       /\ SgUsed(e).size = IF q.op \in {"objectSize", "objectCorrect"} THEN Clamp(u.size + q.delta)
                           ELSE u.size
       /\ q.op \in {"objectSize", "objectCorrect"} => SgUsed(e).count = u.count
       /\ q.op = "objectCount" => SgUsed(e).count = Clamp(u.count + q.count)
       /\ q.op = "objectRecount" => SgUsed(e).count = Clamp(q.count)
    BY <1>5 DEF becomes, SgAdjusted
<1>11. ASSUME SgObjectsKnown(q) PROVE SgObjectsKnown(r)'
    <2>1. r.op \in {"objectCount", "objectWrote", "objectRecount", "idle"} BY <1>2, <1>8
    <2>2. PICK s, n : s = SgStored(bucket) /\ n = Cardinality(DOMAIN bucket) OBVIOUS
    <2>3. drifted # "yes" => SgUsed(e).size = s
        BY <1>1, <1>11, <2>2, <1>4, <1>10 DEF SgObjectsKnown, SgOwedSize, Clamp
    <2>4. drifted # "yes" =>
            /\ q.op \in {"objectSize", "objectCount"} => u.count + q.count = n
            /\ q.op \in {"objectCorrect", "objectRecount"} => q.count = n
        BY <1>1, <1>11, <2>2 DEF SgObjectsKnown, SgCounted, SgOwedCount
    <2>5. drifted # "yes" =>
            /\ q.op = "objectSize" => SgUsed(e).count + r.count = n
            /\ q.op = "objectCorrect" => r.count = n
            /\ q.op \in {"objectCount", "objectRecount"} => SgUsed(e).count = n
        BY <1>4, <1>8, <1>10, <2>2, <2>4 DEF Clamp
    <2>6. drifted # "yes" => SgCounted(r)'
        BY <1>4, <2>2, <1>2, <1>8, <2>5, <1>1, <2>1 DEF SgCounted, SgOwedCount
    <2>7. drifted # "yes" => SgUsed(e).size + 0 = s BY <1>4, <2>2, <2>3
    <2>8. limited /\ drifted = "never" => s <= ByteLimit BY <1>11, <2>2 DEF SgObjectsKnown
    <2> QED BY <1>1, <1>2, <2>1, <2>2, <2>6, <2>7, <2>8 DEF SgObjectsKnown, SgOwedSize
<1>12. q.op # "idle" /\ q.op \notin SgValueOps BY <1>2 DEF SgValueOps
<1> QED BY <1>1, <1>2, <1>4, <1>6, <1>7, <1>9, <1>10, <1>11, <1>12, SgObjectGoes

\* Counting a read or a write of an object,
LEMMA SgObjectCounted ==
    ASSUME SgInv, NEW t \in StorageThreads,
           RecordRuntimeObjectWrite(t) \/ \E path : RuntimeObjectGet(t, path)
    PROVE  SgInv'
<1>1. SgStore(rsStore) /\ SgPg(rsPg) BY DEF SgInv, SgRows
<1>2. PICK u : u = SgUsed(rsPg) OBVIOUS
<1>3. /\ SgAdjusted(rsPg, PgIncrementObjectStorageBucketReads(rsPg, Bucket).db, u.size, u.count)
      /\ SgAdjusted(rsPg, PgIncrementObjectStorageBucketWrites(rsPg, Bucket).db, u.size, u.count)
    BY <1>1, <1>2, SgPgObjectCalls
<1>4. /\ SgStore(StoreIncrementObjectStorageBucketReads(rsStore, Bucket).db)
      /\ SgStore(StoreIncrementObjectStorageBucketWrites(rsStore, Bucket).db)
    BY <1>1, SgStoreCounters
<1>5. CASE RecordRuntimeObjectWrite(t)
    <2>1. PICK q : q = stReq[t] OBVIOUS
    <2>2. /\ Then(t, Idle) /\ Carry /\ q.op = "objectWrote" /\ SgStill
          /\ rsStore' = StoreIncrementObjectStorageBucketWrites(rsStore, Bucket).db
          /\ rsPg' = PgIncrementObjectStorageBucketWrites(rsPg, Bucket).db
        BY <1>5, <2>1 DEF RecordRuntimeObjectWrite, Both, Step, ObjectRest, SgStill
    <2>3. SgQuiet(rsPg, rsPg') BY <1>2, <1>3, <2>2 DEF SgQuiet, SgSameUse, SgAdjusted
    <2>4. q.op # "idle" /\ SgNeither(q) BY <2>2 DEF SgNeither, SgObjectOps, SgValueOps
    <2>5. SgStore(rsStore') BY <1>4, <2>2
    <2> QED BY <2>1, <2>2, <2>3, <2>4, <2>5, SgIdle, SgGoesQuietly
<1>6. CASE \E path : RuntimeObjectGet(t, path)
    BY <1>6, <1>2, <1>3, <1>4, SgIdle, SgBeginsQuietly DEF RuntimeObjectGet, Both, ObjectRest,
       SgStill, SgQuiet, SgSameUse, SgAdjusted
<1> QED BY <1>5, <1>6

\* an upload behind the service,
LEMMA SgPresignedUpload ==
    ASSUME SgInv, NEW path, NEW n \in Sizes, PresignedUpload(path, n) PROVE SgInv'
<1>1. /\ ~limited /\ stReq' = stReq /\ overlapped' = overlapped /\ rsStore' = rsStore
      /\ rsPg' = rsPg /\ bucket' = Put(bucket, path, n) /\ drifted' = "yes"
      /\ UNCHANGED <<rsMiscounted, stNow, usageCache, limited>> /\ stLeft > 0 /\ stLeft' = stLeft - 1
    BY DEF PresignedUpload, repositories, ObjectRest
<1>2. SgRows /\ SgShared /\ stLeft \in Nat BY DEF SgInv, SgRequests
<1>3. SgRows' /\ stLeft' \in Nat BY <1>1, <1>2 DEF SgRows
<1>4. n \in Nat /\ SgObjectsIn(bucket) BY <1>2, SgLimit DEF SgShared
<1>5. SgObjectsIn(Put(bucket, path, n)) BY <1>4, SgPutObject
<1>6. SgShared' BY <1>1, <1>2, <1>5 DEF SgShared
<1>7. ASSUME NEW r, SgSerial(r) PROVE SgSerial(r)' BY <1>1, <1>7 DEF SgSerial, SgObjectsKnown,
       SgReadNow
<1> QED BY <1>1, <1>3, <1>6, <1>7, SgElsewhere

\* and what makes up for it.
LEMMA SgBucketUsage ==
    ASSUME NEW d, SgPg(d) PROVE PgObjectStorageBucketMetrics(d, Bucket) = SgUsed(d)
BY SgBucketThere DEF PgObjectStorageBucketMetrics, SgUsed

LEMMA SgObjectMetricsAsked ==
    ASSUME SgInv, NEW t \in StorageThreads, ObjectStorageBucketMetrics(t) PROVE SgInv'
<1>1. SgPg(rsPg) BY DEF SgInv, SgRows
<1>2. PICK was : was = PgObjectStorageBucketMetrics(rsPg, Bucket).size OBVIOUS
<1>3. was = SgUsed(rsPg).size /\ was \in Nat BY <1>1, <1>2, SgBucketUsage, SgBucketNumbers
<1>4. PICK r : r = [op |-> "objectList", was |-> was] OBVIOUS
<1>5. /\ Begin(t, r) /\ rsStore' = rsStore /\ rsPg' = rsPg /\ bucket' = bucket
      /\ drifted' = drifted /\ SgObjectsOnly /\ limited' = limited
    BY <1>2, <1>4 DEF ObjectStorageBucketMetrics, ObjectRest, repositories, SgObjectsOnly
<1>6. SgRequest(r) /\ r.op \notin SgValueOps BY <1>3, <1>4 DEF SgRequest, SgValueOps
<1>7. r.op = "objectList" /\ r.was = was BY <1>4
<1>8. ASSUME SgObjectsKnown(Idle) PROVE SgObjectsKnown(r)'
    BY <1>3, <1>5, <1>7, <1>8 DEF SgObjectsKnown, SgOwedSize, SgOwedCount, SgCounted, Idle
<1> QED BY <1>5, <1>6, <1>8, SgObjectBegins

LEMMA SgReconcile ==
    ASSUME SgInv, NEW t \in StorageThreads, ReconcileObjectStorageBucketUsage(t) PROVE SgInv'
<1>1. PICK q, s, n : q = stReq[t] /\ s = SgStored(bucket) /\ n = Cardinality(DOMAIN bucket) OBVIOUS
<1>2. PICK r : r = [op |-> "objectCorrect", delta |-> s - q.was, count |-> n] OBVIOUS
<1>3. /\ q.op = "objectList" /\ Carry /\ Then(t, r) /\ rsStore' = rsStore /\ rsPg' = rsPg
      /\ bucket' = bucket /\ drifted' = (IF drifted = "never" THEN "never" ELSE "corrected")
      /\ SgObjectsOnly /\ limited' = limited
    BY <1>1, <1>2 DEF ReconcileObjectStorageBucketUsage, Step, ObjectRest, repositories,
       SgObjectsOnly, Stored, SgStored
<1>4. q.was \in Nat BY <1>1, <1>3 DEF SgInv, SgRequests, SgRequest
<1>5. s \in Nat /\ n \in Nat /\ SgObjectsIn(bucket) /\ SgPg(rsPg) /\ SgStore(rsStore)
    BY <1>1, SgBucketNumbers
<1>6. r.op = "objectCorrect" /\ r.delta = s - q.was /\ r.count = n BY <1>2
<1>7. SgRequest(r) /\ r.op \notin SgValueOps BY <1>2, <1>4, <1>5 DEF SgRequest, SgValueOps
<1>8. ASSUME SgObjectsKnown(q) PROVE SgObjectsKnown(r)'
    BY <1>3, <1>8, <1>4, <1>5, <1>1, <1>6 DEF SgObjectsKnown, SgOwedSize, SgCounted
<1>9. rsPg'.runtime_kv \subseteq rsPg.runtime_kv /\ q.op # "idle" /\ q.op \notin SgValueOps
    BY <1>3 DEF SgValueOps
<1> QED BY <1>1, <1>3, <1>5, <1>7, <1>8, <1>9, SgObjectGoes

---------------------------------------------------------------------------
(* The catalog.                                                            *)

LEMMA SgCatalogBegun ==
    ASSUME SgInv, NEW t \in StorageThreads, NEW r, Begin(t, r), UNCHANGED repositories,
           UNCHANGED CatalogRest, SgRequest(r), SgNeither(r)
    PROVE  SgInv'
BY SgSame, SgBeginsQuietly DEF SgInv, SgRows, repositories, CatalogRest, SgStill

LEMMA SgCreateResource ==
    ASSUME SgInv, NEW t \in StorageThreads, NEW kind, NEW name \in SgNames, NEW limit,
           CreateResource(t, kind, name, limit)
    PROVE  SgInv'
<1>1. PICK c : c = [id |-> 2 + MaxRequests - stLeft, org |-> Org, name |-> name] OBVIOUS
<1>2. MaxRequests \in Nat /\ stLeft \in Nat BY StorageAssumption DEF SgInv, SgRequests
<1>3. c \in SgNamed BY <1>1, <1>2 DEF SgNamed
<1>4. PICK r : Begin(t, r) /\ (r = [op |-> "create", kind |-> kind, r |-> c] \/ r = Idle)
    BY <1>1 DEF CreateResource
<1>5. SgRequest(r) /\ SgNeither(r)
    BY SgIdle, <1>3, <1>4 DEF SgRequest, SgNeither, SgObjectOps, SgValueOps
<1>6. UNCHANGED repositories /\ UNCHANGED CatalogRest
    BY DEF CreateResource, repositories, CatalogRest
<1> QED BY <1>4, <1>5, <1>6, SgCatalogBegun

LEMMA SgUpdateResource ==
    ASSUME SgInv, NEW t \in StorageThreads, NEW kind, NEW id, NEW name \in SgNames,
           UpdateResource(t, kind, id, name)
    PROVE  SgInv'
<1>1. PICK f, c : f = Found(kind, id) /\ c = [f EXCEPT !.name = name] OBVIOUS
<1>2. PICK r : Begin(t, r)
               /\ (r = Idle \/ (r = [op |-> "rename", kind |-> kind, r |-> c] /\ f # NotFound))
    BY <1>1 DEF UpdateResource
<1>3. f # NotFound => f \in SgNamed
    <2>1. SgPg(rsPg) BY DEF SgInv, SgRows
    <2>2. f = PgGetKVNamespace(rsPg, id) \/ f = PgGetObjectStorageBucket(rsPg, id)
        BY <1>1 DEF UpdateResource, Found
    <2>3. rsPg.kv_namespaces \subseteq SgNamed /\ rsPg.object_storage_buckets \subseteq SgNamed
        BY <2>1 DEF SgPg, SgBuckets
    <2> QED BY <2>2, <2>3 DEF PgGetKVNamespace, PgGetObjectStorageBucket, One
<1>4. f # NotFound => c.name \in SgNames BY <1>1, <1>3 DEF SgNamed
<1>5. SgRequest(r) /\ SgNeither(r)
    BY SgIdle, <1>4, <1>2 DEF SgRequest, SgNeither, SgObjectOps, SgValueOps
<1>6. UNCHANGED repositories /\ UNCHANGED CatalogRest
    BY DEF UpdateResource, repositories, CatalogRest
<1> QED BY <1>2, <1>5, <1>6, SgCatalogBegun

LEMMA SgDeleteResource ==
    ASSUME SgInv, NEW t \in StorageThreads, NEW kind, NEW id, DeleteResource(t, kind, id)
    PROVE  SgInv'
BY SgIdle, SgCatalogBegun DEF DeleteResource, SgRequest, SgNeither, SgObjectOps, SgValueOps,
   repositories, CatalogRest

LEMMA SgExecuteDatabase ==
    ASSUME SgInv, NEW t \in StorageThreads, NEW id, NEW q, NEW stats, ExecuteDatabase(t, id, q, stats)
    PROVE  SgInv'
BY SgCatalogBegun DEF ExecuteDatabase, repositories, CatalogRest, SgRequest, SgNeither,
   SgObjectOps, SgValueOps

LEMMA SgCatalogGoes ==
    ASSUME SgInv, NEW t \in StorageThreads, NEW q, q = stReq[t],
           q.op \in {"create", "rename", "delete", "dbStats", "dbRecord"},
           NEW r, Then(t, r), Carry, UNCHANGED CatalogRest, SgRequest(r), SgNeither(r),
           rsMiscounted' = rsMiscounted, SgStore(rsStore'), SgQuiet(rsPg, rsPg')
    PROVE  SgInv'
BY SgGoesQuietly DEF SgNeither, SgObjectOps, SgValueOps, CatalogRest, SgStill

LEMMA SgCatalogInRepository ==
    ASSUME SgInv, NEW t \in StorageThreads,
           CreateInRepository(t) \/ UpdateInRepository(t) \/ DeleteInRepository(t)
    PROVE  SgInv'
<1>1. PICK q : q = stReq[t] OBVIOUS
<1>2. SgStore(rsStore) /\ SgPg(rsPg) /\ SgRequest(q) BY <1>1 DEF SgInv, SgRows, SgRequests
<1>3. /\ q.op \in {"create", "rename", "delete"} /\ Then(t, Idle) /\ Carry
      /\ UNCHANGED CatalogRest /\ rsMiscounted' = rsMiscounted
    BY <1>1 DEF CreateInRepository, UpdateInRepository, DeleteInRepository, Step, CatalogRest, Both
<1>4. SgStore(rsStore') /\ SgQuiet(rsPg, rsPg')
    <2>1. CASE CreateInRepository(t)
        BY <1>1, <1>2, <2>1, SgStoreCreate, SgPgCreate DEF CreateInRepository, Step, SgRequest,
           Both
    <2>2. CASE UpdateInRepository(t)
        BY <1>1, <1>2, <2>2, SgStoreUpdate, SgPgUpdate DEF UpdateInRepository, Step, SgRequest,
           Both
    <2>3. CASE DeleteInRepository(t)
        BY <1>1, <2>3, <1>2, SgStoreDelete, SgStoreDeleteNamespace, SgPgDeleteNamespace,
           SgPgDeleteDatabase, SgPgDeleteBucket DEF DeleteInRepository, Both
    <2> QED BY <2>1, <2>2, <2>3
<1>5. q.op \in {"create", "rename", "delete", "dbStats", "dbRecord"} BY <1>3
<1> QED BY <1>1, <1>3, <1>4, <1>5, SgIdle, SgCatalogGoes

LEMMA SgDatabaseCounted ==
    ASSUME SgInv, NEW t \in StorageThreads, UpdateDatabaseStats(t) \/ RecordDBQueryMetrics(t)
    PROVE  SgInv'
<1>1. PICK q, id, n, m : q = stReq[t] /\ id = q.id /\ n = q.stats /\ m = q.q OBVIOUS
<1>2. SgStore(rsStore) /\ SgPg(rsPg) /\ SgRequest(q) BY <1>1 DEF SgInv, SgRows, SgRequests
<1>3. /\ SgStore(StoreUpdateDatabaseRuntimeStats(rsStore, id, n).db)
      /\ SgStore(StoreRecordDatabaseQueryMetrics(rsStore, id, m).db)
    BY <1>2, SgStoreCounters
<1>4. /\ SgQuiet(rsPg, PgUpdateDatabaseRuntimeStats(rsPg, id, n).db)
      /\ SgQuiet(rsPg, PgRecordDatabaseQueryMetrics(rsPg, id, m).db)
    BY <1>2, SgPgDatabase
<1>5. PICK x : x = [q EXCEPT !.op = "dbRecord"] OBVIOUS
<1>6. q.op \in {"dbStats", "dbRecord"} /\ Carry /\ UNCHANGED CatalogRest
      /\ rsMiscounted' = rsMiscounted
    BY <1>1 DEF UpdateDatabaseStats, RecordDBQueryMetrics, Step, CatalogRest, Both
<1>7. PICK r : Then(t, r) /\ (r = x \/ r = Idle)
    BY <1>1, <1>5 DEF UpdateDatabaseStats, RecordDBQueryMetrics
<1>8. SgRequest(r) /\ SgNeither(r)
    BY SgIdle, <1>2, <1>5, <1>7 DEF SgRequest, SgNeither, SgObjectOps, SgValueOps
<1>9. SgStore(rsStore') /\ SgQuiet(rsPg, rsPg')
    BY <1>1, <1>3, <1>4 DEF UpdateDatabaseStats, RecordDBQueryMetrics, Both
<1>10. q.op \in {"create", "rename", "delete", "dbStats", "dbRecord"} BY <1>6
<1> QED BY <1>1, <1>6, <1>7, <1>8, <1>9, <1>10, SgCatalogGoes

---------------------------------------------------------------------------
(* What there is at first.                                                 *)

\* One byte in another namespace.
SgSeeded(e) == /\ SgPg(e) /\ SgExact(e) /\ SgUsed(e) = ZeroObjects /\ \A now \in Nat : SgLive(e, now) <= 1
               /\ \A r \in e.runtime_kv : r.ns = 2

LEMMA LsSeeds ==
    ASSUME NEW d, "runtime_kv" \in DOMAIN d, d.runtime_kv = {}, NEW key
    PROVE  LET e == PgKVPutWithSizeDelta(d, "", 2, key, OneByte, 0).db
           IN  "runtime_kv" \in DOMAIN e /\ \A r \in e.runtime_kv : r.ns = 2
<1>1. PICK row, e : row = PgKVRow(2, key, OneByte) /\ e = PgKVPutWithSizeDelta(d, "", 2, key, OneByte, 0).db
    OBVIOUS
<1>2. row.ns = 2 BY <1>1 DEF PgKVRow
<1>3. e = d \/ \E delta : e = PgSizeDelta(d, 2, key, {row}, delta)
    BY <1>1 DEF PgKVPutWithSizeDelta, Answer
<1>4. ASSUME NEW delta, e = PgSizeDelta(d, 2, key, {row}, delta)
      PROVE  "runtime_kv" \in DOMAIN e /\ e.runtime_kv = {row}
    <2>1. PICK kv, meters :
            /\ kv = {r \in d.runtime_kv : ~(r.ns = 2 /\ r.key = key)} \cup {row}
            /\ e = [d EXCEPT !.runtime_kv = kv, !.kv_namespace_metrics = meters]
        BY <1>4, Zenon DEF PgSizeDelta
    <2>2. kv = {row} BY <2>1
    <2> QED BY <2>1, <2>2
<1> QED BY <1>1, <1>2, <1>3, <1>4

LEMMA SgPgSeedByte ==
    ASSUME NEW d, SgPg(d), SgExact(d), d.runtime_kv = {}, SgUsed(d) = ZeroObjects, NEW key
    PROVE  SgSeeded(PgKVPutWithSizeDelta(d, "", 2, key, OneByte, 0).db)
<1>1. PICK row, e : row = PgKVRow(2, key, OneByte)
                    /\ e = PgKVPutWithSizeDelta(d, "", 2, key, OneByte, 0).db
    OBVIOUS
<1>2. row = [ns |-> 2, key |-> key, size |-> 1, expires |-> 0] BY <1>1 DEF PgKVRow, OneByte
<1>3. SgSized({row}) /\ Total({row}) = 1 BY <1>2, SgOneRow
<1>4. \A now : SgLive(d, now) = 0
    <2>1. \A now : SgLiveRows(d, now) = {} BY DEF SgLiveRows
    <2> QED BY <2>1, SgNoRows DEF SgLive
<1>5. PICK rows : rows = {row} OBVIOUS
<1>6. PICK delta : delta = 1 OBVIOUS
<1>7. SgDelta(d, 2, key, rows, delta)
    <2>1. SgKeyed(d.runtime_kv, 2, key) = {} BY DEF SgKeyed
    <2> QED BY <1>3, <1>5, <1>6, <2>1, SgNoRows DEF SgDelta
<1>8. e = d \/ (e = PgSizeDelta(d, 2, key, rows, delta) /\ PgGetKVNamespace(d, 2) # NotFound)
    <2>1. OneByte.size - 0 = 1 BY DEF OneByte
    <2> QED BY <1>1, <1>5, <1>6, <2>1 DEF PgKVPutWithSizeDelta, PgKVAllowed, Answer
<1>9. e = d => SgSeeded(e) BY <1>4 DEF SgSeeded
<1>11. \A r \in e.runtime_kv : r.ns = 2
    <2>1. "runtime_kv" \in DOMAIN d BY SgTables DEF SgPg
    <2> QED BY <1>1, <2>1, LsSeeds
<1>10. ASSUME e = PgSizeDelta(d, 2, key, rows, delta), PgGetKVNamespace(d, 2) # NotFound
       PROVE  SgSeeded(e)
    <2>1. \E n \in d.kv_namespaces : n.id = 2 BY <1>10 DEF PgGetKVNamespace, One
    <2>2. SgNew(rows, 2, key, d.kv_namespaces) BY <1>2, <1>3, <1>5, <2>1 DEF SgNew
    <2>3. 2 \in Int /\ delta \in Int BY <1>6
    <2>4. /\ SgPg(PgSizeDelta(d, 2, key, rows, delta))
          /\ SgUsed(PgSizeDelta(d, 2, key, rows, delta)) = SgUsed(d)
          /\ SgExact(PgSizeDelta(d, 2, key, rows, delta))
          /\ \A now \in Nat : SgLive(PgSizeDelta(d, 2, key, rows, delta), now)
                <= SgLive(d, now) - Total(SgAt(d, now, 2, key)) + Total(rows)
        BY <1>7, <2>2, <2>3, SgPgWrite
    <2>5. \A now : SgAt(d, now, 2, key) = {} BY DEF SgAt, SgKeyed, SgLiveRows
    <2>6. ASSUME NEW now \in Nat PROVE SgLive(e, now) <= 1
        <3>1. PICK x, y, z, u : /\ x = SgLive(e, now) /\ y = SgLive(d, now) /\ u = Total(rows)
                                /\ z = Total(SgAt(d, now, 2, key))
            OBVIOUS
        <3>2. x <= y - z + u BY <1>10, <2>4, <3>1
        <3>3. y = 0 /\ z = 0 /\ u = 1 BY <1>3, <1>4, <1>5, <2>5, <3>1, SgNoRows
        <3>4. x \in Nat BY <1>10, <2>4, <3>1, SgLiveNat
        <3> QED BY <3>1, <3>2, <3>3, <3>4
    <2> QED BY <1>10, <1>11, <2>4, <2>6 DEF SgSeeded
<1> QED BY <1>1, <1>8, <1>9, <1>10

\* What the seeded tables hold, before the byte.
SgTablesHold(db, workers, deployments, namespaces, buckets) ==
    /\ DOMAIN db = DOMAIN PgResources /\ db.workers = workers /\ db.deployments = deployments
    /\ db.kv_namespaces = namespaces /\ db.object_storage_buckets = buckets
    /\ db.runtime_kv = {} /\ db.kv_namespace_metrics = {} /\ db.object_storage_bucket_metrics = {}

LEMMA SgPgSeed ==
    SgSeeded(SeededResources(PgResources, PgCreateApp, PgActivate,
                 PgCreateKVNamespace, PgCreateDatabase, PgCreateObjectStorageBucket,
                 LAMBDA db : PgKVPutWithSizeDelta(db, "", 2, Keys[1], OneByte, 0).db))
<1>1. PICK w, r, s : /\ w = [id |-> 1, org |-> Org, hostname |-> "h", auth |-> "off", token |-> Cap]
                     /\ r = [id |-> 1, org |-> Org, name |-> "n"]
                     /\ s = [id |-> 2, org |-> Org, name |-> "m"]
    OBVIOUS
<1>2. PICK p : p = [id |-> 1, app |-> 1, binds |-> {<<"kv", 1>>, <<"db", 1>>, <<"bucket", 1>>}]
    OBVIOUS
<1>3. PICK a, n1, n2, d, b, c :
        /\ a = PgCreateApp(PgResources, w).db
        /\ n1 = PgCreateKVNamespace(a, r).db
        /\ n2 = PgCreateKVNamespace(n1, s).db
        /\ d = PgCreateDatabase(n2, r).db
        /\ b = PgCreateObjectStorageBucket(d, r).db
        /\ c = PgActivate(b, p).db
    OBVIOUS
<1>4. r \in SgNamed /\ s \in SgNamed /\ r.id # s.id /\ r.name # s.name
    BY <1>1 DEF SgNames, SgNamed
<1>5. SgTablesHold(a, {w}, {}, {}, {})
    BY <1>1, <1>3 DEF PgCreateApp, PgResources, Done, Refused, SgTablesHold
<1>6. SgTablesHold(n1, {w}, {}, {r}, {})
    BY <1>3, <1>5, SgTables DEF PgCreateKVNamespace, PgCreateNamed, Done, Refused, SgTablesHold
<1>7. SgTablesHold(n2, {w}, {}, {r, s}, {})
    BY <1>3, <1>4, <1>6, SgTables DEF PgCreateKVNamespace, PgCreateNamed, Done, Refused,
       SgTablesHold
<1>8. SgTablesHold(d, {w}, {}, {r, s}, {})
    BY <1>3, <1>7, SgTables DEF PgCreateDatabase, PgCreateNamed, Done, Refused, SgTablesHold
<1>9. SgTablesHold(b, {w}, {}, {r, s}, {r})
    BY <1>3, <1>8, SgTables DEF PgCreateObjectStorageBucket, PgCreateNamed, Done, Refused,
       SgTablesHold
<1>10. /\ SgTablesHold(c, {w}, {Put(p, "traffic", 100)}, {r, s}, {r})
    <2>1. PgGetApp(b, p.app) # NotFound
        BY <1>1, <1>2, <1>9, SgMissing DEF SgTablesHold, PgGetApp, One
    <2>2. c = [b EXCEPT !.deployments =
                   {IF x.app = p.app THEN [x EXCEPT !.traffic = 0] ELSE x : x \in @}
                     \cup {Put(p, "traffic", 100)}]
        BY <1>3, <2>1, Zenon DEF PgActivate, Done
    <2> QED BY <1>9, <2>2, SgTables DEF SgTablesHold
<1>11. SgPg(c) /\ SgExact(c)
    <2>1. SgValues({}, {r, s}) BY FS_EmptySet DEF SgValues, SgSized
    <2>2. SgMeters({}, {}) BY SgNoRows DEF SgIn, SgMeters, SgMetered
    <2>6. SgSizesIn({}) BY DEF SgSizesIn
    <2>3. SgBuckets({r}) BY FS_Singleton, <1>1, <1>4 DEF SgBuckets, Bucket
    <2>4. SgObjectMeters({}) BY DEF SgObjectMeters
    <2>5. <<"bucket", Bucket>> \in Put(p, "traffic", 100).binds BY <1>2 DEF Put, Bucket
    <2> QED BY <1>4, <1>10, <2>1, <2>2, <2>3, <2>4, <2>5, <2>6 DEF SgPg, SgTablesHold, SgExact
<1>12. c.runtime_kv = {} /\ SgUsed(c) = ZeroObjects BY <1>10 DEF SgTablesHold, SgUsed, RowOf
<1>13. PICK key : key = Keys[1] OBVIOUS
<1>14. SgSeeded(PgKVPutWithSizeDelta(c, "", 2, key, OneByte, 0).db) BY <1>11, <1>12, SgPgSeedByte
<1>15. SeededResources(PgResources, PgCreateApp, PgActivate,
                 PgCreateKVNamespace, PgCreateDatabase, PgCreateObjectStorageBucket,
                 LAMBDA db : PgKVPutWithSizeDelta(db, "", 2, Keys[1], OneByte, 0).db)
         = PgKVPutWithSizeDelta(c, "", 2, key, OneByte, 0).db
    BY <1>1, <1>2, <1>3, <1>13 DEF SeededResources
<1> QED BY <1>14, <1>15

LEMMA SgStoreSeedByte ==
    ASSUME NEW d, SgStore(d), NEW key
    PROVE  SgStore(StoreKVPutWithSizeDelta(d, "", 2, key, OneByte).db)
<1>1. PICK k, m, v : k = <<2, key>> /\ m = MetricsOf(d.kvMetrics, 2, ZeroKV) /\ v = OneByte OBVIOUS
<1>2. PICK e : e = [d EXCEPT !.kv = Put(@, k, v), !.kvMetrics = Put(@, 2,
                        [m EXCEPT !.size = Clamp(@ + (v.size - SgKeySize(d.kv, k)))])]
    OBVIOUS
<1>3. 2 \in Int /\ v.size \in Nat BY <1>1 DEF OneByte
<1>4. SgStore(e) BY <1>1, <1>2, <1>3, SgStorePut
<1>5. \/ \E out, val : StoreKVPutWithSizeDelta(d, "", 2, key, v) = Answer(d, out, val)
      \/ \E out, val : StoreKVPutWithSizeDelta(d, "", 2, key, v) = Answer(e, out, val)
    BY <1>1, <1>2, Zenon DEF StoreKVPutWithSizeDelta, SgKeySize
<1>6. StoreKVPutWithSizeDelta(d, "", 2, key, v).db = d \/ StoreKVPutWithSizeDelta(d, "", 2, key, v).db = e
    BY <1>5, SgEither, Zenon
<1> QED BY <1>1, <1>4, <1>6

\* Workers and deployments do not matter to the values.
LEMMA SgStoreWorkers ==
    ASSUME NEW d, SgStore(d), NEW w, NEW p
    PROVE  SgStore(StoreCreateApp(d, w).db) /\ SgStore(StoreActivate(d, p).db)
<1>1. PICK e, f : /\ e = [d EXCEPT !.apps = Put(@, w.id, w), !.capabilityToApp = Put(@, w.token, w.id)]
                  /\ f = [d EXCEPT !.deployments = Put(@, p.app, Append(DeploymentsOf(d, p.app), p)),
                                   !.active = Put(@, p.app, Put(None, p.id, 100))]
    OBVIOUS
<1>2. SgStoreFrame(d, e) /\ SgStoreFrame(d, f) BY <1>1, SgMaps DEF SgStoreFrame, SgStore
<1>3. SgStore(e) /\ SgStore(f) BY <1>2, SgStoreFrameKept
<1>4. StoreCreateApp(d, w).db = d \/ StoreCreateApp(d, w).db = e
    BY <1>1, SgRefused, SgDone, Zenon DEF StoreCreateApp
<1>5. StoreActivate(d, p).db = d \/ StoreActivate(d, p).db = f
    BY <1>1, SgRefused, SgDone, Zenon DEF StoreActivate
<1> QED BY <1>3, <1>4, <1>5, Zenon

LEMMA SgStoreSeed ==
    SgStore(SeededResources(StoreResources, StoreCreateApp, StoreActivate,
                StoreCreateKVNamespace, StoreCreateDatabase, StoreCreateObjectStorageBucket,
                LAMBDA db : StoreKVPutWithSizeDelta(db, "", 2, Keys[1], OneByte).db))
<1>1. PICK w, r, s : /\ w = [id |-> 1, org |-> Org, hostname |-> "h", auth |-> "off", token |-> Cap]
                     /\ r = [id |-> 1, org |-> Org, name |-> "n"]
                     /\ s = [id |-> 2, org |-> Org, name |-> "m"]
    OBVIOUS
<1>2. PICK p : p = [id |-> 1, app |-> 1, binds |-> {<<"kv", 1>>, <<"db", 1>>, <<"bucket", 1>>}]
    OBVIOUS
<1>3. PICK z, a, n1, n2, d, b, c :
        /\ z = StoreResources
        /\ a = StoreCreateApp(z, w).db
        /\ n1 = StoreCreateKVNamespace(a, r).db
        /\ n2 = StoreCreateKVNamespace(n1, s).db
        /\ d = StoreCreateDatabase(n2, r).db
        /\ b = StoreCreateObjectStorageBucket(d, r).db
        /\ c = StoreActivate(b, p).db
    OBVIOUS
<1>4. r \in SgNamed /\ s \in SgNamed BY <1>1 DEF SgNames, SgNamed
<1>5. SgStore(z)
    <2>1. z.kv = None /\ z.kvMetrics = None /\ z.kvNamespaces = None BY <1>3 DEF StoreResources
    <2>2. DOMAIN None = {} BY DEF None
    <2>3. SgEntries(None, {}) BY FS_EmptySet DEF SgEntries
    <2>4. SgMapMeters(None, None)
        BY <2>2, SumEmpty DEF SgKeysIn, MetricsOf, Bytes, ZeroKV, SgMapMeters
    <2> QED BY <1>3, <2>1, <2>2, <2>3, <2>4 DEF SgStore
<1>6. SgStore(a) BY <1>3, <1>5, SgStoreWorkers
<1>7. SgStore(n1) BY <1>3, <1>4, <1>6, SgStoreCreate
<1>8. SgStore(n2) BY <1>3, <1>4, <1>7, SgStoreCreate
<1>9. SgStore(d) BY <1>3, <1>4, <1>8, SgStoreCreate
<1>10. SgStore(b) BY <1>3, <1>4, <1>9, SgStoreCreate
<1>11. SgStore(c) BY <1>3, <1>10, SgStoreWorkers
<1>12. PICK key : key = Keys[1] OBVIOUS
<1>13. SgStore(StoreKVPutWithSizeDelta(c, "", 2, key, OneByte).db) BY <1>11, SgStoreSeedByte
<1>14. SeededResources(StoreResources, StoreCreateApp, StoreActivate,
                StoreCreateKVNamespace, StoreCreateDatabase, StoreCreateObjectStorageBucket,
                LAMBDA db : StoreKVPutWithSizeDelta(db, "", 2, Keys[1], OneByte).db)
        = StoreKVPutWithSizeDelta(c, "", 2, key, OneByte).db
    BY <1>1, <1>2, <1>3, <1>12 DEF SeededResources
<1> QED BY <1>13, <1>14

LEMMA SgInitial == ASSUME NEW n \in Nat, 1 <= ByteLimit, StorageInit(n) PROVE SgInv
<1>1. /\ stReq = [t \in StorageThreads |-> Idle] /\ stLeft = n /\ stNow = 0
      /\ usageCache = NoUsage /\ bucket = None /\ overlapped = FALSE /\ drifted = "never"
      /\ rsMiscounted = FALSE
    BY DEF StorageInit
<1>2. SgSeeded(rsPg) BY SgPgSeed DEF StorageInit
<1>3. SgStore(rsStore) BY SgStoreSeed DEF StorageInit
<1>4. SgRows BY <1>2, <1>3 DEF SgRows, SgSeeded
<1>5. SgRequests BY <1>1, SgIdle DEF SgRequests
<1>6. SgObjectsIn(bucket) /\ SgStored(bucket) = 0 /\ Cardinality(DOMAIN bucket) = 0
    BY <1>1, FS_EmptySet, SumEmpty DEF None, SgObjectsIn, SgStored
<1>7. SgShared BY <1>1, <1>6 DEF SgShared, NoUsage
<1>8. SgObjectsKnown(Idle)
    BY <1>2, <1>6, SgLimit DEF SgSeeded, ZeroObjects, SgObjectsKnown, SgOwedSize, SgOwedCount,
       SgCounted, Idle
<1>9. SgValuesKnown(Idle)
    BY <1>2, SgLiveNat, SgLimit, <1>1 DEF SgSeeded, SgValuesKnown, Idle, NoUsage
<1>10. SgOnly(Idle) BY <1>1 DEF SgOnly
<1> QED BY <1>4, <1>5, <1>7, <1>8, <1>9, <1>10, <1>1 DEF SgInv, SgSerial, SgReadNow, Idle

LEMMA SgKVStep == ASSUME SgInv, KVNext PROVE SgInv'
<1>1. ASSUME NEW t \in StorageThreads, NEW key,
             \/ RuntimeKVGet(t, key) \/ RuntimeKVDelete(t, key) \/ KVNamespaceDelete(t, key)
             \/ \E n \in Sizes : KVNamespacePut(t, key, n)
             \/ \E v \in NewValue : RuntimeKVPut(t, key, v)
      PROVE  SgInv'
    <2>1. CASE RuntimeKVGet(t, key) BY <2>1, SgRuntimeKVGet
    <2>2. CASE RuntimeKVDelete(t, key) BY <2>2, SgKVDelete DEF RuntimeKVDelete
    <2>3. CASE KVNamespaceDelete(t, key) BY <2>3, SgKVDelete DEF KVNamespaceDelete
    <2>4. ASSUME NEW n \in Sizes, KVNamespacePut(t, key, n) PROVE SgInv'
        BY SgLimit, <2>4, SgKVPut DEF KVNamespacePut
    <2>5. ASSUME NEW v \in NewValue, RuntimeKVPut(t, key, v) PROVE SgInv'
        <3>1. "size" \in DOMAIN v /\ v.size \in Sizes /\ v.expires \in {0, 1} BY DEF NewValue
        <3>2. "size" \in DOMAIN v /\ v.size \in Nat /\ v.expires \in Nat
            <4>1. v.size \in Nat BY <3>1, SgLimit, Zenon
            <4>2. v.expires \in Nat BY <3>1
            <4> QED BY <3>1, <4>1, <4>2
        <3>3. PICK counted : KVPutWithOptions(t, key, v, counted) BY <2>5 DEF RuntimeKVPut
        <3> QED BY <3>2, <3>3, SgKVPut
    <2> QED BY <1>1, <2>1, <2>2, <2>3, <2>4, <2>5
<1>2. ASSUME NEW t \in StorageThreads,
             \/ RecordRuntimeKVRead(t) \/ EnforceKVStorageBytesLimit(t) \/ KVStorageBytesByOrg(t)
             \/ KVReadSize(t) \/ KVWrite(t) \/ AdjustKVOrgUsageCache(t) \/ RecordRuntimeKVWrite(t)
             \/ KVNamespaceMetrics(t) \/ KVNamespaceList(t)
      PROVE  SgInv'
    BY SgRecordRuntimeKVRead, SgEnforceKV, SgFillsCache, SgKVReadSize, SgKVWrite, SgAdjustCache,
       SgKVNamespaceLook, <1>2
<1>3. CASE UsageCacheExpires BY <1>3, SgUsageCacheExpires
<1>4. CASE ExpiryPasses BY <1>4, SgExpiryPasses
<1>5. CASE StorageCrash BY <1>5, SgStorageCrash
<1> QED BY <1>1, <1>2, <1>3, <1>4, <1>5, Zenon DEF KVNext

LEMMA SgObjectsStep == ASSUME SgInv, ObjectsNext PROVE SgInv'
<1>1. ASSUME NEW t \in StorageThreads, NEW path,
             \/ RuntimeObjectGet(t, path) \/ RuntimeObjectDelete(t, path)
             \/ \E n \in Sizes : RuntimeObjectPut(t, path, n)
      PROVE  SgInv' BY SgObjectCounted, SgObjectLook, SgLimit, <1>1
<1>2. ASSUME NEW t \in StorageThreads,
             \/ EnforceObjectStorageBytesLimit(t) \/ ObjectPut(t) \/ DeleteObject(t)
             \/ AdjustObjectSize(t) \/ AdjustObjectCount(t) \/ RecordRuntimeObjectWrite(t)
             \/ ObjectStorageBucketMetrics(t) \/ ReconcileObjectStorageBucketUsage(t)
             \/ CorrectObjectSize(t) \/ CorrectObjectCount(t)
      PROVE  SgInv'
    BY SgEnforceObjects, SgObjectChanges, SgAdjustObjects, SgObjectCounted, SgObjectMetricsAsked,
       SgReconcile, <1>2
<1>3. ASSUME NEW n \in Sizes, PresignedUpload("p", n) PROVE SgInv' BY <1>3, SgPresignedUpload
<1>4. CASE StorageCrash BY <1>4, SgStorageCrash
<1> QED BY <1>1, <1>2, <1>3, <1>4, Zenon DEF ObjectsNext

LEMMA SgCatalogStep == ASSUME SgInv, CatalogNext PROVE SgInv'
BY SgCreateResource, SgUpdateResource, SgDeleteResource, SgExecuteDatabase,
   SgCatalogInRepository, SgDatabaseCounted DEF CatalogNext, SgNames

---------------------------------------------------------------------------
\* Resources on their own: all parts at once, listings without limits.
StorageNext == KVNext \/ (~limited /\ ListingNext) \/ ObjectsNext \/ CatalogNext
StorageSpec == (\E n \in Nat : StorageInit(n)) /\ [][StorageNext]_storageVars

LEMMA SgKeeps1 == ASSUME SgInv, [StorageNext]_storageVars PROVE SgInv'
<1>1. CASE StorageNext
    BY <1>1, SgKVStep, SgListing, SgObjectsStep, SgCatalogStep DEF StorageNext
<1>2. CASE UNCHANGED storageVars
    BY <1>2 DEF storageVars, repositories, SgInv, SgRequests, SgRows, SgShared, SgOnly, SgSerial,
       SgObjectsKnown, SgValuesKnown, SgAsked, SgFoundObject, SgCounted, SgReadNow
<1> QED BY <1>1, <1>2

LEMMA SgHolds == ASSUME SgInv PROVE UsageHeld
<1>1. SgPg(rsPg) /\ SgStore(rsStore) BY DEF SgInv, SgRows
<1>2. ASSUME ~rsMiscounted, NEW n \in rsPg.kv_namespaces
      PROVE  RowOf(rsPg.kv_namespace_metrics, n.id, ZeroKV).size
                = Total({r \in rsPg.runtime_kv : r.ns = n.id})
    BY <1>1, <1>2, SgMeteredRow DEF SgInv, SgRows, SgExact, SgPg, SgNamed, SgMeters, SgIn
<1>3. ASSUME NEW n \in DOMAIN rsStore.kvNamespaces
      PROVE  MetricsOf(rsStore.kvMetrics, n, ZeroKV).size
                = Bytes(rsStore.kv, {k \in DOMAIN rsStore.kv : k[1] = n})
    BY <1>1 DEF SgStore, SgMapMeters, SgKeysIn
<1>4. ASSUME ~overlapped PROVE \E r : SgOnly(r) /\ SgSerial(r) BY <1>4 DEF SgInv
<1>5. ASSUME ~overlapped, drifted # "yes", \A t \in StorageThreads : stReq[t] = Idle
      PROVE  /\ PgObjectStorageBucketMetrics(rsPg, Bucket).size = Stored
             /\ PgObjectStorageBucketMetrics(rsPg, Bucket).count = Cardinality(DOMAIN bucket)
    <2>1. PICK r : SgOnly(r) /\ SgSerial(r) BY <1>4, <1>5
    <2>2. r = Idle BY <1>5, <2>1 DEF SgOnly
    <2>3. SgObjectsKnown(Idle) BY <2>1, <2>2 DEF SgSerial
    <2>4. SgUsed(rsPg).size + 0 = SgStored(bucket) /\ SgUsed(rsPg).count + 0 = Cardinality(DOMAIN bucket)
        BY <1>5, <2>3 DEF SgObjectsKnown, SgOwedSize, SgOwedCount, SgCounted, Idle
    <2>5. SgUsed(rsPg).size \in Nat /\ SgUsed(rsPg).count \in Nat BY SgBucketNumbers
    <2> QED BY <1>1, <2>4, <2>5, SgBucketUsage DEF Stored, SgStored
<1>6. ASSUME limited, ~overlapped
      PROVE  /\ PgKVStorageBytesByOrg(rsPg, Org, stNow).val <= ByteLimit
             /\ drifted = "never" => Stored <= ByteLimit
    <2>1. PICK r : SgOnly(r) /\ SgSerial(r) BY <1>4, <1>6
    <2>2. SgValuesKnown(r) /\ SgObjectsKnown(r) BY <1>6, <2>1 DEF SgSerial
    <2>3. PgKVStorageBytesByOrg(rsPg, Org, stNow).val = SgLive(rsPg, stNow)
        BY DEF PgKVStorageBytesByOrg, Answer, SgLive, SgLiveRows
    <2> QED BY <1>6, <2>2, <2>3 DEF SgValuesKnown, SgObjectsKnown, Stored, SgStored
<1>7. rsMiscounted => overlapped BY <1>4 DEF SgSerial
<1>8. UsageAccounted BY <1>2, <1>3, <1>5, <1>7, Zenon DEF UsageAccounted
<1>9. ByteLimitHeld BY <1>6 DEF ByteLimitHeld
<1> QED BY <1>8, <1>9 DEF UsageHeld

\* The inductive invariant of resources.  The one byte the seeded namespace holds from the
\* start has to fit the limit.
THEOREM StorageInvariant == ASSUME 1 <= ByteLimit PROVE StorageSpec => []SgInv
<1>1. (\E n \in Nat : StorageInit(n)) => SgInv BY SgInitial
<1>2. SgInv /\ [StorageNext]_storageVars => SgInv' BY SgKeeps1
<1> QED BY <1>1, <1>2, PTL DEF StorageSpec

\* The usage kept beside the values and objects is their size, however requests of workers and of
\* the console interleave, are interrupted or find values expired - in PostgreSQL until a put or a
\* delete replaces a value of another size than it read (PutWithSizeDelta, DeleteWithSizeDelta),
\* which it never does while no two requests are in progress at once; and a limited organization
\* whose requests never overlapped (enforceKVStorageBytesLimit, which may trust a cached sum,
\* and enforceObjectStorageBytesLimit) stays within its bytes.
THEOREM UsageIsHeld == ASSUME 1 <= ByteLimit PROVE StorageSpec => []UsageHeld
<1>1. SgInv => UsageHeld BY SgHolds
<1> QED BY <1>1, StorageInvariant, PTL

\* The platform's part of listings has no limits, which only requests of other parts check.
SgUnlimited == part = "listing" => ~limited

LEMMA SgListsUnlimited == PlatformInit => SgUnlimited
BY DEF PlatformInit, SgUnlimited

LEMMA SgStaysUnlimited ==
    ASSUME SgUnlimited, [PlatformNext]_platformVars PROVE SgUnlimited'
<1>1. CASE UNCHANGED platformVars BY <1>1 DEF platformVars, storageVars, SgUnlimited
<1>2. CASE PlatformNext
    <2>1. part' = part BY <1>2 DEF PlatformNext
    <2>2. ASSUME part = "listing" PROVE limited' = limited
        BY <1>2, <2>2 DEF PlatformNext, ListingNext, ListedPut, ListedDelete, StartListing,
           RuntimeKVList, ExpiryPasses, storageVars
    <2> QED BY <2>1, <2>2 DEF SgUnlimited
<1> QED BY <1>1, <1>2

\* The same in every part the run explores.
THEOREM PlatformUsage == ASSUME 1 <= ByteLimit PROVE PlatformSpec => []UsageHeld
<1>1. PlatformInit => \E n \in Nat : StorageInit(n) BY DEF PlatformInit
<1>2. SgUnlimited /\ [PlatformNext]_platformVars => [StorageNext]_storageVars
    BY DEF SgUnlimited, PlatformNext, platformVars, StorageNext
<1>3. PlatformInit => SgUnlimited BY SgListsUnlimited
<1>4. SgUnlimited /\ [PlatformNext]_platformVars => SgUnlimited' BY SgStaysUnlimited
<1>5. StorageSpec => []UsageHeld BY UsageIsHeld
<1> QED BY <1>1, <1>2, <1>3, <1>4, <1>5, PTL DEF PlatformSpec, StorageSpec

---------------------------------------------------------------------------
(* Listing by page.                                                        *)

\* The order of keys.
LEMMA KeyOrder ==
    /\ IsFiniteSet(KeySet) /\ <<>> \notin KeySet
    /\ \A k, l, m : Before(Keys, k, l) /\ Before(Keys, l, m) => Before(Keys, k, m)
    /\ \A k : ~Before(Keys, k, k)
    /\ \A k, l \in KeySet : k = l \/ Before(Keys, k, l) \/ Before(Keys, l, k)
<1>1. PICK n \in Nat : DOMAIN Keys = 1..n /\ n = Len(Keys) BY StorageAssumption
<1>2. \A i, j \in 1..n : Keys[i] = Keys[j] => i = j BY <1>1, StorageAssumption DEF IsInjective
<1>3. IsFiniteSet(KeySet)
    <2>1. IsFiniteSet(1..n) BY FS_Interval
    <2>2. Keys \in [1..n -> KeySet] BY <1>1, StorageAssumption DEF KeySet
    <2>3. \A k \in KeySet : \E i \in 1..n : Keys[i] = k BY <1>1 DEF KeySet, Range
    <2>4. Keys \in Surjection(1..n, KeySet) BY <2>2, <2>3 DEF Surjection
    <2> QED BY <2>1, <2>4, FS_Surjection
<1>4. <<>> \notin KeySet BY StorageAssumption DEF KeySet
<1>5. ASSUME NEW k, NEW l, NEW m, Before(Keys, k, l), Before(Keys, l, m) PROVE Before(Keys, k, m)
    <2>1. PICK i \in 1..n, j \in 1..n : i < j /\ Keys[i] = k /\ Keys[j] = l BY <1>1, <1>5 DEF Before
    <2>2. PICK a \in 1..n, b \in 1..n : a < b /\ Keys[a] = l /\ Keys[b] = m BY <1>1, <1>5 DEF Before
    <2>3. j = a BY <1>2, <2>1, <2>2
    <2> QED BY <1>1, <2>1, <2>2, <2>3 DEF Before
<1>6. \A k : ~Before(Keys, k, k) BY <1>1, <1>2 DEF Before
<1>7. \A k, l \in KeySet : k = l \/ Before(Keys, k, l) \/ Before(Keys, l, k)
    <2> SUFFICES ASSUME NEW k \in KeySet, NEW l \in KeySet
                 PROVE  k = l \/ Before(Keys, k, l) \/ Before(Keys, l, k)
        OBVIOUS
    <2>1. PICK i \in 1..n, j \in 1..n : Keys[i] = k /\ Keys[j] = l BY <1>1 DEF KeySet, Range
    <2>2. i = j \/ i < j \/ j < i OBVIOUS
    <2> QED BY <1>1, <2>1, <2>2 DEF Before
<1> QED BY <1>3, <1>4, <1>5, <1>6, <1>7

Lasts(s) == {k \in s : \A l \in s : l = k \/ Before(Keys, l, k)}

\* Keys have a last one,
LEMMA LastKey == \A s \in SUBSET KeySet : s # {} => Lasts(s) # {}
<1> DEFINE Good == {s \in SUBSET KeySet : s # {} => Lasts(s) # {}}
<1>1. ASSUME NEW s \in SUBSET KeySet, \A x \in s : s \ {x} \in Good PROVE s \in Good
    <2> SUFFICES ASSUME s # {} PROVE Lasts(s) # {} OBVIOUS
    <2>1. PICK x : x \in s OBVIOUS
    <2>2. CASE s = {x} BY <2>2 DEF Lasts
    <2>3. CASE s # {x}
        <3>1. Lasts(s \ {x}) # {} BY <1>1, <2>1, <2>3
        <3>2. PICK k \in s \ {x} : \A l \in s \ {x} : l = k \/ Before(Keys, l, k) BY <3>1 DEF Lasts
        <3>3. Before(Keys, x, k) \/ Before(Keys, k, x) BY <2>1, <3>2, KeyOrder
        <3>4. CASE Before(Keys, x, k) BY <3>2, <3>4 DEF Lasts
        <3>5. CASE Before(Keys, k, x)
            <4>1. \A l \in s : l = x \/ Before(Keys, l, x) BY <3>2, <3>5, KeyOrder
            <4> QED BY <2>1, <4>1 DEF Lasts
        <3> QED BY <3>3, <3>4, <3>5
    <2> QED BY <2>2, <2>3
<1>2. SUBSET KeySet \subseteq Good
    <2> HIDE DEF Good
    <2> QED BY <1>1, KeyOrder, BySubsets
<1> QED BY <1>2

\* so that they can be put in order.
Ordered(s, keys) ==
    /\ s \in [1..Cardinality(keys) -> keys] /\ Range(s) = keys
    /\ \A i, j \in DOMAIN s : i < j => Before(Keys, s[i], s[j])

LEMMA OrderFound == \A keys \in SUBSET KeySet : \E s : Ordered(s, keys)
<1> DEFINE Good == {keys \in SUBSET KeySet : \E s : Ordered(s, keys)}
<1>1. ASSUME NEW keys \in SUBSET KeySet, \A x \in keys : keys \ {x} \in Good PROVE keys \in Good
    <2>1. CASE keys = {}
        <3>1. Cardinality(keys) = 0 BY <2>1, FS_EmptySet
        <3>2. PICK s : s = [i \in 1..0 |-> i] OBVIOUS
        <3>3. Ordered(s, keys) BY <2>1, <3>1, <3>2 DEF Ordered, Range
        <3> QED BY <3>3
    <2>2. CASE keys # {}
        <3>1. PICK x \in keys : \A l \in keys : l = x \/ Before(Keys, l, x)
            BY <2>2, LastKey DEF Lasts
        <3>2. PICK r, n : Ordered(r, keys \ {x}) /\ n = Cardinality(keys \ {x}) BY <1>1, <3>1
        <3>3. IsFiniteSet(keys) BY KeyOrder, FS_Subset
        <3>4. n \in Nat /\ Cardinality(keys) = n + 1
            <4>1. IsFiniteSet(keys \ {x}) BY <3>3, FS_Subset
            <4>2. keys = (keys \ {x}) \cup {x} BY <3>1
            <4> QED BY <3>2, <4>1, <4>2, FS_AddElement, FS_CardinalityType
        <3>5. PICK s : s = [i \in 1..(n + 1) |-> IF i = n + 1 THEN x ELSE r[i]] OBVIOUS
        <3>6. r \in [1..n -> keys \ {x}] /\ Range(r) = keys \ {x}
              /\ \A i, j \in 1..n : i < j => Before(Keys, r[i], r[j])
            BY <3>2 DEF Ordered
        <3>7. \A i \in 1..(n + 1) : s[i] = x \/ (i \in 1..n /\ s[i] = r[i]) BY <3>4, <3>5
        <3>8. s \in [1..(n + 1) -> keys] BY <3>4, <3>5, <3>6
        <3>9. Range(s) = keys
            <4>1. ASSUME NEW k \in keys PROVE k \in Range(s)
                <5>1. CASE k = x
                    <6>1. n + 1 \in 1..(n + 1) /\ s[n + 1] = x BY <3>4, <3>5
                    <6> QED BY <3>8, <5>1, <6>1 DEF Range
                <5>2. CASE k # x
                    <6>1. PICK i \in 1..n : r[i] = k BY <3>6, <5>2 DEF Range
                    <6>2. i \in 1..(n + 1) /\ s[i] = k BY <3>4, <3>5, <6>1
                    <6> QED BY <3>8, <6>2 DEF Range
                <5> QED BY <5>1, <5>2
            <4> QED BY <3>8, <4>1 DEF Range
        <3>10. ASSUME NEW i \in 1..(n + 1), NEW j \in 1..(n + 1), i < j PROVE Before(Keys, s[i], s[j])
            <4>1. i \in 1..n /\ s[i] = r[i] BY <3>4, <3>5, <3>10
            <4>2. r[i] \in keys /\ r[i] # x BY <3>6, <4>1
            <4>3. CASE j = n + 1 BY <3>1, <3>5, <4>1, <4>2, <4>3
            <4>4. CASE j # n + 1
                <5>1. j \in 1..n /\ s[j] = r[j] BY <3>4, <3>5, <4>4
                <5> QED BY <3>6, <3>10, <4>1, <5>1
            <4> QED BY <4>3, <4>4
        <3>11. Ordered(s, keys) BY <3>4, <3>8, <3>9, <3>10 DEF Ordered
        <3> QED BY <3>11
    <2> QED BY <2>1, <2>2
<1>2. SUBSET KeySet \subseteq Good
    <2> HIDE DEF Good
    <2> QED BY <1>1, KeyOrder, BySubsets
<1> QED BY <1>2

\* What a listing finds, in order.
LEMMA InOrderIsOrdered == \A keys \in SUBSET KeySet : Ordered(InOrder(Keys, keys), keys)
<1> SUFFICES ASSUME NEW keys \in SUBSET KeySet PROVE Ordered(InOrder(Keys, keys), keys) OBVIOUS
<1>1. PICK s : Ordered(s, keys) BY OrderFound
<1>2. s \in [1..Cardinality(keys) -> keys]
      /\ Range(s) = keys /\ \A i, j \in DOMAIN s : i < j => Before(Keys, s[i], s[j])
    BY <1>1 DEF Ordered
<1> QED BY <1>2 DEF Ordered, InOrder

\* A page of one key.
LsPage(keys) ==
    LET all == InOrder(Keys, keys)
    IN  PageOf(SubSeq(all, 1, IF Len(all) > 1 THEN 1 + 1 ELSE Len(all)), 1)

LEMMA LsPages ==
    ASSUME NEW keys \in SUBSET KeySet
    PROVE  \/ keys = {} /\ LsPage(keys) = [keys |-> <<>>, complete |-> TRUE, cursor |-> <<>>]
           \/ \E k \in keys : keys = {k} /\ LsPage(keys) = [keys |-> <<k>>, complete |-> TRUE, cursor |-> <<>>]
           \/ \E k \in keys : /\ \A l \in keys : l = k \/ Before(Keys, k, l)
                              /\ LsPage(keys) = [keys |-> <<k>>, complete |-> FALSE, cursor |-> k]
<1>1. PICK s, n : s = InOrder(Keys, keys) /\ n = Cardinality(keys) OBVIOUS
<1>2. /\ s \in [1..n -> keys] /\ Range(s) = keys
      /\ \A i, j \in 1..n : i < j => Before(Keys, s[i], s[j])
    BY <1>1, InOrderIsOrdered DEF Ordered
<1>3. n \in Nat
    <2>1. IsFiniteSet(keys) BY KeyOrder, FS_Subset
    <2> QED BY <1>1, <2>1, FS_CardinalityType
<1>4. s \in Seq(keys) /\ Len(s) = n BY <1>2, <1>3
<1>5. PICK found : found = SubSeq(s, 1, IF Len(s) > 1 THEN 1 + 1 ELSE Len(s)) OBVIOUS
<1>6. LsPage(keys) = PageOf(found, 1) BY <1>1, <1>5 DEF LsPage
<1>7. CASE n = 0
    <2>1. keys = {} BY <1>2, <1>7 DEF Range
    <2>2. found = <<>> BY <1>4, <1>5, <1>7
    <2>3. PageOf(<<>>, 1) = [keys |-> <<>>, complete |-> TRUE, cursor |-> <<>>]
        BY DEF PageOf
    <2> QED BY <1>6, <2>1, <2>2, <2>3, Zenon
<1>8. ASSUME NEW k PROVE PageOf(<<k>>, 1) = [keys |-> <<k>>, complete |-> TRUE, cursor |-> <<>>]
    <2>1. Len(<<k>>) <= 1 OBVIOUS
    <2> QED BY <2>1, Zenon DEF PageOf
<1>9. CASE n = 1
    <2>1. PICK k : k = s[1] OBVIOUS
    <2>2. k \in keys /\ keys = {k} BY <1>2, <1>9, <2>1 DEF Range
    <2>3. found = <<k>>
        <3>1. found = SubSeq(s, 1, Len(s)) BY <1>4, <1>5, <1>9
        <3>2. found = s BY <1>4, <3>1, SubSeqFull
        <3>3. <<k>> \in Seq(keys) /\ Len(<<k>>) = 1 /\ <<k>>[1] = k BY <2>2
        <3>4. \A i \in 1..1 : s[i] = <<k>>[i] BY <2>1, <3>3
        <3> QED BY <1>4, <1>9, <3>2, <3>3, <3>4, SeqEqual
    <2>4. LsPage(keys) = [keys |-> <<k>>, complete |-> TRUE, cursor |-> <<>>]
        BY <1>6, <1>8, <2>3, Zenon
    <2> QED BY <2>2, <2>4, Zenon
<1>10. CASE n >= 2
    <2>1. PICK k, l : k = s[1] /\ l = s[2] OBVIOUS
    <2>2. 1 \in 1..n /\ k \in keys BY <1>2, <1>3, <1>10, <2>1
    <2>3. ASSUME NEW m \in keys PROVE m = k \/ Before(Keys, k, m)
        <3>1. PICK i \in 1..n : s[i] = m BY <1>2 DEF Range
        <3>2. i = 1 \/ 1 < i BY <1>3
        <3> QED BY <1>2, <2>1, <2>2, <3>1, <3>2
    <2>4. found = SubSeq(s, 1, 2) BY <1>3, <1>4, <1>5, <1>10
    <2>5. found \in Seq(keys) /\ Len(found) = 2 /\ found[1] = k
        <3>1. \A i \in 1..2 : s[i] \in keys BY <1>2, <1>3, <1>10
        <3>2. /\ SubSeq(s, 1, 2) \in Seq(keys) /\ Len(SubSeq(s, 1, 2)) = IF 1 <= 2 THEN 2 - 1 + 1 ELSE 0
              /\ \A i \in 1..(2 - 1 + 1) : SubSeq(s, 1, 2)[i] = s[1 + i - 1]
            BY <3>1, SubSeqProperties
        <3> QED BY <2>1, <2>4, <3>2
    <2>6. SubSeq(found, 1, 1) = <<k>>
        <3>1. \A i \in 1..1 : found[i] \in keys BY <2>5
        <3>2. /\ SubSeq(found, 1, 1) \in Seq(keys) /\ Len(SubSeq(found, 1, 1)) = IF 1 <= 1 THEN 1 - 1 + 1 ELSE 0
              /\ \A i \in 1..(1 - 1 + 1) : SubSeq(found, 1, 1)[i] = found[1 + i - 1]
            BY <3>1, SubSeqProperties
        <3>3. <<k>> \in Seq(keys) /\ Len(<<k>>) = 1 /\ <<k>>[1] = k BY <2>2
        <3>4. Len(SubSeq(found, 1, 1)) = 1 /\ SubSeq(found, 1, 1)[1] = k BY <2>5, <3>2
        <3>5. \A i \in 1..1 : SubSeq(found, 1, 1)[i] = <<k>>[i] BY <3>3, <3>4
        <3> QED BY <3>2, <3>3, <3>4, <3>5, SeqEqual
    <2>7. ~(Len(found) <= 1) BY <2>5
    <2>8. LsPage(keys) = [keys |-> <<k>>, complete |-> FALSE, cursor |-> k]
        BY <1>6, <2>5, <2>6, <2>7, Zenon DEF PageOf
    <2> QED BY <2>2, <2>3, <2>8, Zenon
<1> QED BY <1>3, <1>7, <1>9, <1>10

---------------------------------------------------------------------------
\* The keys that a client has seen, the last of which the cursor names.
LsRising(got) == \A i, j \in DOMAIN got : i < j => Before(Keys, got[i], got[j])
LsCursor(got) == IF got = <<>> THEN <<>> ELSE got[Len(got)]

LsThere(db, now, k) == \E r \in db.runtime_kv : r.ns = NS /\ r.key = k /\ ~Expired(r, now)

\* A client on its way: what it is owed is there, and it has seen it or it is still ahead.
LsWalk(w, db, now) ==
    /\ {"on", "prefix", "cursor", "got", "done", "owed"} \subseteq DOMAIN w
    /\ w.got \in Seq(KeySet) /\ LsRising(w.got)
    /\ ~w.done => w.cursor = LsCursor(w.got)
    /\ \A k \in w.owed : /\ k \in KeySet /\ Like(k, PgEscapeKVLikePrefix(w.prefix))
                         /\ LsThere(db, now, k)
                         /\ k \in Range(w.got) \/ (~w.done /\ Follows(Keys, k, w.cursor))

LsInv == /\ "runtime_kv" \in DOMAIN rsPg /\ stNow \in {0, 1}
         /\ \A r \in rsPg.runtime_kv : r.ns = NS => r.key \in KeySet
         /\ walk.on => LsWalk(walk, rsPg, stNow)

\* A key the page before did not reach comes after all that were seen.
LEMMA LsOneMore ==
    ASSUME NEW got \in Seq(KeySet), LsRising(got), NEW k \in KeySet, Follows(Keys, k, LsCursor(got))
    PROVE  LET more == got \o <<k>>
           IN  /\ more \in Seq(KeySet) /\ LsRising(more) /\ LsCursor(more) = k
               /\ Range(more) = Range(got) \cup {k}
<1>0. PICK n, more : n = Len(got) /\ more = got \o <<k>> OBVIOUS
<1>1. n \in Nat /\ n = Len(got) /\ more = got \o <<k>> BY <1>0
<1>2. /\ more \in Seq(KeySet) /\ DOMAIN more = 1..(n + 1) /\ DOMAIN got = 1..n /\ Len(more) = n + 1
      /\ more[n + 1] = k /\ \A i \in 1..n : more[i] = got[i]
    <2>1. <<k>> \in Seq(KeySet) /\ Len(<<k>>) = 1 /\ <<k>>[1] = k OBVIOUS
    <2>2. /\ got \o <<k>> \in Seq(KeySet) /\ Len(got \o <<k>>) = Len(got) + Len(<<k>>)
          /\ \A i \in 1..Len(got) + Len(<<k>>) : (got \o <<k>>)[i] =
                IF i <= Len(got) THEN got[i] ELSE <<k>>[i - Len(got)]
        BY <2>1, ConcatProperties
    <2>3. /\ more \in Seq(KeySet) /\ Len(more) = n + 1
          /\ \A i \in 1..(n + 1) : more[i] = IF i <= n THEN got[i] ELSE <<k>>[i - n]
        BY <1>1, <2>1, <2>2
    <2>4. more[n + 1] = <<k>>[n + 1 - n] BY <1>1, <2>3
    <2>5. n + 1 - n = 1 BY <1>1
    <2>6. \A i \in 1..n : more[i] = got[i] BY <1>1, <2>3
    <2>7. DOMAIN more = 1..(n + 1) BY <2>3
    <2>8. DOMAIN got = 1..n BY <1>1
    <2> QED BY <2>1, <2>3, <2>4, <2>5, <2>6, <2>7, <2>8
<1>3. more # <<>> BY <1>1, <1>2
<1>4. LsCursor(more) = k BY <1>2, <1>3 DEF LsCursor
<1>5. ASSUME NEW i \in 1..n PROVE Before(Keys, got[i], k)
    <2>1. got # <<>> /\ n \in 1..n /\ got[n] \in KeySet BY <1>1, <1>2
    <2>2. Before(Keys, got[n], k) BY <1>1, <2>1, KeyOrder DEF Follows, LsCursor
    <2>3. i = n \/ (i < n /\ Before(Keys, got[i], got[n])) BY SMTT(30), <1>1, <1>2, <2>1 DEF LsRising
    <2> QED BY <2>2, <2>3, KeyOrder
<1>6. ASSUME NEW i \in 1..(n + 1), NEW j \in 1..(n + 1), i < j PROVE Before(Keys, more[i], more[j])
    <2>1. i \in 1..n /\ more[i] = got[i] BY <1>1, <1>2, <1>6
    <2>2. CASE j = n + 1 BY <1>2, <1>5, <2>1, <2>2
    <2>3. CASE j # n + 1
        <3>1. j \in 1..n /\ more[j] = got[j] BY <1>1, <1>2, <2>3
        <3> QED BY <1>2, <1>6, <2>1, <3>1 DEF LsRising
    <2> QED BY <2>2, <2>3
<1>7. LsRising(more) BY <1>2, <1>6 DEF LsRising
<1>8. Range(more) = Range(got) \cup {k}
    <2>1. \A i \in 1..(n + 1) : i = n + 1 \/ i \in 1..n BY <1>1
    <2>2. n + 1 \in 1..(n + 1) /\ \A i \in 1..n : i \in 1..(n + 1) BY <1>1
    <2> QED BY <1>2, <2>1, <2>2 DEF Range
<1> QED BY <1>1, <1>2, <1>4, <1>7, <1>8

\* No key was seen twice, since they rise.
LEMMA LsSeenOnce == ASSUME NEW got \in Seq(KeySet), LsRising(got) PROVE IsInjective(got)
<1> SUFFICES ASSUME NEW i \in DOMAIN got, NEW j \in DOMAIN got, got[i] = got[j] PROVE i = j
    BY DEF IsInjective
<1>1. i \in Nat /\ j \in Nat OBVIOUS
<1>2. i < j => Before(Keys, got[i], got[j]) BY DEF LsRising
<1>3. j < i => Before(Keys, got[j], got[i]) BY DEF LsRising
<1> QED BY <1>1, <1>2, <1>3, KeyOrder

LEMMA LsCompletes == LsInv => ListingComplete
<1> SUFFICES ASSUME LsInv, walk.on
             PROVE  IsInjective(walk.got) /\ (walk.done => walk.owed \subseteq Range(walk.got))
    BY DEF ListingComplete
<1>1. LsWalk(walk, rsPg, stNow) BY DEF LsInv
<1>2. IsInjective(walk.got) BY <1>1, LsSeenOnce DEF LsWalk
<1> QED BY <1>1, <1>2 DEF LsWalk

\* What a page leaves in the table, and what it shows.
LsFound(db, prefix, cursor) ==
    {k \in KeySet : /\ \E r \in db.runtime_kv : r.ns = NS /\ r.key = k
                    /\ Follows(Keys, k, cursor) /\ Like(k, PgEscapeKVLikePrefix(prefix))}

LEMMA LsPurge ==
    ASSUME NEW db, "runtime_kv" \in DOMAIN db, NEW now
    PROVE  LET d == PgPurgeExpiredKV(db, NS, now)
           IN  /\ "runtime_kv" \in DOMAIN d
               /\ d.runtime_kv = db.runtime_kv \ {r \in db.runtime_kv : r.ns = NS /\ Expired(r, now)}
<1>1. PICK gone, rows : /\ gone = {r \in db.runtime_kv : r.ns = NS /\ Expired(r, now)}
                        /\ PgPurgeExpiredKV(db, NS, now)
                            = [db EXCEPT !.runtime_kv = @ \ gone, !.kv_namespace_metrics = rows]
    BY Zenon DEF PgPurgeExpiredKV
<1> QED BY <1>1

LEMMA LsAnswer ==
    ASSUME NEW db, NEW prefix, NEW cursor, NEW now
    PROVE  LET d == PgPurgeExpiredKV(db, NS, now)
               p == PgKVListPage(db, Keys, NS, prefix, cursor, 1, now)
           IN  p.db = d /\ p.val = LsPage(LsFound(d, prefix, cursor))
<1>1. PICK d, found, all :
        /\ d = PgPurgeExpiredKV(db, NS, now) /\ found = LsFound(d, prefix, cursor)
        /\ all = InOrder(Keys, found)
    OBVIOUS
<1>2. PgKVListPage(db, Keys, NS, prefix, cursor, 1, now)
        = Answer(d, "ok", PageOf(SubSeq(all, 1, IF Len(all) > 1 THEN 1 + 1 ELSE Len(all)), 1))
    BY <1>1, Zenon DEF PgKVListPage, LsFound, KeySet
<1>3. LsPage(found) = PageOf(SubSeq(all, 1, IF Len(all) > 1 THEN 1 + 1 ELSE Len(all)), 1)
    BY <1>1, Zenon DEF LsPage
<1>4. \A a, v : Answer(a, "ok", v).db = a /\ Answer(a, "ok", v).val = v BY DEF Answer
<1>5. PICK p, page : p = PgKVListPage(db, Keys, NS, prefix, cursor, 1, now) /\ page = LsPage(found) OBVIOUS
<1>6. p = Answer(d, "ok", page) BY <1>2, <1>3, <1>5
<1>7. p.db = d /\ p.val = page BY <1>4, <1>6
<1> QED BY <1>1, <1>5, <1>7

\* A page finds all that is owed and still ahead.
LEMMA LsAhead ==
    ASSUME NEW db, "runtime_kv" \in DOMAIN db, NEW now, NEW prefix, NEW cursor, NEW k \in KeySet,
           LsThere(db, now, k), Follows(Keys, k, cursor), Like(k, PgEscapeKVLikePrefix(prefix))
    PROVE  k \in LsFound(PgPurgeExpiredKV(db, NS, now), prefix, cursor)
<1>1. PICK r \in db.runtime_kv : r.ns = NS /\ r.key = k /\ ~Expired(r, now) BY DEF LsThere
<1>2. r \in PgPurgeExpiredKV(db, NS, now).runtime_kv BY <1>1, LsPurge
<1> QED BY <1>1, <1>2 DEF LsFound

\* The rest of a walk stays as it is.
LEMMA LsPaged ==
    ASSUME NEW w, NEW page, {"on", "prefix", "cursor", "got", "done", "owed"} \subseteq DOMAIN w,
           NEW v, v = [w EXCEPT !.cursor = page.cursor, !.got = @ \o page.keys, !.done = page.complete]
    PROVE  /\ DOMAIN v = DOMAIN w /\ v.prefix = w.prefix /\ v.owed = w.owed /\ v.cursor = page.cursor
           /\ v.got = w.got \o page.keys
<1>1. PICK c, g, d : /\ c = page.cursor /\ g = w.got \o page.keys /\ d = page.complete
                     /\ v = [w EXCEPT !.cursor = c, !.got = g, !.done = d]
    OBVIOUS
<1>2. DOMAIN v = DOMAIN w /\ v.prefix = w.prefix /\ v.owed = w.owed BY <1>1
<1>3. v.cursor = c /\ v.got = g BY <1>1
<1> QED BY <1>1, <1>2, <1>3

LEMMA LsPagedDone ==
    ASSUME NEW w, NEW page, {"on", "prefix", "cursor", "got", "done", "owed"} \subseteq DOMAIN w,
           NEW v, v = [w EXCEPT !.cursor = page.cursor, !.got = @ \o page.keys, !.done = page.complete]
    PROVE  v.done = page.complete
BY Zenon

LEMMA LsPageStep ==
    ASSUME LsInv, RuntimeKVList PROVE LsInv'
<1>1. PICK d, found, page :
        /\ d = PgPurgeExpiredKV(rsPg, NS, stNow) /\ found = LsFound(d, walk.prefix, walk.cursor)
        /\ page = LsPage(found)
    OBVIOUS
<1>2. walk.on /\ ~walk.done /\ stNow' = stNow /\ rsPg' = d
      /\ walk' = [walk EXCEPT !.cursor = page.cursor, !.got = @ \o page.keys, !.done = page.complete]
    <2>1. PICK p : p = PgKVListPage(rsPg, Keys, NS, walk.prefix, walk.cursor, 1, stNow) OBVIOUS
    <2>2. p.db = d /\ p.val = page BY <1>1, <2>1, LsAnswer
    <2>3. walk.on /\ ~walk.done /\ stNow' = stNow BY DEF RuntimeKVList
    <2>4. /\ rsPg' = p.db
          /\ walk' = [walk EXCEPT !.cursor = p.val.cursor, !.got = @ \o p.val.keys,
                                  !.done = p.val.complete]
        BY <2>1, Zenon DEF RuntimeKVList
    <2> QED BY <2>2, <2>3, <2>4, Zenon
<1>3. "runtime_kv" \in DOMAIN rsPg /\ LsWalk(walk, rsPg, stNow) BY <1>2 DEF LsInv
<1>4. /\ "runtime_kv" \in DOMAIN d
      /\ d.runtime_kv = rsPg.runtime_kv \ {r \in rsPg.runtime_kv : r.ns = NS /\ Expired(r, stNow)}
    BY <1>1, <1>3, LsPurge
<1>5. PICK w, v : w = walk /\ v = walk' OBVIOUS
<1>6. {"on", "prefix", "cursor", "got", "done", "owed"} \subseteq DOMAIN w BY <1>3, <1>5 DEF LsWalk
<1>7. v = [w EXCEPT !.cursor = page.cursor, !.got = @ \o page.keys, !.done = page.complete]
    BY <1>2, <1>5
<1>8. /\ DOMAIN v = DOMAIN w /\ v.prefix = w.prefix /\ v.owed = w.owed /\ v.cursor = page.cursor
      /\ v.got = w.got \o page.keys
    BY <1>6, <1>7, LsPaged
<1>9. v.done = page.complete BY <1>6, <1>7, LsPagedDone
<1>10. w.got \in Seq(KeySet) /\ LsRising(w.got) /\ w.cursor = LsCursor(w.got)
    BY <1>2, <1>3, <1>5 DEF LsWalk
<1>11. \A k \in w.owed : /\ k \in KeySet /\ Like(k, PgEscapeKVLikePrefix(w.prefix))
                         /\ LsThere(d, stNow, k)
                         /\ k \in Range(w.got) \/ (k \in found /\ Follows(Keys, k, w.cursor))
    <2> SUFFICES ASSUME NEW k \in w.owed
                 PROVE  /\ k \in KeySet /\ Like(k, PgEscapeKVLikePrefix(w.prefix)) /\ LsThere(d, stNow, k)
                        /\ k \in Range(w.got) \/ (k \in found /\ Follows(Keys, k, w.cursor))
        OBVIOUS
    <2>1. /\ k \in KeySet /\ Like(k, PgEscapeKVLikePrefix(w.prefix)) /\ LsThere(rsPg, stNow, k)
          /\ k \in Range(w.got) \/ Follows(Keys, k, w.cursor)
        BY <1>2, <1>3, <1>5 DEF LsWalk
    <2>2. LsThere(d, stNow, k) BY <1>4, <2>1 DEF LsThere
    <2>3. Follows(Keys, k, w.cursor) => k \in found BY <1>1, <1>3, <1>5, <2>1, LsAhead
    <2> QED BY <2>1, <2>2, <2>3
<1>12. found \in SUBSET KeySet /\ \A k \in found : Follows(Keys, k, w.cursor) BY <1>1, <1>5 DEF LsFound
<1>13. ASSUME found = {}, page = [keys |-> <<>>, complete |-> TRUE, cursor |-> <<>>]
       PROVE  LsWalk(v, d, stNow)
    <2>1. page.keys = <<>> BY <1>13
    <2>2. page.complete BY <1>13, Zenon
    <2>3. v.got = w.got BY <1>8, <1>10, <2>1, ConcatEmptySeq
    <2>4. v.done BY <1>9, <2>2
    <2> QED BY <1>6, <1>8, <1>10, <1>11, <1>13, <2>3, <2>4 DEF LsWalk
<1>14. ASSUME NEW k \in found, page.keys = <<k>> 
       PROVE  /\ v.got \in Seq(KeySet) /\ LsRising(v.got) /\ LsCursor(v.got) = k
              /\ Range(v.got) = Range(w.got) \cup {k}
    <2>1. v.got = w.got \o <<k>> BY <1>8, <1>14
    <2>2. k \in KeySet /\ Follows(Keys, k, LsCursor(w.got)) BY <1>10, <1>12
    <2> QED BY <1>10, <2>1, <2>2, LsOneMore
<1>15. ASSUME NEW k \in found, found = {k}, page = [keys |-> <<k>>, complete |-> TRUE, cursor |-> <<>>]
       PROVE  LsWalk(v, d, stNow)
    <2>1. page.keys = <<k>> BY <1>15
    <2>2. page.complete BY <1>15, Zenon
    <2>3. v.done BY <1>9, <2>2
    <2>4. /\ v.got \in Seq(KeySet) /\ LsRising(v.got)
          /\ Range(v.got) = Range(w.got) \cup {k}
        BY <1>14, <2>1
    <2> QED BY <1>6, <1>8, <1>11, <1>15, <2>3, <2>4 DEF LsWalk
<1>16. ASSUME NEW k \in found, \A l \in found : l = k \/ Before(Keys, k, l),
              page = [keys |-> <<k>>, complete |-> FALSE, cursor |-> k]
       PROVE  LsWalk(v, d, stNow)
    <2>1. page.keys = <<k>> /\ page.cursor = k BY <1>16
    <2>2. ~page.complete BY <1>16, Zenon
    <2>3. ~v.done BY <1>9, <2>2
    <2>4. /\ v.got \in Seq(KeySet) /\ LsRising(v.got) /\ LsCursor(v.got) = k
          /\ Range(v.got) = Range(w.got) \cup {k}
        BY <1>14, <2>1
    <2>5. v.cursor = LsCursor(v.got) BY <1>8, <2>1, <2>4
    <2>6. \A l \in found : l \in Range(v.got) \/ Follows(Keys, l, v.cursor)
        BY <1>8, <1>16, <2>1, <2>4 DEF Follows
    <2> QED BY <1>6, <1>8, <1>11, <2>3, <2>4, <2>5, <2>6 DEF LsWalk
<1>17. LsWalk(v, d, stNow) BY <1>1, <1>12, <1>13, <1>15, <1>16, LsPages
<1>18. \A r \in d.runtime_kv : r.ns = NS => r.key \in KeySet BY <1>4 DEF LsInv
<1>19. stNow \in {0, 1} BY DEF LsInv
<1> QED BY <1>2, <1>4, <1>5, <1>17, <1>18, <1>19, Zenon DEF LsInv

\* A prefix of a key matches its pattern.
LEMMA LsLike ==
    ASSUME NEW S, NEW T, NEW prefix \in Seq(S), NEW k \in Seq(T), IsPrefix(prefix, k)
    PROVE  Like(k, PgEscapeKVLikePrefix(prefix))
<1>1. PICK n : n = Len(prefix) OBVIOUS
<1>2. n \in Nat /\ DOMAIN prefix = 1..n /\ n <= Len(k) /\ SubSeq(prefix, 1, n) = SubSeq(k, 1, n)
    BY <1>1 DEF IsPrefix
<1>3. ASSUME NEW i \in 1..n PROVE prefix[i] = k[i]
    <2>1. (\A j \in 1..n : prefix[j] \in S) /\ (\A j \in 1..n : k[j] \in T) BY <1>1, <1>2
    <2>2. \A j \in 1..(n - 1 + 1) : SubSeq(prefix, 1, n)[j] = prefix[1 + j - 1] BY <1>2, <2>1, SubSeqProperties
    <2>3. \A j \in 1..(n - 1 + 1) : SubSeq(k, 1, n)[j] = k[1 + j - 1] BY <1>2, <2>1, SubSeqProperties
    <2>4. i \in 1..(n - 1 + 1) /\ 1 + i - 1 = i BY <1>2
    <2> QED BY <1>2, <2>2, <2>3, <2>4
<1>4. PICK p : p = [i \in 1..n |-> [char |-> prefix[i]]] OBVIOUS
<1>5. PgEscapeKVLikePrefix(prefix) = p BY <1>2, <1>4 DEF PgEscapeKVLikePrefix
<1>6. DOMAIN p = 1..n /\ Len(p) = n /\ \A i \in 1..n : p[i] = [char |-> k[i]] BY <1>2, <1>3, <1>4
<1> QED BY <1>2, <1>5, <1>6 DEF Like

LEMMA LsStarts ==
    ASSUME LsInv, NEW prefix \in {<<>>} \cup {<<k[1]>> : k \in KeySet}, StartListing(prefix)
    PROVE  LsInv'
<1>1. PICK owed : owed = Matching(rsPg, stNow, prefix) OBVIOUS
<1>2. /\ walk' = [on |-> TRUE, prefix |-> prefix, cursor |-> <<>>, got |-> <<>>, done |-> FALSE,
                  owed |-> owed]
      /\ rsPg' = rsPg /\ stNow' = stNow
    BY <1>1, Zenon DEF StartListing, repositories
<1>3. PICK w : w = walk' OBVIOUS
<1>4. /\ {"on", "prefix", "cursor", "got", "done", "owed"} \subseteq DOMAIN w
      /\ w.prefix = prefix /\ w.cursor = <<>> /\ w.got = <<>> /\ w.owed = owed
    BY <1>2, <1>3
<1>5. w.on /\ ~w.done BY <1>2, <1>3, Zenon
<1>6. <<>> \in Seq(KeySet) /\ LsRising(<<>>) /\ LsCursor(<<>>) = <<>> BY DEF LsRising, LsCursor
<1>7. \E S : prefix \in Seq(S)
    <2>1. CASE prefix = <<>> BY <2>1
    <2>2. CASE prefix # <<>>
        <3>1. PICK c : prefix = <<c>> BY <2>2
        <3>2. <<c>> \in Seq({c}) OBVIOUS
        <3> QED BY <3>1, <3>2
    <2> QED BY <2>1, <2>2
<1>8. ASSUME NEW k \in owed
      PROVE  /\ k \in KeySet /\ Like(k, PgEscapeKVLikePrefix(prefix)) /\ LsThere(rsPg, stNow, k)
             /\ Follows(Keys, k, <<>>)
    <2>1. PICK r \in rsPg.runtime_kv : r.ns = NS /\ ~Expired(r, stNow) /\ IsPrefix(prefix, k) /\ k = r.key
        BY <1>1 DEF Matching, Live
    <2>2. k \in KeySet BY <2>1 DEF LsInv
    <2>3. k \in Seq(Range(k)) BY <2>2, StorageAssumption DEF KeySet
    <2>4. Like(k, PgEscapeKVLikePrefix(prefix)) BY <1>7, <2>1, <2>3, LsLike
    <2> QED BY <2>1, <2>2, <2>4 DEF LsThere, Follows
<1>9. LsWalk(w, rsPg, stNow) BY <1>4, <1>5, <1>6, <1>8 DEF LsWalk
<1> QED BY <1>2, <1>3, <1>9 DEF LsInv

\* A walk is owed fewer keys and goes on.
LEMMA LsOwedLess ==
    ASSUME LsInv, walk.on, NEW owed, owed \subseteq walk.owed,
           \A k \in owed : LsThere(rsPg', stNow', k), walk' = [walk EXCEPT !.owed = owed]
    PROVE  LsWalk(walk', rsPg', stNow')
<1>1. PICK w, v : w = walk /\ v = walk' OBVIOUS
<1>2. LsWalk(w, rsPg, stNow) BY <1>1 DEF LsInv
<1>3. {"on", "prefix", "cursor", "got", "done", "owed"} \subseteq DOMAIN w BY <1>2 DEF LsWalk
<1>4. DOMAIN v = DOMAIN w /\ v.prefix = w.prefix /\ v.cursor = w.cursor /\ v.got = w.got /\ v.owed = owed
    BY <1>1, <1>3
<1>5. v.done = w.done BY <1>1, <1>3, Zenon
<1>6. PICK d, n : d = rsPg' /\ n = stNow' OBVIOUS
<1>7. \A k \in owed : LsThere(d, n, k) BY <1>6
<1>8. LsWalk(v, d, n) BY <1>1, <1>2, <1>3, <1>4, <1>5, <1>7 DEF LsWalk
<1> QED BY <1>1, <1>6, <1>8

LEMMA LsExpiry == ASSUME LsInv, ExpiryPasses PROVE LsInv'
<1>1. stNow = 0 /\ stNow' = 1 /\ rsPg' = rsPg BY DEF ExpiryPasses, repositories
<1>2. CASE ~walk.on
    <2>1. walk' = walk BY <1>2 DEF ExpiryPasses
    <2> QED BY <1>1, <1>2, <2>1 DEF LsInv
<1>3. CASE walk.on
    <2>1. PICK owed : owed = {k \in walk.owed : \E r \in rsPg.runtime_kv :
                                r.ns = NS /\ r.key = k /\ r.expires = 0}
        OBVIOUS
    <2>2. walk' = [walk EXCEPT !.owed = owed] BY <1>3, <2>1, Zenon DEF ExpiryPasses
    <2>3. \A k \in owed : LsThere(rsPg', stNow', k) BY <1>1, <2>1 DEF LsThere, Expired
    <2>4. LsWalk(walk', rsPg', stNow') BY <1>3, <2>1, <2>2, <2>3, LsOwedLess
    <2> QED BY <1>1, <2>4 DEF LsInv
<1> QED BY <1>2, <1>3

\* Writes of a key leave the others alone.
LsWrote(d, e, key, rows) ==
    /\ "runtime_kv" \in DOMAIN e
    /\ e.runtime_kv = {r \in d.runtime_kv : ~(r.ns = NS /\ r.key = key)} \cup rows

LEMMA LsDelta ==
    ASSUME NEW d, "runtime_kv" \in DOMAIN d, NEW key, NEW rows, NEW delta
    PROVE  LsWrote(d, PgSizeDelta(d, NS, key, rows, delta), key, rows)
<1>1. PICK kv, meters, e :
        /\ kv = {r \in d.runtime_kv : ~(r.ns = NS /\ r.key = key)} \cup rows
        /\ e = PgSizeDelta(d, NS, key, rows, delta)
        /\ e = [d EXCEPT !.runtime_kv = kv, !.kv_namespace_metrics = meters]
    BY Zenon DEF PgSizeDelta
<1> QED BY <1>1 DEF LsWrote

LEMMA LsPut ==
    ASSUME LsInv, NEW key \in KeySet, NEW x \in {0, 1}, ListedPut(key, [size |-> 1, expires |-> x])
    PROVE  LsInv'
<1>1. PICK v, row : v = [size |-> 1, expires |-> x] /\ row = PgKVRow(NS, key, v) OBVIOUS
<1>2. row.ns = NS /\ row.key = key /\ row.expires = x BY <1>1 DEF PgKVRow
<1>3. PICK d, e, now : d = rsPg /\ e = rsPg' /\ now = stNow OBVIOUS
<1>4. "runtime_kv" \in DOMAIN d /\ now \in {0, 1} BY <1>3 DEF LsInv
<1>5. stNow' = now /\ walk' = walk /\ ~Expired(row, now)
    BY <1>1, <1>2, <1>3, <1>4 DEF ListedPut, Expired
<1>6. e = d \/ LsWrote(d, e, key, {row})
    <2>1. e = PgKVPutWithSizeDelta(d, Cap, NS, key, v, PgKVOldSize(d, NS, key)).db
        BY <1>1, <1>3 DEF ListedPut, Both
    <2>2. e = d \/ \E delta : e = PgSizeDelta(d, NS, key, {row}, delta)
        BY <1>1, <2>1 DEF PgKVPutWithSizeDelta, Answer
    <2> QED BY <1>4, <2>2, LsDelta
<1>7. "runtime_kv" \in DOMAIN e /\ \A r \in e.runtime_kv : r.ns = NS => r.key \in KeySet
    BY <1>2, <1>3, <1>4, <1>6 DEF LsInv, LsWrote
<1>8. \A k : LsThere(d, now, k) => LsThere(e, now, k)
    BY <1>2, <1>5, <1>6 DEF LsThere, LsWrote
<1>9. ASSUME walk.on PROVE LsWalk(walk, e, now)
    <2>1. LsWalk(walk, d, now) BY <1>3, <1>9 DEF LsInv
    <2> QED BY <1>8, <2>1 DEF LsWalk
<1> QED BY <1>3, <1>4, <1>5, <1>7, <1>9 DEF LsInv

LEMMA LsDelete ==
    ASSUME LsInv, NEW key \in KeySet, ListedDelete(key) PROVE LsInv'
<1>1. PICK d, e, now : d = rsPg /\ e = rsPg' /\ now = stNow OBVIOUS
<1>2. "runtime_kv" \in DOMAIN d /\ now \in {0, 1} BY <1>1 DEF LsInv
<1>3. stNow' = now BY <1>1 DEF ListedDelete
<1>4. e = d \/ LsWrote(d, e, key, {})
    <2>1. e = PgKVDeleteWithSizeDelta(d, Cap, NS, key, PgKVOldSize(d, NS, key)).db
        BY <1>1 DEF ListedDelete, Both
    <2>2. e = d \/ \E delta : e = PgSizeDelta(d, NS, key, {}, delta)
        BY <2>1 DEF PgKVDeleteWithSizeDelta, Answer
    <2> QED BY <1>2, <2>2, LsDelta
<1>5. "runtime_kv" \in DOMAIN e /\ \A r \in e.runtime_kv : r.ns = NS => r.key \in KeySet
    BY <1>1, <1>2, <1>4 DEF LsInv, LsWrote
<1>6. CASE ~walk.on
    <2>1. walk' = walk BY <1>6 DEF ListedDelete
    <2> QED BY <1>1, <1>2, <1>3, <1>5, <1>6, <2>1 DEF LsInv
<1>7. CASE walk.on
    <2>1. PICK owed : owed = walk.owed \ {key} OBVIOUS
    <2>2. walk' = [walk EXCEPT !.owed = owed] BY <1>7, <2>1, Zenon DEF ListedDelete
    <2>3. \A k \in walk.owed : LsThere(d, now, k) BY <1>1, <1>7 DEF LsInv, LsWalk
    <2>4. \A k \in owed : LsThere(e, now, k) BY <1>4, <2>1, <2>3 DEF LsThere, LsWrote
    <2>5. LsWalk(walk', rsPg', stNow') BY <1>1, <1>3, <1>7, <2>1, <2>2, <2>4, LsOwedLess
    <2> QED BY <1>1, <1>2, <1>3, <1>5, <2>5 DEF LsInv
<1> QED BY <1>6, <1>7

---------------------------------------------------------------------------
\* No part but that of listings starts one.
LsPart == IF part = "listing" THEN LsInv ELSE ~walk.on

LEMMA LsStays ==
    ASSUME LsPart, [PlatformNext]_platformVars PROVE LsPart'
<1>1. CASE UNCHANGED platformVars
    BY <1>1 DEF platformVars, storageVars, repositories, LsPart, LsInv, LsWalk
<1>2. CASE PlatformNext
    <2>1. part' = part BY <1>2 DEF PlatformNext
    <2>2. CASE part = "listing"
        <3>1. ListingNext \/ UNCHANGED storageVars BY <1>2, <2>2 DEF PlatformNext
        <3>2. LsInv BY <2>2 DEF LsPart
        <3>3. ASSUME UNCHANGED storageVars PROVE LsInv'
            BY <3>2, <3>3 DEF storageVars, repositories, LsInv, LsWalk
        <3>4. ASSUME ListingNext PROVE LsInv'
            BY <3>2, <3>4, LsStarts, LsPageStep, LsExpiry, LsPut, LsDelete DEF ListingNext
        <3> QED BY <2>1, <2>2, <3>1, <3>3, <3>4 DEF LsPart
    <2>3. CASE part # "listing"
        <3>1. ~walk.on BY <2>3 DEF LsPart
        <3>2. walk' = walk
            <4>1. KVNext \/ ObjectsNext \/ CatalogNext \/ UNCHANGED storageVars
                BY <1>2, <2>3 DEF PlatformNext
            <4>2. CASE UNCHANGED storageVars BY <4>2 DEF storageVars
            <4>3. CASE KVNext
                BY <3>1, <4>3 DEF KVNext, KVRest, RuntimeKVGet, RuntimeKVDelete, KVNamespaceDelete, KVDelete,
                    KVNamespacePut, RuntimeKVPut, KVPutWithOptions, RecordRuntimeKVRead,
                    EnforceKVStorageBytesLimit, KVStorageBytesByOrg, KVReadSize, KVWrite,
                    AdjustKVOrgUsageCache, RecordRuntimeKVWrite, KVNamespaceMetrics, KVNamespaceList,
                    UsageCacheExpires, ExpiryPasses, StorageCrash
            <4>4. CASE ObjectsNext
                BY <4>4 DEF ObjectsNext, ObjectRest, RuntimeObjectGet, RuntimeObjectDelete,
                    RuntimeObjectPut, EnforceObjectStorageBytesLimit, ObjectPut, DeleteObject,
                    AdjustObjectSize, AdjustObjectCount, RecordRuntimeObjectWrite,
                    ObjectStorageBucketMetrics, ReconcileObjectStorageBucketUsage, CorrectObjectSize,
                    CorrectObjectCount, PresignedUpload, StorageCrash
            <4>5. CASE CatalogNext
                BY <4>5 DEF CatalogNext, CatalogRest, CreateInRepository, UpdateInRepository,
                    DeleteInRepository, UpdateDatabaseStats, RecordDBQueryMetrics, CreateResource,
                    UpdateResource, DeleteResource, ExecuteDatabase
            <4> QED BY <4>1, <4>2, <4>3, <4>4, <4>5
        <3> QED BY <2>1, <2>3, <3>1, <3>2 DEF LsPart
    <2> QED BY <2>2, <2>3
<1> QED BY <1>1, <1>2

LEMMA LsInitially == PlatformInit => LsPart
<1> SUFFICES ASSUME PlatformInit PROVE LsPart OBVIOUS
<1>1. \E n \in Nat : StorageInit(n)
    <2>1. StorageInit(5) \/ StorageInit(2) \/ StorageInit(3) BY Zenon DEF PlatformInit
    <2> QED BY <2>1
<1>2. stNow = 0 /\ walk = NoWalk BY <1>1 DEF StorageInit
<1>3. SgSeeded(rsPg) BY <1>1, SgPgSeed DEF StorageInit
<1>4. ~walk.on BY <1>2, Zenon DEF NoWalk
<1>5. "runtime_kv" \in DOMAIN rsPg BY <1>3, SgTables DEF SgSeeded, SgPg
<1>6. \A r \in rsPg.runtime_kv : r.ns # NS BY <1>3 DEF SgSeeded, NS
<1> QED BY <1>2, <1>4, <1>5, <1>6 DEF LsPart, LsInv

\* A client that follows the cursor of runtimeKVList to the end has seen every key that was there
\* all the time, and none twice, whatever is written, deleted or expires between the pages.
THEOREM ListingIsComplete == PlatformSpec => []ListingComplete
<1>1. PlatformInit => LsPart BY LsInitially
<1>2. LsPart /\ [PlatformNext]_platformVars => LsPart' BY LsStays
<1>3. LsPart => ListingComplete BY LsCompletes DEF LsPart, ListingComplete
<1> QED BY <1>1, <1>2, <1>3, PTL DEF PlatformSpec
=============================================================================

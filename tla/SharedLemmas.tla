---------------------------- MODULE SharedLemmas ----------------------------
(***************************************************************************)
(* Facts that several proofs need, stated of values and not of the state   *)
(* of a module: totals, from the theorems on finite sets, and copies of    *)
(* rows that are kept under locks.                                         *)
(***************************************************************************)
EXTENDS Totals, FiniteSetTheorems, TLAPS

(* What a function makes of a finite set is finite.                        *)
LEMMA ImageFinite ==
    ASSUME NEW f, IsFiniteSet(DOMAIN f)
    PROVE  IsFiniteSet({f[x] : x \in DOMAIN f})
<1> DEFINE g == [x \in DOMAIN f |-> f[x]]
<1>1. g \in Surjection(DOMAIN f, {f[x] : x \in DOMAIN f})
  BY DEF Surjection
<1> QED
  BY <1>1, FS_Surjection

LEMMA PileSize ==
    ASSUME NEW x, NEW a \in Nat, NEW b \in Nat, a <= b
    PROVE  /\ IsFiniteSet({x} \X ((a + 1)..b))
           /\ Cardinality({x} \X ((a + 1)..b)) = b - a
<1>1. IsFiniteSet({x}) /\ Cardinality({x}) = 1
  BY FS_Singleton
<1>2. a + 1 \in Int /\ b \in Int
  OBVIOUS
<1>3. IsFiniteSet((a + 1)..b) /\ Cardinality((a + 1)..b) = IF a + 1 > b THEN 0 ELSE b - (a + 1) + 1
  BY <1>2, FS_Interval
<1>4. /\ IsFiniteSet({x} \X ((a + 1)..b))
      /\ Cardinality({x} \X ((a + 1)..b)) = Cardinality({x}) * Cardinality((a + 1)..b)
  BY <1>1, <1>3, FS_Product
<1>5. Cardinality((a + 1)..b) = b - a
  BY <1>3
<1>6. Cardinality({x}) * Cardinality((a + 1)..b) = 1 * (b - a)
  BY <1>1, <1>5
<1> QED
  BY <1>4, <1>6

LEMMA UnitsFinite ==
    ASSUME NEW D, IsFiniteSet(D), NEW f \in [D -> Nat]
    PROVE  IsFiniteSet(Units(f))
<1> DEFINE P == [x \in D |-> {x} \X (1..f[x])]
<1> DEFINE T == {{x} \X (1..f[x]) : x \in D}
<1>1. P \in Surjection(D, T)
  BY DEF Surjection
<1>2. IsFiniteSet(T)
  BY <1>1, FS_Surjection
<1>3. \A S \in T : IsFiniteSet(S)
  <2> SUFFICES ASSUME NEW x \in D PROVE IsFiniteSet({x} \X (1..f[x]))
    OBVIOUS
  <2>1. 0 \in Nat /\ f[x] \in Nat /\ 0 <= f[x]
    OBVIOUS
  <2>2. IsFiniteSet({x} \X ((0 + 1)..f[x]))
    BY <2>1, PileSize
  <2>3. 0 + 1 = 1
    OBVIOUS
  <2> QED
    BY <2>2, <2>3
<1>4. Units(f) = UNION T
  BY DEF Units
<1> HIDE DEF T
<1> QED
  BY <1>2, <1>3, <1>4, FS_UNION

(* A total is a natural number.                                            *)
LEMMA TotalNat ==
    ASSUME NEW D, IsFiniteSet(D), NEW f \in [D -> Nat]
    PROVE  Total(f) \in Nat
  BY UnitsFinite, FS_CardinalityType DEF Total

(* A sum of finitely many integers is an integer.                          *)
LEMMA NetInt ==
    ASSUME NEW D, IsFiniteSet(D), NEW f \in [D -> Int]
    PROVE  Net(f) \in Int
<1>1. \A n \in Int : Gain(n) \in Nat
  BY DEF Gain
<1>2. /\ [x \in D |-> Gain(f[x])] \in [D -> Nat]
      /\ [x \in D |-> Gain(-f[x])] \in [D -> Nat]
  BY <1>1
<1>3. Total([x \in D |-> Gain(f[x])]) \in Nat /\ Total([x \in D |-> Gain(-f[x])]) \in Nat
  BY <1>2, TotalNat
<1>4. DOMAIN f = D
  OBVIOUS
<1> QED
  BY <1>3, <1>4 DEF Net

(* A total is at least each of its parts' total.                           *)
LEMMA TotalMonotone ==
    ASSUME NEW D, IsFiniteSet(D), NEW f \in [D -> Nat], NEW g \in [D -> Nat],
           \A x \in D : f[x] <= g[x]
    PROVE  Total(f) <= Total(g)
<1>1. Units(f) \subseteq Units(g)
  <2> SUFFICES ASSUME NEW x \in D, NEW i \in 1..f[x] PROVE <<x, i>> \in Units(g)
    BY DEF Units
  <2>1. i \in 1..g[x]
    OBVIOUS
  <2> QED
    BY <2>1 DEF Units
<1> QED
  BY <1>1, UnitsFinite, FS_Subset DEF Total

LEMMA TotalGrows ==
    ASSUME NEW D, IsFiniteSet(D), NEW f \in [D -> Nat], NEW g \in [D -> Nat],
           NEW x \in D, f[x] <= g[x], \A y \in D \ {x} : g[y] = f[y]
    PROVE  Total(g) = Total(f) + (g[x] - f[x])
<1> DEFINE New == {x} \X ((f[x] + 1)..g[x])
<1>1. IsFiniteSet(New) /\ Cardinality(New) = g[x] - f[x]
  BY PileSize
<1>2. IsFiniteSet(Units(f))
  BY UnitsFinite
<1>3. Units(g) = Units(f) \cup New
  <2>1. ASSUME NEW y \in D, NEW i \in 1..g[y] PROVE <<y, i>> \in Units(f) \cup New
    <3>1. CASE y = x /\ i > f[x]
      BY <3>1
    <3>2. CASE y # x \/ i <= f[x]
      <4>1. i \in 1..f[y]
        BY <3>2
      <4> QED
        BY <4>1 DEF Units
    <3>3. i \in Int /\ f[x] \in Int
      OBVIOUS
    <3> QED
      BY <3>1, <3>2, <3>3
  <2>2. ASSUME NEW y \in D, NEW i \in 1..f[y] PROVE <<y, i>> \in Units(g)
    <3>1. i \in 1..g[y]
      OBVIOUS
    <3> QED
      BY <3>1 DEF Units
  <2>3. ASSUME NEW i \in (f[x] + 1)..g[x] PROVE <<x, i>> \in Units(g)
    <3>1. i \in 1..g[x]
      OBVIOUS
    <3> QED
      BY <3>1 DEF Units
  <2>4. Units(g) \subseteq Units(f) \cup New
    BY <2>1 DEF Units
  <2>5. Units(f) \subseteq Units(g)
    BY <2>2 DEF Units
  <2>6. New \subseteq Units(g)
    BY <2>3
  <2> QED
    BY <2>4, <2>5, <2>6
<1>4. Units(f) \cap New = {}
  BY DEF Units
<1>5. Cardinality({}) = 0
  BY FS_EmptySet
<1>6. Cardinality(Units(g)) = Cardinality(Units(f)) + Cardinality(New) - Cardinality({})
  BY <1>1, <1>2, <1>3, <1>4, FS_Union
<1>7. Cardinality(Units(f)) \in Nat
  BY <1>2, FS_CardinalityType
<1> HIDE DEF New
<1> QED
  BY <1>1, <1>5, <1>6, <1>7 DEF Total

(* Changing one value changes the total by as much.                        *)
LEMMA TotalChange ==
    ASSUME NEW D, IsFiniteSet(D), NEW f \in [D -> Nat], NEW g \in [D -> Nat],
           NEW x \in D, \A y \in D \ {x} : g[y] = f[y]
    PROVE  Total(g) = Total(f) + (g[x] - f[x])
<1>1. Total(f) \in Nat /\ Total(g) \in Nat /\ f[x] \in Nat /\ g[x] \in Nat
  BY TotalNat
<1>2. CASE f[x] <= g[x]
  BY <1>2, TotalGrows
<1>3. CASE g[x] <= f[x]
  <2>1. Total(f) = Total(g) + (f[x] - g[x])
    BY <1>3, TotalGrows
  <2> QED
    BY <2>1, <1>1
<1> QED
  BY <1>1, <1>2, <1>3

(* Each value is at most the total.                                        *)
LEMMA PartOfTotal ==
    ASSUME NEW D, IsFiniteSet(D), NEW f \in [D -> Nat], NEW x \in D
    PROVE  f[x] <= Total(f)
<1> DEFINE z == [f EXCEPT ![x] = 0]
<1>1. z \in [D -> Nat] /\ z[x] = 0 /\ \A y \in D \ {x} : f[y] = z[y]
  OBVIOUS
<1> HIDE DEF z
<1>2. Total(f) = Total(z) + (f[x] - z[x]) /\ Total(z) \in Nat /\ Total(f) \in Nat
  BY <1>1, TotalChange, TotalNat
<1> QED
  BY <1>1, <1>2

(* The total of what is left when one value is left out.                   *)
LEMMA TotalWithout ==
    ASSUME NEW D, IsFiniteSet(D), NEW f \in [D -> Nat], NEW x \in D
    PROVE  Total(f) = Total([y \in D \ {x} |-> f[y]]) + f[x]
<1> DEFINE z == [f EXCEPT ![x] = 0]
<1> DEFINE r == [y \in D \ {x} |-> f[y]]
<1>1. z \in [D -> Nat] /\ z[x] = 0 /\ \A y \in D \ {x} : z[y] = f[y]
  OBVIOUS
<1>2. Units(z) = Units(r)
  <2>1. ASSUME NEW y \in D, NEW i \in 1..z[y] PROVE y \in D \ {x} /\ i \in 1..r[y]
    BY <1>1
  <2>2. ASSUME NEW y \in D \ {x}, NEW i \in 1..r[y] PROVE i \in 1..z[y]
    BY <1>1
  <2>3. DOMAIN z = D /\ DOMAIN r = D \ {x}
    OBVIOUS
  <2> HIDE DEF z, r
  <2> QED
    BY <2>1, <2>2, <2>3 DEF Units
<1> HIDE DEF z
<1>3. Total(f) = Total(z) + (f[x] - z[x]) /\ Total(z) \in Nat
  BY <1>1, TotalChange, TotalNat
<1> QED
  BY <1>1, <1>2, <1>3 DEF Total

(* Values of zero outside a part do not count.                             *)
LEMMA TotalPadded ==
    ASSUME NEW D, NEW S \in SUBSET D, NEW f \in [S -> Nat], NEW z \in [D -> Nat],
           \A x \in D : z[x] = IF x \in S THEN f[x] ELSE 0
    PROVE  Total(z) = Total(f)
<1>1. ASSUME NEW y \in D, NEW i \in 1..z[y] PROVE y \in S /\ i \in 1..f[y]
  OBVIOUS
<1>2. ASSUME NEW y \in S, NEW i \in 1..f[y] PROVE y \in D /\ i \in 1..z[y]
  OBVIOUS
<1>3. DOMAIN z = D /\ DOMAIN f = S
  OBVIOUS
<1>4. Units(z) = Units(f)
  BY <1>1, <1>2, <1>3 DEF Units
<1> QED
  BY <1>4 DEF Total

Sums(s, f, g) == \A x \in DOMAIN s : s[x] = f[x] + g[x]

(* The total of sums is the sum of the totals.                             *)
LEMMA TotalSum ==
    ASSUME NEW D, IsFiniteSet(D), NEW f \in [D -> Nat], NEW g \in [D -> Nat],
           NEW s \in [D -> Nat], Sums(s, f, g)
    PROVE  Total(s) = Total(f) + Total(g)
<1>0. \A x \in D : s[x] = f[x] + g[x]
  BY DEF Sums
<1> DEFINE Above == UNION {{x} \X ((f[x] + 1)..s[x]) : x \in D}
<1> DEFINE raise == [u \in Units(g) |-> <<u[1], f[u[1]] + u[2]>>]
<1>1. IsFiniteSet(Units(f)) /\ IsFiniteSet(Units(g))
  BY UnitsFinite
<1>2. \A u \in Units(g) : u = <<u[1], u[2]>> /\ u[1] \in D /\ u[2] \in 1..g[u[1]]
  BY DEF Units
<1>3. raise \in [Units(g) -> Above]
  <2> SUFFICES ASSUME NEW u \in Units(g) PROVE <<u[1], f[u[1]] + u[2]>> \in Above
    OBVIOUS
  <2>1. u[1] \in D /\ u[2] \in 1..g[u[1]]
    BY <1>2
  <2>2. f[u[1]] + u[2] \in (f[u[1]] + 1)..s[u[1]]
    BY <1>0, <2>1
  <2> QED
    BY <2>1, <2>2
<1>4. \A a \in Above : \E u \in Units(g) : raise[u] = a
  <2> SUFFICES ASSUME NEW a \in Above PROVE \E u \in Units(g) : raise[u] = a
    OBVIOUS
  <2>0. PICK x \in D : a \in {x} \X ((f[x] + 1)..s[x])
    OBVIOUS
  <2>a. PICK i \in (f[x] + 1)..s[x] : a = <<x, i>>
    BY <2>0
  <2>1. i - f[x] \in 1..g[x] /\ f[x] + (i - f[x]) = i
    BY <1>0
  <2>2. <<x, i - f[x]>> \in Units(g)
    BY <2>1 DEF Units
  <2>3. raise[<<x, i - f[x]>>] = <<x, i>>
    BY <2>1, <2>2
  <2> QED
    BY <2>a, <2>2, <2>3
<1>5. \A u, v \in Units(g) : raise[u] = raise[v] => u = v
  <2> SUFFICES ASSUME NEW u \in Units(g), NEW v \in Units(g), raise[u] = raise[v] PROVE u = v
    OBVIOUS
  <2>1. u[1] = v[1] /\ f[u[1]] + u[2] = f[v[1]] + v[2]
    OBVIOUS
  <2>2. u[2] = v[2]
    BY <1>2, <2>1
  <2> QED
    BY <1>2, <2>1, <2>2
<1>6. IsFiniteSet(Above) /\ Cardinality(Above) = Cardinality(Units(g))
  <2> HIDE DEF raise, Above
  <2>1. raise \in Bijection(Units(g), Above)
    BY <1>3, <1>4, <1>5 DEF Bijection, Injection, Surjection, IsInjective
  <2>2. ExistsBijection(Units(g), Above)
    BY <2>1 DEF ExistsBijection
  <2> QED
    BY <1>1, <2>2, FS_Bijection
<1>7. Units(s) = Units(f) \cup Above
  <2>1. ASSUME NEW x \in D, NEW i \in 1..s[x] PROVE <<x, i>> \in Units(f) \cup Above
    <3>1. i \in 1..f[x] \/ i \in (f[x] + 1)..s[x]
      BY <1>0
    <3> QED
      BY <3>1 DEF Units
  <2>2. ASSUME NEW x \in D, NEW i \in 1..f[x] PROVE i \in 1..s[x]
    BY <1>0
  <2>3. ASSUME NEW x \in D, NEW i \in (f[x] + 1)..s[x] PROVE i \in 1..s[x]
    BY <1>0
  <2>4. DOMAIN s = D /\ DOMAIN f = D
    OBVIOUS
  <2>5. Units(s) \subseteq Units(f) \cup Above
    BY <2>1, <2>4 DEF Units
  <2>6. Units(f) \subseteq Units(s)
    BY <2>2, <2>4 DEF Units
  <2>7. Above \subseteq Units(s)
    BY <2>3, <2>4 DEF Units
  <2> QED
    BY <2>5, <2>6, <2>7
<1>8. Units(f) \cap Above = {}
  BY DEF Units
<1>9. /\ Cardinality(Units(s)) = Cardinality(Units(f)) + Cardinality(Above) - Cardinality({})
      /\ Cardinality({}) = 0
  BY <1>1, <1>6, <1>7, <1>8, FS_Union, FS_EmptySet
<1>10. Cardinality(Units(f)) \in Nat /\ Cardinality(Units(g)) \in Nat
  BY <1>1, FS_CardinalityType
<1> HIDE DEF Above
<1> QED
  BY <1>6, <1>9, <1>10 DEF Total

-----------------------------------------------------------------------------
(* Totals of a set that grows *)

(* The total with one more element.                                        *)
LEMMA TotalAdded ==
    ASSUME NEW D, IsFiniteSet(D), NEW x, x \notin D, NEW f \in [D \cup {x} -> Nat]
    PROVE  Total(f) = Total([y \in D |-> f[y]]) + f[x]
<1>1. IsFiniteSet(D \cup {x}) /\ x \in D \cup {x} /\ (D \cup {x}) \ {x} = D
  BY FS_AddElement
<1> DEFINE E == D \cup {x}
<1>2. Total(f) = Total([y \in E \ {x} |-> f[y]]) + f[x]
  BY <1>1, TotalWithout
<1> QED
  BY <1>1, <1>2

Joins(f, D, d, E, e) ==
    /\ IsFiniteSet(D) /\ IsFiniteSet(E) /\ D \cap E = {}
    /\ f \in [D \cup E -> Nat] /\ d \in [D -> Nat] /\ e \in [E -> Nat]
    /\ \A x \in D : d[x] = f[x]
    /\ \A x \in E : e[x] = f[x]

(* The total over two parts that have nothing in common.                   *)
LEMMA TotalJoined ==
    ASSUME NEW f, NEW D, NEW d, NEW E, NEW e, Joins(f, D, d, E, e)
    PROVE  Total(f) = Total(d) + Total(e)
<1> USE DEF Joins
<1>2. DOMAIN f = D \cup E /\ DOMAIN d = D /\ DOMAIN e = E
  OBVIOUS
<1>3. Units(f) = Units(d) \cup Units(e)
  <2>1. ASSUME NEW x \in D \cup E, NEW i \in 1..f[x] PROVE <<x, i>> \in Units(d) \cup Units(e)
    BY <1>2 DEF Units
  <2>2. ASSUME NEW x \in D, NEW i \in 1..d[x] PROVE <<x, i>> \in Units(f)
    BY <1>2 DEF Units
  <2>3. ASSUME NEW x \in E, NEW i \in 1..e[x] PROVE <<x, i>> \in Units(f)
    BY <1>2 DEF Units
  <2>4. Units(f) \subseteq Units(d) \cup Units(e)
    BY <1>2, <2>1 DEF Units
  <2>5. Units(d) \subseteq Units(f)
    BY <1>2, <2>2 DEF Units
  <2>6. Units(e) \subseteq Units(f)
    BY <1>2, <2>3 DEF Units
  <2> QED
    BY <2>4, <2>5, <2>6
<1>4. Units(d) \cap Units(e) = {}
  BY <1>2 DEF Units
<1>5. IsFiniteSet(Units(d)) /\ IsFiniteSet(Units(e))
  BY UnitsFinite
<1>6. /\ Cardinality(Units(f)) = Cardinality(Units(d)) + Cardinality(Units(e)) - Cardinality({})
      /\ Cardinality({}) = 0
  BY <1>3, <1>4, <1>5, FS_Union, FS_EmptySet
<1>7. Cardinality(Units(d)) \in Nat /\ Cardinality(Units(e)) \in Nat
  BY <1>5, FS_CardinalityType
<1>8. Cardinality(Units(f)) = Cardinality(Units(d)) + Cardinality(Units(e))
  BY <1>6, <1>7
<1> QED
  BY <1>8 DEF Total

Reindexes(h, D, f, E, g) ==
    /\ IsFiniteSet(D) /\ h \in Bijection(D, E)
    /\ f \in [D -> Nat] /\ g \in [E -> Nat]
    /\ \A x \in D : g[h[x]] = f[x]

(* The total does not depend on what the values are filed under.           *)
LEMMA TotalReindexed ==
    ASSUME NEW h, NEW D, NEW f, NEW E, NEW g, Reindexes(h, D, f, E, g)
    PROVE  Total(f) = Total(g)
<1> USE DEF Reindexes
<1> DEFINE move == [u \in Units(f) |-> <<h[u[1]], u[2]>>]
<1>1. /\ \A x \in D : h[x] \in E
      /\ \A x, y \in D : h[x] = h[y] => x = y
      /\ \A z \in E : \E x \in D : h[x] = z
  BY DEF Bijection, Injection, Surjection, IsInjective
<1>2. \A u \in Units(f) : u = <<u[1], u[2]>> /\ u[1] \in D /\ u[2] \in 1..f[u[1]]
  BY DEF Units
<1>3. move \in [Units(f) -> Units(g)]
  <2> SUFFICES ASSUME NEW u \in Units(f) PROVE <<h[u[1]], u[2]>> \in Units(g)
    OBVIOUS
  <2>1. h[u[1]] \in E /\ u[2] \in 1..g[h[u[1]]]
    BY <1>1, <1>2
  <2> QED
    BY <2>1 DEF Units
<1>4. \A v \in Units(g) : \E u \in Units(f) : move[u] = v
  <2> SUFFICES ASSUME NEW v \in Units(g) PROVE \E u \in Units(f) : move[u] = v
    OBVIOUS
  <2>z. PICK z \in E : v \in {z} \X (1..g[z])
    BY DEF Units
  <2>0. PICK i \in 1..g[z] : v = <<z, i>>
    BY <2>z
  <2>1. PICK x \in D : h[x] = z
    BY <1>1
  <2>2. <<x, i>> \in Units(f)
    BY <2>1 DEF Units
  <2>3. move[<<x, i>>] = <<z, i>>
    BY <2>1, <2>2
  <2> QED
    BY <2>0, <2>2, <2>3
<1>5. \A u, v \in Units(f) : move[u] = move[v] => u = v
  <2> SUFFICES ASSUME NEW u \in Units(f), NEW v \in Units(f), move[u] = move[v] PROVE u = v
    OBVIOUS
  <2>1. h[u[1]] = h[v[1]] /\ u[2] = v[2]
    OBVIOUS
  <2> QED
    BY <1>1, <1>2, <2>1
<1> HIDE DEF move
<1>6. move \in Bijection(Units(f), Units(g))
  BY <1>3, <1>4, <1>5 DEF Bijection, Injection, Surjection, IsInjective
<1>7. ExistsBijection(Units(f), Units(g))
  BY <1>6 DEF ExistsBijection
<1>8. IsFiniteSet(Units(f))
  BY UnitsFinite
<1> QED
  BY <1>7, <1>8, FS_Bijection DEF Total

-----------------------------------------------------------------------------
(* Rows, the sessions that hold them and the copies they keep *)

(* Each session's copies are of rows of R, no row is held by two sessions, *)
(* and every copy is as the row is.                                        *)
FreshCopies(S, R, row, copy) ==
    /\ copy = [s \in S |-> copy[s]]
    /\ row = [r \in R |-> row[r]]
    /\ \A s \in S : DOMAIN copy[s] \subseteq R
    /\ \A s, t \in S : \A r \in R : r \in DOMAIN copy[s] /\ r \in DOMAIN copy[t] => s = t
    /\ \A s \in S : \A r \in DOMAIN copy[s] : copy[s][r] = row[r]

(* Taking a free row keeps the copies fresh.                               *)
LEMMA TakingKeepsFresh ==
    ASSUME NEW S, NEW R, NEW row, NEW copy, NEW taken, FreshCopies(S, R, row, copy),
           NEW s \in S, NEW r \in R, \A t \in S : r \notin DOMAIN copy[t],
           taken = [copy EXCEPT ![s] =
                      [q \in DOMAIN copy[s] \cup {r} |-> IF q = r THEN row[r] ELSE copy[s][q]]]
    PROVE  FreshCopies(S, R, row, taken)
<1> DEFINE C == [q \in DOMAIN copy[s] \cup {r} |-> IF q = r THEN row[r] ELSE copy[s][q]]
<1>1. \A t \in S : taken[t] = IF t = s THEN C ELSE copy[t]
  BY DEF FreshCopies
<1>2. /\ DOMAIN C = DOMAIN copy[s] \cup {r}
      /\ \A q \in DOMAIN C : C[q] = IF q = r THEN row[r] ELSE copy[s][q]
  OBVIOUS
<1>3. taken = [t \in S |-> taken[t]]
  BY DEF FreshCopies
<1> HIDE DEF C
<1>4. \A t \in S : DOMAIN taken[t] \subseteq R
  BY <1>1, <1>2 DEF FreshCopies
<1>5. \A t, u \in S : \A q \in R : q \in DOMAIN taken[t] /\ q \in DOMAIN taken[u] => t = u
  BY <1>1, <1>2 DEF FreshCopies
<1>6. \A t \in S : \A q \in DOMAIN taken[t] : taken[t][q] = row[q]
  BY SMTT(30), <1>1, <1>2 DEF FreshCopies
<1> QED
  BY <1>3, <1>4, <1>5, <1>6 DEF FreshCopies

(* A commit or rollback that changes only rows the session holds leaves    *)
(* the copies of the others fresh.                                         *)
LEMMA LeavingKeepsFresh ==
    ASSUME NEW S, NEW R, NEW row, NEW copy, NEW written, NEW left, NEW s \in S,
           FreshCopies(S, R, row, copy),
           left = [t \in S |-> left[t]], DOMAIN left[s] = {},
           \A t \in S \ {s} : left[t] = copy[t],
           written = [r \in R |-> written[r]],
           \A r \in R : r \notin DOMAIN copy[s] => written[r] = row[r]
    PROVE  FreshCopies(S, R, written, left)
<1>1. \A t \in S : DOMAIN left[t] \subseteq R
  BY DEF FreshCopies
<1>2. \A t, u \in S : \A r \in R : r \in DOMAIN left[t] /\ r \in DOMAIN left[u] => t = u
  BY DEF FreshCopies
<1>3. ASSUME NEW t \in S, NEW r \in DOMAIN left[t] PROVE left[t][r] = written[r]
  <2>1. t # s /\ left[t] = copy[t]
    OBVIOUS
  <2>2. r \in R /\ r \notin DOMAIN copy[s]
    BY <2>1 DEF FreshCopies
  <2> QED
    BY SMTT(30), <2>1, <2>2 DEF FreshCopies
<1> QED
  BY <1>1, <1>2, <1>3 DEF FreshCopies

=============================================================================

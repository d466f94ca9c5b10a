------------------------------- MODULE Numbers -------------------------------
(***************************************************************************)
(* Induction and recursion for the proofs of the other modules.  The       *)
(* theorems of the library on induction take an operator as a parameter;   *)
(* here induction is stated on a set of numbers (LeastNumber, from WFMin), *)
(* and recursion on functions (Recursion), so that first-order provers do. *)
(***************************************************************************)
EXTENDS Integers, WellFoundedInduction, TLAPS

(* A set of numbers has a least one.                                       *)
LEMMA LeastNumber ==
  ASSUME NEW T \in SUBSET Nat, T # {}
  PROVE  \E m \in T : \A k \in T : m <= k
<1> DEFINE R == OpToRel(<, Nat)
<1>1. PICK m \in T : \A k \in T : <<k, m>> \notin R
  <2> HIDE DEF R
  <2>1. IsWellFoundedOn(R, Nat)
    BY NatLessThanWellFounded, Zenon DEF R
  <2> QED
    BY <2>1, WFMin
<1>2. \A k \in T : ~(k < m)
  BY <1>1 DEF OpToRel
<1> QED
  BY <1>2

LEMMA Induction ==
  ASSUME NEW T \in SUBSET Nat, 0 \in T, \A n \in T : n + 1 \in T
  PROVE  \A n \in Nat : n \in T
<1> SUFFICES ASSUME Nat \ T # {} PROVE FALSE
  OBVIOUS
<1>1. PICK m \in Nat \ T : \A k \in Nat \ T : m <= k
  BY LeastNumber
<1>2. m # 0 /\ m - 1 \in Nat /\ m - 1 \notin Nat \ T
  BY <1>1
<1> QED
  BY <1>2

LEMMA StrongInduction ==
  ASSUME NEW T \in SUBSET Nat, \A n \in Nat : (\A k \in Nat : k < n => k \in T) => n \in T
  PROVE  \A n \in Nat : n \in T
<1> SUFFICES ASSUME Nat \ T # {} PROVE FALSE
  OBVIOUS
<1>1. PICK m \in Nat \ T : \A k \in Nat \ T : m <= k
  BY LeastNumber
<1>2. \A k \in Nat : k < m => k \in T
  BY <1>1
<1> QED
  BY <1>1, <1>2

(* A set of numbers under a bound has a greatest one.                      *)
LEMMA GreatestNumber ==
  ASSUME NEW T \in SUBSET Nat, T # {}, NEW n \in Nat, \A k \in T : k <= n
  PROVE  \E m \in T : \A k \in T : k <= m
<1> DEFINE Gaps == {j \in Nat : n - j \in T}
<1>1. PICK k \in T : TRUE
  OBVIOUS
<1>2. n - k \in Gaps
  BY <1>1
<1>3. PICK g \in Gaps : \A j \in Gaps : g <= j
  <2> HIDE DEF Gaps
  <2>1. Gaps \in SUBSET Nat
    BY DEF Gaps
  <2> QED
    BY <1>2, <2>1, LeastNumber
<1>4. \A j \in T : n - j \in Gaps
  OBVIOUS
<1>5. n - g \in T /\ \A j \in T : j <= n - g
  BY <1>3, <1>4
<1> QED
  BY <1>5

(* A function may be defined by recursion if each value needs one of lower *)
(* rank: leaf is what needs none.                                          *)
Follows(f, x, parent, leaf, base, step) ==
  f[x] = IF x \in leaf THEN base[x] ELSE step[x][f[parent[x]]]

LEMMA Recursion ==
  ASSUME NEW S, NEW V, NEW leaf, NEW rank \in [S -> Nat], NEW parent \in [S -> S],
         NEW base \in [S -> V], NEW step \in [S -> [V -> V]],
         \A x \in S \ leaf : rank[parent[x]] < rank[x]
  PROVE  \E f \in [S -> V] : \A x \in S : Follows(f, x, parent, leaf, base, step)
<1> DEFINE Good(g, x) == Follows(g, x, parent, leaf, base, step)
           Below(m)   == {g \in [S -> V] : \A x \in S : rank[x] < m => Good(g, x)}
           T == {m \in Nat : Below(m) # {}}
<1>1. ASSUME NEW m \in Nat, NEW g \in Below(m)
      PROVE  Below(m + 1) # {}
  <2> DEFINE h == [x \in S |-> IF rank[x] < m THEN g[x]
                               ELSE IF x \in leaf THEN base[x] ELSE step[x][g[parent[x]]]]
  <2>1. h \in [S -> V]
    BY <1>1
  <2>2. \A x \in S \ leaf : rank[x] < m + 1 => h[parent[x]] = g[parent[x]]
    BY <1>1
  <2>3. ASSUME NEW x \in S, rank[x] < m + 1 PROVE Good(h, x)
    <3>1. CASE rank[x] < m
      BY <3>1, <2>2, <2>3, <1>1 DEF Follows
    <3>2. CASE ~(rank[x] < m)
      BY <3>2, <2>2, <2>3 DEF Follows
    <3> QED
      BY <3>1, <3>2
  <2> HIDE DEF h
  <2> QED
    BY <2>1, <2>3
<1>2. \A m \in Nat : Below(m) # {}
  <2>1. base \in Below(0)
    BY DEF Follows
  <2> HIDE DEF Below
  <2>2. 0 \in T /\ \A m \in T : m + 1 \in T
    BY <2>1, <1>1
  <2> HIDE DEF T
  <2>3. \A m \in Nat : m \in T
    BY <2>2, Induction DEF T
  <2> QED
    BY <2>3 DEF T
<1>3. ASSUME NEW m \in Nat, NEW n \in Nat, NEW g \in Below(m), NEW h \in Below(n),
             NEW x \in S, rank[x] < m, rank[x] < n
      PROVE  g[x] = h[x]
  <2> DEFINE Apart == {rank[y] : y \in {z \in S : rank[z] < m /\ rank[z] < n /\ g[z] # h[z]}}
  <2> SUFFICES ASSUME g[x] # h[x] PROVE FALSE
    OBVIOUS
  <2>1. Apart \in SUBSET Nat /\ Apart # {}
    BY <1>3
  <2> HIDE DEF Apart
  <2>2. PICK r \in Apart : \A k \in Apart : r <= k
    BY <2>1, LeastNumber
  <2>3. PICK y \in S : r = rank[y] /\ rank[y] < m /\ rank[y] < n /\ g[y] # h[y]
    BY <2>2 DEF Apart
  <2>4. Good(g, y) /\ Good(h, y)
    BY <2>3, <1>3
  <2>5. y \notin leaf /\ g[parent[y]] # h[parent[y]]
    BY <2>3, <2>4 DEF Follows
  <2>6. parent[y] \in S /\ rank[parent[y]] < rank[y] /\ rank[parent[y]] \in Nat
    BY <2>5
  <2>7. rank[parent[y]] \in Apart
    BY <2>3, <2>5, <2>6 DEF Apart
  <2> QED
    BY <2>2, <2>3, <2>6, <2>7
<1> DEFINE G(m) == CHOOSE g : g \in Below(m)
           f    == [x \in S |-> G(rank[x] + 1)[x]]
<1>4. \A m \in Nat : G(m) \in Below(m)
  BY <1>2
<1> HIDE DEF G
<1>5. f \in [S -> V]
  BY <1>4
<1>6. ASSUME NEW x \in S PROVE Good(f, x)
  <2> DEFINE g == G(rank[x] + 1)
  <2>1. g \in Below(rank[x] + 1) /\ f[x] = g[x]
    BY <1>4
  <2>2. Good(g, x)
    BY <2>1
  <2>3. x \notin leaf => f[parent[x]] = g[parent[x]]
    <3> SUFFICES ASSUME x \notin leaf PROVE f[parent[x]] = g[parent[x]]
      OBVIOUS
    <3>1. parent[x] \in S /\ rank[parent[x]] < rank[x] /\ rank[parent[x]] \in Nat /\ rank[x] \in Nat
      OBVIOUS
    <3> DEFINE h == G(rank[parent[x]] + 1)
    <3>2. h \in Below(rank[parent[x]] + 1) /\ f[parent[x]] = h[parent[x]]
      BY <3>1, <1>4
    <3> HIDE DEF f, g, h, Below
    <3>3. rank[parent[x]] < rank[parent[x]] + 1 /\ rank[parent[x]] < rank[x] + 1
          /\ rank[parent[x]] + 1 \in Nat /\ rank[x] + 1 \in Nat
      BY <3>1
    <3>4. h[parent[x]] = g[parent[x]]
      BY <3>1, <3>2, <3>3, <2>1, <1>3
    <3> QED
      BY <3>2, <3>4
  <2> HIDE DEF f, g
  <2> QED
    BY <2>1, <2>2, <2>3 DEF Follows
<1> HIDE DEF f
<1> QED
  BY <1>5, <1>6
=============================================================================

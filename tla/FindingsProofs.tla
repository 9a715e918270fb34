--------------------------- MODULE FindingsProofs ---------------------------
(***************************************************************************)
(* What findings and assessments rest on, for any tables of units and      *)
(* similar names, any documents and any number of them: a judgment that is *)
(* still supported is found again, payments of a chain without findings    *)
(* stay within what is owed, and an action that is allowed has its proof.  *)
(***************************************************************************)
EXTENDS Engine, FiniteSetTheorems, TLAPS
-----------------------------------------------------------------------------
(* Sums over finite sets.  The sum of a function is a fold; that it takes  *)
(* its elements in any order is shown by a smallest counterexample.        *)

(* Of a nonempty collection of finite sets, one holds no other: what fails  *)
(* for a finite set fails for a smallest one.                               *)
LEMMA Smallest ==
  ASSUME NEW S, NEW C, IsFiniteSet(S), C \subseteq SUBSET S, C # {}
  PROVE  \E T \in C : \A U \in C : U \subseteq T => U = T
<1>1. C \subseteq FiniteSubsetsOf(S)
  BY FS_FiniteSubsetsOfFinite
<1>2. PICK T \in C : \A U \in C : ~(<<U, T>> \in StrictSubsetOrdering(S))
  BY <1>1, FS_StrictSubsetOrderingWellFounded, WFMin
<1> QED BY <1>2 DEF StrictSubsetOrdering

(* The sums of f over the subsets of S, in the order of the fold.           *)
Any(s) == CHOOSE x \in s : TRUE
Sums(g, S, f) == g = [s \in SUBSET S |-> IF s = {} THEN 0 ELSE f[Any(s)] + g[s \ {Any(s)}]]

LEMMA AnyIn == \A s : s # {} => Any(s) \in s
BY DEF Any

LEMMA SumsAgree ==
  ASSUME NEW S, IsFiniteSet(S), NEW T, NEW f, NEW h, NEW g, NEW k, T \subseteq S,
         Sums(g, S, f), Sums(k, T, h), \A x \in T : f[x] = h[x]
  PROVE  \A s \in SUBSET T : g[s] = k[s]
<1> DEFINE C == {s \in SUBSET T : g[s] # k[s]}
<1> SUFFICES ASSUME C # {} PROVE FALSE
  OBVIOUS
<1>0. IsFiniteSet(T) /\ C \subseteq SUBSET T
  BY FS_Subset
<1>1. PICK s \in C : \A u \in C : u \subseteq s => u = s
  <2> HIDE DEF C
  <2> QED BY <1>0, Smallest
<1>2. s # {}
  BY <1>1 DEF Sums
<1>3. Any(s) \in s
  BY <1>2, AnyIn
<1>4. g[s \ {Any(s)}] = k[s \ {Any(s)}]
  BY <1>1, <1>3
<1>5. s \in SUBSET T /\ s \in SUBSET S /\ g[s] # k[s] /\ f[Any(s)] = h[Any(s)]
  BY <1>1, <1>3
<1>6. g[s] = f[Any(s)] + g[s \ {Any(s)}] /\ k[s] = h[Any(s)] + k[s \ {Any(s)}]
  <2> HIDE DEF C
  <2> QED BY <1>2, <1>5 DEF Sums
<1> QED BY <1>4, <1>5, <1>6

LEMMA SumsExist ==
  ASSUME NEW S, IsFiniteSet(S), NEW f
  PROVE  \E g : Sums(g, S, f)
<1> DEFINE C == {T \in SUBSET S : ~\E g : Sums(g, T, f)}
<1> SUFFICES ASSUME C # {} PROVE FALSE
  OBVIOUS
<1>0. C \subseteq SUBSET S
  OBVIOUS
<1>1. PICK T \in C : \A U \in C : U \subseteq T => U = T
  <2> HIDE DEF C
  <2> QED BY <1>0, Smallest
<1> DEFINE of(U) == CHOOSE g : Sums(g, U, f)
           rest(s) == s \ {Any(s)}
           sum == [s \in SUBSET T |->
                     IF s = {} THEN 0 ELSE f[Any(s)] + of(rest(s))[rest(s)]]
<1>2. \A U \in SUBSET T : U # T => Sums(of(U), U, f)
  BY <1>1
<1>3. \A s \in SUBSET T : s # {} => Any(s) \in s /\ rest(s) \in SUBSET T /\ rest(s) # T
  BY AnyIn
<1>4. ASSUME NEW s \in SUBSET T, s # {} PROVE of(rest(s))[rest(s)] = sum[rest(s)]
  <2>1. rest(s) \in SUBSET T /\ Sums(of(rest(s)), rest(s), f)
    BY <1>2, <1>3, <1>4
  <2> DEFINE u == rest(s)
  <2>2. CASE u = {}
    BY <2>1, <2>2 DEF Sums
  <2>3. CASE u # {}
    <3>1. of(u)[u] = f[Any(u)] + of(u)[rest(u)]
      BY <2>1, <2>3 DEF Sums
    <3>2. sum[u] = f[Any(u)] + of(rest(u))[rest(u)]
      BY <2>1, <2>3
    <3>3. Sums(of(rest(u)), rest(u), f) /\ rest(u) \subseteq u /\ IsFiniteSet(u)
      BY <1>2, <1>3, <2>1, <2>3, FS_Subset
    <3>4. of(u)[rest(u)] = of(rest(u))[rest(u)]
      BY <2>1, <3>3, SumsAgree
    <3> QED BY <3>1, <3>2, <3>4
  <2> QED BY <2>2, <2>3
<1>5. Sums(sum, T, f)
  <2>1. PICK g : g = sum
    OBVIOUS
  <2>2. \A s \in SUBSET T : s # {} => of(rest(s))[rest(s)] = g[rest(s)]
    BY <1>4, <2>1
  <2>3. g = [s \in SUBSET T |->
               IF s = {} THEN 0 ELSE f[Any(s)] + of(rest(s))[rest(s)]]
    BY <2>1
  <2> HIDE DEF of, sum
  <2>4. g = [s \in SUBSET T |-> IF s = {} THEN 0 ELSE f[Any(s)] + g[rest(s)]]
    BY <2>2, <2>3
  <2> QED BY <2>1, <2>4 DEF Sums
<1> QED BY <1>1, <1>5

LEMMA SumIs ==
  ASSUME NEW f, IsFiniteSet(DOMAIN f), NEW g, Sums(g, DOMAIN f, f)
  PROVE  SumFunction(f) = g[DOMAIN f]
<1> DEFINE G == CHOOSE h : Sums(h, DOMAIN f, f)
<1>1. Sums(G, DOMAIN f, f)
  OBVIOUS
<1>2. SumFunction(f) = G[DOMAIN f]
  BY DEF SumFunction, SumFunctionOnSet, FoldFunctionOnSet, MapThenFoldSet, Sums, Any
<1> QED BY <1>1, <1>2, SumsAgree

(* The sum of f over a part of its domain.                                  *)
Over(T, f) == SumFunction([x \in T |-> f[x]])

LEMMA OverIs ==
  ASSUME NEW S, IsFiniteSet(S), NEW f, NEW g, Sums(g, S, f), NEW T \in SUBSET S
  PROVE  Over(T, f) = g[T]
<1> DEFINE h == [x \in T |-> f[x]]
<1>1. IsFiniteSet(T) /\ DOMAIN h = T
  BY FS_Subset
<1>2. PICK k : Sums(k, T, h)
  BY <1>1, SumsExist
<1>3. SumFunction(h) = k[T]
  BY <1>1, <1>2, SumIs
<1>4. \A x \in T : f[x] = h[x]
  OBVIOUS
<1>5. g[T] = k[T]
  <2> HIDE DEF h
  <2> QED BY <1>2, <1>4, SumsAgree
<1> QED BY <1>3, <1>5 DEF Over

LEMMA OverNothing == \A f : Over({}, f) = 0
<1> SUFFICES ASSUME NEW f PROVE Over({}, f) = 0
  OBVIOUS
<1>1. IsFiniteSet({})
  BY FS_EmptySet
<1>2. PICK g : Sums(g, {}, f)
  BY <1>1, SumsExist
<1>3. Over({}, f) = g[{}]
  BY <1>1, <1>2, OverIs
<1> QED BY <1>2, <1>3 DEF Sums

(* Whatever element is taken first, a sum is the same.                      *)
LEMMA OverType ==
  ASSUME NEW S, IsFiniteSet(S), NEW f, \A x \in S : f[x] \in Int
  PROVE  \A T \in SUBSET S : Over(T, f) \in Int
<1>1. PICK g : Sums(g, S, f)
  BY SumsExist
<1> DEFINE C == {T \in SUBSET S : g[T] \notin Int}
<1> SUFFICES ASSUME C # {} PROVE FALSE
  BY <1>1, OverIs
<1>2. C \subseteq SUBSET S
  OBVIOUS
<1>3. PICK T \in C : \A U \in C : U \subseteq T => U = T
  <2> HIDE DEF C
  <2> QED BY <1>2, Smallest
<1>4. T # {}
  BY <1>1, <1>3 DEF Sums
<1>5. Any(T) \in T
  BY <1>4, AnyIn
<1>6. g[T \ {Any(T)}] \in Int
  BY <1>3, <1>5
<1>7. g[T] = f[Any(T)] + g[T \ {Any(T)}]
  BY <1>1, <1>3, <1>4 DEF Sums
<1> QED BY <1>3, <1>5, <1>6, <1>7

LEMMA OverAdds ==
  ASSUME NEW S, IsFiniteSet(S), NEW f, \A x \in S : f[x] \in Int
  PROVE  \A T \in SUBSET S : \A x \in T : Over(T, f) = f[x] + Over(T \ {x}, f)
<1>1. PICK g : Sums(g, S, f)
  BY SumsExist
<1>2. \A T \in SUBSET S : g[T] = Over(T, f) /\ g[T] \in Int
  BY <1>1, OverIs, OverType
<1> DEFINE C == {T \in SUBSET S : \E x \in T : g[T] # f[x] + g[T \ {x}]}
<1> SUFFICES ASSUME C # {} PROVE FALSE
  BY <1>2
<1>3. C \subseteq SUBSET S
  OBVIOUS
<1>4. PICK T \in C : \A U \in C : U \subseteq T => U = T
  <2> HIDE DEF C
  <2> QED BY <1>3, Smallest
<1>5. PICK x \in T : g[T] # f[x] + g[T \ {x}]
  BY <1>4
<1> DEFINE y == Any(T)
<1>6. y \in T /\ T \in SUBSET S
  BY <1>4, <1>5, AnyIn
<1>7. g[T] = f[y] + g[T \ {y}]
  BY <1>1, <1>5, <1>6 DEF Sums
<1>8. x # y
  BY <1>5, <1>7
<1>9. \A U \in SUBSET T : U # T => \A z \in U : g[U] = f[z] + g[U \ {z}]
  BY <1>4
<1> HIDE DEF y, C
<1>10. PICK a \in Int : a = g[(T \ {x}) \ {y}]
  BY <1>2, <1>6
<1>11. (T \ {y}) \ {x} = (T \ {x}) \ {y}
  OBVIOUS
<1>12. g[T \ {y}] = f[x] + a /\ g[T \ {x}] = f[y] + a
  BY <1>5, <1>6, <1>8, <1>9, <1>10, <1>11
<1>13. f[x] \in Int /\ f[y] \in Int
  BY <1>5, <1>6
<1>14. f[y] + (f[x] + a) = f[x] + (f[y] + a)
  BY <1>10, <1>13
<1> QED BY <1>5, <1>7, <1>12, <1>14

(* A sum of what is not negative is none of it less than.                   *)
LEMMA OverNat ==
  ASSUME NEW S, IsFiniteSet(S), NEW f, \A x \in S : f[x] \in Nat
  PROVE  \A T \in SUBSET S : Over(T, f) \in Nat /\ \A x \in T : f[x] <= Over(T, f)
<1>0. \A T \in SUBSET S : Over(T, f) \in Int /\ \A x \in T : Over(T, f) = f[x] + Over(T \ {x}, f)
  BY OverType, OverAdds
<1> DEFINE C == {T \in SUBSET S : Over(T, f) \notin Nat}
<1>1. C = {}
  <2> SUFFICES ASSUME C # {} PROVE FALSE
    OBVIOUS
  <2>2. C \subseteq SUBSET S
    OBVIOUS
  <2>3. PICK T \in C : \A U \in C : U \subseteq T => U = T
    <3> HIDE DEF C
    <3> QED BY <2>2, Smallest
  <2>a. Over({}, f) = 0
    BY OverNothing
  <2>b. T # {}
    <3> SUFFICES ASSUME T = {} PROVE FALSE
      OBVIOUS
    <3>1. Over(T, f) = 0
      BY <2>a
    <3> QED BY <2>3, <3>1
  <2>4. PICK x \in T : TRUE
    BY <2>b
  <2>5. Over(T \ {x}, f) \in Nat /\ Over(T, f) = f[x] + Over(T \ {x}, f) /\ f[x] \in Nat
    BY <1>0, <2>3, <2>4
  <2> QED BY <2>3, <2>5
<1> SUFFICES ASSUME NEW T \in SUBSET S, NEW x \in T
             PROVE  f[x] <= Over(T, f)
  BY <1>1
<1>2. Over(T, f) = f[x] + Over(T \ {x}, f) /\ f[x] \in Nat
  BY <1>0
<1>3. Over(T \ {x}, f) \in Nat
  BY <1>1
<1> QED BY <1>2, <1>3

LEMMA SumOver == \A f : f = [x \in DOMAIN f |-> f[x]] => SumFunction(f) = Over(DOMAIN f, f)
BY DEF Over

(* Sums add up over parts that are apart.                                   *)
LEMMA OverBoth ==
  ASSUME NEW S, IsFiniteSet(S), NEW f, \A x \in S : f[x] \in Int,
         NEW T \in SUBSET S
  PROVE  \A U \in SUBSET S : T \cap U = {} => Over(T \cup U, f) = Over(T, f) + Over(U, f)
<1>0. \A V \in SUBSET S : Over(V, f) \in Int /\ \A x \in V : Over(V, f) = f[x] + Over(V \ {x}, f)
  BY OverType, OverAdds
<1> DEFINE C == {U \in SUBSET S : T \cap U = {} /\ Over(T \cup U, f) # Over(T, f) + Over(U, f)}
<1> SUFFICES ASSUME C # {} PROVE FALSE
  OBVIOUS
<1>1. C \subseteq SUBSET S
  OBVIOUS
<1>2. PICK U \in C : \A V \in C : V \subseteq U => V = U
  <2> HIDE DEF C
  <2> QED BY <1>1, Smallest
<1>3. Over({}, f) = 0 /\ T \cup {} = T /\ Over(T, f) \in Int
  BY <1>0, OverNothing
<1>a. U # {}
  <2> SUFFICES ASSUME U = {} PROVE FALSE
    OBVIOUS
  <2>1. Over(T \cup U, f) = Over(T, f) + Over(U, f)
    BY <1>3
  <2> QED BY <1>2, <2>1
<1>4. PICK x \in U : TRUE
  BY <1>a
<1>5. U \in SUBSET S /\ T \cap U = {} /\ U \ {x} \in SUBSET S /\ U \ {x} \notin C
  BY <1>2, <1>4
<1>6. Over(T \cup (U \ {x}), f) = Over(T, f) + Over(U \ {x}, f)
  BY <1>5
<1>7. T \cup (U \ {x}) = (T \cup U) \ {x} /\ T \cup U \in SUBSET S /\ x \in T \cup U
  BY <1>4, <1>5
<1>8. /\ Over(T \cup U, f) = f[x] + Over((T \cup U) \ {x}, f)
      /\ Over(U, f) = f[x] + Over(U \ {x}, f)
  BY <1>0, <1>4, <1>5, <1>7
<1>9. Over(T, f) \in Int /\ Over(U \ {x}, f) \in Int /\ f[x] \in Int
  BY <1>0, <1>4, <1>5
<1>b. Over(T \cup U, f) = f[x] + (Over(T, f) + Over(U \ {x}, f))
  BY <1>6, <1>7, <1>8
<1>10. Over(T \cup U, f) = Over(T, f) + Over(U, f)
  BY <1>b, <1>8, <1>9
<1> QED BY <1>2, <1>10

LEMMA OverParts ==
  ASSUME NEW S, IsFiniteSet(S), NEW f, \A x \in S : f[x] \in Int,
         NEW I, IsFiniteSet(I), NEW part, \A i \in I : part[i] \subseteq S,
         \A i, j \in I : i # j => part[i] \cap part[j] = {},
         NEW g, \A i \in I : g[i] = Over(part[i], f)
  PROVE  Over(I, g) = Over(UNION {part[i] : i \in I}, f)
<1> DEFINE all(J) == UNION {part[i] : i \in J}
           C == {J \in SUBSET I : Over(J, g) # Over(all(J), f)}
<1> SUFFICES ASSUME C # {} PROVE FALSE
  OBVIOUS
<1>1. C \subseteq SUBSET I
  OBVIOUS
<1>2. PICK J \in C : \A V \in C : V \subseteq J => V = J
  <2> HIDE DEF C
  <2> QED BY <1>1, Smallest
<1>3. Over({}, f) = 0 /\ Over({}, g) = 0 /\ all({}) = {}
  BY OverNothing
<1>4. PICK j \in J : TRUE
  BY <1>2, <1>3
<1>5. J \in SUBSET I /\ J \ {j} \in SUBSET I /\ J \ {j} \notin C
  BY <1>2, <1>4
<1>6. Over(J \ {j}, g) = Over(all(J \ {j}), f)
  BY <1>5
<1>7. /\ all(J) = all(J \ {j}) \cup part[j] /\ all(J \ {j}) \cap part[j] = {}
      /\ all(J \ {j}) \in SUBSET S /\ part[j] \in SUBSET S
  BY <1>4, <1>5
<1> HIDE DEF all, C
<1>8. Over(all(J), f) = Over(all(J \ {j}), f) + Over(part[j], f)
  <2>1. PICK P \in SUBSET S, Q \in SUBSET S : P = all(J \ {j}) /\ Q = part[j]
    BY <1>7
  <2>a. P \cap Q = {}
    BY <1>7, <2>1
  <2>2. Over(P \cup Q, f) = Over(P, f) + Over(Q, f)
    BY <2>a, OverBoth
  <2> QED BY <1>7, <2>1, <2>2
<1>9. \A V \in SUBSET S : Over(V, f) \in Int
  BY OverType
<1>10. \A i \in I : g[i] \in Int
  BY <1>9
<1>11. Over(J, g) = g[j] + Over(J \ {j}, g)
  BY <1>4, <1>5, <1>10, OverAdds
<1>12. g[j] = Over(part[j], f) /\ g[j] \in Int /\ Over(all(J \ {j}), f) \in Int
  BY <1>4, <1>5, <1>7, <1>9
<1>13. Over(J, g) = Over(all(J), f)
  BY <1>6, <1>8, <1>11, <1>12
<1> QED BY <1>2, <1>13 DEF C

LEMMA Adding ==
  ASSUME NEW n \in Int, NEW a \in Int, NEW b \in Int, NEW c \in Int, NEW d \in Int,
         n * a <= c, n * b <= d
  PROVE  n * (a + b) <= c + d
<1>1. n * (a + b) = n * a + n * b /\ n * a \in Int /\ n * b \in Int
  OBVIOUS
<1> QED BY <1>1

(* What is nowhere more, n times, than something of its own is not more     *)
(* in sum.                                                                  *)
LEMMA OverWithin ==
  ASSUME NEW S, IsFiniteSet(S), NEW f, \A x \in S : f[x] \in Int,
         NEW T, IsFiniteSet(T), NEW h, \A y \in T : h[y] \in Nat,
         NEW own, \A x \in S : own[x] \in T, \A x, z \in S : own[x] = own[z] => x = z,
         NEW n \in Int, \A x \in S : n * f[x] <= h[own[x]]
  PROVE  n * Over(S, f) <= Over(T, h)
<1> DEFINE owned(U) == {own[x] : x \in U}
           C == {U \in SUBSET S : ~(n * Over(U, f) <= Over(owned(U), h))}
<1>1. C = {}
  <2> SUFFICES ASSUME C # {} PROVE FALSE
    OBVIOUS
  <2>1. C \subseteq SUBSET S
    OBVIOUS
  <2>2. PICK U \in C : \A V \in C : V \subseteq U => V = U
    <3> HIDE DEF C
    <3> QED BY <2>1, Smallest
  <2>3. Over({}, f) = 0 /\ Over({}, h) = 0 /\ owned({}) = {} /\ n * 0 <= 0
    BY OverNothing
  <2>4. PICK x \in U : TRUE
    BY <2>2, <2>3
  <2>5. U \in SUBSET S /\ U \ {x} \in SUBSET S /\ U \ {x} \notin C
    BY <2>2, <2>4
  <2>6. n * Over(U \ {x}, f) <= Over(owned(U \ {x}), h)
    BY <2>5
  <2>7. /\ owned(U) \in SUBSET T /\ own[x] \in owned(U)
        /\ owned(U \ {x}) = owned(U) \ {own[x]}
    BY <2>4, <2>5
  <2> HIDE DEF owned, C
  <2>8. /\ Over(U, f) = f[x] + Over(U \ {x}, f) /\ f[x] \in Int /\ Over(U \ {x}, f) \in Int
    BY <2>4, <2>5, OverAdds, OverType
  <2>9. \A y \in T : h[y] \in Int
    OBVIOUS
  <2>10. /\ Over(owned(U), h) = h[own[x]] + Over(owned(U) \ {own[x]}, h)
         /\ h[own[x]] \in Int /\ Over(owned(U) \ {own[x]}, h) \in Int
    BY <2>7, <2>9, OverAdds, OverType
  <2>11. n * f[x] <= h[own[x]]
    BY <2>4, <2>5
  <2>12. n * Over(U \ {x}, f) <= Over(owned(U) \ {own[x]}, h)
    BY <2>6, <2>7
  <2>13. n * (f[x] + Over(U \ {x}, f)) <= h[own[x]] + Over(owned(U) \ {own[x]}, h)
    BY <2>8, <2>10, <2>11, <2>12, Adding
  <2>14. n * Over(U, f) <= Over(owned(U), h)
    BY <2>8, <2>10, <2>13
  <2> QED BY <2>2, <2>14 DEF C
<1>2. n * Over(S, f) <= Over(owned(S), h)
  BY <1>1
<1>3. owned(S) \in SUBSET T /\ T \ owned(S) \in SUBSET T
  OBVIOUS
<1>4. owned(S) \cap (T \ owned(S)) = {} /\ owned(S) \cup (T \ owned(S)) = T
  BY <1>3
<1> HIDE DEF owned, C
<1>5. \A y \in T : h[y] \in Int
  OBVIOUS
<1>6. Over(T, h) = Over(owned(S), h) + Over(T \ owned(S), h)
  BY <1>3, <1>4, <1>5, OverBoth
<1>7. Over(owned(S), h) \in Nat /\ Over(T \ owned(S), h) \in Nat
  BY <1>3, OverNat
<1>8. Over(S, f) \in Int /\ n * Over(S, f) \in Int
  BY OverType
<1> QED BY <1>2, <1>6, <1>7, <1>8

-----------------------------------------------------------------------------
(* Images, and parts along links.                                          *)

LEMMA FiniteImage ==
  ASSUME NEW S, IsFiniteSet(S), NEW f
  PROVE  IsFiniteSet({f[x] : x \in S})
<1> DEFINE T == {f[x] : x \in S}
           m == [x \in S |-> f[x]]
<1>1. m \in Surjection(S, T)
  BY DEF Surjection
<1> HIDE DEF m
<1> QED BY <1>1, FS_Surjection

(* What is split along links: parts that no link crosses, and the least.    *)
Apart(K, linked) ==
  {S \in (SUBSET K) \ {{}} : \A p \in linked : p \subseteq S \/ p \cap S = {}}
Least(A) == {S \in A : \A T \in A : T \subseteq S => T = S}

LEMMA LeastHolds ==
  ASSUME NEW K, NEW linked, \A p \in linked : p \subseteq K, NEW k \in K
  PROVE  \E S \in Least(Apart(K, linked)) : k \in S
<1> DEFINE A == Apart(K, linked)
           M == {y \in K : \A S \in A : k \in S => y \in S}
<1>1. M \in SUBSET K /\ k \in M
  OBVIOUS
<1>2. ASSUME NEW p \in linked PROVE p \subseteq M \/ p \cap M = {}
  <2> SUFFICES ASSUME NEW y \in p, y \in M, NEW z \in p, NEW S \in A, k \in S PROVE z \in S
    OBVIOUS
  <2> QED BY DEF Apart
<1>3. M \in A
  BY <1>1, <1>2 DEF Apart
<1>4. ASSUME NEW T \in A, T \subseteq M, k \notin T PROVE FALSE
  <2>1. M \ T \in A
    <3>1. M \ T \in (SUBSET K) \ {{}}
      BY <1>1, <1>4
    <3>2. ASSUME NEW p \in linked PROVE p \subseteq M \ T \/ p \cap (M \ T) = {}
      <4>1. p \subseteq T \/ p \cap T = {}
        BY <1>4 DEF Apart
      <4> QED BY <1>2, <4>1
    <3> QED BY <3>1, <3>2 DEF Apart
  <2>2. M \subseteq M \ T
    BY <2>1, <1>1, <1>4
  <2>3. T # {}
    BY <1>4 DEF Apart
  <2> QED BY <1>4, <2>2, <2>3
<1>5. ASSUME NEW T \in A, T \subseteq M PROVE T = M
  BY <1>4, <1>5
<1> QED BY <1>1, <1>3, <1>5 DEF Least

LEMMA LeastApart ==
  ASSUME NEW K, NEW linked, NEW S \in Least(Apart(K, linked)), NEW T \in Least(Apart(K, linked)),
         NEW k \in S, k \in T
  PROVE  S = T
<1>1. S \cap T \in Apart(K, linked)
  <2>1. S \in (SUBSET K) /\ S \cap T # {}
    BY DEF Least, Apart
  <2>2. ASSUME NEW p \in linked PROVE p \subseteq S \cap T \/ p \cap (S \cap T) = {}
    <3>1. (p \subseteq S \/ p \cap S = {}) /\ (p \subseteq T \/ p \cap T = {})
      BY DEF Least, Apart
    <3> QED BY <3>1
  <2> QED BY <2>1, <2>2 DEF Apart
<1>2. S \cap T = S /\ S \cap T = T
  BY <1>1 DEF Least
<1> QED BY <1>2

-----------------------------------------------------------------------------
(* Arithmetic of prices, discounts and totals: fractions are compared by   *)
(* products.                                                               *)

LEMMA Cancel ==
  ASSUME NEW k \in Nat \ {0}, NEW a \in Int, NEW b \in Int, k * a <= k * b
  PROVE  a <= b
<1> SUFFICES ASSUME a >= b + 1 PROVE FALSE
  OBVIOUS
<1>1. k * (a - b) >= k
  <2> PICK e \in Nat : a - b = 1 + e
    OBVIOUS
  <2>1. k * (1 + e) = k + k * e /\ k * e \in Nat
    OBVIOUS
  <2> QED BY <2>1
<1>2. k * (a - b) = k * a - k * b /\ k * a \in Int /\ k * b \in Int
  OBVIOUS
<1> QED BY <1>1, <1>2

LEMMA Scale ==
  ASSUME NEW k \in Nat, NEW a \in Int, NEW b \in Int, a <= b
  PROVE  k * a <= k * b
<1> PICK e \in Nat : b = a + e
  OBVIOUS
<1>1. k * (a + e) = k * a + k * e /\ k * e \in Nat /\ k * a \in Int
  OBVIOUS
<1> QED BY <1>1

LEMMA DivBound ==
  ASSUME NEW N \in Nat, NEW H \in Nat \ {0}, NEW e \in Nat, H * e <= N
  PROVE  e <= N \div H /\ N \div H \in Nat
<1>1. PICK z \in Nat, r \in 0..(H - 1) : z = N \div H /\ N = H * z + r
  OBVIOUS
<1>2. e <= z
  <2> SUFFICES ASSUME z + 1 <= e PROVE FALSE
    BY <1>1
  <2>1. H * (z + 1) <= H * e
    BY <1>1, Scale
  <2>2. H * (z + 1) = H * z + H /\ H * z \in Int /\ H * e \in Int
    BY <1>1
  <2> QED BY <1>1, <2>1, <2>2
<1> QED BY <1>1, <1>2

(* A price is not above another by more than half a unit's.                 *)
LEMMA PriceBound ==
  ASSUME NEW q \in Nat \ {0}, NEW r \in Nat \ {0}, NEW p \in Nat, NEW s \in Nat,
         NEW F \in Nat \ {0}, NEW G \in Nat \ {0},
         ~(2 * ((q * p) * (r * G) - (r * s) * (q * F)) > (q * F) * (r * G))
  PROVE  2 * p * G <= F * (2 * s + G)
<1> DEFINE k == q * r
<1>1. k \in Nat \ {0}
  OBVIOUS
<1>2. PICK u \in Nat, v \in Nat, w \in Nat : u = p * G /\ v = s * F /\ w = F * G
  OBVIOUS
<1>3. /\ (q * p) * (r * G) = k * u /\ (r * s) * (q * F) = k * v
      /\ (q * F) * (r * G) = k * w
  BY <1>2
<1>4. 2 * (k * u - k * v) = k * (2 * (u - v))
  BY <1>2
<1>5. k * (2 * (u - v)) <= k * w
  BY <1>3, <1>4
<1> HIDE DEF k
<1>6. 2 * (u - v) <= w
  BY <1>1, <1>2, <1>5, Cancel
<1>7. 2 * p * G = 2 * u /\ F * (2 * s + G) = 2 * v + w
  BY <1>2
<1> QED BY <1>2, <1>6, <1>7

LEMMA DiscountBound ==
  ASSUME NEW q \in Nat \ {0}, NEW r \in Nat \ {0}, NEW a \in Int, NEW b \in Int,
         ~(100 * ((r * b) * q - (q * a) * r) > r * q)
  PROVE  b <= a
<1> DEFINE k == q * r
<1>1. k \in Nat \ {0}
  OBVIOUS
<1>2. (r * b) * q = k * b /\ (q * a) * r = k * a /\ r * q = k * 1
  OBVIOUS
<1>3. 100 * (k * b - k * a) = k * (100 * (b - a))
  OBVIOUS
<1>4. k * (100 * (b - a)) <= k * 1
  BY <1>2, <1>3
<1> HIDE DEF k
<1>5. 100 * (b - a) <= 1
  BY <1>1, <1>4, Cancel
<1> QED BY <1>5

Expect(q, p, a)   == q * p * (100 - a)
Owing(n, s, G, b) == (n * (2 * s + G) * (100 - b)) \div (2 * G)

(* What is expected of a line is not above what is owed for its item.       *)
LEMMA ExpectedBound ==
  ASSUME NEW q \in Nat \ {0}, NEW p \in Nat, NEW s \in Nat,
         NEW F \in Nat \ {0}, NEW G \in Nat \ {0}, NEW Q \in Int,
         NEW a \in Discounts, NEW b \in Discounts,
         2 * p * G <= F * (2 * s + G), b <= a, q * F <= Q
  PROVE  Expect(q, p, a) \in Nat /\ Owing(Q, s, G, b) \in Nat
         /\ Expect(q, p, a) <= Owing(Q, s, G, b)
<1>1. PICK m \in Nat \ {0}, A \in Nat, B \in Nat : m = 2 * s + G /\ A = 100 - a /\ B = 100 - b
  BY DEF Discounts
<1>2. A <= B
  BY <1>1 DEF Discounts
<1>3. PICK u \in Nat, v \in Nat : u = q * p /\ v = 2 * p * G
  OBVIOUS
<1>4. q * v <= q * (F * m)
  BY <1>1, <1>3, Scale
<1>5. q * (F * m) = m * (q * F) /\ m * (q * F) \in Nat
  BY <1>1
<1>6. m * (q * F) <= m * Q /\ Q \in Nat
  <2>1. q * F \in Nat
    OBVIOUS
  <2> QED BY <1>1, <2>1, Scale
<1>7. PICK x \in Nat, y \in Nat : x = q * v /\ y = m * Q
  BY <1>1, <1>3, <1>6
<1>8. A * x <= A * y
  BY <1>1, <1>4, <1>5, <1>6, <1>7, Scale
<1>9. y * A <= y * B
  BY <1>1, <1>2, <1>7, Scale
<1>10. A * x <= y * B
  <2>1. A * y = y * A /\ A * x \in Int /\ y * A \in Int /\ y * B \in Int
    BY <1>1, <1>7
  <2> QED BY <1>8, <1>9, <2>1
<1>11. (2 * G) * (u * A) = A * x
  BY <1>1, <1>3, <1>7
<1>12. Q * m * B = y * B
  BY <1>1, <1>7
<1>13. PICK e \in Nat, N \in Nat, H \in Nat \ {0} : e = u * A /\ N = y * B /\ H = 2 * G
  BY <1>1, <1>3, <1>7
<1>14. H * e <= N
  BY <1>10, <1>11, <1>13
<1>15. e <= N \div H /\ N \div H \in Nat
  BY <1>13, <1>14, DivBound
<1> QED BY <1>1, <1>3, <1>12, <1>13, <1>15 DEF Expect, Owing

(* A total within the tolerance of what is expected, and of what is more.   *)
LEMMA TotalBound ==
  ASSUME NEW t \in Nat, NEW e \in Nat, NEW w \in Nat, e <= w,
         1000 * (100 * t - e) <= 300000 \/ 1000 * (100 * t - e) <= 5 * e
  PROVE  100 * t <= w + 300 \/ 100 * t <= w + (w \div 200)
<1>1. CASE 1000 * (100 * t - e) <= 300000
  BY <1>1
<1>2. CASE 1000 * (100 * t - e) <= 5 * e
  <2>1. 200 * (100 * t - e) <= e
    BY <1>2
  <2>2. 200 * (100 * t) <= 201 * w
    BY <2>1
  <2>3. PICK z \in Nat, r \in 0..199 : w = 200 * z + r /\ w \div 200 = z
    OBVIOUS
  <2> QED BY <2>2, <2>3
<1> QED BY <1>1, <1>2

-----------------------------------------------------------------------------
(* Lines and items.  Items are the least sets of keys that no link         *)
(* crosses.                                                                *)

(* The lines of documents are finitely many, and have their types.          *)
LinesOf(D) == UNION {{<<i, j>> : j \in DOMAIN documents[i].lines} : i \in D}

LEMMA LinesFinite ==
  ASSUME documents \in Seq(DocumentType), NEW D \in SUBSET DOMAIN documents
  PROVE  IsFiniteSet(D) /\ IsFiniteSet(LinesOf(D))
<1>1. IsFiniteSet(DOMAIN documents)
  <2>1. DOMAIN documents = 1..Len(documents) /\ Len(documents) \in Nat
    OBVIOUS
  <2> QED BY <2>1, FS_Interval
<1>2. IsFiniteSet(D)
  BY <1>1, FS_Subset
<1>3. ASSUME NEW i \in D PROVE IsFiniteSet({<<i, j>> : j \in DOMAIN documents[i].lines})
  <2>0. documents[i] \in DocumentType
    OBVIOUS
  <2>1. documents[i].lines \in Seq(LineType)
    BY <2>0 DEF DocumentType
  <2> DEFINE J == DOMAIN documents[i].lines
  <2>2. J = 1..Len(documents[i].lines) /\ Len(documents[i].lines) \in Nat
    BY <2>1
  <2>3. IsFiniteSet(J)
    BY <2>2, FS_Interval
  <2> HIDE DEF J
  <2> DEFINE f == [j \in J |-> <<i, j>>]
  <2>4. IsFiniteSet({f[j] : j \in J})
    <3> HIDE DEF f
    <3> QED BY <2>3, FiniteImage
  <2>5. {f[j] : j \in J} = {<<i, j>> : j \in J}
    OBVIOUS
  <2> QED BY <2>4, <2>5 DEF J
<1> DEFINE f == [i \in D |-> {<<i, j>> : j \in DOMAIN documents[i].lines}]
           A == {f[i] : i \in D}
<1>4. IsFiniteSet(A)
  <2> HIDE DEF f
  <2> QED BY <1>2, FiniteImage
<1>5. \A T \in A : IsFiniteSet(T)
  BY <1>3
<1>6. UNION A = LinesOf(D)
  BY DEF LinesOf
<1> HIDE DEF A
<1> QED BY <1>2, <1>4, <1>5, <1>6, FS_UNION

LEMMA LineTyped ==
  ASSUME documents \in Seq(DocumentType), NEW D \in SUBSET DOMAIN documents, NEW x \in LinesOf(D)
  PROVE  /\ documents[x[1]].lines[x[2]] \in LineType
         /\ x[1] \in D /\ x[2] \in DOMAIN documents[x[1]].lines /\ x = <<x[1], x[2]>>
<1>1. PICK i \in D : \E j \in DOMAIN documents[i].lines : x = <<i, j>>
  BY DEF LinesOf
<1>2. PICK j \in DOMAIN documents[i].lines : x = <<i, j>>
  BY <1>1
<1>3. x[1] = i /\ x[2] = j
  BY <1>2
<1>a. documents[i] \in DocumentType
  OBVIOUS
<1>4. documents[i].lines \in Seq(LineType)
  BY <1>a DEF DocumentType
<1> QED BY <1>2, <1>3, <1>4

LEMMA SupportItemOf ==
  ASSUME NEW D, NEW x \in Support!Lines(D)
  PROVE  \E item \in Support!Items(D) : x \in item.lines
<1> DEFINE K == Support!Keys(D)
           linked == Support!Linked(D)
           named == {[key |-> Support!ClusterKey(D, cluster), keys |-> cluster] :
                       cluster \in Support!Clusters(D)}
<1>1. \A p \in linked : p \subseteq K
  BY DEF Support!Linked, Support!Keys
<1>2. Support!Line(x).key \in K
  BY DEF Support!Keys
<1>3. PICK S \in Support!Clusters(D) : Support!Line(x).key \in S
  <2>1. Support!Clusters(D) = Least(Apart(K, linked))
    BY DEF Support!Clusters, Least, Apart
  <2> HIDE DEF K, linked
  <2> QED BY <1>1, <1>2, <2>1, LeastHolds
<1>4. PICK n \in named : Support!Line(x).key \in n.keys
  <2> DEFINE n == [key |-> Support!ClusterKey(D, S), keys |-> S]
  <2>1. n \in named
    OBVIOUS
  <2>2. n.keys = S
    OBVIOUS
  <2> HIDE DEF n, named
  <2> QED BY <1>3, <2>1, <2>2
<1> DEFINE item == [key |-> n.key,
                    lines |-> {y \in Support!Lines(D) :
                                 \E m \in named : m.key = n.key /\ Support!Line(y).key \in m.keys}]
<1>5. item \in Support!Items(D)
  BY Zenon DEF Support!Items
<1>6. x \in item.lines
  BY <1>4
<1> QED BY <1>5, <1>6

LEMMA SupportItemIs ==
  ASSUME NEW D, NEW item \in Support!Items(D)
  PROVE  /\ item.lines \subseteq Support!Lines(D)
         /\ \A x \in item.lines : \E S \in Support!Clusters(D) :
              item.key = Support!ClusterKey(D, S) /\ Support!Line(x).key \in S
         /\ \A other \in Support!Items(D) : other.key = item.key => other = item
<1> DEFINE named == {[key |-> Support!ClusterKey(D, cluster), keys |-> cluster] :
                       cluster \in Support!Clusters(D)}
           of(key) == {x \in Support!Lines(D) :
                         \E m \in named : m.key = key /\ Support!Line(x).key \in m.keys}
<1>1. \A one \in Support!Items(D) : \E n \in named : one = [key |-> n.key, lines |-> of(n.key)]
  BY Zenon DEF Support!Items
<1>2. \A one \in Support!Items(D) : one.lines = of(one.key)
        /\ one = [key |-> one.key, lines |-> of(one.key)]
  <2> HIDE DEF of, named
  <2> QED BY <1>1
<1>3. ASSUME NEW x \in item.lines
      PROVE  \E S \in Support!Clusters(D) :
               item.key = Support!ClusterKey(D, S) /\ Support!Line(x).key \in S
  <2>1. PICK m \in named : m.key = item.key /\ Support!Line(x).key \in m.keys
    BY <1>2
  <2> QED BY <2>1
<1>4. \A other \in Support!Items(D) : other.key = item.key => other = item
  <2> HIDE DEF of
  <2> QED BY <1>2
<1>5. item.lines \subseteq Support!Lines(D)
  BY <1>2
<1> QED BY <1>3, <1>4, <1>5

LEMMA SupportItemsApart ==
  ASSUME NEW D, NEW item \in Support!Items(D), NEW other \in Support!Items(D),
         NEW x \in item.lines, x \in other.lines
  PROVE  item = other
<1>1. PICK S \in Support!Clusters(D) :
        item.key = Support!ClusterKey(D, S) /\ Support!Line(x).key \in S
  BY SupportItemIs
<1>2. PICK T \in Support!Clusters(D) :
        other.key = Support!ClusterKey(D, T) /\ Support!Line(x).key \in T
  BY SupportItemIs
<1>3. Support!Clusters(D) = Least(Apart(Support!Keys(D), Support!Linked(D)))
  BY DEF Support!Clusters, Least, Apart
<1>4. S = T
  BY <1>1, <1>2, <1>3, LeastApart
<1> QED BY <1>1, <1>2, <1>4, SupportItemIs

(* Every line of the documents that are compared belongs to one item and   *)
(* to no other, whatever keys are similar and whatever names their         *)
(* clusters share (group_chain_lines).                                     *)
THEOREM EachLineHasItsItem ==
  \A D : \A x \in Support!Lines(D) :
    \E item \in Support!Items(D) :
      x \in item.lines /\ \A other \in Support!Items(D) : x \in other.lines => other = item
BY SupportItemOf, SupportItemsApart

-----------------------------------------------------------------------------
(* Quantities and amounts of disputed documents have their types.          *)

DisputesTyped == documents \in Seq(DocumentType)

LEMMA SupportSum == \A f : Support!SumFunction(f) = SumFunction(f)
BY DEF Support!SumFunction, SumFunction, Support!SumFunctionOnSet, SumFunctionOnSet,
   Support!FoldFunctionOnSet, FoldFunctionOnSet, Support!MapThenFoldSet, MapThenFoldSet

LEMMA SumNat ==
  ASSUME NEW f, IsFiniteSet(DOMAIN f), f = [x \in DOMAIN f |-> f[x]],
         \A x \in DOMAIN f : f[x] \in Nat
  PROVE  SumFunction(f) \in Nat /\ \A x \in DOMAIN f : f[x] <= SumFunction(f)
BY SumOver, OverNat

LEMMA SumInt ==
  ASSUME NEW f, IsFiniteSet(DOMAIN f), f = [x \in DOMAIN f |-> f[x]],
         \A x \in DOMAIN f : f[x] \in Int
  PROVE  SumFunction(f) \in Int
BY SumOver, OverType

LEMMA SupportLines == Support!Lines(Support!Indices) = LinesOf(DOMAIN documents)
BY DEF Support!Lines, Support!Indices, LinesOf

LEMMA SupportLine ==
  ASSUME DisputesTyped, NEW x \in Support!Lines(Support!Indices)
  PROVE  /\ Support!Line(x) \in LineType
         /\ Support!Factor(x) \in Nat \ {0} /\ Support!Source(x) \in Nat
         /\ Support!Line(x).price \in Int /\ Support!Line(x).qty \in Int
<1>1. Support!Line(x) \in LineType
  BY SupportLines, LineTyped DEF DisputesTyped, Support!Line
<1>2. /\ Support!Line(x).qty \in Int /\ Support!Line(x).unit \in DOMAIN Units
      /\ Support!Line(x).price \in Int
  BY <1>1 DEF LineType
<1>3. Units[Support!Line(x).unit].factor \in Nat \ {0}
  BY <1>2, UnitsAssumption
<1> QED BY <1>1, <1>2, <1>3 DEF Support!Factor, Support!Source, Support!Abs

LEMMA SupportQuantity ==
  ASSUME DisputesTyped, NEW S, S \subseteq Support!Lines(Support!Indices)
  PROVE  Support!Quantity(S) \in Int
<1> DEFINE f == [x \in S |-> Support!Line(x).qty *
                               (IF Support!Compatible(S) THEN Support!Factor(x) ELSE 1)]
<1>1. IsFiniteSet(S)
  BY SupportLines, LinesFinite, FS_Subset DEF DisputesTyped
<1>2. \A x \in S : Support!Line(x).qty \in Int /\ Support!Factor(x) \in Nat
  BY SupportLine
<1>3. \A x \in S : f[x] \in Int
  BY <1>2
<1>4. DOMAIN f = S /\ f = [x \in DOMAIN f |-> f[x]]
  OBVIOUS
<1>5. Support!Quantity(S) = SumFunction(f)
  BY SupportSum DEF Support!Quantity
<1> HIDE DEF f
<1> QED BY <1>1, <1>3, <1>4, <1>5, SumInt

LEMMA SupportAmount ==
  ASSUME DisputesTyped, NEW S, S \subseteq Support!Lines(Support!Indices), NEW n \in Nat
  PROVE  Support!Amount(n, Support!WeightedPrice(S)) \in Int
<1> DEFINE f == [x \in S |-> Support!Source(x) * Support!UnitPrice(x)[1]]
           d == [x \in S |-> Support!Source(x) * Support!UnitPrice(x)[2]]
<1>1. IsFiniteSet(S)
  BY SupportLines, LinesFinite, FS_Subset DEF DisputesTyped
<1>2. ASSUME NEW x \in S
      PROVE  /\ Support!Source(x) \in Nat /\ Support!UnitPrice(x)[1] \in Int
             /\ Support!UnitPrice(x)[2] \in Nat
  BY SupportLine DEF Support!UnitPrice
<1>3. \A x \in S : f[x] \in Int /\ d[x] \in Nat
  BY <1>2
<1>4. /\ DOMAIN f = S /\ f = [x \in DOMAIN f |-> f[x]]
      /\ DOMAIN d = S /\ d = [x \in DOMAIN d |-> d[x]]
  OBVIOUS
<1>5. Support!WeightedPrice(S) =
        IF SumFunction(d) = 0 THEN <<0, 1>> ELSE <<SumFunction(f), SumFunction(d)>>
  BY SupportSum DEF Support!WeightedPrice, Support!Average
<1> HIDE DEF f, d
<1>6. SumFunction(f) \in Int /\ SumFunction(d) \in Nat
  BY <1>1, <1>3, <1>4, SumNat, SumInt
<1>7. PICK a \in Int, b \in Nat \ {0} : Support!WeightedPrice(S) = <<a, b>>
  BY <1>5, <1>6
<1> DEFINE m == Support!Abs(a)
<1>8. Support!Amount(n, <<a, b>>) =
        IF a < 0 THEN -((2 * n * m + b) \div (2 * b)) ELSE (2 * n * m + b) \div (2 * b)
  BY DEF Support!Amount
<1>a. m \in Nat
  BY DEF Support!Abs
<1> HIDE DEF m
<1>9. n * m \in Nat /\ 2 * n * m + b \in Nat /\ 2 * b \in Nat \ {0}
  BY <1>a
<1>10. \A u \in Nat, v \in Nat \ {0} : u \div v \in Nat
  OBVIOUS
<1> QED BY <1>7, <1>8, <1>9, <1>10

LEMMA SupportMax ==
  \A n \in Int : Support!Max({0, n}) \in Nat /\ (n >= 0 => Support!Max({0, n}) = n)
BY DEF Support!Max

(* What is delivered or invoiced in excess is never a negative amount.      *)
LEMMA ItemAmount ==
  ASSUME DisputesTyped, NEW D, D \subseteq Support!Indices, NEW f \in Support!ItemFindings(D),
         f.type \in {"delivered_over_order", "invoiced_over_received"}
  PROVE  f.amount \in Nat
<1>1. PICK item \in Support!Items(D) :
         f \in Support!UnitMismatch(item.key, Support!OfRole(item, Support!CommercialRole(D)),
                                    Support!OfRole(item, "delivery"),
                                    Support!OfRole(item, "invoice"))
          \cup Support!Quantities(item.key, Support!OfRole(item, Support!CommercialRole(D)),
                                  Support!OfRole(item, "delivery"),
                                  Support!OfRole(item, "invoice"))
          \cup Support!Conditions(item.key, Support!OfRole(item, Support!CommercialRole(D)),
                                  Support!OfRole(item, "invoice"))
          \cup Support!Unmatched(item.key, Support!OfRole(item, Support!CommercialRole(D)),
                                 Support!OfRole(item, "delivery"),
                                 Support!OfRole(item, "invoice"))
          \cup Support!Returns(item.key, Support!OfRole(item, "return"),
                               Support!OfRole(item, "credit_note"),
                               Support!Of(D, "credit_note") # {})
  BY DEF Support!ItemFindings
<1> DEFINE c == Support!OfRole(item, Support!CommercialRole(D))
           d == Support!OfRole(item, "delivery")
           i == Support!OfRole(item, "invoice")
           r == Support!Reference(c, d)
           delivered == Support!Quantity(d) - Support!Quantity(c)
           invoiced  == Support!Quantity(i) - Support!Quantity(r)
<1>2. f \in Support!Quantities(item.key, c, d, i)
  <2>1. f \notin Support!UnitMismatch(item.key, c, d, i)
    BY DEF Support!UnitMismatch, Support!When, Support!OfItem, Support!Graded
  <2>2. f \notin Support!Conditions(item.key, c, i)
    BY DEF Support!Conditions, Support!When, Support!OfItem, Support!Graded
  <2>3. f \notin Support!Unmatched(item.key, c, d, i)
    BY DEF Support!Unmatched, Support!When, Support!OfItem, Support!Graded
  <2>4. f \notin Support!Returns(item.key, Support!OfRole(item, "return"),
                                 Support!OfRole(item, "credit_note"),
                                 Support!Of(D, "credit_note") # {})
    BY DEF Support!Returns, Support!When, Support!OfItem, Support!Graded
  <2> QED BY <1>1, <2>1, <2>2, <2>3, <2>4
<1>3. \A role : Support!OfRole(item, role) \subseteq Support!Lines(Support!Indices)
  <2>1. item.lines \subseteq Support!Lines(D)
    BY SupportItemIs
  <2> QED BY <2>1 DEF Support!OfRole, Support!Lines
<1>4. /\ c \subseteq Support!Lines(Support!Indices) /\ d \subseteq Support!Lines(Support!Indices)
      /\ i \subseteq Support!Lines(Support!Indices) /\ r \subseteq Support!Lines(Support!Indices)
  BY <1>3 DEF Support!Reference
<1> HIDE DEF c, d, i, r
<1>5. delivered \in Int /\ invoiced \in Int
  BY <1>4, SupportQuantity
<1>6. CASE /\ delivered > 0
           /\ f = Support!OfItem("delivered_over_order", item.key,
                   Support!Max({0, Support!Amount(delivered, Support!WeightedPrice(c))}))
  <2> HIDE DEF delivered
  <2>1. delivered \in Nat
    BY <1>5, <1>6
  <2>2. PICK n \in Int : n = Support!Amount(delivered, Support!WeightedPrice(c))
    BY <1>4, <2>1, SupportAmount
  <2>3. f.amount = Support!Max({0, n})
    BY <1>6, <2>2 DEF Support!OfItem, Support!Graded
  <2> QED BY <2>2, <2>3, SupportMax
<1>7. CASE /\ invoiced > 0
           /\ \E grade : f = Support!Graded("invoiced_over_received", grade, item.key, <<>>,
                   Support!Max({0, Support!Amount(invoiced, Support!WeightedPrice(i))}))
  <2> HIDE DEF invoiced
  <2>1. invoiced \in Nat
    BY <1>5, <1>7
  <2>2. PICK n \in Int : n = Support!Amount(invoiced, Support!WeightedPrice(i))
    BY <1>4, <2>1, SupportAmount
  <2>3. f.amount = Support!Max({0, n})
    BY <1>7, <2>2 DEF Support!Graded
  <2> QED BY <2>2, <2>3, SupportMax
<1> QED BY <1>2, <1>6, <1>7 DEF Support!Quantities, Support!When, r


-----------------------------------------------------------------------------
(* Disputes: what the cases of a chain say, and that no step changes its   *)
(* shape.                                                                  *)

(* The case of a number is that of the documents of its facts: neither the  *)
(* role nor the number of a document ever changes.                          *)
NumberPlace(place, facts) ==
  \E role \in Support!Roles, number \in Nat \ {0} :
    /\ place = <<Support!Rank(role), number>>
    /\ \A fact \in facts :
         /\ fact[2] \in Support!Indices /\ fact[3] = number
         /\ documents[fact[2]].role = role

(* A case is of a rule that records evidence, and says no more than it.     *)
CaseShape(c) ==
  /\ c = [type |-> c.type, item |-> c.item, place |-> c.place, amount |-> c.amount,
          facts |-> c.facts]
  /\ c.type \in Support!Qualified
  /\ c.type = "duplicate_document_number" => NumberPlace(c.place, c.facts)
  /\ c.type # "duplicate_document_number" => c.place = <<>>
  /\ c.type \notin {"delivered_over_order", "invoiced_over_received"} => c.item = ""
  /\ c.type \in {"currency_mismatch", "duplicate_document_number"} => c.amount = 0
  /\ c.type \in {"delivered_over_order", "invoiced_over_received"} => c.amount \in Nat

RaisedShaped ==
  DisputesTyped =>
    \A D : D \subseteq Support!Indices => \A r \in Support!Raised(D) : CaseShape(r)

LEMMA RankRole ==
  \A role \in Support!Roles :
    Support!Rank(role) \in DOMAIN Support!RoleOrder /\ Support!RoleOrder[Support!Rank(role)] = role
BY DEF Support!Roles, Support!Range, Support!Rank

LEMMA AtIs ==
  \A type, place :
    /\ Support!At(type, place).type = type /\ Support!At(type, place).item = ""
    /\ Support!At(type, place).place = place /\ Support!At(type, place).amount = 0
BY DEF Support!At, Support!Graded

LEMMA OfChainIs ==
  \A type, amount :
    /\ Support!OfChain(type, amount).type = type /\ Support!OfChain(type, amount).item = ""
    /\ Support!OfChain(type, amount).place = <<>>
    /\ Support!OfChain(type, amount).amount = amount
BY DEF Support!OfChain, Support!Graded

LEMMA ItemShape ==
  ASSUME NEW D, NEW f \in Support!ItemFindings(D)
  PROVE  f.place = <<>> /\ f.type \in {"delivered_over_order", "invoiced_over_received",
             "price_over_order", "discount_missing", "tax_rate_mismatch", "unmatched_invoice_line",
             "unit_mismatch", "return_without_credit", "credit_below_return"}
<1>1. PICK key, c, d, i, r, k, credited :
         f \in Support!UnitMismatch(key, c, d, i) \cup Support!Quantities(key, c, d, i)
               \cup Support!Conditions(key, c, i) \cup Support!Unmatched(key, c, d, i)
               \cup Support!Returns(key, r, k, credited)
  BY DEF Support!ItemFindings
<1>2. CASE f \in Support!UnitMismatch(key, c, d, i)
  BY <1>2 DEF Support!UnitMismatch, Support!When, Support!OfItem, Support!Graded
<1>3. CASE f \in Support!Quantities(key, c, d, i)
  BY <1>3 DEF Support!Quantities, Support!When, Support!OfItem, Support!Graded
<1>4. CASE f \in Support!Conditions(key, c, i)
  BY <1>4 DEF Support!Conditions, Support!When, Support!OfItem, Support!Graded
<1>5. CASE f \in Support!Unmatched(key, c, d, i)
  BY <1>5 DEF Support!Unmatched, Support!When, Support!OfItem, Support!Graded
<1>6. CASE f \in Support!Returns(key, r, k, credited)
  BY <1>6 DEF Support!Returns, Support!When, Support!OfItem, Support!Graded
<1> QED BY <1>1, <1>2, <1>3, <1>4, <1>5, <1>6

LEMMA PairIs == \A p, x, y : p = <<x, y>> => p[1] = x /\ p[2] = y
OBVIOUS

LEMMA FactsOf ==
  \A S, field : \A fact \in Support!DocumentFacts(S, field) :
    \E i \in S : fact = <<field, i, documents[i][field]>>
BY DEF Support!DocumentFacts

LEMMA NumberFacts ==
  ASSUME NEW D, NEW role \in Support!Roles, NEW number,
         NEW fact \in Support!NumberSupport(D, <<Support!Rank(role), number>>)
  PROVE  fact[2] \in D /\ fact[3] = number /\ documents[fact[2]].role = role
<1> DEFINE place == <<Support!Rank(role), number>>
           same == {j \in Support!Of(D, Support!RoleOrder[place[1]]) :
                      documents[j].number = place[2] /\ ~documents[j].archived}
<1>1. PICK j \in same : fact = <<"number", j, documents[j]["number"]>>
  BY FactsOf, Zenon DEF Support!NumberSupport
<1>2. Support!RoleOrder[Support!Rank(role)] = role
  BY RankRole
<1>3. j \in D /\ documents[j].role = role /\ documents[j].number = number
  BY <1>1, <1>2 DEF Support!Of
<1> QED BY <1>1, <1>3

LEMMA NumberRaised ==
  ASSUME DisputesTyped, NEW D, D \subseteq Support!Indices, NEW f \in Support!DuplicateNumbers(D)
  PROVE  \E place : /\ f = Support!At("duplicate_document_number", place)
                    /\ NumberPlace(place, Support!NumberSupport(D, place))
<1> DEFINE numbers == {<<Support!Rank(documents[i].role), documents[i].number>> : i \in D}
<1>1. PICK n \in numbers : n[2] # 0 /\ f = Support!At("duplicate_document_number", n)
  BY Zenon DEF Support!DuplicateNumbers
<1>2. PICK i \in D : n = <<Support!Rank(documents[i].role), documents[i].number>>
  BY <1>1
<1>3. documents[i] \in DocumentType
  BY DEF DisputesTyped, Support!Indices
<1>4. documents[i].role \in Support!Roles /\ documents[i].number \in Nat \ {0}
  BY <1>1, <1>2, <1>3 DEF DocumentType, Assessment!Roles, Support!Roles, Assessment!Range,
     Support!Range, Assessment!RoleOrder, Support!RoleOrder
<1>5. \A fact \in Support!NumberSupport(D, n) :
        /\ fact[2] \in Support!Indices /\ fact[3] = documents[i].number
        /\ documents[fact[2]].role = documents[i].role
  BY <1>2, <1>4, NumberFacts
<1> QED BY <1>1, <1>2, <1>4, <1>5 DEF NumberPlace

LEMMA RaisedIsShaped == RaisedShaped
<1> SUFFICES ASSUME DisputesTyped, NEW D, D \subseteq Support!Indices,
                    NEW r \in Support!Raised(D)
             PROVE  CaseShape(r)
  BY DEF RaisedShaped
<1>1. PICK f \in Support!FindingsOf(D) :
        /\ f.type \in Support!Qualified
        /\ r = [type |-> f.type, item |-> f.item, place |-> f.place, amount |-> f.amount,
                facts |-> Support!SupportOf(f, D)]
  BY DEF Support!Raised
<1>2. \/ f \in Support!CurrencyMismatch(D) \/ f \in Support!DuplicateNumbers(D)
      \/ f \in Support!LineTotals(D) \/ f \in Support!ItemFindings(D)
      \/ f \in Support!DuplicateInvoiceLines(D) \/ f \in Support!Payments(D)
      \/ f \in Support!DuplicatePayments(D)
  BY <1>1 DEF Support!FindingsOf
<1>3. CASE f \in Support!CurrencyMismatch(D)
  <2>1. f = Support!OfChain("currency_mismatch", 0)
    BY <1>3 DEF Support!CurrencyMismatch, Support!When
  <2>2. f.type = "currency_mismatch" /\ f.item = "" /\ f.place = <<>> /\ f.amount = 0
    BY <2>1 DEF Support!OfChain, Support!Graded
  <2> QED BY <1>1, <2>2 DEF CaseShape
<1>4. CASE f \in Support!DuplicateNumbers(D)
  <2>1. PICK place : /\ f = Support!At("duplicate_document_number", place)
                     /\ NumberPlace(place, Support!NumberSupport(D, place))
    BY <1>4, NumberRaised
  <2>2. f.type = "duplicate_document_number" /\ f.item = "" /\ f.amount = 0 /\ f.place = place
    <3>1. f = Support!At("duplicate_document_number", place)
      BY <2>1
    <3> QED BY <3>1, AtIs, OfChainIs
  <2>3. Support!SupportOf(f, D) = Support!NumberSupport(D, f.place)
    BY <2>2 DEF Support!SupportOf
  <2>4. r.facts = Support!NumberSupport(D, place) /\ r.place = place
    BY <1>1, <2>2, <2>3
  <2>5. NumberPlace(r.place, r.facts)
    BY <2>1, <2>4
  <2> QED BY <1>1, <2>2, <2>5 DEF CaseShape
<1>5. CASE \/ f \in Support!LineTotals(D) \/ f \in Support!DuplicateInvoiceLines(D)
           \/ f \in Support!DuplicatePayments(D)
  <2>1. PICK type \in {"line_total_mismatch", "duplicate_invoice_line", "duplicate_payment"} :
          \E x : f = Support!At(type, x)
    BY <1>5, Zenon DEF Support!LineTotals, Support!DuplicateInvoiceLines,
       Support!DuplicatePayments
  <2>2. f.type = type
    BY <2>1, AtIs, OfChainIs
  <2> QED BY <1>1, <2>2 DEF Support!Qualified
<1>6. CASE f \in Support!ItemFindings(D)
  <2>1. f.type \in {"delivered_over_order", "invoiced_over_received"} /\ f.place = <<>>
    BY <1>1, <1>6, ItemShape DEF Support!Qualified
  <2>2. f.amount \in Nat
    BY <1>6, <2>1, ItemAmount
  <2> QED BY <1>1, <2>1, <2>2 DEF CaseShape
<1>7. CASE f \in Support!Payments(D)
  <2>1. PICK type \in {"payment_without_invoice", "payment_over_invoice"} :
          \E n : f = Support!OfChain(type, n)
    BY <1>7 DEF Support!Payments, Support!When
  <2>2. f.type = type /\ f.item = "" /\ f.place = <<>>
    <3>1. PICK n : f = Support!OfChain(type, n)
      BY <2>1
    <3> QED BY <3>1, AtIs, OfChainIs
  <2> QED BY <1>1, <2>2 DEF CaseShape
<1> QED BY <1>2, <1>3, <1>4, <1>5, <1>6, <1>7

LEMMA RaisedStaysShaped == RaisedShaped'
BY RaisedIsShaped, PTL

(* What may happen to the documents of a chain.                             *)
Kept ==
  /\ DisputesTyped' /\ Support!Indices \subseteq Support!Indices'
  /\ \A i \in Support!Indices : documents'[i].role = documents[i].role

SupportInv == DisputesTyped /\ \A c \in cases : CaseShape(c)

LEMMA PlaceStays ==
  ASSUME Kept, NEW place, NEW facts, NumberPlace(place, facts)
  PROVE  NumberPlace(place, facts)'
BY DEF Kept, NumberPlace

LEMMA RecordShapes ==
  ASSUME SupportInv, Kept, NEW r, CaseShape(r)', NEW facts,
         facts = UNION {c.facts : c \in {e \in cases : Support!Same(e, r)}}
  PROVE  CaseShape([r EXCEPT !.facts = facts])'
<1> DEFINE q == [r EXCEPT !.facts = facts]
<1>1. /\ q = [type |-> r.type, item |-> r.item, place |-> r.place, amount |-> r.amount,
              facts |-> facts]
  <2>1. PICK type, item, place, amount, more :
          r = [type |-> type, item |-> item, place |-> place, amount |-> amount, facts |-> more]
    BY DEF CaseShape
  <2> QED BY <2>1
<1>2. /\ q.type = r.type /\ q.item = r.item /\ q.place = r.place /\ q.amount = r.amount
      /\ q.facts = facts
  BY <1>1
<1>3. ASSUME r.type = "duplicate_document_number" PROVE NumberPlace(r.place, facts)'
  <2>1. PICK role \in Support!Roles, number \in Nat \ {0} : r.place = <<Support!Rank(role), number>>
    BY <1>3 DEF CaseShape, NumberPlace
  <2>2. ASSUME NEW fact \in facts
        PROVE  /\ fact[2] \in Support!Indices' /\ fact[3] = number
               /\ documents'[fact[2]].role = role
    <3>1. PICK c \in cases : Support!Same(c, r) /\ fact \in c.facts
      OBVIOUS
    <3>2. NumberPlace(c.place, c.facts) /\ c.place = r.place
      BY <1>3, <3>1 DEF SupportInv, CaseShape, Support!Same
    <3>3. PICK role1 \in Support!Roles, number1 \in Nat \ {0} :
            /\ c.place = <<Support!Rank(role1), number1>>
            /\ fact[2] \in Support!Indices /\ fact[3] = number1
            /\ documents[fact[2]].role = role1
      BY <3>1, <3>2 DEF NumberPlace
    <3>4. Support!Rank(role1) = Support!Rank(role) /\ number1 = number
      BY <2>1, <3>2, <3>3
    <3>5. role1 = role
      BY <3>4, RankRole
    <3> QED BY <3>3, <3>4, <3>5 DEF Kept
  <2> QED BY <2>1, <2>2 DEF NumberPlace
<1> QED BY <1>1, <1>2, <1>3 DEF CaseShape

LEMMA RecordKeeps ==
  ASSUME SupportInv, Kept, NEW raised, \A r \in raised : CaseShape(r)', Support!Record(raised)
  PROVE  SupportInv'
<1>1. ASSUME NEW c \in cases PROVE CaseShape(c)'
  BY PlaceStays DEF SupportInv, CaseShape
<1>2. ASSUME NEW c \in cases' PROVE CaseShape(c)'
  <2> DEFINE recorded(f) == UNION {e.facts : e \in {d \in cases : Support!Same(d, f)}}
  <2>1. c \in cases \/ \E r \in raised : c = r \/ c = [r EXCEPT !.facts = recorded(r)]
    BY DEF Support!Record
  <2>2. ASSUME NEW r \in raised, c = [r EXCEPT !.facts = recorded(r)] PROVE CaseShape(c)'
    <3>1. PICK facts : facts = recorded(r)
      OBVIOUS
    <3>2. CaseShape([r EXCEPT !.facts = facts])'
      BY <3>1, RecordShapes
    <3>3. c = [r EXCEPT !.facts = facts]
      BY <2>2, <3>1
    <3> QED BY <3>2, <3>3
  <2> QED BY <1>1, <2>1, <2>2
<1> QED BY <1>2 DEF SupportInv, Kept

LEMMA AnalyseKeeps ==
  ASSUME SupportInv, Kept, NEW new,
         Support!Analyse(new) \/ Support!AnalyseUnflushed(new)
  PROVE  SupportInv'
<1>1. ASSUME NEW raised, raised = Support!Raised(Support!Evaluated)', Support!Record(raised)
      PROVE  SupportInv'
  <2>1. \A D : D \subseteq Support!Indices' => \A r \in Support!Raised(D)' : CaseShape(r)'
    BY RaisedStaysShaped DEF Kept, RaisedShaped
  <2>2. Support!Evaluated' \subseteq Support!Indices'
    BY DEF Support!Evaluated
  <2>3. \A r \in raised : CaseShape(r)'
    BY <1>1, <2>1, <2>2
  <2> QED BY <1>1, <2>3, RecordKeeps
<1>2. ASSUME NEW raised, NEW D, D = Support!Evaluated, raised = Support!Raised(D)',
             Support!Record(raised)
      PROVE  SupportInv'
  <2>1. D \subseteq Support!Indices'
    BY <1>2 DEF Support!Evaluated, Kept
  <2>2. \A r \in raised : CaseShape(r)'
    BY <1>2, <2>1, RaisedStaysShaped DEF Kept, RaisedShaped
  <2> QED BY <1>2, <2>2, RecordKeeps
<1> QED BY <1>1, <1>2 DEF Support!Analyse, Support!AnalyseUnflushed

LEMMA ReplacedIn ==
  ASSUME NEW T, NEW s \in Seq(T), NEW i \in DOMAIN s, NEW t \in T
  PROVE  [s EXCEPT ![i] = t] \in Seq(T) /\ DOMAIN [s EXCEPT ![i] = t] = DOMAIN s
OBVIOUS

LEMMA PlacedKeeps ==
  ASSUME SupportInv, NEW document \in Disputes, documents' = Append(documents, document)
  PROVE  Kept
<1>1. document \in DocumentType
  BY DocumentsAssumption
<1>2. documents \in Seq(DocumentType)
  BY DEF SupportInv, DisputesTyped
<1> QED BY <1>1, <1>2 DEF Kept, DisputesTyped, Support!Indices

LEMMA ReplacedKeeps ==
  ASSUME SupportInv, NEW i \in Support!Indices, NEW document \in DocumentType,
         document.role = documents[i].role, documents' = [documents EXCEPT ![i] = document]
  PROVE  Kept
<1>1. documents \in Seq(DocumentType) /\ i \in DOMAIN documents
  BY DEF SupportInv, DisputesTyped, Support!Indices
<1>2. documents' \in Seq(DocumentType) /\ DOMAIN documents' = DOMAIN documents
  BY <1>1, ReplacedIn
<1> QED BY <1>1, <1>2 DEF Kept, DisputesTyped, Support!Indices

(* A document whose line is changed, keeping its type.                      *)
LEMMA LineReplaced ==
  ASSUME NEW document \in DocumentType, NEW j \in DOMAIN document.lines, NEW line \in LineType
  PROVE  [document EXCEPT !.lines = [document.lines EXCEPT ![j] = line]] \in DocumentType
<1>1. document.lines \in Seq(LineType)
  BY DEF DocumentType
<1>2. PICK lines \in Seq(LineType) : lines = [document.lines EXCEPT ![j] = line]
  BY <1>1, ReplacedIn
<1>3. [document EXCEPT !.lines = lines] \in DocumentType
  BY DEF DocumentType
<1> QED BY <1>2, <1>3

LEMMA ReadAgain ==
  ASSUME NEW document \in DocumentType
  PROVE  [document EXCEPT !.read = document.read + 1] \in DocumentType
<1>1. document.read + 1 \in Nat
  BY DEF DocumentType
<1> QED BY <1>1 DEF DocumentType

LEMMA ArchiveKeeps ==
  ASSUME SupportInv, NEW i \in Support!Indices, Support!Archive(i)
  PROVE  SupportInv'
<1> DEFINE document == [documents[i] EXCEPT !.archived = TRUE]
<1>1. documents[i] \in DocumentType
  BY DEF SupportInv, DisputesTyped, Support!Indices
<1>2. document \in DocumentType /\ document.role = documents[i].role
  BY <1>1 DEF DocumentType
<1>3. documents' = [documents EXCEPT ![i] = document]
  BY DEF Support!Archive, Support!AnalyseUnflushed
<1>4. Kept
  <2> HIDE DEF document
  <2> QED BY <1>2, <1>3, ReplacedKeeps
<1> QED BY <1>4, AnalyseKeeps DEF Support!Archive

LEMMA ReprocessKeeps ==
  ASSUME SupportInv, NEW i \in Support!Indices, Support!Reprocess(i)
  PROVE  SupportInv'
<1>1. documents[i] \in DocumentType
  BY DEF SupportInv, DisputesTyped, Support!Indices
<1>2. PICK parsed \in BOOLEAN :
        Support!Analyse([documents EXCEPT ![i].read = @ + 1, ![i].parsed = parsed])
  BY DEF Support!Reprocess
<1> DEFINE read == [documents[i] EXCEPT !.read = documents[i].read + 1]
           document == [documents[i] EXCEPT !.read = @ + 1, !.parsed = parsed]
<1>3. read \in DocumentType /\ \A d \in DocumentType : [d EXCEPT !.parsed = parsed] \in DocumentType
  <2>1. read \in DocumentType
    BY <1>1, ReadAgain
  <2> QED BY <2>1 DEF DocumentType
<1>4. document = [read EXCEPT !.parsed = parsed]
  OBVIOUS
<1>5. document.role = documents[i].role
  BY <1>1 DEF DocumentType
<1>6. documents' = [documents EXCEPT ![i] = document]
  BY <1>2 DEF Support!Analyse
<1>7. Kept
  <2> HIDE DEF document, read
  <2> QED BY <1>3, <1>4, <1>5, <1>6, ReplacedKeeps
<1> QED BY <1>2, <1>7, AnalyseKeeps

LEMMA CorrectKeeps ==
  ASSUME SupportInv, NEW x \in Support!Lines(Support!Indices), Support!Correct(x)
  PROVE  SupportInv'
<1>1. PICK i \in Support!Indices : \E j \in DOMAIN documents[i].lines : x = <<i, j>>
  BY DEF Support!Lines
<1>2. PICK j \in DOMAIN documents[i].lines : x = <<i, j>>
  BY <1>1
<1>3. documents[i] \in DocumentType
  BY DEF SupportInv, DisputesTyped, Support!Indices
<1> DEFINE first == [documents[i].lines[j] EXCEPT !.qty = documents[i].lines[j].qty + 1]
           one == [documents[i] EXCEPT !.lines = [documents[i].lines EXCEPT ![j] = first]]
           between == [documents EXCEPT ![i] = one]
           second == [one.lines[j] EXCEPT !.direct = FALSE]
           two == [one EXCEPT !.lines = [one.lines EXCEPT ![j] = second]]
<1>4. documents[i].lines[j] \in LineType
  BY <1>3 DEF DocumentType
<1>5. first \in LineType
  BY <1>4 DEF LineType
<1>6. one \in DocumentType
  <2> HIDE DEF first
  <2> QED BY <1>3, <1>5, LineReplaced
<1>7. /\ one.role = documents[i].role
      /\ j \in DOMAIN one.lines /\ one.lines[j] = first
  <2> HIDE DEF first
  <2> QED BY <1>3 DEF DocumentType
<1>8. two \in DocumentType /\ two.role = documents[i].role
  <2>1. second \in LineType
    <3> HIDE DEF one, first
    <3> QED BY <1>5, <1>7 DEF LineType
  <2> HIDE DEF one, second
  <2>2. two \in DocumentType
    BY <1>6, <1>7, <2>1, LineReplaced
  <2> QED BY <1>6, <1>7, <2>2 DEF DocumentType
<1>9. documents' = [documents EXCEPT ![i] = two]
  <2>1. x[1] = i /\ x[2] = j
    BY <1>2
  <2>2. documents' = [documents EXCEPT ![i].lines[j].qty = @ + 1, ![i].lines[j].direct = FALSE]
    BY <2>1 DEF Support!Correct, Support!Analyse
  <2>3. between = [documents EXCEPT ![i].lines[j].qty = @ + 1]
    OBVIOUS
  <2>4. i \in DOMAIN documents /\ between[i] = one
    BY DEF Support!Indices
  <2>5. documents' = [between EXCEPT ![i].lines[j].direct = FALSE]
    BY <2>2, <2>3
  <2>6. documents' = [between EXCEPT ![i] = two]
    BY <2>4, <2>5
  <2> QED BY <2>6
<1>10. Kept
  <2> HIDE DEF two
  <2> QED BY <1>8, <1>9, ReplacedKeeps
<1> QED BY <1>10, AnalyseKeeps DEF Support!Correct

LEMMA SupportKeeps ==
  ASSUME SupportInv, [Support!Next]_Support!vars
  PROVE  SupportInv'
<1>1. CASE UNCHANGED Support!vars
  <2>1. documents' = documents /\ cases' = cases
    BY <1>1 DEF Support!vars
  <2>2. Kept
    BY <2>1 DEF Kept, SupportInv, DisputesTyped, Support!Indices
  <2>3. \A c \in cases : CaseShape(c)'
    BY <2>2, PlaceStays DEF SupportInv, CaseShape
  <2> QED BY <2>1, <2>2, <2>3 DEF SupportInv, Kept
<1>2. ASSUME NEW document \in Disputes, Support!Upload(document) \/ Support!AttachByHand(document)
      PROVE  SupportInv'
  <2>1. Kept
    BY <1>2, PlacedKeeps DEF Support!Upload, Support!AttachByHand, Support!Analyse,
       Support!AnalyseUnflushed
  <2> QED BY <1>2, <2>1, AnalyseKeeps DEF Support!Upload, Support!AttachByHand
<1> QED BY <1>1, <1>2, ArchiveKeeps, ReprocessKeeps, CorrectKeeps DEF Support!Next

LEMMA SupportStarts == Support!Init => SupportInv
BY DEF Support!Init, SupportInv, DisputesTyped

-----------------------------------------------------------------------------
(* Judgments: what a recorder still finds, the analysis finds.             *)

RuleRoles ==
  {{"proposal", "order", "confirmation", "delivery"},
   {"proposal", "order", "confirmation", "delivery", "invoice"}}

(* What the recorder of a rule takes for an item is, in its roles, an item  *)
(* of the analysis.                                                         *)
LEMMA OwnIsFull ==
  ASSUME Support!Unread = {}, Support!Unbridged, NEW roles \in RuleRoles, NEW key,
         NEW own \in Support!ItemsOf(Support!InRoles(Support!Current, roles), key),
         NEW known \in roles, Support!OfRole(own, known) # {}
  PROVE  /\ Support!InRoles(Support!Current, roles) = Support!InRoles(Support!Evaluated, roles)
         /\ \E item \in Support!Items(Support!Evaluated) :
              /\ item.key = key
              /\ \A role \in roles : Support!OfRole(item, role) = Support!OfRole(own, role)
<1> DEFINE E == Support!Evaluated
           D == Support!InRoles(E, roles)
<1>1. Support!Current = E
  BY DEF Support!Current, Support!Evaluated, Support!Unread
<1>2. own \in Support!Items(D) /\ own.key = key
  BY <1>1 DEF Support!ItemsOf
<1>3. PICK x \in own.lines : documents[x[1]].role = known
  BY DEF Support!OfRole
<1>4. x \in Support!Lines(E)
  <2>1. x \in Support!Lines(D)
    BY <1>2, SupportItemIs
  <2>2. D \subseteq E
    BY DEF Support!InRoles
  <2> QED BY <2>1, <2>2 DEF Support!Lines
<1>5. PICK item \in Support!Items(E) : x \in item.lines
  BY <1>4, SupportItemOf
<1>6. \A role \in roles :
        Support!OfRole(item, role) =
          UNION {Support!OfRole(o, role) : o \in Support!ItemsOf(D, item.key)}
  BY <1>5 DEF Support!Unbridged, RuleRoles
<1>7. PICK o \in Support!ItemsOf(D, item.key) : x \in Support!OfRole(o, known)
  <2>1. x \in Support!OfRole(item, known)
    BY <1>3, <1>5 DEF Support!OfRole
  <2> QED BY <1>6, <2>1
<1>8. o \in Support!Items(D) /\ o.key = item.key /\ x \in o.lines
  BY <1>7 DEF Support!ItemsOf, Support!OfRole
<1>9. o = own
  BY <1>2, <1>3, <1>8, SupportItemsApart
<1>10. Support!ItemsOf(D, item.key) = {own}
  <2>1. \A other \in Support!Items(D) : other.key = item.key => other = own
    BY <1>2, <1>8, <1>9, SupportItemIs
  <2> QED BY <1>2, <1>8, <1>9, <2>1 DEF Support!ItemsOf
<1>11. item.key = key
  BY <1>2, <1>8, <1>9
<1>12. \A role \in roles : Support!OfRole(item, role) = Support!OfRole(own, role)
  BY <1>6, <1>10
<1> QED BY <1>1, <1>5, <1>11, <1>12

LEMMA OwnCommercial ==
  ASSUME NEW roles \in RuleRoles, NEW E
  PROVE  /\ Support!CommercialRole(Support!InRoles(E, roles)) = Support!CommercialRole(E)
         /\ Support!CommercialRole(E) \in roles
<1>1. \A role \in roles : Support!Of(Support!InRoles(E, roles), role) = Support!Of(E, role)
  BY DEF Support!Of, Support!InRoles
<1>2. {"proposal", "order", "confirmation"} \subseteq roles
  BY DEF RuleRoles
<1> QED BY <1>1, <1>2 DEF Support!CommercialRole

LEMMA QuantitiesFound ==
  ASSUME NEW item \in Support!Items(Support!Evaluated),
         NEW f \in Support!Quantities(item.key,
                     Support!OfRole(item, Support!CommercialRole(Support!Evaluated)),
                     Support!OfRole(item, "delivery"), Support!OfRole(item, "invoice")),
         f.type \in Support!Qualified
  PROVE  f \in Support!Findings
<1>1. f \in Support!ItemFindings(Support!Evaluated)
  BY SMTT(20) DEF Support!ItemFindings
<1>2. f.type \in Support!AlwaysOn
  BY DEF Support!Qualified, Support!AlwaysOn
<1> QED BY <1>1, <1>2 DEF Support!Findings, Support!FindingsOf

LEMMA DeliveredFound ==
  ASSUME DisputesTyped, Support!Unread = {}, Support!Unbridged, NEW key, NEW amount \in Nat,
         Support!DeliveredSupport(key, amount) # {}
  PROVE  Support!OfItem("delivered_over_order", key, amount) \in Support!Findings
<1> DEFINE roles == {"proposal", "order", "confirmation", "delivery"}
           D == Support!InRoles(Support!Current, roles)
           E == Support!Evaluated
<1>1. roles \in RuleRoles
  BY DEF RuleRoles
<1>2. PICK own \in Support!ItemsOf(D, key) :
        LET c == Support!OfRole(own, Support!CommercialRole(D))
            d == Support!OfRole(own, "delivery")
        IN /\ c # {} /\ d # {} /\ Support!ProfilesCompatible(c, d)
           /\ Support!Quantity(d) > Support!Quantity(c)
           /\ amount = Support!Amount(Support!Quantity(d) - Support!Quantity(c),
                                      Support!WeightedPrice(c))
  BY DEF Support!DeliveredSupport
<1> DEFINE c == Support!OfRole(own, Support!CommercialRole(E))
           d == Support!OfRole(own, "delivery")
           delivered == Support!Quantity(d) - Support!Quantity(c)
<1>3. D = Support!InRoles(E, roles)
      /\ \E item \in Support!Items(E) :
              /\ item.key = key
              /\ \A role \in roles : Support!OfRole(item, role) = Support!OfRole(own, role)
  <2>1. "delivery" \in roles
    OBVIOUS
  <2> HIDE DEF roles
  <2> QED BY <1>1, <1>2, <2>1, OwnIsFull
<1>4. Support!CommercialRole(D) = Support!CommercialRole(E) /\ Support!CommercialRole(E) \in roles
  <2> HIDE DEF roles
  <2> QED BY <1>1, <1>3, OwnCommercial
<1>5. PICK item \in Support!Items(E) :
        item.key = key /\ Support!OfRole(item, Support!CommercialRole(E)) = c
        /\ Support!OfRole(item, "delivery") = d
  BY <1>3, <1>4
<1>6. /\ c # {} /\ d # {} /\ Support!ProfilesCompatible(c, d)
      /\ Support!Quantity(d) > Support!Quantity(c)
      /\ amount = Support!Amount(delivered, Support!WeightedPrice(c))
  BY <1>2, <1>4
<1>7. item.lines \subseteq Support!Lines(Support!Indices)
  <2>1. item.lines \subseteq Support!Lines(E)
    BY SupportItemIs
  <2> QED BY <2>1 DEF Support!Lines, Support!Evaluated
<1>8. c \subseteq Support!Lines(Support!Indices) /\ d \subseteq Support!Lines(Support!Indices)
  BY <1>5, <1>7 DEF Support!OfRole
<1> HIDE DEF c, d
<1>9. Support!Quantity(c) \in Int /\ Support!Quantity(d) \in Int
  BY <1>8, SupportQuantity
<1>10. delivered \in Nat /\ delivered > 0
  BY <1>6, <1>9
<1> HIDE DEF delivered
<1>11. Support!Max({0, amount}) = amount
  BY SupportMax
<1> DEFINE f == Support!OfItem("delivered_over_order", key, amount)
<1>12. f \in Support!Quantities(item.key, c, d, Support!OfRole(item, "invoice"))
  BY <1>5, <1>6, <1>10, <1>11 DEF Support!Quantities, Support!When, delivered
<1>13. f.type \in Support!Qualified
  BY DEF Support!OfItem, Support!Graded, Support!Qualified
<1> HIDE DEF f
<1> QED BY <1>5, <1>12, <1>13, QuantitiesFound DEF f

LEMMA InvoicedFound ==
  ASSUME DisputesTyped, Support!Unread = {}, Support!Unbridged, NEW key, NEW amount \in Nat,
         Support!InvoicedSupport(key, amount) # {}
  PROVE  \E grade : Support!Graded("invoiced_over_received", grade, key, <<>>, amount)
                      \in Support!Findings
<1> DEFINE roles == {"proposal", "order", "confirmation", "delivery", "invoice"}
           D == Support!InRoles(Support!Current, roles)
           E == Support!Evaluated
<1>1. roles \in RuleRoles
  BY DEF RuleRoles
<1>2. PICK own \in Support!ItemsOf(D, key) :
        LET r == Support!Reference(Support!OfRole(own, Support!CommercialRole(D)),
                                   Support!OfRole(own, "delivery"))
            i == Support!OfRole(own, "invoice")
        IN /\ i # {} /\ r # {} /\ Support!ProfilesCompatible(i, r)
           /\ Support!Quantity(i) > Support!Quantity(r)
           /\ amount = Support!Amount(Support!Quantity(i) - Support!Quantity(r),
                                      Support!WeightedPrice(i))
  BY DEF Support!InvoicedSupport
<1> DEFINE c == Support!OfRole(own, Support!CommercialRole(E))
           d == Support!OfRole(own, "delivery")
           r == Support!Reference(c, d)
           i == Support!OfRole(own, "invoice")
           invoiced == Support!Quantity(i) - Support!Quantity(r)
<1>3. D = Support!InRoles(E, roles)
      /\ \E item \in Support!Items(E) :
              /\ item.key = key
              /\ \A role \in roles : Support!OfRole(item, role) = Support!OfRole(own, role)
  <2>1. "invoice" \in roles
    OBVIOUS
  <2> HIDE DEF roles
  <2> QED BY <1>1, <1>2, <2>1, OwnIsFull
<1>4. Support!CommercialRole(D) = Support!CommercialRole(E) /\ Support!CommercialRole(E) \in roles
  <2> HIDE DEF roles
  <2> QED BY <1>1, <1>3, OwnCommercial
<1>5. PICK item \in Support!Items(E) :
        item.key = key /\ Support!OfRole(item, Support!CommercialRole(E)) = c
        /\ Support!OfRole(item, "delivery") = d /\ Support!OfRole(item, "invoice") = i
  BY <1>3, <1>4
<1>6. /\ i # {} /\ r # {} /\ Support!ProfilesCompatible(i, r)
      /\ Support!Quantity(i) > Support!Quantity(r)
      /\ amount = Support!Amount(invoiced, Support!WeightedPrice(i))
  BY <1>2, <1>4
<1>7. item.lines \subseteq Support!Lines(Support!Indices)
  <2>1. item.lines \subseteq Support!Lines(E)
    BY SupportItemIs
  <2> QED BY <2>1 DEF Support!Lines, Support!Evaluated
<1>8. i \subseteq Support!Lines(Support!Indices) /\ r \subseteq Support!Lines(Support!Indices)
  BY <1>5, <1>7 DEF Support!OfRole, Support!Reference
<1> HIDE DEF c, d, i, r
<1>9. Support!Quantity(i) \in Int /\ Support!Quantity(r) \in Int
  BY <1>8, SupportQuantity
<1>10. invoiced \in Nat /\ invoiced > 0
  BY <1>6, <1>9
<1>11. Support!Max({0, amount}) = amount
  BY SupportMax
<1> DEFINE grade == IF d # {} THEN "invoiced_over_received" ELSE "invoiced_over_ordered"
           f == Support!Graded("invoiced_over_received", grade, key, <<>>, amount)
<1>12. f \in Support!Quantities(item.key, c, d, i)
  BY <1>5, <1>6, <1>10, <1>11 DEF Support!Quantities, Support!When, r
<1>13. f.type \in Support!Qualified
  BY DEF Support!Graded, Support!Qualified
<1>14. f \in Support!Findings
  <2> HIDE DEF f
  <2> QED BY <1>5, <1>12, <1>13, QuantitiesFound
<1> QED BY <1>14

LEMMA ChosenIs == \A n, s : s = {n} => (CHOOSE m \in s : TRUE) = n
OBVIOUS

LEMMA SupportRoleTotal ==
  ASSUME NEW D, NEW t, \A i \in D : Support!DocumentTotal(i) = {t[i]}
  PROVE  Support!RoleTotal(D) = {Support!SumFunction([i \in D |-> t[i]])}
<1>1. \A i \in D : (CHOOSE n \in Support!DocumentTotal(i) : TRUE) = t[i]
  BY ChosenIs
<1>2. [i \in D |-> CHOOSE n \in Support!DocumentTotal(i) : TRUE] = [i \in D |-> t[i]]
  BY <1>1
<1>3. ~\E i \in D : Support!DocumentTotal(i) = {}
  OBVIOUS
<1> QED BY <1>2, <1>3 DEF Support!RoleTotal

LEMMA OverpaidFound ==
  ASSUME DisputesTyped, Support!Unread = {}, NEW amount, Support!OverpaidSupport(amount) # {}
  PROVE  Support!OfChain("payment_over_invoice", amount) \in Support!Findings
<1> DEFINE D == Support!InRoles(Support!Indices, {"invoice", "payment"})
           E == Support!Evaluated
           total(i) == Support!SumFunction([x \in Support!Lines({i}) |-> Support!LineTotal(x)])
           t == [i \in D |-> total(i)]
           paid == Support!SumFunction([i \in Support!Of(D, "payment") |-> total(i)])
           owed == Support!SumFunction([i \in Support!Of(D, "invoice") |-> total(i)])
<1>1. /\ Support!Of(D, "invoice") # {} /\ Support!Of(D, "payment") # {}
      /\ \A i \in D : ~documents[i].archived /\ documents[i].lines # <<>>
      /\ paid > owed + Support!PaymentTolerance /\ amount = paid - owed
      /\ Support!LineFacts(Support!Lines(D), {"total"}) # {}
  BY DEF Support!OverpaidSupport
<1>2. \A role \in {"invoice", "payment"} : Support!Of(D, role) = Support!Of(E, role)
  BY <1>1 DEF Support!Of, Support!InRoles, Support!Evaluated, Support!Unread
<1>3. \A x \in Support!Lines(D) : "total" \notin Support!Line(x).missing
  BY <1>1 DEF Support!LineFacts, Support!Direct
<1>4. ASSUME NEW i \in D PROVE Support!DocumentTotal(i) = {t[i]}
  <2>1. documents[i] \in DocumentType
    BY DEF DisputesTyped, Support!InRoles, Support!Indices
  <2>2. 1 \in DOMAIN documents[i].lines
    <3>1. documents[i].lines \in Seq(LineType) /\ documents[i].lines # <<>>
      BY <1>1, <2>1 DEF DocumentType
    <3> QED BY <3>1
  <2>3. <<i, 1>> \in Support!Lines({i}) /\ Support!Lines({i}) \subseteq Support!Lines(D)
    BY <2>2 DEF Support!Lines
  <2>4. Support!Known("total", Support!Lines({i}))
    BY <1>3, <2>3 DEF Support!Known
  <2>5. t[i] = total(i)
    OBVIOUS
  <2> HIDE DEF t
  <2> QED BY <2>4, <2>5 DEF Support!DocumentTotal
<1>5. \A i \in Support!Of(D, "payment") \cup Support!Of(D, "invoice") : i \in D
  BY DEF Support!Of
<1>6. /\ Support!RoleTotal(Support!Of(D, "payment")) = {paid}
      /\ Support!RoleTotal(Support!Of(D, "invoice")) = {owed}
  <2>1. /\ paid = Support!SumFunction([i \in Support!Of(D, "payment") |-> t[i]])
        /\ owed = Support!SumFunction([i \in Support!Of(D, "invoice") |-> t[i]])
    <3>1. /\ [i \in Support!Of(D, "payment") |-> t[i]]
               = [i \in Support!Of(D, "payment") |-> total(i)]
          /\ [i \in Support!Of(D, "invoice") |-> t[i]]
               = [i \in Support!Of(D, "invoice") |-> total(i)]
      BY <1>5
    <3> QED BY <3>1
  <2> HIDE DEF t, paid, owed, D
  <2> QED BY <1>4, <1>5, <2>1, SupportRoleTotal
<1> HIDE DEF paid, owed, D, total
<1>7. Support!OfChain("payment_over_invoice", amount) \in Support!Payments(E)
  BY <1>1, <1>2, <1>6 DEF Support!Payments, Support!When
<1>8. Support!OfChain("payment_over_invoice", amount).type \in Support!AlwaysOn
  <2>1. Support!OfChain("payment_over_invoice", amount).type = "payment_over_invoice"
    BY AtIs, OfChainIs
  <2>2. "payment_over_invoice" \in Support!AlwaysOn
    BY DEF Support!AlwaysOn
  <2> QED BY <2>1, <2>2
<1> QED BY <1>7, <1>8 DEF Support!Findings, Support!FindingsOf

LEMMA UninvoicedFound ==
  ASSUME Support!Unread = {}, NEW amount, Support!UninvoicedSupport(amount) # {}
  PROVE  Support!OfChain("payment_without_invoice", amount) \in Support!Findings
<1> DEFINE E == Support!Evaluated
<1>1. Support!Current = E /\ {i \in E : ~documents[i].archived} = E
  BY DEF Support!Current, Support!Evaluated, Support!Unread
<1>2. /\ Support!Of(E, "payment") # {} /\ Support!Of(E, "invoice") = {}
      /\ amount = IF Support!RoleTotal(Support!Of(E, "payment")) = {} THEN 0
                  ELSE Support!Max(Support!RoleTotal(Support!Of(E, "payment")))
  BY <1>1 DEF Support!UninvoicedSupport
<1> HIDE DEF E
<1>3. Support!OfChain("payment_without_invoice", amount) \in Support!Payments(E)
  <2> DEFINE live == {i \in E : ~documents[i].archived}
             alone == Support!RoleTotal(Support!Of(live, "payment"))
  <2>1. Support!OfChain("payment_without_invoice", IF alone = {} THEN 0 ELSE Support!Max(alone))
          \in Support!Payments(E)
    <3>1. Support!Of(live, "payment") # {} /\ Support!Of(live, "invoice") = {}
      BY <1>1, <1>2
    <3> QED BY <3>1 DEF Support!Payments, Support!When
  <2> QED BY <1>1, <1>2, <2>1
<1>4. Support!OfChain("payment_without_invoice", amount).type \in Support!AlwaysOn
  <2>1. Support!OfChain("payment_without_invoice", amount).type = "payment_without_invoice"
    BY AtIs, OfChainIs
  <2>2. "payment_without_invoice" \in Support!AlwaysOn
    BY DEF Support!AlwaysOn
  <2> QED BY <2>1, <2>2
<1> QED BY <1>3, <1>4 DEF Support!Findings, Support!FindingsOf, E

LEMMA CurrencyFound ==
  ASSUME Support!Unread = {}, Support!CurrencySupport(Support!Current) # {}
  PROVE  Support!OfChain("currency_mismatch", 0) \in Support!Findings
<1> DEFINE E == Support!Evaluated
           stated == {i \in E : documents[i].currency # "" /\ ~documents[i].archived}
<1>1. Support!Current = E
  BY DEF Support!Current, Support!Evaluated, Support!Unread
<1>2. Support!Cardinality({documents[i].currency : i \in stated}) > 1
  BY <1>1 DEF Support!CurrencySupport
<1>3. {documents[i].currency : i \in stated} = {documents[i].currency : i \in E} \ {""}
  BY DEF Support!Evaluated
<1>4. Support!OfChain("currency_mismatch", 0) \in Support!CurrencyMismatch(E)
  BY <1>2, <1>3 DEF Support!CurrencyMismatch, Support!When
<1>5. Support!OfChain("currency_mismatch", 0).type \in Support!AlwaysOn
  <2>1. Support!OfChain("currency_mismatch", 0).type = "currency_mismatch"
    BY AtIs, OfChainIs
  <2>2. "currency_mismatch" \in Support!AlwaysOn
    BY DEF Support!AlwaysOn
  <2> QED BY <2>1, <2>2
<1> QED BY <1>4, <1>5 DEF Support!Findings, Support!FindingsOf

LEMMA NumberFound ==
  ASSUME Support!Unread = {}, NEW role \in Support!Roles, NEW number \in Nat \ {0},
         Support!NumberSupport(Support!Current, <<Support!Rank(role), number>>) # {}
  PROVE  Support!At("duplicate_document_number", <<Support!Rank(role), number>>)
           \in Support!Findings
<1> DEFINE E == Support!Evaluated
           place == <<Support!Rank(role), number>>
           same == {i \in Support!Of(E, Support!RoleOrder[place[1]]) :
                      documents[i].number = place[2] /\ ~documents[i].archived}
           all == {i \in Support!Of(E, Support!RoleOrder[place[1]]) :
                     documents[i].number = place[2]}
           numbers == {<<Support!Rank(documents[i].role), documents[i].number>> : i \in E}
<1>1. Support!Current = E
  BY DEF Support!Current, Support!Evaluated, Support!Unread
<1>2. Support!Cardinality(same) > 1 /\ Support!DocumentFacts(same, "number") # {}
  BY <1>1 DEF Support!NumberSupport
<1>3. same = all
  BY DEF Support!Evaluated, Support!Of
<1>4. PICK i \in same : TRUE
  BY <1>2 DEF Support!DocumentFacts
<1>5. place \in numbers /\ place[2] # 0
  <2>1. Support!RoleOrder[Support!Rank(role)] = role
    BY RankRole
  <2>2. i \in E /\ documents[i].role = role /\ documents[i].number = number
    BY <1>4, <2>1 DEF Support!Of
  <2> QED BY <2>2
<1> HIDE DEF same
<1>6. place \in {m \in numbers : m[2] # 0 /\ Support!Cardinality(
                   {j \in Support!Of(E, Support!RoleOrder[m[1]]) : documents[j].number = m[2]}) > 1}
  BY <1>2, <1>3, <1>5
<1> HIDE DEF all, E
<1>7. Support!At("duplicate_document_number", place) \in Support!DuplicateNumbers(E)
  <2> HIDE DEF place
  <2> QED BY <1>6, Zenon DEF Support!DuplicateNumbers
<1>8. Support!At("duplicate_document_number", place).type \in Support!AlwaysOn
  BY AtIs, OfChainIs DEF Support!AlwaysOn
<1> QED BY <1>7, <1>8 DEF Support!Findings, Support!FindingsOf, E

LEMMA JudgedFound ==
  ASSUME SupportInv, Support!Unread = {}, Support!Unbridged, NEW c \in cases,
         Support!Supported(c)
  PROVE  \E f \in Support!Findings : Support!Same(c, f) /\ c.amount = f.amount
<1>1. CaseShape(c) /\ DisputesTyped
  BY DEF SupportInv
<1>2. c.facts # {} /\ c.type \in Support!Qualified
  BY <1>1 DEF Support!Supported, CaseShape
<1>3. CASE c.type = "delivered_over_order"
  <2>1. c.facts = Support!DeliveredSupport(c.item, c.amount)
    BY <1>3 DEF Support!Supported, Support!DeliveredStands
  <2> DEFINE f == Support!OfItem("delivered_over_order", c.item, c.amount)
  <2>2. f \in Support!Findings
    BY <1>1, <1>2, <1>3, <2>1, DeliveredFound DEF CaseShape
  <2>3. Support!Same(c, f) /\ c.amount = f.amount
    BY <1>1, <1>3 DEF Support!Same, CaseShape, Support!OfItem, Support!Graded
  <2> HIDE DEF f
  <2> QED BY <2>2, <2>3
<1>4. CASE c.type = "invoiced_over_received"
  <2>1. c.facts = Support!InvoicedSupport(c.item, c.amount)
    BY <1>4 DEF Support!Supported, Support!InvoicedStands
  <2>2. PICK grade : Support!Graded("invoiced_over_received", grade, c.item, <<>>, c.amount)
                       \in Support!Findings
    BY <1>1, <1>2, <1>4, <2>1, InvoicedFound DEF CaseShape
  <2> DEFINE f == Support!Graded("invoiced_over_received", grade, c.item, <<>>, c.amount)
  <2>3. Support!Same(c, f) /\ c.amount = f.amount
    BY <1>1, <1>4 DEF Support!Same, CaseShape, Support!Graded
  <2> HIDE DEF f
  <2> QED BY <2>2, <2>3 DEF f
<1>5. CASE c.type = "payment_over_invoice"
  <2>1. c.facts = Support!OverpaidSupport(c.amount)
    BY <1>5 DEF Support!Supported, Support!OverpaidStands
  <2> DEFINE f == Support!OfChain("payment_over_invoice", c.amount)
  <2>2. f \in Support!Findings
    BY <1>1, <1>2, <2>1, OverpaidFound
  <2>3. Support!Same(c, f) /\ c.amount = f.amount
    <3>1. c.item = "" /\ c.place = <<>>
      BY <1>1, <1>5 DEF CaseShape
    <3>2. f.type = "payment_over_invoice" /\ f.item = "" /\ f.place = <<>> /\ f.amount = c.amount
      <4>1. PICK n : n = c.amount
        OBVIOUS
      <4>2. f = Support!OfChain("payment_over_invoice", n)
        BY <4>1
      <4> HIDE DEF f
      <4> QED BY <4>1, <4>2, OfChainIs
    <3> QED BY <1>5, <3>1, <3>2 DEF Support!Same
  <2> HIDE DEF f
  <2> QED BY <2>2, <2>3
<1>6. CASE c.type = "payment_without_invoice"
  <2>1. c.facts = Support!UninvoicedSupport(c.amount)
    BY <1>6 DEF Support!Supported, Support!UninvoicedStands
  <2> DEFINE f == Support!OfChain("payment_without_invoice", c.amount)
  <2>2. f \in Support!Findings
    BY <1>2, <2>1, UninvoicedFound
  <2>3. Support!Same(c, f) /\ c.amount = f.amount
    <3>1. c.item = "" /\ c.place = <<>>
      BY <1>1, <1>6 DEF CaseShape
    <3>2. f.type = "payment_without_invoice" /\ f.item = "" /\ f.place = <<>> /\ f.amount = c.amount
      <4>1. PICK n : n = c.amount
        OBVIOUS
      <4>2. f = Support!OfChain("payment_without_invoice", n)
        BY <4>1
      <4> HIDE DEF f
      <4> QED BY <4>1, <4>2, OfChainIs
    <3> QED BY <1>6, <3>1, <3>2 DEF Support!Same
  <2> HIDE DEF f
  <2> QED BY <2>2, <2>3
<1>7. CASE c.type = "currency_mismatch"
  <2>1. c.facts = Support!CurrencySupport(Support!Current)
    BY <1>7 DEF Support!Supported, Support!CurrencyStands
  <2> DEFINE f == Support!OfChain("currency_mismatch", 0)
  <2>2. f \in Support!Findings
    BY <1>2, <2>1, CurrencyFound
  <2>3. Support!Same(c, f) /\ c.amount = f.amount
    <3>1. c.item = "" /\ c.place = <<>> /\ c.amount = 0
      BY <1>1, <1>7 DEF CaseShape
    <3>2. f.type = "currency_mismatch" /\ f.item = "" /\ f.place = <<>> /\ f.amount = 0
      BY AtIs, OfChainIs
    <3> QED BY <1>7, <3>1, <3>2 DEF Support!Same
  <2> HIDE DEF f
  <2> QED BY <2>2, <2>3
<1>8. CASE c.type = "duplicate_document_number"
  <2>1. Support!NumberStands(c)
    BY <1>8 DEF Support!Supported
  <2>2. PICK number \in Support!Stated(c), role \in {documents[i].role : i \in Support!Stating(c)} :
          c.facts = Support!NumberSupport(Support!Current, <<Support!Rank(role), number>>)
    BY <2>1 DEF Support!NumberStands
  <2>3. PICK role1 \in Support!Roles, number1 \in Nat \ {0} :
          /\ c.place = <<Support!Rank(role1), number1>>
          /\ \A fact \in c.facts :
               /\ fact[2] \in Support!Indices /\ fact[3] = number1
               /\ documents[fact[2]].role = role1
    BY <1>1, <1>8 DEF CaseShape, NumberPlace
  <2>4. number = number1 /\ role = role1
    BY <2>2, <2>3 DEF Support!Stated, Support!Stating
  <2> DEFINE f == Support!At("duplicate_document_number", <<Support!Rank(role1), number1>>)
  <2>5. f \in Support!Findings
    BY <1>2, <2>2, <2>4, NumberFound
  <2>6. Support!Same(c, f) /\ c.amount = f.amount
    <3>1. c.item = "" /\ c.amount = 0
      BY <1>1, <1>8 DEF CaseShape
    <3>2. /\ f.type = "duplicate_document_number" /\ f.item = "" /\ f.amount = 0
          /\ f.place = <<Support!Rank(role1), number1>>
      BY AtIs, OfChainIs
    <3> QED BY <1>8, <2>3, <3>1, <3>2 DEF Support!Same
  <2> HIDE DEF f
  <2> QED BY <2>5, <2>6
<1> QED BY <1>2, <1>3, <1>4, <1>5, <1>6, <1>7, <1>8 DEF Support!Qualified

SupportHolds == scope = "support" => SupportInv

LEMMA SupportScope ==
  ASSUME [Next]_vars, scope' = "support"
  PROVE  scope = "support" /\ [Support!Next]_Support!vars
BY DEF Next, vars, requests, automation, discovery, analysis, Support!vars, AutomationNext,
       DiscoveryNext, AssessmentNext, SupportNext

(* A judgment that is given on a finding stays tied to what the documents  *)
(* say: a case that finding_matches_current_support accepts is of a        *)
(* finding the analysis raises again on the same documents, with its       *)
(* amount, if all of them were read and no name connects items through     *)
(* documents of other roles.                                               *)
THEOREM JudgedStaysCurrent == Spec => []JudgedIsCurrent
<1>1. Init => SupportHolds
  BY SupportStarts DEF Init, AutomationInit, DiscoveryInit, AssessmentInit, SupportInit,
     SupportHolds
<1>2. SupportHolds /\ [Next]_vars => SupportHolds'
  BY SupportScope, SupportKeeps DEF SupportHolds
<1>3. SupportHolds => JudgedIsCurrent
  BY JudgedFound DEF SupportHolds, JudgedIsCurrent, Support!JudgedIsCurrent
<1> QED BY <1>1, <1>2, <1>3, PTL DEF Spec

-----------------------------------------------------------------------------
(* Assessments.                                                            *)

(* The documents of a chain that is assessed: what was read has lines.      *)
AssessmentInv ==
  /\ documents \in Seq(DocumentType)
  /\ \A i \in DOMAIN documents : documents[i].parsed => documents[i].lines # <<>>

LEMMA AssessmentStarts == Assessment!Init => AssessmentInv
BY DEF Assessment!Init, AssessmentInv

LEMMA AssessmentReplaced ==
  ASSUME AssessmentInv, NEW i \in DOMAIN documents, NEW document \in DocumentType,
         document.parsed => documents[i].parsed, document.lines = documents[i].lines,
         documents' = [documents EXCEPT ![i] = document]
  PROVE  AssessmentInv'
<1>1. documents \in Seq(DocumentType)
  BY DEF AssessmentInv
<1>2. documents' \in Seq(DocumentType) /\ DOMAIN documents' = DOMAIN documents
  BY <1>1, ReplacedIn
<1>3. ASSUME NEW k \in DOMAIN documents, documents'[k].parsed PROVE documents'[k].lines # <<>>
  BY <1>3 DEF AssessmentInv
<1> QED BY <1>2, <1>3 DEF AssessmentInv

LEMMA AssessmentKeeps ==
  ASSUME AssessmentInv, [Assessment!Next]_Assessment!vars
  PROVE  AssessmentInv'
<1>1. CASE UNCHANGED Assessment!vars
  BY <1>1 DEF Assessment!vars, AssessmentInv
<1>2. ASSUME NEW document \in Dealings, Assessment!Attach(document)
      PROVE  AssessmentInv'
  <2>1. document \in DocumentType /\ (document.parsed => document.lines # <<>>)
    BY DocumentsAssumption, ParsedAssumption
  <2>2. documents' = Append(documents, document)
    BY <1>2 DEF Assessment!Attach
  <2> QED BY <2>1, <2>2 DEF AssessmentInv
<1>3. ASSUME NEW i \in Assessment!Indices, Assessment!Archive(i) \/ Assessment!NeedsReview(i)
      PROVE  AssessmentInv'
  <2>1. documents[i] \in DocumentType /\ i \in DOMAIN documents
    BY DEF AssessmentInv, Assessment!Indices
  <2>2. PICK document \in {[documents[i] EXCEPT !.archived = TRUE],
                           [documents[i] EXCEPT !.parsed = FALSE]} :
          documents' = [documents EXCEPT ![i] = document]
    BY <1>3 DEF Assessment!Archive, Assessment!NeedsReview
  <2>3. document \in DocumentType /\ document.lines = documents[i].lines
        /\ (document.parsed => documents[i].parsed)
    BY <2>1 DEF DocumentType
  <2> QED BY <2>1, <2>2, <2>3, AssessmentReplaced
<1> QED BY <1>1, <1>2, <1>3 DEF Assessment!Next

AssessmentHolds == scope = "assessment" => AssessmentInv

LEMMA AssessmentScope ==
  ASSUME [Next]_vars, scope' = "assessment"
  PROVE  scope = "assessment" /\ [Assessment!Next]_Assessment!vars
BY DEF Next, vars, requests, automation, discovery, analysis, Assessment!vars, AutomationNext,
       DiscoveryNext, AssessmentNext, SupportNext

LEMMA AssessmentAlways == Spec => []AssessmentHolds
<1>1. Init => AssessmentHolds
  BY AssessmentStarts DEF Init, AutomationInit, DiscoveryInit, AssessmentInit, SupportInit,
     AssessmentHolds
<1>2. AssessmentHolds /\ [Next]_vars => AssessmentHolds'
  BY AssessmentScope, AssessmentKeeps DEF AssessmentHolds
<1> QED BY <1>1, <1>2, PTL DEF Spec

LEMMA SameItems == \A D : Assessment!Items(D) = Support!Items(D)
BY DEF Assessment!Items, Support!Items, Assessment!Clusters, Support!Clusters, Assessment!Linked,
   Support!Linked, Assessment!Keys, Support!Keys, Assessment!ClusterKey, Support!ClusterKey,
   Assessment!Lines, Support!Lines, Assessment!Line, Support!Line, Assessment!SetToSortSeq,
   Support!SetToSortSeq, Assessment!FoldLeft, Support!FoldLeft, Assessment!MapThenFoldSet,
   Support!MapThenFoldSet, Assessment!Max, Support!Max, Assessment!SetToSeq, Support!SetToSeq,
   Assessment!IsInjective, Support!IsInjective, Assessment!Cardinality, Support!Cardinality,
   Assessment!IsFiniteSet, Support!IsFiniteSet

LEMMA SameLines == \A D : Assessment!Lines(D) = Support!Lines(D)
BY DEF Assessment!Lines, Support!Lines
LEMMA SameLine == \A x : Assessment!Line(x) = Support!Line(x)
BY DEF Assessment!Line, Support!Line

LEMMA AssessmentSum == \A f : Assessment!SumFunction(f) = SumFunction(f)
BY DEF Assessment!SumFunction, SumFunction, Assessment!SumFunctionOnSet, SumFunctionOnSet,
   Assessment!FoldFunctionOnSet, FoldFunctionOnSet, Assessment!MapThenFoldSet, MapThenFoldSet

LEMMA AssessmentCardinality ==
  \A S : Assessment!Cardinality(S) = Cardinality(S)
BY Zenon DEF Assessment!Cardinality, Cardinality, Assessment!IsFiniteSet, IsFiniteSet

LEMMA MaxOfTwo == \A a, b \in Int : Assessment!Max({a, b}) = IF a >= b THEN a ELSE b
BY DEF Assessment!Max
LEMMA MinOfTwo == \A a, b \in Int : Assessment!Min({a, b}) = IF a <= b THEN a ELSE b
BY DEF Assessment!Min
LEMMA MaxOfOne == \A a \in Int : Assessment!Max({a}) = a
BY DEF Assessment!Max

LEMMA OverOne ==
  ASSUME NEW x, NEW f, f[x] \in Int
  PROVE  Over({x}, f) = f[x]
<1> DEFINE S == {x}
<1>1. IsFiniteSet(S)
  BY FS_Singleton
<1>2. \A y \in S : f[y] \in Int
  OBVIOUS
<1>3. S \in SUBSET S /\ x \in S /\ S \ {x} = {}
  OBVIOUS
<1> HIDE DEF S
<1>4. Over(S, f) = f[x] + Over(S \ {x}, f)
  BY <1>1, <1>2, <1>3, OverAdds
<1> QED BY <1>3, <1>4, OverNothing DEF S

LEMMA ReadLines ==
  ASSUME AssessmentInv, NEW D, D \subseteq Assessment!Indices
  PROVE  /\ IsFiniteSet(D) /\ IsFiniteSet(Assessment!Lines(D))
         /\ Assessment!Lines(D) = LinesOf(D)
         /\ D \subseteq DOMAIN documents
<1>1. D \subseteq DOMAIN documents /\ Assessment!Lines(D) = LinesOf(D)
  BY DEF Assessment!Indices, Assessment!Lines, LinesOf
<1> QED BY <1>1, LinesFinite DEF AssessmentInv

LEMMA ReadLine ==
  ASSUME AssessmentInv, NEW D, D \subseteq Assessment!Indices, NEW x \in Assessment!Lines(D)
  PROVE  /\ Assessment!Line(x) \in LineType /\ Assessment!Factor(x) \in Nat \ {0}
         /\ Assessment!Line(x).price \in Int /\ Assessment!Line(x).qty \in Int
         /\ Assessment!Line(x).discount \in Discounts /\ Assessment!Line(x).total \in Int
         /\ Assessment!LineTotal(x) \in Nat /\ Assessment!Source(x) \in Nat
         /\ x[1] \in D
<1>1. Assessment!Line(x) \in LineType /\ x[1] \in D
  BY ReadLines, LineTyped DEF AssessmentInv, Assessment!Line
<1>2. /\ Assessment!Line(x).qty \in Int /\ Assessment!Line(x).unit \in DOMAIN Units
      /\ Assessment!Line(x).price \in Int /\ Assessment!Line(x).total \in Int
      /\ Assessment!Line(x).discount \in Discounts
  BY <1>1 DEF LineType
<1>3. Units[Assessment!Line(x).unit].factor \in Nat \ {0}
  BY <1>2, UnitsAssumption
<1>4. \A n \in Int : Assessment!Abs(n) \in Nat
  BY DEF Assessment!Abs
<1> QED BY <1>1, <1>2, <1>3, <1>4 DEF Assessment!Factor, Assessment!Source, Assessment!LineTotal

LEMMA EvaluatedIn == Assessment!Evaluated \subseteq Assessment!Indices
BY DEF Assessment!Evaluated

(* Of a line alone, what is summed and averaged is its own.                 *)
LEMMA QuantityOfOne ==
  ASSUME NEW x, Assessment!Line(x).qty \in Int, Assessment!Factor(x) \in Nat
  PROVE  Assessment!Quantity({x}) = Assessment!Line(x).qty * Assessment!Factor(x)
<1> DEFINE f == [y \in {x} |-> Assessment!Line(y).qty *
                   (IF Assessment!Compatible({x}) THEN Assessment!Factor(y) ELSE 1)]
<1>1. Assessment!Compatible({x})
  BY DEF Assessment!Compatible
<1>2. f[x] = Assessment!Line(x).qty * Assessment!Factor(x) /\ f[x] \in Int
  BY <1>1
<1>3. Assessment!Quantity({x}) = SumFunction(f)
  BY AssessmentSum DEF Assessment!Quantity
<1>4. f = [y \in {x} |-> f[y]]
  OBVIOUS
<1> HIDE DEF f
<1>5. SumFunction(f) = Over({x}, f)
  BY <1>4 DEF Over
<1> QED BY <1>2, <1>3, <1>5, OverOne

LEMMA AverageOfOne ==
  ASSUME NEW x, NEW n, NEW d, n[x] \in Int, d[x] \in Nat \ {0}
  PROVE  Assessment!Average([y \in {x} |-> n[y]], [y \in {x} |-> d[y]]) = <<n[x], d[x]>>
<1>1. SumFunction([y \in {x} |-> n[y]]) = n[x] /\ SumFunction([y \in {x} |-> d[y]]) = d[x]
  <2>1. d[x] \in Int
    OBVIOUS
  <2> QED BY <2>1, OverOne DEF Over
<1> QED BY <1>1, AssessmentSum DEF Assessment!Average

LEMMA PriceOfOne ==
  ASSUME NEW x, Assessment!Line(x).qty \in Nat \ {0}, Assessment!Factor(x) \in Nat \ {0},
         Assessment!Line(x).price \in Nat
  PROVE  Assessment!WeightedPrice({x}) =
           <<Assessment!Line(x).qty * Assessment!Line(x).price,
             Assessment!Line(x).qty * Assessment!Factor(x)>>
<1> DEFINE n == [y \in {x} |-> Assessment!Source(y) * Assessment!UnitPrice(y)[1]]
           d == [y \in {x} |-> Assessment!Source(y) * Assessment!UnitPrice(y)[2]]
<1>1. Assessment!Source(x) = Assessment!Line(x).qty
  BY DEF Assessment!Source, Assessment!Abs
<1>2. n[x] = Assessment!Line(x).qty * Assessment!Line(x).price /\ n[x] \in Int
  BY <1>1 DEF Assessment!UnitPrice
<1>a. \A a, b \in Nat \ {0} : a * b \in Nat \ {0}
  OBVIOUS
<1>3. d[x] = Assessment!Line(x).qty * Assessment!Factor(x) /\ d[x] \in Nat \ {0}
  BY <1>1, <1>a DEF Assessment!UnitPrice
<1>4. Assessment!WeightedPrice({x}) = Assessment!Average(n, d)
  BY DEF Assessment!WeightedPrice
<1>5. n = [y \in {x} |-> n[y]] /\ d = [y \in {x} |-> d[y]]
  OBVIOUS
<1> HIDE DEF n, d
<1>6. Assessment!Average([y \in {x} |-> n[y]], [y \in {x} |-> d[y]]) = <<n[x], d[x]>>
  BY <1>2, <1>3, AverageOfOne
<1> QED BY <1>2, <1>3, <1>4, <1>5, <1>6

LEMMA DiscountOfOne ==
  ASSUME NEW x, Assessment!Line(x).qty \in Nat \ {0}, Assessment!Line(x).discount \in Int
  PROVE  Assessment!Discount({x}) =
           <<Assessment!Line(x).qty * Assessment!Line(x).discount, Assessment!Line(x).qty>>
<1> DEFINE n == [y \in {x} |-> Assessment!Source(y) * Assessment!Line(y).discount]
           d == [y \in {x} |-> Assessment!Source(y)]
<1>1. Assessment!Source(x) = Assessment!Line(x).qty
  BY DEF Assessment!Source, Assessment!Abs
<1>2. n[x] = Assessment!Line(x).qty * Assessment!Line(x).discount /\ n[x] \in Int
  BY <1>1
<1>3. d[x] = Assessment!Line(x).qty /\ d[x] \in Nat \ {0}
  BY <1>1
<1>4. Assessment!Discount({x}) = Assessment!Average(n, d)
  BY DEF Assessment!Discount
<1>5. n = [y \in {x} |-> n[y]] /\ d = [y \in {x} |-> d[y]]
  OBVIOUS
<1> HIDE DEF n, d
<1>6. Assessment!Average([y \in {x} |-> n[y]], [y \in {x} |-> d[y]]) = <<n[x], d[x]>>
  BY <1>2, <1>3, AverageOfOne
<1> QED BY <1>2, <1>3, <1>4, <1>5, <1>6

-----------------------------------------------------------------------------
(* An item of one line per role.                                           *)

LEMMA ReadItemOf ==
  ASSUME NEW D, NEW x \in Assessment!Lines(D)
  PROVE  \E item \in Assessment!Items(D) : x \in item.lines
BY SameItems, SameLines, SupportItemOf

LEMMA ReadItemIs ==
  ASSUME NEW D, NEW item \in Assessment!Items(D)
  PROVE  item.lines \subseteq Assessment!Lines(D)
BY SameItems, SameLines, SupportItemIs

LEMMA Single ==
  ASSUME NEW S, IsFiniteSet(S), Cardinality(S) <= 1, NEW x \in S
  PROVE  S = {x}
<1>1. IsFiniteSet(S \ {x}) /\ Cardinality(S \ {x}) = Cardinality(S) - 1
  BY FS_RemoveElement
<1>2. Cardinality(S \ {x}) \in Nat /\ Cardinality(S) \in Nat
  BY <1>1, FS_CardinalityType
<1>3. Cardinality(S \ {x}) = 0
  BY <1>1, <1>2
<1>4. S \ {x} = {}
  BY <1>1, <1>3, FS_EmptySet
<1> QED BY <1>4

(* The findings that a rule raises in an item are those of the chain.       *)
LEMMA ItemFound ==
  ASSUME active = Assessment!Proposed, NEW item \in Assessment!Items(Assessment!Evaluated),
         NEW c, c = Assessment!OfRole(item, Assessment!CommercialRole(Assessment!Evaluated)),
         NEW d, d = Assessment!OfRole(item, "delivery"),
         NEW i, i = Assessment!OfRole(item, "invoice"),
         NEW f \in Assessment!UnitMismatch(item.key, c, d, i)
                     \cup Assessment!Quantities(item.key, c, d, i)
                     \cup Assessment!Conditions(item.key, c, i),
         f.type \in {"unit_mismatch", "invoiced_over_received", "price_over_order",
                     "discount_missing"}
  PROVE  f \in Assessment!Findings
<1>1. f \in Assessment!ItemFindings(Assessment!Evaluated)
  BY DEF Assessment!ItemFindings
<1>2. f.type \in Assessment!AlwaysOn \cup active
  BY DEF Assessment!AlwaysOn, Assessment!Proposed
<1> QED BY <1>1, <1>2 DEF Assessment!Findings, Assessment!FindingsOf

LEMMA HighIs ==
  /\ \A key : /\ Assessment!OfItem("unit_mismatch", key, 0).severity = "high"
              /\ Assessment!OfItem("unit_mismatch", key, 0).type = "unit_mismatch"
              /\ Assessment!OfItem("price_over_order", key, 0).severity = "high"
              /\ Assessment!OfItem("price_over_order", key, 0).type = "price_over_order"
              /\ Assessment!OfItem("discount_missing", key, 0).severity = "high"
              /\ Assessment!OfItem("discount_missing", key, 0).type = "discount_missing"
  /\ \A grade \in {"invoiced_over_received", "invoiced_over_ordered"} :
       \A key, amount :
         LET f == Assessment!Graded("invoiced_over_received", grade, key, <<>>, amount)
         IN f.severity = "high" /\ f.type = "invoiced_over_received"
BY DEF Assessment!OfItem, Assessment!Graded, Assessment!Grade

(* Of an item without high findings, what is invoiced is in the units of    *)
(* what was agreed and received, no more, and no dearer.                    *)
Calm == \A f \in Assessment!Findings :
          f.severity \notin {"high", "critical"} /\ f.type # "line_total_mismatch"

LEMMA ItemCalm ==
  ASSUME active = Assessment!Proposed, Calm, NEW item \in Assessment!Items(Assessment!Evaluated),
         NEW c, c = Assessment!OfRole(item, Assessment!CommercialRole(Assessment!Evaluated)),
         NEW d, d = Assessment!OfRole(item, "delivery"),
         NEW i, i = Assessment!OfRole(item, "invoice"),
         c # {}, i # {}, c # i, d # i
  PROVE  /\ LET r == Assessment!Reference(c, d)
            IN ~(Assessment!Quantity(i) - Assessment!Quantity(r) > 0)
         /\ Assessment!Known("price", c) /\ Assessment!Known("price", i)
              => ~Assessment!Exceeds(Assessment!WeightedPrice(i), Assessment!WeightedPrice(c), 2)
         /\ Assessment!Known("discount", c) /\ Assessment!Known("discount", i)
              => ~Assessment!Exceeds(Assessment!Discount(c), Assessment!Discount(i), 100)
<1>0. \A f : /\ \/ f \in Assessment!UnitMismatch(item.key, c, d, i)
                \/ f \in Assessment!Quantities(item.key, c, d, i)
                \/ f \in Assessment!Conditions(item.key, c, i)
             /\ f.type \in {"unit_mismatch", "invoiced_over_received", "price_over_order",
                            "discount_missing"}
             => f.severity # "high"
  BY ItemFound DEF Calm
<1>1. \A S, T \in {c, d, i} \ {{}} : S # T => Assessment!ProfilesCompatible(S, T)
  <2> SUFFICES ASSUME ~\A S, T \in {c, d, i} \ {{}} : S # T => Assessment!ProfilesCompatible(S, T)
               PROVE  FALSE
    OBVIOUS
  <2>1. \E S, T \in {c, d, i} \ {{}} : S # T /\ ~Assessment!ProfilesCompatible(S, T)
    OBVIOUS
  <2>2. Assessment!OfItem("unit_mismatch", item.key, 0)
          \in Assessment!UnitMismatch(item.key, c, d, i)
    BY <2>1 DEF Assessment!UnitMismatch, Assessment!When
  <2> QED BY <1>0, <2>2, HighIs
<1> DEFINE r == Assessment!Reference(c, d)
<1>2. r \in {c, d} /\ r # {}
  BY DEF Assessment!Reference
<1>3. Assessment!ProfilesCompatible(i, r) /\ Assessment!ProfilesCompatible(c, i)
  BY <1>1, <1>2
<1>4. ~(Assessment!Quantity(i) - Assessment!Quantity(r) > 0)
  <2> SUFFICES ASSUME Assessment!Quantity(i) - Assessment!Quantity(r) > 0 PROVE FALSE
    OBVIOUS
  <2>1. PICK grade \in {"invoiced_over_received", "invoiced_over_ordered"} :
          grade = IF d # {} THEN "invoiced_over_received" ELSE "invoiced_over_ordered"
    OBVIOUS
  <2>2. PICK amount : Assessment!Graded("invoiced_over_received", grade, item.key, <<>>, amount)
                        \in Assessment!Quantities(item.key, c, d, i)
    BY <1>2, <1>3, <2>1 DEF Assessment!Quantities, Assessment!When
  <2> QED BY <1>0, <2>2, HighIs
<1>5. ASSUME Assessment!Known("price", c) /\ Assessment!Known("price", i),
             Assessment!Exceeds(Assessment!WeightedPrice(i), Assessment!WeightedPrice(c), 2)
      PROVE  FALSE
  <2>1. Assessment!OfItem("price_over_order", item.key, 0)
          \in Assessment!Conditions(item.key, c, i)
    BY <1>3, <1>5 DEF Assessment!Conditions, Assessment!When
  <2> QED BY <1>0, <2>1, HighIs
<1>6. ASSUME Assessment!Known("discount", c) /\ Assessment!Known("discount", i),
             Assessment!Exceeds(Assessment!Discount(c), Assessment!Discount(i), 100)
      PROVE  FALSE
  <2>1. Assessment!OfItem("discount_missing", item.key, 0)
          \in Assessment!Conditions(item.key, c, i)
    BY <1>6 DEF Assessment!Conditions, Assessment!When
  <2> QED BY <1>0, <2>1, HighIs
<1> QED BY <1>4, <1>5, <1>6

(* A line of a chain whose documents can be compared.                       *)
LEMMA ComparableLine ==
  ASSUME AssessmentInv, Assessment!Comparable, NEW x \in Assessment!Lines(Assessment!Evaluated)
  PROVE  /\ Assessment!Line(x).qty \in Nat \ {0} /\ Assessment!Line(x).price \in Nat
         /\ documents[x[1]].role # "delivery" => Assessment!Line(x).missing = {}
<1>1. Assessment!Line(x).qty \in Int /\ Assessment!Line(x).price \in Int
  BY ReadLine, EvaluatedIn
<1>2. Assessment!Line(x).qty > 0 /\ Assessment!Line(x).price >= 0
  BY DEF Assessment!Comparable
<1>3. documents[x[1]].role # "delivery" => Assessment!Line(x).missing = {}
  BY DEF Assessment!Comparable
<1> QED BY <1>1, <1>2, <1>3

LEMMA OneLine ==
  ASSUME AssessmentInv, Assessment!Comparable, NEW item \in Assessment!Items(Assessment!Evaluated),
         NEW role \in Assessment!Roles \ {"payment"}, NEW x \in Assessment!OfRole(item, role)
  PROVE  /\ Assessment!OfRole(item, role) = {x} /\ x \in Assessment!Lines(Assessment!Evaluated)
         /\ documents[x[1]].role = role
<1> DEFINE S == Assessment!OfRole(item, role)
<1>1. S \subseteq Assessment!Lines(Assessment!Evaluated) /\ documents[x[1]].role = role
  BY ReadItemIs DEF Assessment!OfRole
<1>2. IsFiniteSet(S)
  BY <1>1, ReadLines, EvaluatedIn, FS_Subset
<1>3. Assessment!Cardinality(S) <= 1
  BY DEF Assessment!Comparable
<1>4. x \in S
  OBVIOUS
<1> HIDE DEF S
<1>5. Cardinality(S) <= 1
  BY <1>3, AssessmentCardinality
<1>6. S = {x}
  BY <1>2, <1>4, <1>5, Single
<1> QED BY <1>1, <1>4, <1>6 DEF S

LEMMA RolesAre ==
  /\ Assessment!CommercialRole(Assessment!Evaluated)
       \in Assessment!Roles \ {"payment", "invoice", "delivery"}
  /\ {"invoice", "delivery", "payment"} \subseteq Assessment!Roles
<1>1. Assessment!Roles = {Assessment!RoleOrder[n] : n \in 1..8}
  BY DEF Assessment!Roles, Assessment!Range, Assessment!RoleOrder
<1>2. /\ Assessment!RoleOrder[1] = "proposal" /\ Assessment!RoleOrder[2] = "order"
      /\ Assessment!RoleOrder[3] = "confirmation" /\ Assessment!RoleOrder[4] = "delivery"
      /\ Assessment!RoleOrder[5] = "invoice" /\ Assessment!RoleOrder[6] = "payment"
  BY DEF Assessment!RoleOrder
<1>3. {"proposal", "order", "confirmation", "delivery", "invoice", "payment"}
        \subseteq Assessment!Roles
  BY <1>1, <1>2
<1> QED BY <1>3 DEF Assessment!CommercialRole

LEMMA ExceedsIs ==
  \A a, b, c, d, n :
    Assessment!Exceeds(<<a, b>>, <<c, d>>, n) <=> n * (a * d - c * b) > b * d
BY DEF Assessment!Exceeds

LEMMA TotalFound ==
  ASSUME NEW D, NEW x \in Assessment!Lines(D), Assessment!Line(x).missing = {},
         1000 * Assessment!Abs(100 * Assessment!Line(x).total - Assessment!ExpectedTotal(x))
           > Assessment!Max({300 * 1000, 5 * Assessment!Abs(Assessment!ExpectedTotal(x))})
  PROVE  Assessment!At("line_total_mismatch", x) \in Assessment!LineTotals(D)
<1>1. Assessment!Line(x).missing \cap {"quantity", "price", "total"} = {}
  OBVIOUS
<1>2. PICK S : S = {y \in Assessment!Lines(D) :
              /\ Assessment!Line(y).missing \cap {"quantity", "price", "total"} = {}
              /\ 1000 * Assessment!Abs(100 * Assessment!Line(y).total - Assessment!ExpectedTotal(y))
                   > Assessment!Max({300 * 1000, 5 * Assessment!Abs(Assessment!ExpectedTotal(y))})}
  OBVIOUS
<1>3. x \in S
  BY SMT, <1>1, <1>2
<1>4. Assessment!LineTotals(D) = {Assessment!At("line_total_mismatch", y) : y \in S}
  BY SMT, <1>2 DEF Assessment!LineTotals
<1> QED BY <1>3, <1>4

(* A line of an invoice does not exceed what is owed for its item.          *)
LEMMA LineWithin ==
  ASSUME AssessmentInv, active = Assessment!Proposed, Calm, Assessment!Comparable,
         NEW item \in Assessment!Items(Assessment!Evaluated),
         NEW x \in Assessment!OfRole(item, "invoice")
  PROVE  /\ Assessment!OwedFor(item) \in Nat
         /\ 100 * Assessment!LineTotal(x) <= Assessment!OwedFor(item)
<1> DEFINE E == Assessment!Evaluated
           role == Assessment!CommercialRole(E)
           c == Assessment!OfRole(item, role)
           d == Assessment!OfRole(item, "delivery")
           i == Assessment!OfRole(item, "invoice")
           r == Assessment!Reference(c, d)
<1>1. c # {}
  BY DEF Assessment!Comparable
<1>2. PICK y \in c : TRUE
  BY <1>1
<1>3. /\ i = {x} /\ x \in Assessment!Lines(E) /\ documents[x[1]].role = "invoice"
      /\ c = {y} /\ y \in Assessment!Lines(E) /\ documents[y[1]].role = role
      /\ role # "invoice" /\ role # "delivery"
  BY OneLine, RolesAre
<1>4. PICK z : r = {z} /\ z \in Assessment!Lines(E)
  <2>1. CASE d = {}
    BY <1>3, <2>1 DEF Assessment!Reference
  <2>2. CASE d # {}
    <3>1. PICK z \in d : TRUE
      BY <2>2
    <3>2. d = {z} /\ z \in Assessment!Lines(E)
      BY <3>1, OneLine, RolesAre
    <3> QED BY <3>2 DEF Assessment!Reference
  <2> QED BY <2>1, <2>2
<1>5. c # i /\ d # i
  BY <1>2, <1>3 DEF Assessment!OfRole
<1>6. r = IF d # {} THEN d ELSE c
  BY DEF Assessment!Reference
<1> DEFINE q == Assessment!Line(x).qty
           p == Assessment!Line(x).price
           a == Assessment!Line(x).discount
           F == Assessment!Factor(x)
           w == Assessment!Line(y).qty
           s == Assessment!Line(y).price
           b == Assessment!Line(y).discount
           G == Assessment!Factor(y)
           Q == Assessment!Quantity(r)
<1>7. /\ q \in Nat \ {0} /\ p \in Nat /\ a \in Discounts /\ F \in Nat \ {0}
      /\ w \in Nat \ {0} /\ s \in Nat /\ b \in Discounts /\ G \in Nat \ {0}
  BY <1>3, ReadLine, ComparableLine, EvaluatedIn
<1>b. a \in Int /\ b \in Int
  BY <1>7 DEF Discounts
<1>8. Q \in Int
  <2>1. Assessment!Line(z).qty \in Int /\ Assessment!Factor(z) \in Nat \ {0}
    BY <1>4, ReadLine, EvaluatedIn
  <2>2. Assessment!Quantity({z}) = Assessment!Line(z).qty * Assessment!Factor(z)
    BY <2>1, QuantityOfOne
  <2>3. \A n \in Int, m \in Nat \ {0} : n * m \in Int
    OBVIOUS
  <2>4. Q = Assessment!Quantity({z})
    BY <1>4
  <2> HIDE DEF Q
  <2> QED BY <2>1, <2>2, <2>3, <2>4
<1>9. /\ Assessment!Quantity(i) = q * F
      /\ Assessment!WeightedPrice(i) = <<q * p, q * F>>
      /\ Assessment!WeightedPrice(c) = <<w * s, w * G>>
      /\ Assessment!Discount(i) = <<q * a, q>> /\ Assessment!Discount(c) = <<w * b, w>>
  BY <1>3, <1>7, <1>b, QuantityOfOne, PriceOfOne, DiscountOfOne
<1>10. /\ Assessment!Line(x).missing = {} /\ Assessment!Line(y).missing = {}
  BY <1>3, ComparableLine
<1>11. /\ Assessment!Known("price", c) /\ Assessment!Known("price", i)
       /\ Assessment!Known("discount", c) /\ Assessment!Known("discount", i)
  BY <1>3, <1>10 DEF Assessment!Known
<1>12. /\ ~(Assessment!Quantity(i) - Q > 0)
       /\ ~Assessment!Exceeds(Assessment!WeightedPrice(i), Assessment!WeightedPrice(c), 2)
       /\ ~Assessment!Exceeds(Assessment!Discount(c), Assessment!Discount(i), 100)
  <2>1. i # {} /\ c # {}
    BY <1>1, <1>3
  <2> HIDE DEF r, c, d, i
  <2> QED BY <1>5, <1>11, <2>1, ItemCalm DEF r, c, d, i, E, role
<1>13. PICK W \in Nat : W = Assessment!PriceOwed(item) /\ q * p * (100 - a) \in Nat
                        /\ q * p * (100 - a) <= W
  <2> HIDE DEF r, q, p, a, F, w, s, b, G, Q
  <2>1. q * F <= Q
    BY <1>7, <1>8, <1>9, <1>12
  <2>a. ~(2 * ((q * p) * (w * G) - (w * s) * (q * F)) > (q * F) * (w * G))
    BY <1>9, <1>12, ExceedsIs
  <2>2. 2 * p * G <= F * (2 * s + G)
    BY <1>7, <2>a, PriceBound
  <2>b. ~(100 * ((w * b) * q - (q * a) * w) > w * q)
    BY <1>9, <1>12, ExceedsIs
  <2>3. b <= a
    BY <1>7, <1>b, <2>b, DiscountBound
  <2>4. /\ Expect(q, p, a) \in Nat /\ Owing(Q, s, G, b) \in Nat
        /\ Expect(q, p, a) <= Owing(Q, s, G, b)
    BY <1>7, <1>8, <2>1, <2>2, <2>3, ExpectedBound
  <2>5. (CHOOSE u \in c : TRUE) = y
    BY <1>3
  <2>6. Assessment!PriceOwed(item) = Owing(Q, s, G, b)
    BY <1>6, <2>5 DEF Assessment!PriceOwed, s, G, b, Q, Owing
  <2> QED BY <2>4, <2>6 DEF Expect
<1>14. ~(1000 * Assessment!Abs(100 * Assessment!Line(x).total - Assessment!ExpectedTotal(x))
           > Assessment!Max({300 * 1000, 5 * Assessment!Abs(Assessment!ExpectedTotal(x))}))
  <2> SUFFICES ASSUME 1000 * Assessment!Abs(100 * Assessment!Line(x).total
                                              - Assessment!ExpectedTotal(x))
                        > Assessment!Max({300 * 1000,
                                          5 * Assessment!Abs(Assessment!ExpectedTotal(x))})
               PROVE  FALSE
    OBVIOUS
  <2>1. Assessment!At("line_total_mismatch", x) \in Assessment!LineTotals(E)
    BY SMT, <1>3, <1>10, TotalFound
  <2>2. Assessment!At("line_total_mismatch", x).type = "line_total_mismatch"
    BY DEF Assessment!At, Assessment!Graded
  <2>3. "line_total_mismatch" \in Assessment!AlwaysOn
    BY DEF Assessment!AlwaysOn
  <2>4. Assessment!At("line_total_mismatch", x) \in Assessment!Findings
    BY <2>1, <2>2, <2>3 DEF Assessment!Findings, Assessment!FindingsOf
  <2> QED BY <2>2, <2>4 DEF Calm
<1>15. PICK e \in Nat, t \in Int :
         /\ e = q * p * (100 - a) /\ e = Assessment!ExpectedTotal(x)
         /\ t = Assessment!Line(x).total /\ e <= W
  BY <1>3, <1>13, ReadLine, EvaluatedIn DEF Assessment!ExpectedTotal
<1>16. PICK n \in Nat : n = Assessment!LineTotal(x) /\ n = IF t < 0 THEN -t ELSE t
  BY <1>15 DEF Assessment!LineTotal, Assessment!Abs
<1> HIDE DEF q, p, a, F, w, s, b, G, Q
<1>17. 1000 * (100 * n - e) <= 300000 \/ 1000 * (100 * n - e) <= 5 * e
  <2>1. Assessment!Abs(Assessment!ExpectedTotal(x)) = e
    BY SMT, <1>15 DEF Assessment!Abs
  <2>2. PICK v \in Nat : v = Assessment!Abs(100 * t - e) /\ 100 * n - e <= v
    BY SMT, <1>15, <1>16 DEF Assessment!Abs
  <2>3. PICK m \in Nat : m = 300 * 1000
    OBVIOUS
  <2>4. PICK k \in Nat : k = 5 * e
    BY SMT, <1>15
  <2>5. Assessment!Max({m, k}) = IF m >= k THEN m ELSE k
    BY <2>3, <2>4, MaxOfTwo
  <2>6. ~(1000 * v > Assessment!Max({m, k}))
    BY SMT, <1>14, <1>15, <2>1, <2>2, <2>3, <2>4
  <2> QED BY SMT, <1>15, <1>16, <2>2, <2>3, <2>4, <2>5, <2>6
<1>18. 100 * n <= W + 300 \/ 100 * n <= W + (W \div 200)
  BY <1>13, <1>15, <1>16, <1>17, TotalBound
<1>19. PICK h \in Nat : h = W \div 200
  BY <1>13
<1>20. Assessment!OwedFor(item) = W + (IF 300 >= h THEN 300 ELSE h)
  <2>1. Assessment!Max({300, h}) = IF 300 >= h THEN 300 ELSE h
    BY <1>19, MaxOfTwo
  <2> QED BY <1>13, <1>19, <2>1 DEF Assessment!OwedFor
<1> QED BY <1>13, <1>16, <1>18, <1>19, <1>20

-----------------------------------------------------------------------------
(* What is paid and what is owed.                                          *)

LEMMA KeysFinite ==
  ASSUME AssessmentInv, NEW D, D \subseteq Assessment!Indices
  PROVE  IsFiniteSet(Assessment!Keys(D)) /\ IsFiniteSet(Assessment!Clusters(D))
<1> DEFINE L == Assessment!Lines(D)
           key == [x \in L |-> Assessment!Line(x).key]
<1>1. Assessment!Keys(D) = {key[x] : x \in L}
  BY DEF Assessment!Keys
<1>2. IsFiniteSet(L)
  BY ReadLines
<1> HIDE DEF key
<1>3. IsFiniteSet(Assessment!Keys(D))
  BY <1>1, <1>2, FiniteImage
<1>4. IsFiniteSet(SUBSET Assessment!Keys(D))
  BY <1>3, FS_SUBSET
<1>5. Assessment!Clusters(D) \subseteq SUBSET Assessment!Keys(D)
  BY DEF Assessment!Clusters
<1> QED BY <1>3, <1>4, <1>5, FS_Subset

LEMMA ItemsFinite ==
  ASSUME AssessmentInv, NEW D, D \subseteq Assessment!Indices
  PROVE  IsFiniteSet(Assessment!Items(D))
<1> DEFINE C == Assessment!Clusters(D)
           name == [cluster \in C |-> [key |-> Assessment!ClusterKey(D, cluster), keys |-> cluster]]
           named == {name[cluster] : cluster \in C}
           of == [n \in named |->
                   [key |-> n.key,
                    lines |-> {x \in Assessment!Lines(D) :
                      \E m \in named : m.key = n.key /\ Assessment!Line(x).key \in m.keys}]]
<1>1. IsFiniteSet(C)
  BY KeysFinite
<1>2. IsFiniteSet(named)
  <2> HIDE DEF name
  <2> QED BY <1>1, FiniteImage
<1>3. IsFiniteSet({of[n] : n \in named})
  <2> HIDE DEF of, named
  <2> QED BY <1>2, FiniteImage
<1>4. named = {[key |-> Assessment!ClusterKey(D, cluster), keys |-> cluster] : cluster \in C}
  OBVIOUS
<1>5. Assessment!Items(D) = {of[n] : n \in named}
  <2>1. PICK N : N = named
    OBVIOUS
  <2> DEFINE value(n) == [key |-> n.key,
                    lines |-> {x \in Assessment!Lines(D) :
                                 \E m \in N : m.key = n.key /\ Assessment!Line(x).key \in m.keys}]
  <2>2. \A n \in N : of[n] = value(n)
    BY <2>1
  <2>3. Assessment!Items(D) = {value(n) : n \in N}
    BY <1>4, <2>1 DEF Assessment!Items
  <2> HIDE DEF of, named, value
  <2>4. Assessment!Items(D) = {of[n] : n \in N}
    BY <2>2, <2>3
  <2> QED BY <2>1, <2>4
<1> QED BY <1>3, <1>5

(* The total of what was read, of other roles than deliveries, is known.    *)
LineAmounts == [x \in Assessment!Lines(Assessment!Evaluated) |-> Assessment!LineTotal(x)]
TotalOfDocument ==
  [i \in Assessment!Evaluated |-> Over(Assessment!Lines({i}), LineAmounts)]

LEMMA TotalKnown ==
  ASSUME AssessmentInv, Assessment!Comparable, NEW i \in Assessment!Evaluated,
         documents[i].role # "delivery"
  PROVE  Assessment!DocumentTotal(i) = {TotalOfDocument[i]} /\ TotalOfDocument[i] \in Nat
<1> DEFINE E == Assessment!Evaluated
           L == Assessment!Lines({i})
<1>1. documents[i] \in DocumentType /\ documents[i].lines # <<>>
  BY DEF AssessmentInv, Assessment!Evaluated, Assessment!Indices
<1>2. 1 \in DOMAIN documents[i].lines
  <2>1. documents[i].lines \in Seq(LineType)
    BY <1>1 DEF DocumentType
  <2> QED BY <1>1, <2>1
<1>3. <<i, 1>> \in L /\ L \subseteq Assessment!Lines(E)
  BY <1>2 DEF Assessment!Lines
<1>4. \A x \in L : x[1] = i
  BY DEF Assessment!Lines
<1>5. \A x \in L : Assessment!Line(x).missing = {}
  BY <1>3, <1>4, ComparableLine
<1>6. Assessment!Known("total", L)
  BY <1>3, <1>5 DEF Assessment!Known
<1>7. [x \in L |-> LineAmounts[x]] = [x \in L |-> Assessment!LineTotal(x)]
  BY <1>3 DEF LineAmounts
<1>8. Assessment!DocumentTotal(i) = {SumFunction([x \in L |-> Assessment!LineTotal(x)])}
  BY <1>6, AssessmentSum DEF Assessment!DocumentTotal
<1>9. TotalOfDocument[i] = Over(L, LineAmounts)
  BY DEF TotalOfDocument
<1>10. IsFiniteSet(L)
  BY <1>3, ReadLines, EvaluatedIn, FS_Subset
<1>11. \A x \in L : LineAmounts[x] \in Nat
  BY <1>3, ReadLine, EvaluatedIn DEF LineAmounts
<1> HIDE DEF L
<1>12. Over(L, LineAmounts) \in Nat
  BY <1>10, <1>11, OverNat
<1> QED BY <1>7, <1>8, <1>9, <1>12 DEF Over

LEMMA RoleTotalKnown ==
  ASSUME AssessmentInv, Assessment!Comparable, NEW role, role # "delivery"
  PROVE  Assessment!RoleTotal(Assessment!Of(Assessment!Evaluated, role))
           = {Over(Assessment!Of(Assessment!Evaluated, role), TotalOfDocument)}
<1> DEFINE D == Assessment!Of(Assessment!Evaluated, role)
<1>1. \A i \in D : Assessment!DocumentTotal(i) = {TotalOfDocument[i]}
  BY TotalKnown DEF Assessment!Of
<1>2. \A i \in D : (CHOOSE n \in Assessment!DocumentTotal(i) : TRUE) = TotalOfDocument[i]
  BY <1>1, ChosenIs
<1>3. [i \in D |-> CHOOSE n \in Assessment!DocumentTotal(i) : TRUE]
        = [i \in D |-> TotalOfDocument[i]]
  BY <1>2
<1>4. ~\E i \in D : Assessment!DocumentTotal(i) = {}
  BY <1>1
<1>5. Assessment!RoleTotal(D)
        = {SumFunction([i \in D |-> CHOOSE n \in Assessment!DocumentTotal(i) : TRUE])}
  BY <1>4, AssessmentSum DEF Assessment!RoleTotal
<1> QED BY <1>3, <1>5 DEF Over

(* What is invoiced, in sum, does not exceed what is owed.                  *)
LEMMA InvoicesWithin ==
  ASSUME AssessmentInv, active = Assessment!Proposed, Calm, Assessment!Comparable
  PROVE  LET I == Over(Assessment!Of(Assessment!Evaluated, "invoice"), TotalOfDocument)
         IN I \in Nat /\ Assessment!Owed \in Int /\ 100 * I + 200 <= Assessment!Owed
<1> DEFINE E == Assessment!Evaluated
           inv == Assessment!Of(E, "invoice")
           L == Assessment!Lines(inv)
           part == [i \in inv |-> Assessment!Lines({i})]
           T == Assessment!Invoiced
           h == [item \in T |-> Assessment!OwedFor(item)]
           own == [x \in L |-> CHOOSE item \in Assessment!Items(E) : x \in item.lines]
<1>1. inv \subseteq E /\ E \subseteq Assessment!Indices /\ L \subseteq Assessment!Lines(E)
  BY EvaluatedIn DEF Assessment!Of, Assessment!Lines
<1>2. IsFiniteSet(inv) /\ IsFiniteSet(L)
  BY <1>1, ReadLines
<1>3. \A x \in L : LineAmounts[x] \in Nat /\ LineAmounts[x] \in Int
                   /\ LineAmounts[x] = Assessment!LineTotal(x)
  BY <1>1, ReadLine DEF LineAmounts
<1>4. L = UNION {part[i] : i \in inv} /\ \A i \in inv : part[i] \subseteq L
  BY DEF Assessment!Lines
<1>5. \A i, j \in inv : i # j => part[i] \cap part[j] = {}
  BY DEF Assessment!Lines
<1>6. \A i \in inv : TotalOfDocument[i] = Over(part[i], LineAmounts)
  BY <1>1 DEF TotalOfDocument
<1>7. Over(inv, TotalOfDocument) = Over(L, LineAmounts)
  <2> HIDE DEF inv, L, part
  <2> QED BY <1>2, <1>3, <1>4, <1>5, <1>6, OverParts
<1>8. ASSUME NEW x \in L
      PROVE  /\ own[x] \in T /\ x \in Assessment!OfRole(own[x], "invoice")
             /\ 100 * LineAmounts[x] <= h[own[x]]
             /\ Assessment!OfRole(own[x], "invoice") = {x}
  <2>1. own[x] \in Assessment!Items(E) /\ x \in own[x].lines
    BY <1>1, <1>8, ReadItemOf
  <2>2. documents[x[1]].role = "invoice"
    BY <1>8 DEF Assessment!Lines, Assessment!Of
  <2>3. x \in Assessment!OfRole(own[x], "invoice")
    BY <2>1, <2>2 DEF Assessment!OfRole
  <2>4. own[x] \in T
    BY <2>1, <2>3 DEF Assessment!Invoiced
  <2>5. PICK item \in Assessment!Items(E) : item = own[x]
    BY <2>1
  <2>6. 100 * Assessment!LineTotal(x) <= Assessment!OwedFor(item)
    BY <2>3, <2>5, LineWithin
  <2>7. "invoice" \in Assessment!Roles \ {"payment"}
    BY RolesAre
  <2>8. Assessment!OfRole(item, "invoice") = {x}
    BY <2>3, <2>5, <2>7, OneLine
  <2>9. h[item] = Assessment!OwedFor(item)
    BY <2>4, <2>5
  <2> QED BY <1>3, <2>3, <2>4, <2>5, <2>6, <2>8, <2>9
<1>9. \A x, z \in L : own[x] = own[z] => x = z
  <2> SUFFICES ASSUME NEW x \in L, NEW z \in L, own[x] = own[z] PROVE x = z
    OBVIOUS
  <2> HIDE DEF own, L, T, h
  <2>1. Assessment!OfRole(own[x], "invoice") = {x} /\ Assessment!OfRole(own[z], "invoice") = {z}
    BY <1>8
  <2> QED BY <2>1
<1>10. IsFiniteSet(T)
  <2>1. T \subseteq Assessment!Items(E)
    BY DEF Assessment!Invoiced
  <2> QED BY <1>1, <2>1, ItemsFinite, FS_Subset
<1>11. \A item \in T : h[item] \in Nat /\ h[item] \in Int
  <2> SUFFICES ASSUME NEW item \in T PROVE Assessment!OwedFor(item) \in Nat
    OBVIOUS
  <2>1. item \in Assessment!Items(E) /\ \E x : x \in Assessment!OfRole(item, "invoice")
    BY DEF Assessment!Invoiced
  <2> QED BY <2>1, LineWithin
<1>12. Assessment!Owed = 200 + Over(T, h)
  <2>1. [item \in T |-> h[item]] = [item \in T |-> Assessment!OwedFor(item)]
    OBVIOUS
  <2> HIDE DEF h
  <2> QED BY <2>1, AssessmentSum DEF Assessment!Owed, Over
<1> HIDE DEF h, T, own, L, inv
<1>13. 100 * Over(L, LineAmounts) <= Over(T, h)
  <2>1. \A x \in L : own[x] \in T /\ 100 * LineAmounts[x] <= h[own[x]]
    BY <1>8
  <2>2. \A x \in L : LineAmounts[x] \in Int
    BY <1>3
  <2>3. \A y \in T : h[y] \in Nat
    BY <1>11
  <2> QED BY <1>2, <1>9, <1>10, <2>1, <2>2, <2>3, OverWithin
<1>14. Over(L, LineAmounts) \in Nat
  BY <1>2, <1>3, OverNat
<1>15. Over(T, h) \in Int
  BY <1>10, <1>11, OverType
<1>16. /\ Over(inv, TotalOfDocument) \in Nat /\ Assessment!Owed \in Int
       /\ 100 * Over(inv, TotalOfDocument) + 200 <= Assessment!Owed
  BY <1>7, <1>12, <1>13, <1>14, <1>15
<1> QED BY <1>16 DEF inv

(* What is paid for a chain without grave findings does not exceed it.      *)
LEMMA PaymentsWithin ==
  ASSUME AssessmentInv, active = Assessment!Proposed, Calm, Assessment!Comparable,
         Assessment!Of(Assessment!Evaluated, "invoice") # {}
  PROVE  Assessment!Paid <= Assessment!Owed
<1> DEFINE E == Assessment!Evaluated
           pay == Assessment!Of(E, "payment")
           inv == Assessment!Of(E, "invoice")
<1>1. PICK I \in Nat : I = Over(inv, TotalOfDocument) /\ Assessment!Owed \in Int
                       /\ 100 * I + 200 <= Assessment!Owed
  BY InvoicesWithin
<1>2. PICK P : P = Over(pay, TotalOfDocument)
  OBVIOUS
<1>3. \A i \in pay : Assessment!DocumentTotal(i) = {TotalOfDocument[i]}
                     /\ TotalOfDocument[i] \in Nat
  BY TotalKnown DEF Assessment!Of
<1>4. IsFiniteSet(pay)
  <2>1. pay \subseteq Assessment!Indices
    BY EvaluatedIn DEF Assessment!Of
  <2> QED BY <2>1, ReadLines
<1>5. Assessment!Paid = 100 * P
  <2>1. \A i \in pay : Assessment!Max(Assessment!DocumentTotal(i)) = TotalOfDocument[i]
    BY <1>3, MaxOfOne
  <2>2. [i \in pay |-> Assessment!Max(Assessment!DocumentTotal(i))]
          = [i \in pay |-> TotalOfDocument[i]]
    BY <2>1
  <2> QED BY <1>2, <2>2, AssessmentSum DEF Assessment!Paid, Over
<1>6. P \in Nat
  <2> HIDE DEF pay
  <2> QED BY <1>2, <1>3, <1>4, OverNat
<1>7. CASE pay = {}
  <2>1. P = 0
    BY <1>2, <1>7, OverNothing
  <2> QED BY <1>1, <1>5, <2>1
<1>8. CASE pay # {}
  <2>1. Assessment!RoleTotal(pay) = {P} /\ Assessment!RoleTotal(inv) = {I}
    BY <1>1, <1>2, RoleTotalKnown
  <2>2. P <= I + 2
    <3> SUFFICES ASSUME P > I + 2 PROVE FALSE
      BY <1>1, <1>6
    <3> DEFINE f == Assessment!OfChain("payment_over_invoice", P - I)
    <3>1. P > I + Assessment!PaymentTolerance
      BY DEF Assessment!PaymentTolerance
    <3>2. f \in Assessment!Payments(E)
      BY <1>8, <2>1, <3>1 DEF Assessment!Payments, Assessment!When
    <3>3. f.type = "payment_over_invoice" /\ f.severity = "critical"
      BY DEF Assessment!OfChain, Assessment!Graded, Assessment!Grade
    <3>4. "payment_over_invoice" \in Assessment!AlwaysOn
      BY DEF Assessment!AlwaysOn
    <3> HIDE DEF f
    <3>5. f \in Assessment!Findings
      BY <3>2, <3>3, <3>4 DEF Assessment!Findings, Assessment!FindingsOf
    <3> QED BY <3>3, <3>5 DEF Calm
  <2> QED BY <1>1, <1>5, <1>6, <2>2
<1> QED BY <1>7, <1>8

(* What a chain clear of findings pays.                                     *)
LEMMA ClearPays == AssessmentHolds => ClearPaysWhatIsOwed
<1> SUFFICES ASSUME AssessmentInv, active = Assessment!Proposed, Assessment!Clear,
                    Assessment!Of(Assessment!Evaluated, "invoice") # {}, Assessment!Comparable
             PROVE  Assessment!Paid <= Assessment!Owed
  BY DEF AssessmentHolds, ClearPaysWhatIsOwed, Assessment!ClearPaysWhatIsOwed
<1>1. Calm
  BY DEF Assessment!Clear, Calm
<1> QED BY <1>1, PaymentsWithin

(* When every rule is in force, the payments of a chain that analyze_chain *)
(* calls clear do not exceed what was agreed for what was invoiced, within *)
(* the tolerances of the rules, if its documents can be compared.          *)
THEOREM ClearStaysPaid == Spec => []ClearPaysWhatIsOwed
BY AssessmentAlways, ClearPays, PTL
-----------------------------------------------------------------------------
(* The findings are finitely many, and of a grade.                          *)
Graduated(f) ==
  /\ Assessment!CaseScore(f) \in Nat
  /\ f.severity \in {"high", "critical"} => Assessment!CaseScore(f) >= 2002

LEMMA GradedScores ==
  ASSUME NEW type, NEW grade \in DOMAIN Assessment!Grade, NEW item, NEW place, NEW amount
  PROVE  Graduated(Assessment!Graded(type, grade, item, place, amount))
<1> DEFINE f == Assessment!Graded(type, grade, item, place, amount)
<1> DEFINE pairs == {<<"high", 99>>, <<"high", 97>>, <<"medium", 88>>, <<"medium", 98>>,
                     <<"high", 91>>, <<"high", 98>>, <<"high", 96>>, <<"medium", 94>>,
                     <<"low", 72>>, <<"medium", 72>>, <<"critical", 99>>, <<"critical", 98>>,
                     <<"high", 92>>}
<1>a. Assessment!Grade[grade] \in pairs
  BY SMTT(60) DEF Assessment!Grade
<1>b. \A pair \in pairs :
        \E severity \in {"low", "medium", "high", "critical"} : \E n \in 72..99 :
          pair = <<severity, n>> /\ (severity \in {"high", "critical"} => n >= 91)
  BY SMTT(30)
<1> HIDE DEF pairs
<1>c. PICK severity \in {"low", "medium", "high", "critical"} : \E n \in 72..99 :
        <<severity, n>> = Assessment!Grade[grade]
        /\ (severity \in {"high", "critical"} => n >= 91)
  BY <1>a, <1>b
<1>1. PICK n \in 72..99 :
        /\ <<severity, n>> = Assessment!Grade[grade]
        /\ severity \in {"high", "critical"} => n >= 91
  BY <1>c
<1>2. f.severity = severity /\ f.confidence = n
  BY <1>1 DEF Assessment!Graded
<1>3. Assessment!Max({40, n}) = n
  BY <1>1, MaxOfTwo
<1>4. /\ Assessment!SeverityWeight["low"] = 4 /\ Assessment!SeverityWeight["medium"] = 10
      /\ Assessment!SeverityWeight["high"] = 22 /\ Assessment!SeverityWeight["critical"] = 36
  BY DEF Assessment!SeverityWeight
<1> HIDE DEF f
<1>5. Assessment!CaseScore(f) = Assessment!SeverityWeight[severity] * n
  BY <1>2, <1>3 DEF Assessment!CaseScore
<1>6. Graduated(f)
  BY SMT, <1>1, <1>2, <1>4, <1>5 DEF Graduated
<1> QED BY <1>6 DEF f

LEMMA GradesAre ==
  {"currency_mismatch", "duplicate_document_number", "line_total_mismatch", "unit_mismatch",
   "delivered_over_order", "invoiced_over_received", "invoiced_over_ordered", "price_over_order",
   "discount_missing", "tax_rate_mismatch", "unmatched_invoice_line", "unmatched_charge",
   "duplicate_invoice_line", "payment_without_invoice", "payment_over_invoice",
   "duplicate_payment", "return_without_credit", "credit_below_return"}
     \subseteq DOMAIN Assessment!Grade
BY DEF Assessment!Grade

LEMMA WhenFinite ==
  ASSUME NEW S, IsFiniteSet(S), NEW condition
  PROVE  IsFiniteSet(Assessment!When(condition, S))
BY FS_EmptySet DEF Assessment!When

LEMMA WhenIn == \A condition, S : \A f \in Assessment!When(condition, S) : condition /\ f \in S
BY DEF Assessment!When

LEMMA ItemGraded ==
  ASSUME NEW key, NEW c, NEW d, NEW i, NEW r, NEW k, NEW credited,
         NEW S, S = Assessment!UnitMismatch(key, c, d, i) \cup Assessment!Quantities(key, c, d, i)
                      \cup Assessment!Conditions(key, c, i) \cup Assessment!Unmatched(key, c, d, i)
                      \cup Assessment!Returns(key, r, k, credited)
  PROVE  IsFiniteSet(S) /\ \A f \in S : Graduated(f)
<1>1. IsFiniteSet({}) /\ \A f : IsFiniteSet({f})
  BY FS_EmptySet, FS_Singleton
<1>2. \A T, U : IsFiniteSet(T) /\ IsFiniteSet(U) => IsFiniteSet(T \cup U)
  BY FS_Union
<1>3. \A condition, T : IsFiniteSet(T) => IsFiniteSet(Assessment!When(condition, T))
  BY WhenFinite
<1>4. \A type, item, place, amount : \A grade \in DOMAIN Assessment!Grade :
         Graduated(Assessment!Graded(type, grade, item, place, amount))
  BY GradedScores
<1>5. /\ IsFiniteSet(Assessment!UnitMismatch(key, c, d, i))
      /\ \A f \in Assessment!UnitMismatch(key, c, d, i) : Graduated(f)
  <2>1. \A f \in Assessment!UnitMismatch(key, c, d, i) :
           f = Assessment!Graded("unit_mismatch", "unit_mismatch", key, <<>>, 0)
    BY DEF Assessment!UnitMismatch, Assessment!When, Assessment!OfItem
  <2>2. IsFiniteSet(Assessment!UnitMismatch(key, c, d, i))
    BY <1>1, <1>3 DEF Assessment!UnitMismatch
  <2> QED BY <1>4, <2>1, <2>2, GradesAre
<1>6. /\ IsFiniteSet(Assessment!Quantities(key, c, d, i))
      /\ \A f \in Assessment!Quantities(key, c, d, i) : Graduated(f)
  <2>1. \A f \in Assessment!Quantities(key, c, d, i) : \E amount :
           \/ f = Assessment!Graded("delivered_over_order", "delivered_over_order", key, <<>>,
                                      amount)
           \/ f = Assessment!Graded("invoiced_over_received", "invoiced_over_received", key, <<>>,
                                      amount)
           \/ f = Assessment!Graded("invoiced_over_received", "invoiced_over_ordered", key, <<>>,
                                      amount)
    BY DEF Assessment!Quantities, Assessment!When, Assessment!OfItem
  <2>2. IsFiniteSet(Assessment!Quantities(key, c, d, i))
    BY <1>1, <1>2, <1>3 DEF Assessment!Quantities
  <2> QED BY <1>4, <2>1, <2>2, GradesAre
<1>7. /\ IsFiniteSet(Assessment!Conditions(key, c, i))
      /\ \A f \in Assessment!Conditions(key, c, i) : Graduated(f)
  <2>1. \A f \in Assessment!Conditions(key, c, i) :
           \/ f = Assessment!Graded("price_over_order", "price_over_order", key, <<>>, 0)
           \/ f = Assessment!Graded("discount_missing", "discount_missing", key, <<>>, 0)
           \/ f = Assessment!Graded("tax_rate_mismatch", "tax_rate_mismatch", key, <<>>, 0)
    BY DEF Assessment!Conditions, Assessment!When, Assessment!OfItem
  <2>2. IsFiniteSet(Assessment!Conditions(key, c, i))
    BY <1>1, <1>2, <1>3 DEF Assessment!Conditions
  <2> QED BY <1>4, <2>1, <2>2, GradesAre
<1>8. /\ IsFiniteSet(Assessment!Unmatched(key, c, d, i))
      /\ \A f \in Assessment!Unmatched(key, c, d, i) : Graduated(f)
  <2>1. \A f \in Assessment!Unmatched(key, c, d, i) :
           \/ f = Assessment!Graded("unmatched_invoice_line", "unmatched_charge", key, <<>>, 0)
           \/ f = Assessment!Graded("unmatched_invoice_line", "unmatched_invoice_line", key, <<>>,
                                      0)
    BY DEF Assessment!Unmatched, Assessment!When
  <2>2. IsFiniteSet(Assessment!Unmatched(key, c, d, i))
    BY <1>1, <1>3 DEF Assessment!Unmatched
  <2> QED BY <1>4, <2>1, <2>2, GradesAre
<1>9. /\ IsFiniteSet(Assessment!Returns(key, r, k, credited))
      /\ \A f \in Assessment!Returns(key, r, k, credited) : Graduated(f)
  <2>1. \A f \in Assessment!Returns(key, r, k, credited) :
           \/ f = Assessment!Graded("unit_mismatch", "unit_mismatch", key, <<>>, 0)
           \/ f = Assessment!Graded("return_without_credit", "return_without_credit", key, <<>>, 0)
           \/ f = Assessment!Graded("credit_below_return", "credit_below_return", key, <<>>, 0)
    BY DEF Assessment!Returns, Assessment!When, Assessment!OfItem
  <2>2. IsFiniteSet(Assessment!Returns(key, r, k, credited))
    BY <1>1, <1>2, <1>3 DEF Assessment!Returns
  <2> QED BY <1>4, <2>1, <2>2, GradesAre
<1>10. \A f \in S : Graduated(f)
  BY <1>5, <1>6, <1>7, <1>8, <1>9
<1>11. IsFiniteSet(S)
  BY <1>2, <1>5, <1>6, <1>7, <1>8, <1>9
<1> QED BY <1>10, <1>11

LEMMA PlacesGraded ==
  ASSUME NEW S, IsFiniteSet(S), NEW type \in DOMAIN Assessment!Grade
  PROVE  /\ IsFiniteSet({Assessment!At(type, x) : x \in S})
         /\ \A f \in {Assessment!At(type, x) : x \in S} : Graduated(f)
<1> DEFINE at == [x \in S |-> Assessment!At(type, x)]
<1>1. {at[x] : x \in S} = {Assessment!At(type, x) : x \in S}
  OBVIOUS
<1>2. IsFiniteSet({at[x] : x \in S})
  <2> HIDE DEF at
  <2> QED BY FiniteImage
<1>3. \A x \in S : Graduated(Assessment!At(type, x))
  BY GradedScores DEF Assessment!At
<1> QED BY <1>1, <1>2, <1>3

LEMMA ItemsGraded ==
  ASSUME AssessmentInv, NEW D, D \subseteq Assessment!Indices
  PROVE  /\ IsFiniteSet(Assessment!ItemFindings(D))
         /\ \A f \in Assessment!ItemFindings(D) : Graduated(f)
<1> DEFINE T == Assessment!Items(D)
           of == [item \in T |->
                    LET c == Assessment!OfRole(item, Assessment!CommercialRole(D))
                        d == Assessment!OfRole(item, "delivery")
                        i == Assessment!OfRole(item, "invoice")
                    IN Assessment!UnitMismatch(item.key, c, d, i)
                         \cup Assessment!Quantities(item.key, c, d, i)
                         \cup Assessment!Conditions(item.key, c, i)
                         \cup Assessment!Unmatched(item.key, c, d, i)
                         \cup Assessment!Returns(item.key, Assessment!OfRole(item, "return"),
                                Assessment!OfRole(item, "credit_note"),
                                Assessment!Of(D, "credit_note") # {})]
           all == {of[item] : item \in T}
<1>1. \A item \in T : IsFiniteSet(of[item]) /\ \A f \in of[item] : Graduated(f)
  BY ItemGraded
<1>2. Assessment!ItemFindings(D) = UNION all
  BY DEF Assessment!ItemFindings
<1>3. IsFiniteSet(T)
  BY ItemsFinite
<1> HIDE DEF of
<1>4. IsFiniteSet(all)
  <2> HIDE DEF T
  <2> QED BY <1>3, FiniteImage
<1>5. \A S \in all : IsFiniteSet(S) /\ \A f \in S : Graduated(f)
  BY <1>1
<1> HIDE DEF all
<1>6. IsFiniteSet(UNION all)
  BY <1>4, <1>5, FS_UNION
<1> QED BY <1>2, <1>5, <1>6

LEMMA PaymentsGraded ==
  ASSUME NEW D
  PROVE  IsFiniteSet(Assessment!Payments(D)) /\ \A f \in Assessment!Payments(D) : Graduated(f)
<1> DEFINE paid == Assessment!RoleTotal(Assessment!Of(D, "payment"))
           over == {n \in Assessment!RoleTotal(Assessment!Of(D, "invoice")) :
                      \E q \in paid : q > n + Assessment!PaymentTolerance}
           live == {i \in D : ~documents[i].archived}
           alone == Assessment!RoleTotal(Assessment!Of(live, "payment"))
           first == {Assessment!OfChain("payment_without_invoice",
                                        IF alone = {} THEN 0 ELSE Assessment!Max(alone))}
           second == {Assessment!OfChain("payment_over_invoice", p - i) : p \in paid, i \in over}
           both == paid \X over
           f == [q \in both |-> Assessment!OfChain("payment_over_invoice", q[1] - q[2])]
<1>1. \A E : Assessment!RoleTotal(E) = {} \/ \E n : Assessment!RoleTotal(E) = {n}
  BY DEF Assessment!RoleTotal
<1>2. \A E : IsFiniteSet(Assessment!RoleTotal(E))
  <2> SUFFICES ASSUME NEW E, NEW S, S = Assessment!RoleTotal(E) PROVE IsFiniteSet(S)
    OBVIOUS
  <2>1. CASE S = {}
    BY <2>1, FS_EmptySet
  <2>2. CASE \E n : S = {n}
    BY <2>2, FS_Singleton
  <2> QED BY <1>1, <2>1, <2>2
<1>3. IsFiniteSet(paid) /\ IsFiniteSet(over)
  <2>1. over \subseteq Assessment!RoleTotal(Assessment!Of(D, "invoice"))
    OBVIOUS
  <2> QED BY <1>2, <2>1, FS_Subset
<1>4. second \subseteq {f[q] : q \in both}
  <2> SUFFICES ASSUME NEW p \in paid, NEW i \in over
               PROVE  Assessment!OfChain("payment_over_invoice", p - i) \in {f[q] : q \in both}
    OBVIOUS
  <2>1. <<p, i>> \in both /\ f[<<p, i>>] = Assessment!OfChain("payment_over_invoice", p - i)
    BY Zenon
  <2> QED BY <2>1
<1>5. IsFiniteSet(both)
  <2> HIDE DEF paid, over
  <2> QED BY <1>3, FS_Product
<1>6. IsFiniteSet({f[q] : q \in both})
  <2> HIDE DEF f, both
  <2> QED BY <1>5, FiniteImage
<1>7. IsFiniteSet(second) /\ IsFiniteSet(first)
  <2>1. PICK all : all = {f[q] : q \in both}
    OBVIOUS
  <2>2. IsFiniteSet(first)
    BY FS_Singleton
  <2> HIDE DEF f, both, second
  <2>3. IsFiniteSet(all) /\ second \subseteq all
    BY <1>4, <1>6, <2>1
  <2> QED BY <2>2, <2>3, FS_Subset
<1>8. \A amount : /\ Graduated(Assessment!OfChain("payment_without_invoice", amount))
                  /\ Graduated(Assessment!OfChain("payment_over_invoice", amount))
  BY GradedScores, GradesAre DEF Assessment!OfChain
<1>9. Assessment!Payments(D) =
        Assessment!When(Assessment!Of(live, "payment") # {} /\ Assessment!Of(live, "invoice") = {},
                        first)
        \cup
        Assessment!When(Assessment!Of(D, "payment") # {} /\ Assessment!Of(D, "invoice") # {},
                        second)
  BY DEF Assessment!Payments
<1>10. \A g \in first \cup second : Graduated(g)
  BY <1>8
<1> HIDE DEF first, second
<1>11. PICK a, b :
         Assessment!Payments(D) = Assessment!When(a, first) \cup Assessment!When(b, second)
  <2> HIDE DEF live
  <2> QED BY <1>9, Zenon
<1>12. IsFiniteSet(Assessment!When(a, first)) /\ IsFiniteSet(Assessment!When(b, second))
  BY <1>7, WhenFinite
<1>13. IsFiniteSet(Assessment!Payments(D))
  BY <1>11, <1>12, FS_Union
<1> QED BY <1>10, <1>11, <1>13, WhenIn

LEMMA NumbersGraded ==
  ASSUME AssessmentInv, NEW D, D \subseteq Assessment!Indices
  PROVE  /\ IsFiniteSet(Assessment!DuplicateNumbers(D))
         /\ \A f \in Assessment!DuplicateNumbers(D) : Graduated(f)
<1> DEFINE number == [i \in D |-> <<Assessment!Rank(documents[i].role), documents[i].number>>]
           numbers == {<<Assessment!Rank(documents[i].role), documents[i].number>> : i \in D}
           of(n) == {i \in Assessment!Of(D, Assessment!RoleOrder[n[1]]) :
                       documents[i].number = n[2]}
           S == {m \in numbers : m[2] # 0 /\ Assessment!Cardinality(of(m)) > 1}
<1>1. IsFiniteSet(D)
  BY ReadLines
<1>2. numbers = {number[i] : i \in D}
  OBVIOUS
<1>3. IsFiniteSet({number[i] : i \in D})
  <2> HIDE DEF number
  <2> QED BY <1>1, FiniteImage
<1>4. S \subseteq numbers
  OBVIOUS
<1>5. IsFiniteSet(S)
  BY <1>2, <1>3, <1>4, FS_Subset
<1>6. Assessment!DuplicateNumbers(D) = {Assessment!At("duplicate_document_number", n) : n \in S}
  BY Zenon DEF Assessment!DuplicateNumbers
<1> HIDE DEF S
<1> QED BY <1>5, <1>6, PlacesGraded, GradesAre

LEMMA LinesGraded ==
  ASSUME AssessmentInv, NEW D, D \subseteq Assessment!Indices
  PROVE  /\ IsFiniteSet(Assessment!LineTotals(D))
         /\ IsFiniteSet(Assessment!DuplicateInvoiceLines(D))
         /\ \A f \in Assessment!LineTotals(D) \cup Assessment!DuplicateInvoiceLines(D) :
              Graduated(f)
<1>1. IsFiniteSet(Assessment!Lines(D))
  BY ReadLines
<1>2. PICK S : S \subseteq Assessment!Lines(D)
               /\ Assessment!LineTotals(D) = {Assessment!At("line_total_mismatch", x) : x \in S}
  <2> DEFINE S == {y \in Assessment!Lines(D) :
              /\ Assessment!Line(y).missing \cap {"quantity", "price", "total"} = {}
              /\ 1000 * Assessment!Abs(100 * Assessment!Line(y).total - Assessment!ExpectedTotal(y))
                   > Assessment!Max({300 * 1000, 5 * Assessment!Abs(Assessment!ExpectedTotal(y))})}
  <2>1. S \subseteq Assessment!Lines(D)
    BY SMT
  <2>2. Assessment!LineTotals(D) = {Assessment!At("line_total_mismatch", x) : x \in S}
    BY SMT DEF Assessment!LineTotals
  <2> HIDE DEF S
  <2> QED BY <2>1, <2>2
<1>3. PICK T : T \subseteq Assessment!Lines(Assessment!Of(D, "invoice"))
               /\ Assessment!DuplicateInvoiceLines(D)
                    = {Assessment!At("duplicate_invoice_line", x) : x \in T}
  BY Zenon DEF Assessment!DuplicateInvoiceLines
<1>4. T \subseteq Assessment!Lines(D)
  BY <1>3 DEF Assessment!Lines, Assessment!Of
<1>5. IsFiniteSet(S) /\ IsFiniteSet(T)
  BY <1>1, <1>2, <1>4, FS_Subset
<1>6. /\ IsFiniteSet(Assessment!LineTotals(D))
      /\ \A f \in Assessment!LineTotals(D) : Graduated(f)
  <2>1. "line_total_mismatch" \in DOMAIN Assessment!Grade
    BY GradesAre
  <2>2. /\ IsFiniteSet({Assessment!At("line_total_mismatch", x) : x \in S})
        /\ \A f \in {Assessment!At("line_total_mismatch", x) : x \in S} : Graduated(f)
    BY <1>5, <2>1, PlacesGraded
  <2> QED BY <1>2, <2>2, Zenon
<1>7. /\ IsFiniteSet(Assessment!DuplicateInvoiceLines(D))
      /\ \A f \in Assessment!DuplicateInvoiceLines(D) : Graduated(f)
  <2>1. "duplicate_invoice_line" \in DOMAIN Assessment!Grade
    BY GradesAre
  <2>2. /\ IsFiniteSet({Assessment!At("duplicate_invoice_line", x) : x \in T})
        /\ \A f \in {Assessment!At("duplicate_invoice_line", x) : x \in T} : Graduated(f)
    BY <1>5, <2>1, PlacesGraded
  <2> QED BY <1>3, <2>2, Zenon
<1> QED BY <1>6, <1>7

LEMMA RepeatsGraded ==
  ASSUME AssessmentInv, NEW D, D \subseteq Assessment!Indices
  PROVE  /\ IsFiniteSet(Assessment!DuplicatePayments(D))
         /\ \A f \in Assessment!DuplicatePayments(D) : Graduated(f)
<1> DEFINE pay == Assessment!Of(D, "payment")
<1>1. IsFiniteSet(pay)
  <2>1. pay \subseteq D
    BY DEF Assessment!Of
  <2> QED BY <2>1, ReadLines, FS_Subset
<1>2. PICK S : S \subseteq pay \X pay
               /\ Assessment!DuplicatePayments(D)
                    = {Assessment!At("duplicate_payment", q) : q \in S}
  BY Zenon DEF Assessment!DuplicatePayments
<1> HIDE DEF pay
<1>3. IsFiniteSet(pay \X pay)
  BY <1>1, FS_Product
<1>4. IsFiniteSet(S)
  BY <1>2, <1>3, FS_Subset
<1> QED BY <1>2, <1>4, PlacesGraded, GradesAre

LEMMA FindingsGraded ==
  ASSUME AssessmentInv
  PROVE  IsFiniteSet(Assessment!Findings) /\ \A f \in Assessment!Findings : Graduated(f)
<1> DEFINE E == Assessment!Evaluated
<1>1. E \subseteq Assessment!Indices
  BY EvaluatedIn
<1>2. /\ IsFiniteSet(Assessment!CurrencyMismatch(E))
      /\ \A f \in Assessment!CurrencyMismatch(E) : Graduated(f)
  <2>1. IsFiniteSet({Assessment!OfChain("currency_mismatch", 0)})
    BY FS_Singleton
  <2>2. Graduated(Assessment!OfChain("currency_mismatch", 0))
    BY GradedScores, GradesAre DEF Assessment!OfChain
  <2>3. PICK a, S : S = {Assessment!OfChain("currency_mismatch", 0)}
                    /\ Assessment!CurrencyMismatch(E) = Assessment!When(a, S)
    BY Zenon DEF Assessment!CurrencyMismatch
  <2>4. IsFiniteSet(Assessment!When(a, S))
    BY <2>1, <2>3, WhenFinite
  <2>5. \A f \in Assessment!When(a, S) : f \in S
    BY WhenIn
  <2> HIDE DEF E
  <2> QED BY <2>2, <2>3, <2>4, <2>5
<1> HIDE DEF E
<1>3. PICK A, B, C, F, G, H, I :
        /\ A = Assessment!CurrencyMismatch(E) /\ B = Assessment!DuplicateNumbers(E)
        /\ C = Assessment!LineTotals(E) /\ F = Assessment!ItemFindings(E)
        /\ G = Assessment!DuplicateInvoiceLines(E) /\ H = Assessment!Payments(E)
        /\ I = Assessment!DuplicatePayments(E)
  OBVIOUS
<1>4. /\ IsFiniteSet(A) /\ IsFiniteSet(B) /\ IsFiniteSet(C) /\ IsFiniteSet(F) /\ IsFiniteSet(G)
      /\ IsFiniteSet(H) /\ IsFiniteSet(I)
      /\ \A f \in A \cup B \cup C \cup F \cup G \cup H \cup I : Graduated(f)
  BY <1>1, <1>2, <1>3, NumbersGraded, LinesGraded, ItemsGraded, PaymentsGraded, RepeatsGraded
<1>5. IsFiniteSet(A \cup B \cup C \cup F \cup G \cup H \cup I)
  BY <1>4, FS_Union
<1>6. Assessment!Findings \subseteq A \cup B \cup C \cup F \cup G \cup H \cup I
  BY <1>3 DEF Assessment!Findings, Assessment!FindingsOf, E
<1> QED BY <1>4, <1>5, <1>6, FS_Subset

-----------------------------------------------------------------------------
(* The score of an assessment.                                             *)

(* The documents that a chain should have.                                  *)
Statuses == {"satisfied", "pending", "overdue", "missing_proof"}
Expecting(S) == IsFiniteSet(S) /\ \A e \in S : e.status \in Statuses /\ e.required \in BOOLEAN

LEMMA RaisedExpects == Expecting(Assessment!Raised)
<1>1. \A role, sources : \A required \in BOOLEAN :
        Expecting(Assessment!Expected(role, required, sources))
  <2> SUFFICES ASSUME NEW role, NEW sources, NEW required \in BOOLEAN
               PROVE  Expecting(Assessment!Expected(role, required, sources))
    OBVIOUS
  <2>1. PICK status \in Statuses :
          Assessment!Expected(role, required, sources)
            = {[role |-> role, required |-> required, status |-> status]}
    BY DEF Assessment!Expected, Statuses
  <2>2. PICK e : e = [role |-> role, required |-> required, status |-> status]
    OBVIOUS
  <2>3. e.status \in Statuses /\ e.required \in BOOLEAN
    BY <2>2
  <2>4. IsFiniteSet({e})
    BY FS_Singleton
  <2>5. Assessment!Expected(role, required, sources) = {e}
    BY <2>1, <2>2
  <2>6. Expecting({e})
    BY <2>3, <2>4 DEF Expecting
  <2> QED BY <2>5, <2>6
<1>2. \A role : Expecting(Assessment!Missing(role))
  <2> SUFFICES ASSUME NEW role, NEW e,
                      e = [role |-> role, required |-> TRUE, status |-> "missing_proof"]
               PROVE  Expecting({e})
    BY DEF Assessment!Missing
  <2>1. e.status \in Statuses /\ e.required \in BOOLEAN
    BY DEF Statuses
  <2>2. IsFiniteSet({e})
    BY FS_Singleton
  <2> QED BY <2>1, <2>2 DEF Expecting
<1>3. \A S, T : Expecting(S) /\ Expecting(T) => Expecting(S \cup T)
  BY FS_Union DEF Expecting
<1>4. \A condition, S : Expecting(S) => Expecting(Assessment!When(condition, S))
  BY FS_EmptySet DEF Expecting, Assessment!When
<1> DEFINE orders == Assessment!Of(Assessment!Indices, "order")
                       \cup Assessment!Of(Assessment!Indices, "confirmation")
           deliveries == Assessment!Of(Assessment!Indices, "delivery")
           A == Assessment!When(Assessment!Present("proposal") /\ orders = {},
                     Assessment!Expected("order", FALSE,
                       Assessment!Of(Assessment!Indices, "proposal")))
           B == Assessment!When(Assessment!Commercial # {} /\ Assessment!PhysicalGoods,
                     Assessment!Expected("delivery", TRUE, Assessment!Commercial))
           C == Assessment!When(Assessment!Commercial # {},
                     Assessment!Expected("invoice", TRUE,
                              IF deliveries # {} THEN deliveries ELSE Assessment!Commercial))
           D == Assessment!When(Assessment!Commercial = {}
                       /\ (Assessment!Present("delivery") \/ Assessment!Present("invoice")),
                     Assessment!Missing("order"))
           E == Assessment!When(Assessment!Present("invoice") /\ Assessment!PhysicalGoods
                       /\ ~Assessment!Present("delivery"),
                     Assessment!Missing("delivery"))
           F == Assessment!When(Assessment!Present("invoice"),
                     Assessment!Expected("payment", TRUE,
                       Assessment!Of(Assessment!Indices, "invoice")))
           G == Assessment!When(Assessment!Present("payment") /\ ~Assessment!Present("invoice"),
                     Assessment!Missing("invoice"))
           H == Assessment!When(Assessment!Present("return"),
                     Assessment!Expected("credit_note", TRUE,
                       Assessment!Of(Assessment!Indices, "return")))
<1>5. /\ Expecting(A) /\ Expecting(B) /\ Expecting(C) /\ Expecting(D) /\ Expecting(E)
      /\ Expecting(F) /\ Expecting(G) /\ Expecting(H)
  BY <1>1, <1>2, <1>4
<1>6. Assessment!Raised = A \cup B \cup C \cup D \cup E \cup F \cup G \cup H
  BY DEF Assessment!Raised
<1> HIDE DEF A, B, C, D, E, F, G, H
<1> QED BY <1>3, <1>5, <1>6

(* What has no proof is the gravest of its role, and is lacking.            *)
LEMMA MissingLacks ==
  ASSUME NEW role, Assessment!Missing(role) \subseteq Assessment!Raised
  PROVE  Assessment!Lacking # {}
<1>1. PICK e \in Assessment!Raised :
        e = [role |-> role, required |-> TRUE, status |-> "missing_proof"]
  BY DEF Assessment!Missing
<1>2. e.status = "missing_proof"
  BY <1>1
<1>3. \A status \in Statuses : Assessment!Gravity[status] <= Assessment!Gravity["missing_proof"]
  BY DEF Statuses, Assessment!Gravity
<1>4. \A f \in Assessment!Raised : Assessment!Gravity[f.status] <= Assessment!Gravity[e.status]
  BY <1>2, <1>3, RaisedExpects DEF Expecting
<1>5. e \in Assessment!Expectations
  BY <1>4 DEF Assessment!Expectations
<1> QED BY <1>2, <1>5 DEF Assessment!Lacking

LEMMA LackingIs ==
  /\ Assessment!Commercial = {} /\ (Assessment!Present("delivery") \/ Assessment!Present("invoice"))
       => Assessment!Lacking # {}
  /\ Assessment!Present("invoice") /\ Assessment!PhysicalGoods /\ ~Assessment!Present("delivery")
       => Assessment!Lacking # {}
  /\ Assessment!Present("payment") /\ ~Assessment!Present("invoice") => Assessment!Lacking # {}
<1>1. ASSUME Assessment!Commercial = {},
             Assessment!Present("delivery") \/ Assessment!Present("invoice")
      PROVE  Assessment!Missing("order") \subseteq Assessment!Raised
  BY <1>1 DEF Assessment!Raised, Assessment!When
<1>2. ASSUME Assessment!Present("invoice"), Assessment!PhysicalGoods,
             ~Assessment!Present("delivery")
      PROVE  Assessment!Missing("delivery") \subseteq Assessment!Raised
  BY <1>2 DEF Assessment!Raised, Assessment!When
<1>3. ASSUME Assessment!Present("payment"), ~Assessment!Present("invoice")
      PROVE  Assessment!Missing("invoice") \subseteq Assessment!Raised
  BY <1>3 DEF Assessment!Raised, Assessment!When
<1> QED BY <1>1, <1>2, <1>3, MissingLacks

(* A score is not below any of its parts.                                   *)
LEMMA PointsAre == \A n \in Nat, condition \in BOOLEAN :
  Assessment!Points(n, condition) = (IF condition THEN 100 * n ELSE 0)
BY DEF Assessment!Points

LEMMA CaseScores ==
  ASSUME AssessmentInv
  PROVE  LET S == Assessment!SumFunction([f \in Assessment!Findings |-> Assessment!CaseScore(f)])
         IN S \in Nat /\ \A f \in Assessment!Findings : Assessment!CaseScore(f) <= S
<1> DEFINE F == Assessment!Findings
           g == [f \in F |-> Assessment!CaseScore(f)]
<1>1. IsFiniteSet(F) /\ \A f \in F : g[f] \in Nat
  BY FindingsGraded DEF Graduated
<1>2. DOMAIN g = F /\ g = [f \in DOMAIN g |-> g[f]]
  OBVIOUS
<1>3. \A f \in F : g[f] = Assessment!CaseScore(f)
  OBVIOUS
<1> HIDE DEF g
<1>4. SumFunction(g) \in Nat /\ \A f \in F : g[f] <= SumFunction(g)
  BY <1>1, <1>2, SumNat
<1> QED BY <1>3, <1>4, AssessmentSum DEF g

LEMMA LateScores ==
  Assessment!SumFunction([e \in Assessment!Late |-> IF e.required THEN 1600 ELSE 700]) \in Nat
<1> DEFINE F == Assessment!Late
           g == [e \in F |-> IF e.required THEN 1600 ELSE 700]
<1>1. F \subseteq Assessment!Raised
  BY DEF Assessment!Late, Assessment!Expectations
<1>2. IsFiniteSet(F)
  BY <1>1, RaisedExpects, FS_Subset DEF Expecting
<1>3. \A e \in F : g[e] \in Nat
  BY <1>1, SMT
<1>4. DOMAIN g = F /\ g = [e \in DOMAIN g |-> g[e]]
  BY SMT
<1> HIDE DEF g, F
<1>5. SumFunction(g) \in Nat
  BY <1>2, <1>3, <1>4, SumNat
<1> QED BY <1>5, AssessmentSum DEF g, F

LEMMA LackingScores ==
  LET n == Assessment!Cardinality(Assessment!Lacking)
  IN n \in Nat /\ (Assessment!Lacking # {} => n >= 1)
<1>1. Assessment!Lacking \subseteq Assessment!Raised
  BY DEF Assessment!Lacking, Assessment!Expectations
<1>2. IsFiniteSet(Assessment!Lacking)
  BY <1>1, RaisedExpects, FS_Subset DEF Expecting
<1>3. Cardinality(Assessment!Lacking) \in Nat
  BY <1>2, FS_CardinalityType
<1>4. Cardinality(Assessment!Lacking) = 0 <=> Assessment!Lacking = {}
  BY <1>2, FS_EmptySet
<1> QED BY <1>3, <1>4, AssessmentCardinality

LEMMA BetweenScores == Assessment!Cardinality(Assessment!MissingBetween) \in Nat
<1>1. \E n \in Nat : Assessment!MissingBetween \subseteq 1..n
  <2>1. CASE Usual # <<>>
    <3>1. DOMAIN Usual = 1..Len(Usual) /\ Len(Usual) \in Nat
      BY UsualAssumption
    <3>2. Assessment!MissingBetween \subseteq DOMAIN Usual
      BY <2>1 DEF Assessment!MissingBetween
    <3> QED BY <3>1, <3>2
  <2>2. CASE Usual = <<>>
    <3> DEFINE course == <<IF Assessment!Commercial = {} THEN "order"
                           ELSE Assessment!CommercialRole(Assessment!Indices),
                           "invoice", "payment">>
    <3>1. Assessment!MissingBetween \subseteq DOMAIN course
      BY <2>2 DEF Assessment!MissingBetween
    <3>2. DOMAIN course = 1..3
      OBVIOUS
    <3> QED BY <3>1, <3>2
  <2> QED BY <2>1, <2>2
<1>2. PICK n \in Nat : Assessment!MissingBetween \subseteq 1..n
  BY <1>1
<1>3. IsFiniteSet(1..n)
  BY FS_Interval
<1>4. IsFiniteSet(Assessment!MissingBetween)
  BY <1>2, <1>3, FS_Subset
<1> QED BY <1>4, FS_CardinalityType, AssessmentCardinality

LEMMA CommonScores ==
  ASSUME AssessmentInv
  PROVE  /\ Assessment!CommonScore \in Nat
         /\ \A f \in Assessment!Findings : Assessment!CaseScore(f) <= Assessment!CommonScore
         /\ Assessment!Lacking # {} => Assessment!CommonScore >= 2400
<1>1. PICK a \in Nat :
        /\ a = Assessment!SumFunction([f \in Assessment!Findings |-> Assessment!CaseScore(f)])
        /\ \A f \in Assessment!Findings : Assessment!CaseScore(f) <= a
  BY CaseScores
<1>2. PICK b \in Nat : b = Assessment!Cardinality(Assessment!Lacking)
                       /\ (Assessment!Lacking # {} => b >= 1)
  BY LackingScores
<1>3. PICK c \in Nat :
        c = Assessment!SumFunction([e \in Assessment!Late |-> IF e.required THEN 1600 ELSE 700])
  BY LateScores
<1>4. PICK d \in Nat : d = Assessment!Points(35, Assessment!PaidTwice)
  BY SMT DEF Assessment!Points
<1>5. PICK k \in Nat : k = Assessment!Cardinality(Assessment!MissingBetween)
  BY BetweenScores
<1>6. PICK m \in Nat : m = Assessment!Min({2400, 800 * k})
  <2>1. PICK u \in Nat, v \in Nat : u = 2400 /\ v = 800 * k
    BY SMT
  <2>2. Assessment!Min({u, v}) = IF u <= v THEN u ELSE v
    BY <2>1, MinOfTwo
  <2> QED BY <2>1, <2>2, SMT
<1>7. PICK e \in Nat :
        e = Assessment!Points(IF Assessment!Reading < 70 THEN 18 ELSE 8, Assessment!Reading < 85)
  BY SMT DEF Assessment!Points
<1>8. Assessment!CommonScore = a + 2400 * b + c + d + m + e
  BY SMT, <1>1, <1>2, <1>3, <1>4, <1>5, <1>6, <1>7 DEF Assessment!CommonScore
<1>9. \A f \in Assessment!Findings : Assessment!CaseScore(f) \in Nat
  BY FindingsGraded DEF Graduated
<1>10. a + 2400 * b + c + d + m + e \in Nat /\ a <= a + 2400 * b + c + d + m + e
       /\ (b >= 1 => a + 2400 * b + c + d + m + e >= 2400)
  BY SMT
<1> QED BY SMT, <1>1, <1>2, <1>8, <1>9, <1>10

LEMMA Allowing ==
  ASSUME AssessmentInv, NEW action \in Assessment!Actions,
         Assessment!DecisionAt(Assessment!Score[action]) = "allow"
  PROVE  /\ \A f \in Assessment!Findings : f.severity \notin {"high", "critical"}
         /\ Assessment!Lacking = {}
         /\ Assessment!Present(Assessment!ActionRole[action])
<1>1. PICK n \in Nat : n = Assessment!CommonScore
  BY CommonScores
<1>2. PICK a \in Nat :
        /\ a = Assessment!Points(70, ~Assessment!Present(Assessment!ActionRole[action]))
        /\ ~Assessment!Present(Assessment!ActionRole[action]) => a = 7000
  BY SMT DEF Assessment!Points
<1>3. PICK b \in Nat : b = Assessment!Points(25, action = "approve_invoice"
                                                 /\ Assessment!Cardinality(Assessment!Lacking) > 1)
  BY SMT DEF Assessment!Points
<1>4. PICK c \in Nat : c = Assessment!Points(30, action = "approve_payment" /\ Assessment!Overpaid)
  BY SMT DEF Assessment!Points
<1>5. Assessment!Score[action] = n + a + b + c
  BY SMT, <1>1, <1>2, <1>3, <1>4 DEF Assessment!Score
<1>6. n + a + b + c < 1995
  <2>1. PICK s \in Nat : s = n + a + b + c
    BY SMT
  <2>2. ~((s + 5) \div 10 >= 200)
    BY SMT, <1>5, <2>1 DEF Assessment!DecisionAt
  <2> QED BY SMT, <2>1, <2>2
<1>7. n < 1995 /\ a # 7000
  BY SMT, <1>6
<1>8. \A f \in Assessment!Findings : f.severity \in {"high", "critical"} => n >= 2002
  BY SMT, <1>1, CommonScores, FindingsGraded DEF Graduated
<1>9. Assessment!Lacking # {} => n >= 2400
  BY SMT, <1>1, CommonScores
<1> QED BY SMT, <1>2, <1>7, <1>8, <1>9

(* What an assessment allows is sound.                                      *)
LEMMA AllowedRests ==
  ASSUME AssessmentInv, NEW action \in Assessment!Actions,
         Assessment!DecisionAt(Assessment!Score[action]) = "allow"
  PROVE  Assessment!ProvedBy(action)
<1>1. Assessment!Lacking = {} /\ Assessment!Present(Assessment!ActionRole[action])
  BY Allowing
<1>2. /\ action = "approve_invoice" => Assessment!Present("invoice")
      /\ action = "approve_payment" => Assessment!Present("payment")
      /\ action = "accept_delivery" => Assessment!Present("delivery")
      /\ action \in {"approve_invoice", "approve_payment", "accept_delivery"}
  BY <1>1 DEF Assessment!ActionRole, Assessment!Actions
<1>3. Assessment!Present("payment") => Assessment!Present("invoice")
  BY <1>1, LackingIs
<1>4. Assessment!Commercial # {}
  BY <1>1, <1>2, <1>3, LackingIs
<1> QED BY <1>1, <1>2, <1>3, <1>4, LackingIs DEF Assessment!ProvedBy

LEMMA AllowedPays ==
  ASSUME AssessmentInv, Assessment!Present("invoice"), Assessment!Whole,
         active = Assessment!Proposed, Assessment!Comparable,
         \A f \in Assessment!Findings : f.severity \notin {"high", "critical"}
  PROVE  \/ Assessment!Paid <= Assessment!Owed
         \/ \E f \in Assessment!Findings : f.type = "line_total_mismatch"
<1> SUFFICES ASSUME ~\E f \in Assessment!Findings : f.type = "line_total_mismatch"
             PROVE  Assessment!Paid <= Assessment!Owed
  OBVIOUS
<1>1. Calm
  BY DEF Calm
<1>2. Assessment!Of(Assessment!Evaluated, "invoice") # {}
  BY DEF Assessment!Present, Assessment!Whole
<1> QED BY <1>1, <1>2, PaymentsWithin

LEMMA AllowedSound == AssessmentHolds => AllowedIsSound
<1> SUFFICES ASSUME AssessmentInv, NEW action \in Assessment!Actions,
                    Assessment!DecisionAt(Assessment!Score[action]) = "allow"
             PROVE  /\ Assessment!ProvedBy(action)
                    /\ \A f \in Assessment!Findings : f.severity \notin {"high", "critical"}
                    /\ action = "approve_payment" /\ Assessment!Whole
                         /\ active = Assessment!Proposed /\ Assessment!Comparable
                       => \/ Assessment!Paid <= Assessment!Owed
                          \/ \E f \in Assessment!Findings : f.type = "line_total_mismatch"
  BY Zenon DEF AssessmentHolds, AllowedIsSound, Assessment!AllowedIsSound
<1>1. Assessment!ProvedBy(action)
  BY AllowedRests
<1>2. \A f \in Assessment!Findings : f.severity \notin {"high", "critical"}
  BY Allowing
<1>3. action = "approve_payment" => Assessment!Present("invoice")
  BY <1>1 DEF Assessment!ProvedBy
<1> QED BY <1>1, <1>2, <1>3, AllowedPays

(* What assess_risk allows has the documents it should rest on, no high or *)
(* critical finding against it, and a payment, if nothing was set aside,   *)
(* every rule is in force and the documents can be compared, does not      *)
(* exceed what was agreed but for lines that contradict themselves.        *)
THEOREM AllowedStaysSound == Spec => []AllowedIsSound
BY AssessmentAlways, AllowedSound, PTL
=============================================================================

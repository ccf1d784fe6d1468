----------------------------- MODULE DataLemmas ------------------------------
(***************************************************************************)
(* Facts about numbers, finite sets, functions and linked lists that do    *)
(* not mention the program.  Induction on a number is stated for sets: a   *)
(* set that holds 0 and the successors of its elements holds every number. *)
(***************************************************************************)
EXTENDS Integers, Sequences, FiniteSets, Functions, FiniteSetTheorems, TLAPS

-----------------------------------------------------------------------------
(***************************************************************************)
(* Induction.                                                              *)
(***************************************************************************)
LEMMA LeastNatural ==
  ASSUME NEW T \in SUBSET Nat, T # {}
  PROVE  \E m \in T : \A k \in T : m <= k
<1>1. PICK m \in T : \A k \in T : ~(<<k, m>> \in OpToRel(<, Nat))
  BY WFMin, NatLessThanWellFounded
<1>2. \A k \in T : <<k, m>> \in Nat \X Nat
  OBVIOUS
<1>3. \A k \in T : ~(k < m)
  BY <1>1, <1>2, Zenon DEF OpToRel
<1>. QED BY <1>3

(* A set that holds 0 and the successors of its elements holds all natural *)
(* numbers.                                                                *)
LEMMA NaturalInduction ==
  ASSUME NEW S, 0 \in S, \A n \in Nat : n \in S => n + 1 \in S
  PROVE  \A n \in Nat : n \in S
<1> SUFFICES ASSUME NEW n \in Nat, n \notin S PROVE FALSE
  OBVIOUS
<1> DEFINE T == {k \in Nat : k \notin S}
<1>1. PICK m \in T : \A k \in T : m <= k
  <2>1. T \in SUBSET Nat /\ T # {}
    OBVIOUS
  <2> HIDE DEF T
  <2>. QED BY <2>1, LeastNatural
<1>2. m # 0 /\ m - 1 \in Nat /\ m - 1 \notin T
  BY <1>1
<1>. QED BY <1>1, <1>2

(* Two functions that start alike and apply g again and again agree. *)
LEMMA IterationUnique ==
  ASSUME NEW e, NEW f, NEW g, NEW m \in Nat, e[0] = f[0],
         \A i \in 0 .. m - 1 : e[i + 1] = g[e[i]] /\ f[i + 1] = g[f[i]]
  PROVE  \A i \in 0 .. m : e[i] = f[i]
<1> DEFINE Same == {n \in Nat : n <= m => e[n] = f[n]}
<1>1. 0 \in Same
  OBVIOUS
<1>2. ASSUME NEW n \in Nat, n \in Same PROVE n + 1 \in Same
  <2>1. CASE n + 1 <= m
    <3>1. n \in 0 .. m - 1 /\ e[n] = f[n]
      BY <1>2, <2>1
    <3>. QED BY <3>1
  <2>2. CASE ~(n + 1 <= m)
    BY <2>2
  <2>. QED BY <2>1, <2>2
<1> HIDE DEF Same
<1>3. \A n \in Nat : n \in Same
  BY <1>1, <1>2, NaturalInduction
<1>. QED BY <1>3 DEF Same

(* A function that starts at h and applies g again and again: there is     *)
(* one, since there is one for every initial segment.                      *)
LEMMA IterationFromStart ==
  ASSUME NEW S, NEW h \in S, NEW g \in [S -> S]
  PROVE  \E f \in [Nat -> S] : f[0] = h /\ \A n \in Nat : f[n + 1] = g[f[n]]
<1> DEFINE Starts(f, n) == f[0] = h /\ \A i \in 0 .. n - 1 : f[i + 1] = g[f[i]]
           Some == {n \in Nat : \E f \in [0 .. n -> S] : Starts(f, n)}
<1>1. \A n \in Nat : n \in Some
  <2>1. 0 \in Some
    <3>1. [i \in 0 .. 0 |-> h] \in [0 .. 0 -> S] /\ Starts([i \in 0 .. 0 |-> h], 0)
      OBVIOUS
    <3>. QED BY <3>1
  <2>2. ASSUME NEW n \in Nat, n \in Some PROVE n + 1 \in Some
    <3>1. PICK f \in [0 .. n -> S] : Starts(f, n)
      BY <2>2
    <3> DEFINE e == [i \in 0 .. n + 1 |-> IF i = n + 1 THEN g[f[n]] ELSE f[i]]
    <3>2. e \in [0 .. n + 1 -> S] /\ e[0] = h
      BY <3>1
    <3>3. ASSUME NEW i \in 0 .. n PROVE e[i + 1] = g[e[i]]
      BY <3>1
    <3> HIDE DEF e
    <3>4. 0 .. (n + 1) - 1 = 0 .. n
      OBVIOUS
    <3>5. Starts(e, n + 1)
      BY <3>2, <3>3, <3>4
    <3> HIDE DEF Starts
    <3>. QED BY <3>2, <3>5
  <2> HIDE DEF Some
  <2>. QED BY <2>1, <2>2, NaturalInduction
<1> DEFINE Start(n) == CHOOSE f \in [0 .. n -> S] : Starts(f, n)
           f == [n \in Nat |-> Start(n)[n]]
<1>2. ASSUME NEW n \in Nat PROVE Start(n) \in [0 .. n -> S] /\ Starts(Start(n), n)
  <2>1. \E e \in [0 .. n -> S] : Starts(e, n)
    BY <1>1
  <2> HIDE DEF Starts
  <2>. QED BY <2>1
<1> HIDE DEF Start
<1>3. f \in [Nat -> S] /\ f[0] = h
  BY <1>2
<1>4. ASSUME NEW n \in Nat PROVE f[n + 1] = g[f[n]]
  <2>1. PICK e, d : e = Start(n) /\ d = Start(n + 1)
    OBVIOUS
  <2>2. n + 1 \in Nat /\ (n + 1) - 1 = n
    OBVIOUS
  <2>3. Starts(e, n) /\ Starts(d, n + 1)
    BY <1>2, <2>1, <2>2
  <2>4. \A i \in 0 .. n - 1 : e[i + 1] = g[e[i]] /\ d[i + 1] = g[d[i]]
    BY <2>3
  <2>5. e[0] = d[0]
    BY <2>3
  <2>6. e[n] = d[n]
    BY <2>4, <2>5, IterationUnique
  <2>7. d[n + 1] = g[d[n]]
    BY <2>2, <2>3
  <2>. QED BY <2>1, <2>2, <2>6, <2>7
<1>. QED BY <1>3, <1>4

IsArray(link, D) == link \in [D -> Int]

Iterates(S, h, g) ==
  \E f \in [Nat -> S] : f[0] = h /\ \A n \in Nat : f[n + 1] = g[f[n]]

(* A function on S can be iterated. *)
LEMMA IterationExists ==
  ASSUME NEW S, NEW h \in S, NEW g \in [S -> S]
  PROVE  Iterates(S, h, g)
BY IterationFromStart DEF Iterates

(* From h along link, for as long as link goes on, and then end. *)
WalkOf(link, h, end) ==
  LET walk[i \in Nat] ==
        IF i = 0 THEN h
        ELSE LET n == walk[i - 1] IN IF n \in DOMAIN link THEN link[n] ELSE end
  IN  walk

(* The walk starts at h and follows the links as long as there are any. *)
LEMMA WalkOfIs ==
  ASSUME NEW D, NEW link, IsArray(link, D), NEW h \in Int, NEW end \in Int,
         NEW w, w = WalkOf(link, h, end)
  PROVE  w[0] = h /\ \A i \in Nat : w[i + 1] = IF w[i] \in D THEN link[w[i]] ELSE end
<1> DEFINE Walks(f) ==
             f = [i \in Nat |-> IF i = 0 THEN h
                                ELSE LET n == f[i - 1]
                                     IN  IF n \in DOMAIN link THEN link[n] ELSE end]
<1>1. \E f : Walks(f)
  <2>1. PICK S : S = Int
    OBVIOUS
  <2>2. PICK g \in [S -> S] : \A n \in S : g[n] = IF n \in D THEN link[n] ELSE end
    <3>1. [n \in Int |-> IF n \in D THEN link[n] ELSE end] \in [Int -> Int]
      BY DEF IsArray
    <3>. QED BY <2>1, <3>1
  <2>3. PICK e \in S : e = h
    BY <2>1
  <2>4. PICK f \in [Nat -> S] : f[0] = e /\ \A n \in Nat : f[n + 1] = g[f[n]]
    <3>1. Iterates(S, e, g)
      BY <2>2, <2>3, IterationExists
    <3>. QED BY <3>1 DEF Iterates
  <2>6. DOMAIN link = D
    BY DEF IsArray
  <2>5. ASSUME NEW i \in Nat
        PROVE  f[i] = IF i = 0 THEN h
                      ELSE IF f[i - 1] \in DOMAIN link THEN link[f[i - 1]] ELSE end
    <3>1. CASE i # 0
      <4>1. i - 1 \in Nat /\ (i - 1) + 1 = i
        BY <3>1
      <4>. QED BY <4>1, <2>2, <2>4, <2>6, <3>1
    <3>. QED BY <3>1, <2>3, <2>4
  <2>. QED BY <2>4, <2>5
<1>2. w = CHOOSE f : Walks(f)
  BY DEF WalkOf
<1>3. Walks(w)
  BY <1>1, <1>2
<1>4. ASSUME NEW i \in Nat PROVE w[i + 1] = IF w[i] \in D THEN link[w[i]] ELSE end
  <2>1. i + 1 \in Nat /\ i + 1 # 0 /\ (i + 1) - 1 = i
    OBVIOUS
  <2>. QED BY <2>1, <1>3 DEF IsArray
<1>. QED BY <1>3, <1>4

-----------------------------------------------------------------------------
(***************************************************************************)
(* Linked lists: link[x] is the element after x.                           *)
(***************************************************************************)
(* s visits the n elements of N, each once, from first until it is at end. *)
IsWalk(s, link, first, end, N, n) ==
  /\ s[0] = first /\ s[n] = end
  /\ \A i \in 0 .. n - 1 : s[i] \in N /\ link[s[i]] = s[i + 1]
  /\ \A i, j \in 0 .. n - 1 : s[i] = s[j] => i = j
  /\ \A x \in N : \E i \in 0 .. n - 1 : s[i] = x

Chain(link, first, end, N, n) ==
  n \in Nat /\ \E s : IsWalk(s, link, first, end, N, n)

(* The empty list. *)
LEMMA ChainEmpty ==
  ASSUME NEW link, NEW end
  PROVE  Chain(link, end, end, {}, 0)
<1>1. PICK s : s = [i \in {0} |-> end]
  OBVIOUS
<1>2. IsWalk(s, link, end, end, {}, 0)
  BY <1>1 DEF IsWalk
<1>. QED BY <1>2 DEF Chain

(* A list does not depend on the links of other nodes. *)
LEMMA ChainAgree ==
  ASSUME NEW link, NEW first, NEW end, NEW N, NEW n, Chain(link, first, end, N, n),
         NEW other, \A x \in N : other[x] = link[x]
  PROVE  Chain(other, first, end, N, n)
<1>1. PICK s : IsWalk(s, link, first, end, N, n)
  BY DEF Chain
<1>2. IsWalk(s, other, first, end, N, n)
  BY <1>1 DEF IsWalk
<1>. QED BY <1>2 DEF Chain

(* A list without its first node. *)
LEMMA ChainPop ==
  ASSUME NEW link, NEW first, NEW end, NEW N, NEW n, Chain(link, first, end, N, n),
         end \notin N, first # end
  PROVE  /\ first \in N /\ n - 1 \in Nat
         /\ Chain(link, link[first], end, N \ {first}, n - 1)
<1>1. PICK s : n \in Nat /\ IsWalk(s, link, first, end, N, n)
  BY DEF Chain
<1>2. n # 0
  BY <1>1 DEF IsWalk
<1>3. n - 1 \in Nat /\ 0 \in 0 .. n - 1
  BY <1>1, <1>2
<1>4. first \in N /\ link[first] = s[1]
  BY <1>1, <1>3 DEF IsWalk
<1>5. PICK t : t = [i \in 0 .. n - 1 |-> s[i + 1]]
  OBVIOUS
<1>6. IsWalk(t, link, link[first], end, N \ {first}, n - 1)
  <2>1. t[0] = link[first] /\ t[n - 1] = end
    BY <1>1, <1>3, <1>4, <1>5 DEF IsWalk
  <2>2. ASSUME NEW i \in 0 .. (n - 1) - 1
        PROVE  t[i] \in N \ {first} /\ link[t[i]] = t[i + 1]
    <3>1. i \in 0 .. n - 1 /\ i + 1 \in 0 .. n - 1 /\ i + 1 # 0
      BY <1>1
    <3>2. s[i + 1] \in N /\ s[i + 1] # s[0] /\ link[s[i + 1]] = s[(i + 1) + 1]
      BY <1>1, <1>3, <3>1 DEF IsWalk
    <3>. QED BY <1>1, <1>5, <3>1, <3>2 DEF IsWalk
  <2>3. ASSUME NEW i \in 0 .. (n - 1) - 1, NEW j \in 0 .. (n - 1) - 1, t[i] = t[j]
        PROVE  i = j
    <3>1. /\ i \in 0 .. n - 1 /\ i + 1 \in 0 .. n - 1
          /\ j \in 0 .. n - 1 /\ j + 1 \in 0 .. n - 1
      BY <1>1
    <3>2. s[i + 1] = s[j + 1]
      BY <2>3, <3>1, <1>5
    <3>3. i + 1 = j + 1
      BY <3>1, <3>2, <1>1 DEF IsWalk
    <3>. QED BY <3>3
  <2>4. ASSUME NEW x \in N \ {first} PROVE \E i \in 0 .. (n - 1) - 1 : t[i] = x
    <3>1. PICK i \in 0 .. n - 1 : s[i] = x
      BY <1>1 DEF IsWalk
    <3>2. i # 0
      BY <1>1, <3>1 DEF IsWalk
    <3>3. i - 1 \in 0 .. (n - 1) - 1 /\ i - 1 \in 0 .. n - 1 /\ (i - 1) + 1 = i
      BY <3>2, <1>1
    <3>. QED BY <3>1, <3>3, <1>5
  <2>. QED BY <2>1, <2>2, <2>3, <2>4 DEF IsWalk
<1>. QED BY <1>3, <1>4, <1>6 DEF Chain

(* A list with one more node at its front. *)
LEMMA ChainPush ==
  ASSUME NEW link, NEW first, NEW end, NEW N, NEW n, Chain(link, first, end, N, n),
         NEW x, x \notin N, link[x] = first
  PROVE  Chain(link, x, end, N \cup {x}, n + 1)
<1>1. PICK s : n \in Nat /\ IsWalk(s, link, first, end, N, n)
  BY DEF Chain
<1>2. PICK t : t = [i \in 0 .. n + 1 |-> IF i = 0 THEN x ELSE s[i - 1]]
  OBVIOUS
<1>3. t[0] = x /\ \A i \in 0 .. n : t[i + 1] = s[i]
  BY <1>1, <1>2
<1>4. IsWalk(t, link, x, end, N \cup {x}, n + 1)
  <2>1. t[0] = x /\ t[n + 1] = end
    BY <1>1, <1>3 DEF IsWalk
  <2>2. ASSUME NEW i \in 0 .. (n + 1) - 1
        PROVE  t[i] \in N \cup {x} /\ link[t[i]] = t[i + 1]
    <3>1. CASE i = 0
      BY <3>1, <1>1, <1>3 DEF IsWalk
    <3>2. CASE i # 0
      <4>1. i - 1 \in 0 .. n - 1 /\ (i - 1) + 1 = i /\ i \in 0 .. n /\ i - 1 \in 0 .. n
        BY <3>2, <1>1
      <4>2. t[i] = s[i - 1] /\ t[i + 1] = s[i]
        BY <4>1, <1>3
      <4>3. s[i - 1] \in N /\ link[s[i - 1]] = s[i]
        BY <4>1, <1>1 DEF IsWalk
      <4>. QED BY <4>2, <4>3
    <3>. QED BY <3>1, <3>2
  <2>3. ASSUME NEW i \in 0 .. (n + 1) - 1, NEW j \in 0 .. (n + 1) - 1, t[i] = t[j]
        PROVE  i = j
    <3>1. \A k \in 0 .. (n + 1) - 1 :
            k # 0 => k - 1 \in 0 .. n - 1 /\ t[k] = s[k - 1] /\ s[k - 1] \in N
      <4> SUFFICES ASSUME NEW k \in 0 .. (n + 1) - 1, k # 0
                   PROVE  k - 1 \in 0 .. n - 1 /\ t[k] = s[k - 1] /\ s[k - 1] \in N
        OBVIOUS
      <4>1. k - 1 \in 0 .. n - 1 /\ k - 1 \in 0 .. n /\ (k - 1) + 1 = k
        BY <1>1
      <4>. QED BY <4>1, <1>1, <1>3 DEF IsWalk
    <3>2. CASE i = 0 \/ j = 0
      BY <3>1, <3>2, <2>3, <1>3
    <3>3. CASE i # 0 /\ j # 0
      <4>1. i - 1 \in 0 .. n - 1 /\ j - 1 \in 0 .. n - 1 /\ s[i - 1] = s[j - 1]
        BY <3>1, <3>3, <2>3
      <4>2. i - 1 = j - 1
        BY <4>1, <1>1 DEF IsWalk
      <4>. QED BY <4>2
    <3>. QED BY <3>2, <3>3
  <2>4. ASSUME NEW y \in N \cup {x} PROVE \E i \in 0 .. (n + 1) - 1 : t[i] = y
    <3>1. CASE y = x
      BY <3>1, <1>1, <1>3
    <3>2. CASE y \in N
      <4>1. PICK i \in 0 .. n - 1 : s[i] = y
        BY <3>2, <1>1 DEF IsWalk
      <4>2. i + 1 \in 0 .. (n + 1) - 1 /\ i \in 0 .. n
        BY <1>1
      <4>. QED BY <4>1, <4>2, <1>3
    <3>. QED BY <3>1, <3>2
  <2>. QED BY <2>1, <2>2, <2>3, <2>4 DEF IsWalk
<1>. QED BY <1>1, <1>4 DEF Chain

(* A chain that ends where another begins. *)
LEMMA ChainConcat ==
  ASSUME NEW link, NEW first, NEW mid, NEW end,
         NEW M, NEW m, Chain(link, first, mid, M, m),
         NEW N, NEW n, Chain(link, mid, end, N, n), M \cap N = {}
  PROVE  Chain(link, first, end, M \cup N, m + n)
<1>1. PICK s : m \in Nat /\ IsWalk(s, link, first, mid, M, m)
  BY DEF Chain
<1>2. PICK t : n \in Nat /\ IsWalk(t, link, mid, end, N, n)
  BY DEF Chain
<1>3. PICK r : r = [i \in 0 .. m + n |-> IF i < m THEN s[i] ELSE t[i - m]]
  OBVIOUS
<1>4. /\ \A i \in 0 .. m - 1 : r[i] = s[i]
      /\ \A i \in 0 .. n : r[i + m] = t[i]
  BY <1>1, <1>2, <1>3
<1>5. \A i \in 0 .. m : r[i] = s[i]
  <2>1. r[m] = s[m]
    <3>1. 0 \in 0 .. n /\ 0 + m = m
      BY <1>1, <1>2
    <3>. QED BY <3>1, <1>1, <1>2, <1>4 DEF IsWalk
  <2>. QED BY <2>1, <1>1, <1>4
<1>6. \A i \in 0 .. (m + n) - 1 :
        \/ i \in 0 .. m - 1 /\ r[i] = s[i] /\ r[i] \in M
        \/ i - m \in 0 .. n - 1 /\ r[i] = t[i - m] /\ r[i] \in N
  <2> SUFFICES ASSUME NEW i \in 0 .. (m + n) - 1
               PROVE  \/ i \in 0 .. m - 1 /\ r[i] = s[i] /\ r[i] \in M
                      \/ i - m \in 0 .. n - 1 /\ r[i] = t[i - m] /\ r[i] \in N
    OBVIOUS
  <2>1. CASE i < m
    <3>1. i \in 0 .. m - 1
      BY <2>1, <1>1, <1>2
    <3>. QED BY <3>1, <1>1, <1>4 DEF IsWalk
  <2>2. CASE ~(i < m)
    <3>1. i - m \in 0 .. n - 1 /\ i - m \in 0 .. n /\ (i - m) + m = i
      BY <2>2, <1>1, <1>2
    <3>. QED BY <3>1, <1>2, <1>4 DEF IsWalk
  <2>. QED BY <2>1, <2>2
<1>7. r[0] = first /\ r[m + n] = end
  <2>1. 0 \in 0 .. m /\ n \in 0 .. n /\ m + n = n + m
    BY <1>1, <1>2
  <2>2. r[0] = s[0] /\ r[n + m] = t[n]
    BY <2>1, <1>4, <1>5
  <2>. QED BY <2>1, <2>2, <1>1, <1>2 DEF IsWalk
<1>8. ASSUME NEW i \in 0 .. (m + n) - 1
      PROVE  r[i] \in M \cup N /\ link[r[i]] = r[i + 1]
  <2>1. CASE i < m
    <3>1. i \in 0 .. m - 1 /\ i \in 0 .. m /\ i + 1 \in 0 .. m
      BY <2>1, <1>1, <1>2
    <3>. QED BY <3>1, <1>1, <1>5 DEF IsWalk
  <2>2. CASE ~(i < m)
    <3>1. /\ i - m \in 0 .. n - 1 /\ i - m \in 0 .. n /\ (i - m) + m = i
          /\ (i - m) + 1 \in 0 .. n /\ ((i - m) + 1) + m = i + 1
      BY <2>2, <1>1, <1>2
    <3>2. r[i] = t[i - m] /\ r[i + 1] = t[(i - m) + 1]
      BY <3>1, <1>4
    <3>3. t[i - m] \in N /\ link[t[i - m]] = t[(i - m) + 1]
      BY <3>1, <1>2 DEF IsWalk
    <3>. QED BY <3>2, <3>3
  <2>. QED BY <2>1, <2>2
<1>9. ASSUME NEW i \in 0 .. (m + n) - 1, NEW j \in 0 .. (m + n) - 1, r[i] = r[j]
      PROVE  i = j
  <2>1. CASE i \in 0 .. m - 1 /\ r[i] = s[i] /\ r[i] \in M
    <3>1. j \in 0 .. m - 1 /\ r[j] = s[j]
      BY <2>1, <1>6, <1>9
    <3>. QED BY <2>1, <3>1, <1>1, <1>9 DEF IsWalk
  <2>2. CASE i - m \in 0 .. n - 1 /\ r[i] = t[i - m] /\ r[i] \in N
    <3>1. j - m \in 0 .. n - 1 /\ r[j] = t[j - m]
      BY <2>2, <1>6, <1>9
    <3>2. PICK a, b : a = i - m /\ b = j - m
      OBVIOUS
    <3>3. a \in 0 .. n - 1 /\ b \in 0 .. n - 1 /\ t[a] = t[b]
      BY <2>2, <3>1, <3>2, <1>9
    <3>4. a = b
      BY <3>3, <1>2 DEF IsWalk
    <3>. QED BY <3>2, <3>4, <1>1
  <2>. QED BY <2>1, <2>2, <1>6
<1>10. ASSUME NEW x \in M \cup N PROVE \E i \in 0 .. (m + n) - 1 : r[i] = x
  <2>1. CASE x \in M
    <3>1. PICK i \in 0 .. m - 1 : s[i] = x
      BY <2>1, <1>1 DEF IsWalk
    <3>2. i \in 0 .. (m + n) - 1
      BY <1>1, <1>2
    <3>. QED BY <3>1, <3>2, <1>4
  <2>2. CASE x \in N
    <3>1. PICK i \in 0 .. n - 1 : t[i] = x
      BY <2>2, <1>2 DEF IsWalk
    <3>2. i + m \in 0 .. (m + n) - 1 /\ i \in 0 .. n
      BY <1>1, <1>2
    <3>. QED BY <3>1, <3>2, <1>4
  <2>. QED BY <2>1, <2>2
<1>11. IsWalk(r, link, first, end, M \cup N, m + n)
  BY <1>7, <1>8, <1>9, <1>10 DEF IsWalk
<1>. QED BY <1>1, <1>2, <1>11 DEF Chain

Integral(S) == S \subseteq Int

Shifted(S, d) == {s + d : s \in S}

(* The links of N are stored in other, the numbers d higher, and go on     *)
(* with last at the end.                                                   *)
Spliced(other, link, end, N, d, last) ==
  \A x \in N : other[x + d] = IF link[x] = end THEN last ELSE link[x] + d

(* A chain through higher places, that ends at last instead of end. *)
LEMMA ChainSpliced ==
  ASSUME NEW link, NEW first, NEW end, NEW N, NEW n, Chain(link, first, end, N, n),
         Integral(N), end \notin N, NEW d \in Int, NEW last, NEW other,
         Spliced(other, link, end, N, d, last), NEW head,
         head = IF first = end THEN last ELSE first + d
  PROVE  Chain(other, head, last, Shifted(N, d), n)
<1> USE DEF Integral, Spliced, Shifted
<1>1. PICK s : n \in Nat /\ IsWalk(s, link, first, end, N, n)
  BY DEF Chain
<1>2. PICK r : r = [i \in 0 .. n |-> IF i < n THEN s[i] + d ELSE last]
  OBVIOUS
<1>3. r[n] = last /\ \A i \in 0 .. n - 1 : r[i] = s[i] + d
  BY <1>1, <1>2
<1>4. \A i \in 0 .. n - 1 : s[i] \in N /\ s[i] \in Int /\ s[i] # end /\ link[s[i]] = s[i + 1]
  BY <1>1 DEF IsWalk
<1>5. s[0] = first /\ s[n] = end
  BY <1>1 DEF IsWalk
<1>6. r[0] = IF first = end THEN last ELSE first + d
  <2>1. CASE n = 0
    BY <2>1, <1>3, <1>5
  <2>2. CASE n # 0
    <3>1. 0 \in 0 .. n - 1
      BY <2>2, <1>1
    <3>. QED BY <3>1, <1>3, <1>4, <1>5
  <2>. QED BY <2>1, <2>2
<1>7. ASSUME NEW i \in 0 .. n - 1
      PROVE  r[i] \in {x + d : x \in N} /\ other[r[i]] = r[i + 1]
  <2>1. CASE i = n - 1
    <3>1. i + 1 = n
      BY <2>1, <1>1
    <3>. QED BY <3>1, <1>3, <1>4, <1>5
  <2>2. CASE i # n - 1
    <3>1. i + 1 \in 0 .. n - 1
      BY <2>2, <1>1
    <3>. QED BY <3>1, <1>3, <1>4
  <2>. QED BY <2>1, <2>2
<1>8. ASSUME NEW i \in 0 .. n - 1, NEW j \in 0 .. n - 1, r[i] = r[j]
      PROVE  i = j
  <2>1. s[i] = s[j]
    BY <1>3, <1>4, <1>8
  <2>. QED BY <2>1, <1>1 DEF IsWalk
<1>9. ASSUME NEW y \in {x + d : x \in N} PROVE \E i \in 0 .. n - 1 : r[i] = y
  <2>1. PICK x \in N : y = x + d
    OBVIOUS
  <2>2. PICK i \in 0 .. n - 1 : s[i] = x
    BY <1>1 DEF IsWalk
  <2>. QED BY <2>1, <2>2, <1>3
<1>10. IsWalk(r, other, IF first = end THEN last ELSE first + d, last, {x + d : x \in N}, n)
  BY <1>3, <1>6, <1>7, <1>8, <1>9 DEF IsWalk
<1>. QED BY <1>1, <1>10 DEF Chain

(* A list has as many nodes as its length says. *)
LEMMA ChainCount ==
  ASSUME NEW link, NEW first, NEW end, NEW N, NEW n, Chain(link, first, end, N, n)
  PROVE  IsFiniteSet(N) /\ Cardinality(N) = n /\ n \in Nat
<1>1. PICK s : n \in Nat /\ IsWalk(s, link, first, end, N, n)
  BY DEF Chain
<1>2. PICK r : r = [i \in 1 .. n |-> s[i - 1]]
  OBVIOUS
<1>3. \A i \in 1 .. n : i - 1 \in 0 .. n - 1 /\ r[i] = s[i - 1] /\ r[i] \in N
  BY <1>1, <1>2 DEF IsWalk
<1>4. r \in [1 .. n -> N]
  BY <1>2, <1>3
<1>5. ASSUME NEW i \in 1 .. n, NEW j \in 1 .. n, r[i] = r[j] PROVE i = j
  <2>1. i - 1 = j - 1
    BY <1>1, <1>3, <1>5 DEF IsWalk
  <2>. QED BY <2>1
<1>6. ASSUME NEW x \in N PROVE \E i \in 1 .. n : r[i] = x
  <2>1. PICK i \in 0 .. n - 1 : s[i] = x
    BY <1>1 DEF IsWalk
  <2>2. i + 1 \in 1 .. n /\ (i + 1) - 1 = i
    BY <1>1
  <2>. QED BY <2>1, <2>2, <1>3
<1>7. r \in Bijection(1 .. n, N)
  <2>1. r \in Injection(1 .. n, N)
    BY <1>4, <1>5 DEF Injection, IsInjective
  <2>2. r \in Surjection(1 .. n, N)
    BY <1>4, <1>6 DEF Surjection
  <2>. QED BY <2>1, <2>2 DEF Bijection
<1>8. ExistsBijection(1 .. n, N)
  BY <1>7 DEF ExistsBijection
<1>9. IsFiniteSet(N)
  BY <1>1, <1>8, FS_NatBijection
<1>. QED BY <1>1, <1>8, <1>9, FS_CountingElements

(* A walk that goes by the link while there is one meets the chain. *)
LEMMA ChainWalk ==
  ASSUME NEW link, NEW first, NEW end, NEW N, NEW n, Chain(link, first, end, N, n),
         NEW D, N \subseteq D, end \notin D, NEW f, f[0] = first,
         \A i \in Nat : f[i + 1] = IF f[i] \in D THEN link[f[i]] ELSE end
  PROVE  /\ {f[i] : i \in 0 .. n - 1} = N
         /\ \A i \in Nat : i >= n => f[i] = end
<1>1. PICK s : n \in Nat /\ IsWalk(s, link, first, end, N, n)
  BY DEF Chain
<1>2. \A i \in Nat : i <= n => f[i] = s[i]
  <2> DEFINE I == {i \in Nat : i <= n => f[i] = s[i]}
  <2>1. 0 \in I
    BY <1>1 DEF IsWalk
  <2>2. ASSUME NEW i \in Nat, i \in I PROVE i + 1 \in I
    <3>1. CASE i + 1 <= n
      <4>1. i \in 0 .. n - 1 /\ f[i] = s[i]
        BY <2>2, <3>1, <1>1
      <4>. QED BY <4>1, <1>1 DEF IsWalk
    <3>2. CASE ~(i + 1 <= n)
      BY <3>2
    <3>. QED BY <3>1, <3>2
  <2> HIDE DEF I
  <2>3. \A i \in Nat : i \in I
    BY <2>1, <2>2, NaturalInduction
  <2>. QED BY <2>3 DEF I
<1>3. \A i \in Nat : i >= n => f[i] = end
  <2> DEFINE I == {i \in Nat : i >= n => f[i] = end}
  <2>1. f[n] = end
    BY <1>1, <1>2 DEF IsWalk
  <2>2. 0 \in I
    BY <1>1, <2>1
  <2>3. ASSUME NEW i \in Nat, i \in I PROVE i + 1 \in I
    <3>1. CASE i >= n
      BY <2>3, <3>1
    <3>2. CASE ~(i >= n)
      <4>1. i + 1 >= n => i + 1 = n
        BY <3>2, <1>1
      <4>. QED BY <4>1, <2>1
    <3>. QED BY <3>1, <3>2
  <2> HIDE DEF I
  <2>4. \A i \in Nat : i \in I
    BY <2>2, <2>3, NaturalInduction
  <2>. QED BY <2>4 DEF I
<1>4. \A i \in 0 .. n - 1 : f[i] = s[i]
  BY <1>1, <1>2
<1>5. {f[i] : i \in 0 .. n - 1} = N
  BY <1>1, <1>4 DEF IsWalk
<1>. QED BY <1>3, <1>5

-----------------------------------------------------------------------------
(***************************************************************************)
(* The rank of a number in a finite set: how many are lower, or higher.    *)
(***************************************************************************)
LEMMA SmallerSet ==
  ASSUME NEW U, IsFiniteSet(U), NEW T, T \subseteq U, NEW x \in U, x \notin T
  PROVE  /\ Cardinality(T) \in Nat /\ Cardinality(U) \in Nat
         /\ Cardinality(T) < Cardinality(U)
<1>1. IsFiniteSet(T) /\ Cardinality(T) <= Cardinality(U) /\ Cardinality(U) # Cardinality(T)
  BY FS_Subset
<1>. QED BY <1>1, FS_CardinalityType

Below(S, i) == {j \in S : j < i}

Above(S, i) == {j \in S : j > i}

(* r gives the numbers of S different ranks, from 0. *)
Ranks(r, S) ==
  /\ r \in [S -> 0 .. Cardinality(S) - 1] /\ \A i, j \in S : r[i] = r[j] => i = j
  /\ \A m \in 0 .. Cardinality(S) - 1 : \E i \in S : r[i] = m

(* Different numbers below the cardinality of a set are all of them. *)
LEMMA RanksAll ==
  ASSUME NEW S, IsFiniteSet(S), NEW r \in [S -> 0 .. Cardinality(S) - 1],
         \A i, j \in S : r[i] = r[j] => i = j
  PROVE  Ranks(r, S)
<1>1. PICK n : n = Cardinality(S)
  OBVIOUS
<1>2. n \in Nat
  BY <1>1, FS_CardinalityType
<1>3. PICK T : T = 0 .. n - 1
  OBVIOUS
<1>4. IsFiniteSet(T) /\ Cardinality(T) = n
  <2>1. 0 \in Int /\ n - 1 \in Int /\ (n = 0 <=> 0 > n - 1)
    BY <1>2
  <2>2. IsFiniteSet(0 .. n - 1) /\ Cardinality(0 .. n - 1) = n
    BY <2>1, <1>2, FS_Interval
  <2>. QED BY <1>3, <2>2
<1>5. r \in Injection(S, T)
  BY <1>1, <1>3 DEF Injection, IsInjective
<1>6. r \in Surjection(S, T)
  BY <1>1, <1>4, <1>5, FS_Injection
<1>. QED BY <1>1, <1>3, <1>6 DEF Ranks, Surjection

(* To count the smaller elements ranks a set of numbers. *)
LEMMA BelowRanks ==
  ASSUME NEW S, Integral(S), IsFiniteSet(S), NEW r, r = [i \in S |-> Cardinality(Below(S, i))]
  PROVE  Ranks(r, S)
<1>1. ASSUME NEW i \in S PROVE r[i] \in 0 .. Cardinality(S) - 1
  <2>1. Below(S, i) \subseteq S /\ i \notin Below(S, i)
    BY DEF Below, Integral
  <2>. QED BY <2>1, SmallerSet
<1>2. ASSUME NEW i \in S, NEW j \in S, i < j PROVE r[i] # r[j]
  <2>1. Below(S, i) \subseteq Below(S, j) /\ i \in Below(S, j) /\ i \notin Below(S, i)
    <3>1. i \in Int /\ j \in Int /\ \A x \in S : x \in Int
      BY DEF Integral
    <3>2. i < j /\ ~(i < i) /\ \A x \in S : x < i => x < j
      BY <1>2, <3>1
    <3>. QED BY <3>2, Zenon DEF Below
  <2>2. IsFiniteSet(Below(S, j))
    BY FS_Subset DEF Below
  <2>. QED BY <2>1, <2>2, SmallerSet
<1>3. \A i, j \in S : r[i] = r[j] => i = j
  BY <1>2 DEF Integral
<1>4. r \in [S -> 0 .. Cardinality(S) - 1]
  BY <1>1
<1>. QED BY <1>3, <1>4, RanksAll

(* So does to count the larger ones. *)
LEMMA AboveRanks ==
  ASSUME NEW S, Integral(S), IsFiniteSet(S), NEW r, r = [i \in S |-> Cardinality(Above(S, i))]
  PROVE  Ranks(r, S)
<1>1. ASSUME NEW i \in S PROVE r[i] \in 0 .. Cardinality(S) - 1
  <2>1. Above(S, i) \subseteq S /\ i \notin Above(S, i)
    BY DEF Above, Integral
  <2>. QED BY <2>1, SmallerSet
<1>2. ASSUME NEW i \in S, NEW j \in S, i < j PROVE r[i] # r[j]
  <2>1. Above(S, j) \subseteq Above(S, i) /\ j \in Above(S, i) /\ j \notin Above(S, j)
    <3>1. i \in Int /\ j \in Int /\ \A x \in S : x \in Int
      BY DEF Integral
    <3>2. j > i /\ ~(j > j) /\ \A x \in S : x > j => x > i
      BY <1>2, <3>1
    <3>. QED BY <3>2, Zenon DEF Above
  <2>2. IsFiniteSet(Above(S, i))
    BY FS_Subset DEF Above
  <2>. QED BY <2>1, <2>2, SmallerSet
<1>3. \A i, j \in S : r[i] = r[j] => i = j
  BY <1>2 DEF Integral
<1>4. r \in [S -> 0 .. Cardinality(S) - 1]
  BY <1>1
<1>. QED BY <1>3, <1>4, RanksAll

(* Two sets of the same size have the same ranks. *)
LEMMA RanksMeet ==
  ASSUME NEW S, NEW T, NEW r, NEW s, Ranks(r, S), Ranks(s, T), Cardinality(S) = Cardinality(T)
  PROVE  /\ \A i \in S : \E j \in T : s[j] = r[i]
         /\ \A j \in T : \E i \in S : r[i] = s[j]
BY DEF Ranks

(* f leads to the number of the same rank, so it leads back. *)
LEMMA RanksPair ==
  ASSUME NEW S, NEW T, NEW r, NEW s, Ranks(r, S), Ranks(s, T),
         NEW f, \A i \in S : f[i] \in T /\ s[f[i]] = r[i],
         \A j \in T : f[j] \in S /\ r[f[j]] = s[j]
  PROVE  /\ \A i \in S : f[i] \in T /\ f[f[i]] = i
         /\ \A j \in T : f[j] \in S /\ f[f[j]] = j
<1>1. /\ \A i, j \in S : r[i] = r[j] => i = j
      /\ \A i, j \in T : s[i] = s[j] => i = j
  BY DEF Ranks
<1>. QED BY <1>1

-----------------------------------------------------------------------------
(***************************************************************************)
(* Sums over finite sets, and the sizes of disjoint sets.                  *)
(***************************************************************************)
(* The element that a fold takes first. *)
Picked(s) == CHOOSE x \in s : TRUE

(* g adds up f over subsets of S. *)
AddsUp(g, f, S) ==
  \A s \in SUBSET S :
    g[s] = IF s = {} THEN 0 ELSE f[Picked(s)] + g[s \ {Picked(s)}]

(* The element that is picked is in the set. *)
LEMMA PickedIn ==
  ASSUME NEW s, s # {}
  PROVE  Picked(s) \in s
BY DEF Picked

(* There is only one sum, by induction on the size of the set. *)
LEMMA AddsUpUnique ==
  ASSUME NEW S, IsFiniteSet(S), NEW f, NEW g, NEW h, AddsUp(g, f, S), AddsUp(h, f, S)
  PROVE  g[S] = h[S]
<1> DEFINE Agree == {n \in Nat : \A s \in SUBSET S : Cardinality(s) = n => g[s] = h[s]}
<1>1. \A s \in SUBSET S : IsFiniteSet(s)
  BY FS_Subset
<1>2. 0 \in Agree
  <2>1. ASSUME NEW s \in SUBSET S, Cardinality(s) = 0 PROVE g[s] = h[s]
    <3>1. s = {}
      BY <1>1, <2>1, FS_EmptySet
    <3>. QED BY <3>1 DEF AddsUp
  <2>. QED BY <2>1
<1>3. ASSUME NEW n \in Nat, n \in Agree PROVE n + 1 \in Agree
  <2>1. ASSUME NEW s \in SUBSET S, Cardinality(s) = n + 1 PROVE g[s] = h[s]
    <3>1. s # {}
      BY <1>1, <2>1, FS_EmptySet
    <3>2. PICK x, r : x = Picked(s) /\ r = s \ {x}
      OBVIOUS
    <3>3. x \in s /\ r \in SUBSET S
      BY <3>1, <3>2, PickedIn
    <3>4. Cardinality(r) = n
      <4>1. IsFiniteSet(s)
        BY <1>1
      <4>2. Cardinality(r) = Cardinality(s) - 1
        BY <4>1, <3>2, <3>3, FS_RemoveElement
      <4>. QED BY <4>2, <2>1
    <3>5. g[r] = h[r]
      BY <1>3, <3>3, <3>4
    <3>6. g[s] = f[x] + g[r]
      BY <3>1, <3>2 DEF AddsUp
    <3>7. h[s] = f[x] + h[r]
      BY <3>1, <3>2 DEF AddsUp
    <3>. QED BY <3>5, <3>6, <3>7
  <2>. QED BY <2>1
<1> HIDE DEF Agree
<1>4. \A n \in Nat : n \in Agree
  BY <1>2, <1>3, NaturalInduction
<1>5. Cardinality(S) \in Nat
  BY FS_CardinalityType
<1>. QED BY <1>4, <1>5 DEF Agree

(* The equation that the fold of the library chooses a solution of. *)
Summing(g, f, S) ==
  g = [s \in SUBSET S |-> IF s = {} THEN 0 ELSE f[Picked(s)] + g[s \ {Picked(s)}]]

(* The fold of the library is the sum. *)
LEMMA SumIs ==
  ASSUME NEW S, IsFiniteSet(S), NEW f, DOMAIN f = S, NEW g, AddsUp(g, f, S)
  PROVE  FoldFunction(LAMBDA x, y : x + y, 0, f) = g[S]
<1>1. PICK h : h = [s \in SUBSET S |-> g[s]]
  OBVIOUS
<1>2. Summing(h, f, S)
  <2>1. \A s \in SUBSET S : h[s] = IF s = {} THEN 0 ELSE f[Picked(s)] + h[s \ {Picked(s)}]
    <3>1. \A s \in SUBSET S : s \ {Picked(s)} \in SUBSET S
      OBVIOUS
    <3>. QED BY <1>1, <3>1 DEF AddsUp
  <2>. QED BY <1>1, <2>1 DEF Summing
<1>3. PICK i : i = CHOOSE k : Summing(k, f, S)
  OBVIOUS
<1>4. Summing(i, f, S)
  BY <1>2, <1>3
<1>5. AddsUp(i, f, S)
  BY <1>4 DEF Summing, AddsUp
<1>6. FoldFunction(LAMBDA x, y : x + y, 0, f) = i[S]
  BY <1>3 DEF FoldFunction, FoldFunctionOnSet, MapThenFoldSet, Summing, Picked
<1>. QED BY <1>5, <1>6, AddsUpUnique

(* The union of the sets l[x], for x in s. *)
Joint(l, s) == UNION {l[x] : x \in s}

Apart(l, S) == \A x, y \in S : x # y => l[x] \cap l[y] = {}

AllFinite(l, S) == \A x \in S : IsFiniteSet(l[x])

(* The union of disjoint sets, one taken out. *)
LEMMA JointIs ==
  ASSUME NEW l, NEW S, Apart(l, S), AllFinite(l, S), NEW s, s \subseteq S, IsFiniteSet(s),
         NEW x \in s, NEW r, r = s \ {x}
  PROVE  /\ Joint(l, s) = l[x] \cup Joint(l, r) /\ l[x] \cap Joint(l, r) = {}
<1>1. Joint(l, s) = l[x] \cup Joint(l, r)
  BY DEF Joint
<1>2. l[x] \cap Joint(l, r) = {}
  BY DEF Joint, Apart
<1>. QED BY <1>1, <1>2

(* The union of finitely many finite sets is finite. *)
LEMMA JointFinite ==
  ASSUME NEW l, NEW S, IsFiniteSet(S), AllFinite(l, S)
  PROVE  \A s \in SUBSET S : IsFiniteSet(Joint(l, s))
<1>1. ASSUME NEW s \in SUBSET S PROVE IsFiniteSet(Joint(l, s))
  <2>1. PICK C : C = {l[x] : x \in s}
    OBVIOUS
  <2>2. IsFiniteSet(s)
    BY FS_Subset
  <2>3. PICK f : f = [x \in s |-> l[x]]
    OBVIOUS
  <2>4. f \in Surjection(s, C)
    BY <2>1, <2>3 DEF Surjection
  <2>5. IsFiniteSet(C)
    BY <2>2, <2>4, FS_Surjection
  <2>6. \A c \in C : IsFiniteSet(c)
    BY <2>1 DEF AllFinite
  <2>7. IsFiniteSet(UNION C)
    BY <2>5, <2>6, FS_UNION
  <2>. QED BY <2>1, <2>7 DEF Joint
<1>. QED BY <1>1

(* The sizes of disjoint sets add up to the size of their union. *)
LEMMA SizesAddUp ==
  ASSUME NEW S, IsFiniteSet(S), NEW l, Apart(l, S), AllFinite(l, S),
         NEW f, DOMAIN f = S, \A x \in S : f[x] = Cardinality(l[x])
  PROVE  FoldFunction(LAMBDA x, y : x + y, 0, f) = Cardinality(Joint(l, S))
<1>1. PICK g : g = [s \in SUBSET S |-> Cardinality(Joint(l, s))]
  OBVIOUS
<1>2. ASSUME NEW s \in SUBSET S
      PROVE  g[s] = IF s = {} THEN 0 ELSE f[Picked(s)] + g[s \ {Picked(s)}]
  <2>1. CASE s = {}
    <3>1. Joint(l, s) = {}
      BY <2>1 DEF Joint
    <3>. QED BY <1>1, <2>1, <3>1, FS_EmptySet
  <2>2. CASE s # {}
    <3>1. PICK x, r : x = Picked(s) /\ r = s \ {x}
      OBVIOUS
    <3>2. x \in s /\ x \in S /\ r \in SUBSET S
      BY <2>2, <3>1, PickedIn
    <3>3. IsFiniteSet(s)
      BY FS_Subset
    <3>4. Joint(l, s) = l[x] \cup Joint(l, r) /\ l[x] \cap Joint(l, r) = {}
      BY <3>1, <3>2, <3>3, JointIs
    <3>5. IsFiniteSet(l[x]) /\ IsFiniteSet(Joint(l, r))
      BY <3>2, JointFinite DEF AllFinite
    <3>6. PICK a, b, c : a = l[x] /\ b = Joint(l, r) /\ c = a \cup b /\ a \cap b = {}
      BY <3>4
    <3>7. IsFiniteSet(a) /\ IsFiniteSet(b)
      BY <3>5, <3>6
    <3>8. Cardinality(c) = Cardinality(a) + Cardinality(b) - Cardinality(a \cap b)
      BY <3>6, <3>7, FS_Union
    <3>9. Cardinality(a \cap b) = 0
      BY <3>6, FS_EmptySet
    <3>10. Cardinality(a) \in Nat /\ Cardinality(b) \in Nat
      BY <3>7, FS_CardinalityType
    <3>11. Cardinality(c) = Cardinality(a) + Cardinality(b)
      BY <3>8, <3>9, <3>10
    <3>12. g[s] = Cardinality(c) /\ g[r] = Cardinality(b) /\ f[x] = Cardinality(a)
      BY <1>1, <3>2, <3>4, <3>6
    <3>. QED BY <2>2, <3>1, <3>11, <3>12
  <2>. QED BY <2>1, <2>2
<1>3. AddsUp(g, f, S)
  BY <1>2 DEF AddsUp
<1>4. FoldFunction(LAMBDA x, y : x + y, 0, f) = g[S]
  BY <1>3, SumIs
<1>. QED BY <1>1, <1>4

(* A list without repetitions is as long as it has elements. *)
LEMMA ListLength ==
  ASSUME NEW S, NEW q \in Seq(S), IsInjective(q)
  PROVE  IsFiniteSet(Range(q)) /\ Cardinality(Range(q)) = Len(q)
<1>1. Len(q) \in Nat /\ DOMAIN q = 1 .. Len(q)
  OBVIOUS
<1>2. PICK D : D = 1 .. Len(q)
  OBVIOUS
<1>3. IsFiniteSet(D) /\ Cardinality(D) = Len(q)
  BY <1>1, <1>2, FS_Interval
<1>4. q \in Bijection(D, Range(q))
  BY <1>1, <1>2 DEF Bijection, Injection, Surjection, Range, IsInjective
<1>5. ExistsBijection(D, Range(q))
  BY <1>4 DEF ExistsBijection
<1>. QED BY <1>3, <1>5, FS_Bijection

-----------------------------------------------------------------------------
(***************************************************************************)
(* Products and quotients.                                                 *)
(***************************************************************************)
(* Factors may be compared. *)
LEMMA ProductMonotone ==
  ASSUME NEW a \in Nat, NEW b \in Int, NEW c \in Int, b <= c
  PROVE  b * a <= c * a
OBVIOUS

(* A quotient and its remainder. *)
LEMMA Division ==
  ASSUME NEW a \in Int, NEW b \in Nat \ {0}
  PROVE  /\ a \div b \in Int /\ a % b \in 0 .. (b - 1)
         /\ a = (a \div b) * b + (a % b)
OBVIOUS

(* The quotient is the number whose products surround. *)
LEMMA QuotientIs ==
  ASSUME NEW b \in Nat \ {0}, NEW a \in Int, NEW m \in Int, m * b <= a, a < (m + 1) * b
  PROVE  a \div b = m
<1>1. PICK q : q = a \div b
  OBVIOUS
<1>2. q \in Int /\ q * b <= a /\ a < (q + 1) * b
  <2>1. q \in Int /\ a % b \in 0 .. (b - 1) /\ a = q * b + (a % b)
    BY <1>1, Division
  <2>2. (q + 1) * b = q * b + b
    BY <2>1
  <2>. QED BY <2>1, <2>2
<1>3. ~(q < m)
  <2>1. q < m => (q + 1) * b <= m * b
    BY <1>2, ProductMonotone
  <2>. QED BY <1>2, <2>1
<1>4. ~(m < q)
  <2>1. m < q => (m + 1) * b <= q * b
    BY <1>2, ProductMonotone
  <2>. QED BY <1>2, <2>1
<1>. QED BY <1>1, <1>2, <1>3, <1>4

(* Squares grow. *)
LEMMA SquaresGrow ==
  ASSUME NEW a \in Nat, NEW b \in Nat, a <= b
  PROVE  a * a <= b * b /\ a <= a * a
<1>1. PICK d \in Nat : b = a + d
  <2>1. b - a \in Nat /\ b = a + (b - a)
    OBVIOUS
  <2>. QED BY <2>1
<1>2. a * d \in Nat /\ d * d \in Nat /\ a * a \in Nat
  OBVIOUS
<1>3. b * b = a * a + 2 * (a * d) + d * d
  BY <1>1
<1>4. a * a <= b * b
  BY <1>2, <1>3
<1>5. a = 0 \/ a >= 1
  OBVIOUS
<1>6. CASE a = 0
  BY <1>4, <1>6
<1>7. CASE a >= 1
  <2>1. PICK e \in Nat : a = 1 + e
    <3>1. a - 1 \in Nat /\ a = 1 + (a - 1)
      BY <1>7
    <3>. QED BY <3>1
  <2>2. a * a = a + a * e /\ a * e \in Nat
    BY <2>1
  <2>. QED BY <1>4, <2>2
<1>. QED BY <1>5, <1>6, <1>7

=============================================================================

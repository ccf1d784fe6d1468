------------------------ MODULE MeshConnectivityProofs ------------------------
(***************************************************************************)
(* What the operations on the connectivity of a mesh preserve: connecting  *)
(* and disconnecting an edge, filling and clearing a face.                 *)
(***************************************************************************)
EXTENDS MeshConnectivity, DataLemmas

-----------------------------------------------------------------------------
(***************************************************************************)
(* Going around a face.                                                    *)
(***************************************************************************)
(* Cycle follows next from h for as long as there are halfedges. *)
LEMMA CycleIsWalk ==
  ASSUME NEW c, NEW H, NEW h \in H, \A g \in H : c.next[g] \in H
  PROVE  \E w \in [Nat -> H] :
           /\ w[0] = h /\ \A n \in Nat : w[n + 1] = c.next[w[n]]
           /\ Cycle(c, h) = {w[i] : i \in 0 .. Cardinality(DOMAIN c.next)}
<1> DEFINE Walks(f) == f = [i \in Nat |-> IF i = 0 THEN h ELSE c.next[f[i - 1]]]
           w == CHOOSE f : Walks(f)
<1>1. \E f : Walks(f)
  <2>1. PICK g \in [H -> H] : \A x \in H : g[x] = c.next[x]
    <3>1. [x \in H |-> c.next[x]] \in [H -> H]
      OBVIOUS
    <3>. QED BY <3>1
  <2>2. PICK f \in [Nat -> H] : f[0] = h /\ \A n \in Nat : f[n + 1] = g[f[n]]
    BY IterationFromStart
  <2>3. ASSUME NEW i \in Nat PROVE f[i] = IF i = 0 THEN h ELSE c.next[f[i - 1]]
    <3>1. CASE i # 0
      <4>1. i - 1 \in Nat /\ (i - 1) + 1 = i
        BY <3>1
      <4>. QED BY <4>1, <2>1, <2>2, <3>1
    <3>. QED BY <3>1, <2>2
  <2>. QED BY <2>2, <2>3
<1>2. Walks(w)
  BY <1>1
<1>3. Cycle(c, h) = {w[i] : i \in 0 .. Cardinality(DOMAIN c.next)}
  BY DEF Cycle
<1> HIDE DEF w
<1>4. w[0] = h /\ \A n \in Nat : w[n + 1] = c.next[w[n]]
  BY <1>2
<1>5. w \in [Nat -> H]
  <2> DEFINE I == {n \in Nat : w[n] \in H}
  <2>1. 0 \in I /\ \A n \in Nat : n \in I => n + 1 \in I
    BY <1>4
  <2> HIDE DEF I
  <2>2. \A n \in Nat : n \in I
    BY <2>1, NaturalInduction
  <2>. QED BY <2>2, <1>2 DEF I
<1>. QED BY <1>3, <1>4, <1>5

(* The walk comes back to where it began, since next has an inverse: what  *)
(* Cycle holds is closed under next and prev, and is the least such set.   *)
LEMMA CycleCloses ==
  ASSUME NEW c, NEW H, NEW h \in H,
         IsFiniteSet(DOMAIN c.next), H \subseteq DOMAIN c.next,
         \A g \in H : c.next[g] \in H,
         \A f, g \in H : c.next[f] = c.next[g] => f = g
  PROVE  /\ h \in Cycle(c, h) /\ Cycle(c, h) \subseteq H
         /\ \A g \in Cycle(c, h) : c.next[g] \in Cycle(c, h)
         /\ \A g \in H : c.next[g] \in Cycle(c, h) => g \in Cycle(c, h)
         /\ \A S \in SUBSET H :
              h \in S /\ (\A g \in S : c.next[g] \in S) => Cycle(c, h) \subseteq S
<1> DEFINE d == Cardinality(DOMAIN c.next)
<1>0. PICK C : C = Cycle(c, h)
  OBVIOUS
<1>1. PICK w \in [Nat -> H] : /\ w[0] = h /\ \A n \in Nat : w[n + 1] = c.next[w[n]]
                              /\ C = {w[i] : i \in 0 .. d}
  BY CycleIsWalk, <1>0
<1>2. d \in Nat /\ Cardinality(0 .. d) = d + 1 /\ IsFiniteSet(0 .. d)
  <2>1. d \in Nat
    BY FS_CardinalityType
  <2> HIDE DEF d
  <2>. QED BY <2>1, FS_Interval
<1>3. \E p \in 1 .. d : w[p] = h
  <2> DEFINE f == [i \in 0 .. d |-> w[i]]
             D == DOMAIN c.next
  <2>1. f \in [0 .. d -> D]
    BY <1>1
  <2>2. Cardinality(D) < Cardinality(0 .. d)
    BY <1>2
  <2>3. \E i, j \in 0 .. d : i # j /\ f[i] = f[j]
    <3> HIDE DEF f, D, d
    <3>. QED BY <1>2, <2>1, <2>2, FS_PigeonHole DEF D
  <2>4. PICK i \in 0 .. d, j \in 0 .. d : i < j /\ w[i] = w[j]
    <3> HIDE DEF d
    <3>. QED BY <2>3, <1>2
  <2> HIDE DEF d
  <2> DEFINE T == {n \in Nat : \E m \in 0 .. d : n < m /\ w[n] = w[m]}
  <2>5. PICK n \in T : \A k \in T : n <= k
    <3>1. T \in SUBSET Nat /\ T # {}
      BY <2>4
    <3> HIDE DEF T
    <3>. QED BY <3>1, LeastNatural
  <2>6. PICK m \in 0 .. d : n < m /\ w[n] = w[m]
    BY <2>5
  <2>7. n = 0
    <3> SUFFICES ASSUME n # 0 PROVE FALSE
      OBVIOUS
    <3>1. n - 1 \in Nat /\ m - 1 \in Nat /\ (n - 1) + 1 = n /\ (m - 1) + 1 = m
      BY <2>5, <2>6
    <3>2. w[n - 1] = w[m - 1]
      BY <1>1, <2>6, <3>1
    <3>3. n - 1 \in T
      <4>1. m - 1 \in 0 .. d /\ n - 1 < m - 1
        BY <2>6, <3>1, <1>2
      <4>. QED BY <3>1, <3>2, <4>1
    <3>. QED BY <3>3, <2>5
  <2>. QED BY <2>6, <2>7, <1>1
<1> HIDE DEF d
<1>4. PICK p \in 1 .. d : w[p] = h
  BY <1>3
<1>5. \A i \in Nat : w[i + p] = w[i]
  <2> DEFINE I == {i \in Nat : w[i + p] = w[i]}
  <2>1. 0 \in I
    BY <1>1, <1>4
  <2>2. ASSUME NEW i \in Nat, i \in I PROVE i + 1 \in I
    <3>1. i + p \in Nat /\ (i + 1) + p = (i + p) + 1
      OBVIOUS
    <3>. QED BY <2>2, <3>1, <1>1
  <2> HIDE DEF I
  <2>3. \A i \in Nat : i \in I
    BY <2>1, <2>2, NaturalInduction
  <2>. QED BY <2>3 DEF I
<1>6. h \in C /\ C \subseteq H
  BY <1>1, <1>2
<1>7. ASSUME NEW g \in C PROVE c.next[g] \in C
  <2>1. PICK i \in 0 .. d : g = w[i]
    BY <1>1
  <2>2. c.next[g] = w[i + 1]
    BY <1>1, <2>1
  <2>3. CASE i < d
    BY <1>1, <1>2, <2>2, <2>3
  <2>4. CASE i = d
    <3>1. (d + 1) - p \in 0 .. d /\ ((d + 1) - p) + p = d + 1
      BY <1>2
    <3>2. w[d + 1] = w[(d + 1) - p]
      BY <1>5, <3>1
    <3>. QED BY <1>1, <2>2, <2>4, <3>1, <3>2
  <2>. QED BY <1>2, <2>3, <2>4
<1>8. ASSUME NEW g \in H, c.next[g] \in C PROVE g \in C
  <2>1. PICK i \in 0 .. d : c.next[g] = w[i]
    BY <1>1, <1>8
  <2>2. PICK j \in 1 .. d : w[j] = w[i]
    <3>1. CASE i = 0
      BY <3>1, <1>1, <1>4
    <3>. QED BY <3>1
  <2>3. j - 1 \in 0 .. d /\ (j - 1) + 1 = j /\ j - 1 \in Nat
    BY <1>2
  <2>4. c.next[w[j - 1]] = w[j] /\ w[j - 1] \in H
    BY <1>1, <2>3
  <2>5. g = w[j - 1]
    BY <2>1, <2>2, <2>4
  <2>. QED BY <1>1, <2>3, <2>5
<1>9. ASSUME NEW S \in SUBSET H, h \in S, \A g \in S : c.next[g] \in S
      PROVE  C \subseteq S
  <2> DEFINE I == {i \in Nat : w[i] \in S}
  <2>1. 0 \in I /\ \A n \in Nat : n \in I => n + 1 \in I
    BY <1>1, <1>9
  <2> HIDE DEF I
  <2>2. \A n \in Nat : n \in I
    BY <2>1, NaturalInduction
  <2>. QED BY <2>2, <1>1 DEF I
<1>. QED BY <1>6, <1>7, <1>8, <1>9, <1>0

-----------------------------------------------------------------------------
(***************************************************************************)
(* Sound connectivity, and when it carries over.                           *)
(***************************************************************************)
AreNumbers(V, H, F) == V \subseteq Nat /\ H \subseteq Nat /\ F \subseteq Nat

Sound(c, V, H, F) ==
  /\ AreNumbers(V, H, F)
  /\ IsValid(c, V, H, F)
  /\ IsManifold(c, V, H, F)

(* The halfedges of an edge are each other's opposites. *)
LEMMA OppositeTwice ==
  ASSUME NEW h \in Nat
  PROVE  /\ Opposite(h) \in Nat /\ Opposite(h) # h /\ Opposite(Opposite(h)) = h
         /\ Opposite(h) \div 2 = h \div 2
         /\ Opposite(2 * h) = 2 * h + 1 /\ Opposite(2 * h + 1) = 2 * h
BY DEF Opposite

(* The elements V, H, F of d are those of c under other numbers.           *)
Renumbers(d, V, H, F, c, av, ah, af) ==
  /\ \A h \in H :
       /\ d.next[h] \in H /\ ah[d.next[h]] = c.next[ah[h]]
       /\ d.prev[h] \in H /\ ah[d.prev[h]] = c.prev[ah[h]]
       /\ d.target[h] \in V /\ av[d.target[h]] = c.target[ah[h]]
       /\ \/ d.face[h] = Null /\ c.face[ah[h]] = Null
          \/ d.face[h] \in F /\ af[d.face[h]] = c.face[ah[h]]
       /\ Opposite(h) \in H /\ ah[Opposite(h)] = Opposite(ah[h])
  /\ \A v \in V :
       \/ d.half[v] = Null /\ c.half[av[v]] = Null
       \/ d.half[v] \in H /\ ah[d.half[v]] = c.half[av[v]]
  /\ \A f \in F : d.fhalf[f] \in H /\ ah[d.fhalf[f]] = c.fhalf[af[f]]

OneToOne(f, S, T) ==
  /\ \A x \in S : f[x] \in T
  /\ \A x, y \in S : f[x] = f[y] => x = y

(* A sound connectivity stays sound when its elements get other numbers. *)
LEMMA RenumberedSound ==
  ASSUME NEW c, NEW V, NEW H, NEW F, Sound(c, V, H, F),
         NEW d, NEW W, NEW K, NEW G, AreNumbers(W, K, G),
         NEW av, NEW ah, NEW af,
         OneToOne(av, W, V), OneToOne(ah, K, H), OneToOne(af, G, F),
         Renumbers(d, W, K, G, c, av, ah, af)
  PROVE  Sound(d, W, K, G)
<1>1. /\ \A h \in K : ah[h] \in H
      /\ \A v \in W : av[v] \in V
      /\ \A f \in G : af[f] \in F
  BY DEF OneToOne
<1>2. /\ \A x, y \in K : ah[x] = ah[y] => x = y
      /\ \A x, y \in W : av[x] = av[y] => x = y
      /\ \A x, y \in G : af[x] = af[y] => x = y
  BY DEF OneToOne
<1>n. \A h \in K : /\ d.next[h] \in K /\ ah[d.next[h]] = c.next[ah[h]]
                   /\ d.prev[h] \in K /\ ah[d.prev[h]] = c.prev[ah[h]]
  BY DEF Renumbers
<1>t. \A h \in K : d.target[h] \in W /\ av[d.target[h]] = c.target[ah[h]]
  BY DEF Renumbers
<1>f. \A h \in K : \/ d.face[h] = Null /\ c.face[ah[h]] = Null
                   \/ d.face[h] \in G /\ af[d.face[h]] = c.face[ah[h]]
  BY DEF Renumbers
<1>o. \A h \in K : Opposite(h) \in K /\ ah[Opposite(h)] = Opposite(ah[h])
  BY DEF Renumbers
<1>N. \A h \in H : /\ c.next[h] \in H /\ c.prev[c.next[h]] = h
                   /\ c.prev[h] \in H /\ c.next[c.prev[h]] = h
  BY DEF Sound, IsValid
<1>T. \A h \in H : c.target[h] = c.target[Opposite(c.next[h])]
                   /\ c.target[h] # c.target[Opposite(h)]
  BY DEF Sound, IsValid, IsManifold
<1>F. \A h \in H : c.face[h] = c.face[c.next[h]]
  BY DEF Sound, IsValid
<1>3. \A f \in F : f # Null
  BY DEF Sound, AreNumbers, Null
<1>4. ASSUME NEW h \in K
      PROVE  /\ d.prev[d.next[h]] = h /\ d.next[d.prev[h]] = h
             /\ d.target[h] = d.target[Opposite(d.next[h])]
             /\ d.target[h] # d.target[Opposite(h)]
  <2>1. PICK x \in H : x = ah[h]
    BY <1>1
  <2>2. PICK n \in K : n = d.next[h] /\ ah[n] = c.next[x]
    BY <1>n, <2>1
  <2>3. PICK p \in K : p = d.prev[h] /\ ah[p] = c.prev[x]
    BY <1>n, <2>1
  <2>4. PICK o \in K : o = Opposite(h) /\ ah[o] = Opposite(x)
    BY <1>o, <2>1
  <2>5. PICK m \in K : m = Opposite(n) /\ ah[m] = Opposite(c.next[x])
    BY <1>o, <2>2
  <2>6. d.prev[n] = h
    <3>1. d.prev[n] \in K /\ ah[d.prev[n]] = c.prev[c.next[x]]
      BY <1>n, <2>2
    <3>. QED BY <3>1, <2>1, <1>N, <1>2
  <2>7. d.next[p] = h
    <3>1. d.next[p] \in K /\ ah[d.next[p]] = c.next[c.prev[x]]
      BY <1>n, <2>3
    <3>. QED BY <3>1, <2>1, <1>N, <1>2
  <2>8. d.target[h] = d.target[m]
    <3>1. av[d.target[h]] = av[d.target[m]] /\ d.target[h] \in W /\ d.target[m] \in W
      BY <1>t, <1>T, <2>1, <2>5
    <3>. QED BY <3>1, <1>2
  <2>9. d.target[h] # d.target[o]
    <3>1. av[d.target[h]] # av[d.target[o]]
      BY <1>t, <1>T, <2>1, <2>4
    <3>. QED BY <3>1
  <2>. QED BY <2>2, <2>3, <2>4, <2>5, <2>6, <2>7, <2>8, <2>9
<1>5. ASSUME NEW h \in K
      PROVE  d.face[h] = d.face[d.next[h]]
  <2>1. PICK x \in H : x = ah[h]
    BY <1>1
  <2>2. PICK n \in K : n = d.next[h] /\ ah[n] = c.next[x]
    BY <1>n, <2>1
  <2>3. \A g \in G : af[g] # Null /\ g # Null
    BY <1>1, <1>3 DEF AreNumbers, Null
  <2>4. PICK y : y = c.face[x] /\ y = c.face[ah[n]]
    BY <1>F, <2>2
  <2>5. (d.face[h] = Null /\ y = Null) \/ (d.face[h] \in G /\ af[d.face[h]] = y)
    BY <1>f, <2>1, <2>4
  <2>6. (d.face[n] = Null /\ y = Null) \/ (d.face[n] \in G /\ af[d.face[n]] = y)
    BY <1>f, <2>4
  <2>7. d.face[h] = d.face[n]
    BY <1>2, <2>3, <2>5, <2>6
  <2>. QED BY <2>2, <2>7
<1>6. ASSUME NEW v \in W
      PROVE  d.half[v] # Null => d.half[v] \in K /\ d.target[d.half[v]] = v
  <2> SUFFICES ASSUME d.half[v] # Null
               PROVE  d.half[v] \in K /\ d.target[d.half[v]] = v
    OBVIOUS
  <2>1. PICK k \in K, x \in H : k = d.half[v] /\ x = ah[k] /\ x = c.half[av[v]]
    BY <1>1 DEF Renumbers
  <2>2. PICK w \in V : w = av[v]
    BY <1>1
  <2>3. x # Null
    BY DEF Sound, AreNumbers, Null
  <2>4. c.target[x] = w
    BY <2>1, <2>2, <2>3 DEF Sound, IsValid
  <2>5. d.target[k] \in W /\ av[d.target[k]] = av[v]
    BY <1>t, <2>1, <2>2, <2>4
  <2>. QED BY <1>2, <2>1, <2>5
<1>7. ASSUME NEW f \in G
      PROVE  d.fhalf[f] \in K /\ d.face[d.fhalf[f]] = f
  <2>1. PICK k \in K, x \in H : k = d.fhalf[f] /\ x = ah[k] /\ x = c.fhalf[af[f]]
    BY <1>1 DEF Renumbers
  <2>2. PICK e \in F : e = af[f]
    BY <1>1
  <2>3. c.face[x] = e /\ e # Null
    BY <1>3, <2>1, <2>2 DEF Sound, IsValid
  <2>4. d.face[k] \in G /\ af[d.face[k]] = af[f]
    BY <1>f, <2>1, <2>2, <2>3
  <2>. QED BY <1>2, <2>1, <2>4
<1>8. IsValid(d, W, K, G)
  BY <1>n, <1>t, <1>f, <1>4, <1>5, <1>6, <1>7 DEF IsValid
<1>9. ASSUME NEW v \in W, NEW S \in SUBSET K, d.half[v] \in S \cup {Null},
             \A h \in S : Rotated(d, h) \in S
      PROVE  {h \in K : d.target[h] = v} \subseteq S
  <2> DEFINE T == {ah[h] : h \in S}
  <2>1. T \in SUBSET H
    BY <1>1
  <2>2. c.half[av[v]] \in T \cup {Null}
    <3>1. CASE d.half[v] = Null /\ c.half[av[v]] = Null
      BY <3>1
    <3>2. CASE d.half[v] \in K /\ ah[d.half[v]] = c.half[av[v]]
      <4>1. d.half[v] # Null
        BY <3>2 DEF AreNumbers, Null
      <4>. QED BY <4>1, <3>2, <1>9
    <3>. QED BY <3>1, <3>2 DEF Renumbers
  <2>3. \A h \in T : Rotated(c, h) \in T
    <3> SUFFICES ASSUME NEW h \in S PROVE Rotated(c, ah[h]) \in T
      OBVIOUS
    <3>1. PICK n \in K : n = d.next[h] /\ ah[n] = c.next[ah[h]]
      BY <1>n
    <3>2. Rotated(c, ah[h]) = ah[Opposite(n)] /\ Rotated(d, h) = Opposite(n)
      BY <1>o, <3>1 DEF Rotated
    <3>. QED BY <3>2, <1>9
  <2> HIDE DEF T
  <2>4. {h \in H : c.target[h] = av[v]} \subseteq T
    BY <1>1, <2>1, <2>2, <2>3 DEF Sound, IsManifold
  <2>5. ASSUME NEW h \in K, d.target[h] = v PROVE h \in S
    <3>1. ah[h] \in T
      BY <1>1, <1>t, <2>4, <2>5
    <3>2. PICK g \in S : ah[h] = ah[g]
      BY <3>1 DEF T
    <3>. QED BY <3>2, <1>2
  <2>. QED BY <2>5
<1>10. ASSUME NEW f \in G, NEW S \in SUBSET K, d.fhalf[f] \in S,
              \A h \in S : d.next[h] \in S
       PROVE  {h \in K : d.face[h] = f} \subseteq S
  <2> DEFINE T == {ah[h] : h \in S}
  <2>1. T \in SUBSET H
    BY <1>1
  <2>2. c.fhalf[af[f]] \in T
    <3>1. ah[d.fhalf[f]] = c.fhalf[af[f]]
      BY DEF Renumbers
    <3>. QED BY <3>1, <1>10
  <2>3. \A h \in T : c.next[h] \in T
    <3> SUFFICES ASSUME NEW h \in S PROVE c.next[ah[h]] \in T
      OBVIOUS
    <3>1. c.next[ah[h]] = ah[d.next[h]]
      BY <1>n
    <3>. QED BY <3>1, <1>10
  <2> HIDE DEF T
  <2>4. {h \in H : c.face[h] = af[f]} \subseteq T
    BY <1>1, <2>1, <2>2, <2>3 DEF Sound, IsManifold
  <2>5. ASSUME NEW h \in K, d.face[h] = f PROVE h \in S
    <3>1. c.face[ah[h]] = af[f]
      BY <1>f, <2>5 DEF AreNumbers, Null
    <3>2. ah[h] \in T
      BY <1>1, <2>4, <3>1
    <3>3. PICK g \in S : ah[h] = ah[g]
      BY <3>2 DEF T
    <3>. QED BY <3>3, <1>2
  <2>. QED BY <2>5
<1>11. IsManifold(d, W, K, G)
  BY <1>o, <1>4, <1>9, <1>10 DEF IsManifold
<1>. QED BY <1>8, <1>11 DEF Sound

(* d is like c on the vertices V, the halfedges H and the faces F. *)
Agree(d, c, V, H, F) ==
  /\ \A v \in V : d.half[v] = c.half[v]
  /\ \A h \in H : /\ d.next[h] = c.next[h] /\ d.prev[h] = c.prev[h]
                  /\ d.target[h] = c.target[h] /\ d.face[h] = c.face[h]
  /\ \A f \in F : d.fhalf[f] = c.fhalf[f]

(* Vertices without halfedges and faces that no halfedge refers to may go, *)
(* and what is stored for other elements does not matter.                  *)
LEMMA AgreeingSound ==
  ASSUME NEW c, NEW V, NEW H, NEW F, Sound(c, V, H, F),
         NEW d, NEW W \in SUBSET V, NEW G \in SUBSET F, Agree(d, c, W, H, G),
         \A h \in H : c.target[h] \in W /\ c.face[h] \in G \cup {Null}
  PROVE  Sound(d, W, H, G)
<1>1. PICK av, ah, af : /\ av = [v \in W |-> v] /\ ah = [h \in H |-> h]
                        /\ af = [f \in G |-> f]
  OBVIOUS
<1>2. /\ \A v \in W : av[v] = v
      /\ \A h \in H : ah[h] = h
      /\ \A f \in G : af[f] = f
  BY <1>1
<1>3. OneToOne(av, W, V) /\ OneToOne(ah, H, H) /\ OneToOne(af, G, F)
  BY <1>2 DEF OneToOne
<1>4. AreNumbers(W, H, G)
  BY DEF Sound, AreNumbers
<1>5. Renumbers(d, W, H, G, c, av, ah, af)
  <2>1. ASSUME NEW h \in H
        PROVE  /\ d.next[h] \in H /\ ah[d.next[h]] = c.next[ah[h]]
               /\ d.prev[h] \in H /\ ah[d.prev[h]] = c.prev[ah[h]]
               /\ d.target[h] \in W /\ av[d.target[h]] = c.target[ah[h]]
               /\ \/ d.face[h] = Null /\ c.face[ah[h]] = Null
                  \/ d.face[h] \in G /\ af[d.face[h]] = c.face[ah[h]]
               /\ Opposite(h) \in H /\ ah[Opposite(h)] = Opposite(ah[h])
    <3>1. /\ d.next[h] = c.next[h] /\ d.prev[h] = c.prev[h]
          /\ d.target[h] = c.target[h] /\ d.face[h] = c.face[h]
      BY DEF Agree
    <3>2. c.next[h] \in H /\ c.prev[h] \in H /\ Opposite(h) \in H
      BY DEF Sound, IsValid, IsManifold
    <3>. QED BY <1>2, <3>1, <3>2
  <2>2. ASSUME NEW v \in W
        PROVE  \/ d.half[v] = Null /\ c.half[av[v]] = Null
               \/ d.half[v] \in H /\ ah[d.half[v]] = c.half[av[v]]
    <3>1. d.half[v] = c.half[v] /\ (c.half[v] = Null \/ c.half[v] \in H)
      BY DEF Agree, Sound, IsValid
    <3>. QED BY <1>2, <3>1
  <2>3. ASSUME NEW f \in G
        PROVE  d.fhalf[f] \in H /\ ah[d.fhalf[f]] = c.fhalf[af[f]]
    <3>1. d.fhalf[f] = c.fhalf[f] /\ c.fhalf[f] \in H
      BY DEF Agree, Sound, IsValid
    <3>. QED BY <1>2, <3>1
  <2>. QED BY <2>1, <2>2, <2>3 DEF Renumbers
<1>. QED BY <1>3, <1>4, <1>5, RenumberedSound

(* Two meshes side by side, in arrays that they share. *)
LEMMA UnionSound ==
  ASSUME NEW c, NEW V, NEW H, NEW F, Sound(c, V, H, F),
         NEW W, NEW K, NEW G, Sound(c, W, K, G),
         V \cap W = {}, H \cap K = {}, F \cap G = {}
  PROVE  Sound(c, V \cup W, H \cup K, F \cup G)
<1>1. AreNumbers(V \cup W, H \cup K, F \cup G)
  BY DEF Sound, AreNumbers
<1>2. IsValid(c, V \cup W, H \cup K, F \cup G)
  BY DEF Sound, IsValid
<1>3. /\ \A h \in H : c.target[h] \in V /\ c.face[h] \in F \cup {Null} /\ c.next[h] \in H
      /\ \A h \in K : c.target[h] \in W /\ c.face[h] \in G \cup {Null} /\ c.next[h] \in K
      /\ \A h \in H : Opposite(h) \in H
      /\ \A h \in K : Opposite(h) \in K
      /\ \A v \in V : c.half[v] \in H \cup {Null}
      /\ \A v \in W : c.half[v] \in K \cup {Null}
      /\ \A f \in F : c.fhalf[f] \in H
      /\ \A f \in G : c.fhalf[f] \in K
  BY DEF Sound, IsValid, IsManifold
<1>4. \A h \in H \cup K : h # Null
  BY <1>1 DEF AreNumbers, Null
<1>5. \A f \in F \cup G : f # Null
  BY <1>1 DEF AreNumbers, Null
<1>6. ASSUME NEW v \in V \cup W, NEW S \in SUBSET (H \cup K), c.half[v] \in S \cup {Null},
             \A h \in S : Rotated(c, h) \in S
      PROVE  {h \in H \cup K : c.target[h] = v} \subseteq S
  <2>1. \A h \in S \cap H : Rotated(c, h) \in S \cap H
    BY <1>3, <1>6 DEF Rotated
  <2>2. \A h \in S \cap K : Rotated(c, h) \in S \cap K
    BY <1>3, <1>6 DEF Rotated
  <2>3. CASE v \in V
    <3>1. c.half[v] \in (S \cap H) \cup {Null}
      BY <1>3, <1>6, <2>3
    <3>2. S \cap H \in SUBSET H
      OBVIOUS
    <3>3. {h \in H : c.target[h] = v} \subseteq S \cap H
      BY <2>1, <2>3, <3>1, <3>2 DEF Sound, IsManifold
    <3>. QED BY <1>3, <2>3, <3>3
  <2>4. CASE v \in W
    <3>1. c.half[v] \in (S \cap K) \cup {Null}
      BY <1>3, <1>6, <2>4
    <3>2. S \cap K \in SUBSET K
      OBVIOUS
    <3>3. {h \in K : c.target[h] = v} \subseteq S \cap K
      BY <2>2, <2>4, <3>1, <3>2 DEF Sound, IsManifold
    <3>. QED BY <1>3, <2>4, <3>3
  <2>. QED BY <2>3, <2>4
<1>7. ASSUME NEW f \in F \cup G, NEW S \in SUBSET (H \cup K), c.fhalf[f] \in S,
             \A h \in S : c.next[h] \in S
      PROVE  {h \in H \cup K : c.face[h] = f} \subseteq S
  <2>1. \A h \in S \cap H : c.next[h] \in S \cap H
    BY <1>3, <1>7
  <2>2. \A h \in S \cap K : c.next[h] \in S \cap K
    BY <1>3, <1>7
  <2>3. CASE f \in F
    <3>1. c.fhalf[f] \in S \cap H /\ S \cap H \in SUBSET H
      BY <1>3, <1>7, <2>3
    <3>2. {h \in H : c.face[h] = f} \subseteq S \cap H
      BY <2>1, <2>3, <3>1 DEF Sound, IsManifold
    <3>. QED BY <1>3, <1>5, <2>3, <3>2
  <2>4. CASE f \in G
    <3>1. c.fhalf[f] \in S \cap K /\ S \cap K \in SUBSET K
      BY <1>3, <1>7, <2>4
    <3>2. {h \in K : c.face[h] = f} \subseteq S \cap K
      BY <2>2, <2>4, <3>1 DEF Sound, IsManifold
    <3>. QED BY <1>3, <1>5, <2>4, <3>2
  <2>. QED BY <2>3, <2>4
<1>8. IsManifold(c, V \cup W, H \cup K, F \cup G)
  <2>1. \A h \in H \cup K : Opposite(h) \in H \cup K /\ c.target[h] # c.target[Opposite(h)]
    BY DEF Sound, IsManifold
  <2>. QED BY <2>1, <1>6, <1>7 DEF IsManifold
<1>. QED BY <1>1, <1>2, <1>8 DEF Sound

-----------------------------------------------------------------------------
(***************************************************************************)
(* Connecting an edge.                                                     *)
(***************************************************************************)
(* A hole to put an edge end in: g is a halfedge to u at a hole, or Null   *)
(* where u is isolated.                                                    *)
Opening(c, H, u, g) ==
  \/ g = Null /\ c.half[u] = Null
  \/ g \in H /\ c.half[u] # Null /\ c.target[g] = u /\ c.face[g] = Null

(* d is c with the edge h, o from u to v, put after g and after k.         *)
Wired(d, c, V, H, F, h, o, u, g, v, k) ==
  /\ \A x \in H : d.target[x] = c.target[x] /\ d.face[x] = c.face[x]
  /\ d.target[h] = v /\ d.target[o] = u /\ d.face[h] = Null /\ d.face[o] = Null
  /\ \A x \in H \ {g, k} : d.next[x] = c.next[x]
  /\ \A x \in H : c.prev[x] \notin {g, k} => d.prev[x] = c.prev[x]
  /\ IF g = Null THEN d.next[o] = h /\ d.prev[h] = o
     ELSE d.next[g] = h /\ d.prev[h] = g /\ d.next[o] = c.next[g] /\ d.prev[c.next[g]] = o
  /\ IF k = Null THEN d.next[h] = o /\ d.prev[o] = h
     ELSE d.next[k] = o /\ d.prev[o] = k /\ d.next[h] = c.next[k] /\ d.prev[c.next[k]] = h
  /\ d.half[u] = IF g = Null THEN o ELSE c.half[u]
  /\ d.half[v] = IF k = Null THEN h ELSE c.half[v]
  /\ \A w \in V \ {u, v} : d.half[w] = c.half[w]
  /\ \A f \in F : d.fhalf[f] = c.fhalf[f]

(* It stays sound when an edge is wired between two corners. *)
LEMMA WiredSound ==
  ASSUME NEW c, NEW V, NEW H, NEW F, Sound(c, V, H, F),
         NEW h \in Nat, NEW o \in Nat, h \notin H, o \notin H,
         o = Opposite(h), h = Opposite(o), h # o,
         NEW u \in V, NEW v \in V, u # v,
         NEW g, NEW k, Opening(c, H, u, g), Opening(c, H, v, k),
         NEW d, Wired(d, c, V, H, F, h, o, u, g, v, k)
  PROVE  Sound(d, V, H \cup {h, o}, F)
<1> DEFINE K == H \cup {h, o}
<1>n. \A x \in H : /\ c.next[x] \in H /\ c.prev[c.next[x]] = x
                   /\ c.prev[x] \in H /\ c.next[c.prev[x]] = x
  BY DEF Sound, IsValid
<1>t. \A x \in H : c.target[x] \in V /\ c.target[x] = c.target[Opposite(c.next[x])]
  BY DEF Sound, IsValid
<1>f. \A x \in H : c.face[x] \in F \cup {Null} /\ c.face[x] = c.face[c.next[x]]
  BY DEF Sound, IsValid
<1>o. \A x \in H : Opposite(x) \in H /\ c.target[x] # c.target[Opposite(x)]
  BY DEF Sound, IsManifold
<1>0. Null \notin H /\ h # Null /\ o # Null /\ Null \notin F
  BY DEF Sound, AreNumbers, Null
<1>1. /\ g # Null => g \in H /\ c.target[g] = u /\ c.face[g] = Null /\ c.half[u] # Null
      /\ g = Null => c.half[u] = Null
      /\ k # Null => k \in H /\ c.target[k] = v /\ c.face[k] = Null /\ c.half[v] # Null
      /\ k = Null => c.half[v] = Null
      /\ g # Null => g # k
      /\ k # Null => g # k
  BY <1>0 DEF Opening
<1>N. /\ \A x \in H \ {g, k} : d.next[x] = c.next[x]
      /\ \A x \in H : c.prev[x] \notin {g, k} => d.prev[x] = c.prev[x]
      /\ g = Null => d.next[o] = h /\ d.prev[h] = o
      /\ g # Null => d.next[g] = h /\ d.prev[h] = g /\ d.next[o] = c.next[g]
                     /\ d.prev[c.next[g]] = o
      /\ k = Null => d.next[h] = o /\ d.prev[o] = h
      /\ k # Null => d.next[k] = o /\ d.prev[o] = k /\ d.next[h] = c.next[k]
                     /\ d.prev[c.next[k]] = h
  BY DEF Wired
<1>T. /\ \A x \in H : d.target[x] = c.target[x] /\ d.face[x] = c.face[x]
      /\ d.target[h] = v /\ d.target[o] = u /\ d.face[h] = Null /\ d.face[o] = Null
  BY DEF Wired
<1>H. /\ d.half[u] = IF g = Null THEN o ELSE c.half[u]
      /\ d.half[v] = IF k = Null THEN h ELSE c.half[v]
      /\ \A w \in V \ {u, v} : d.half[w] = c.half[w]
      /\ \A f \in F : d.fhalf[f] = c.fhalf[f]
  BY DEF Wired
<1>2. ASSUME NEW x \in K
      PROVE  /\ d.next[x] \in K /\ d.prev[d.next[x]] = x
             /\ d.prev[x] \in K /\ d.next[d.prev[x]] = x
  <2>1. ASSUME x \in H, x # g, x # k PROVE d.next[x] \in K /\ d.prev[d.next[x]] = x
    BY <2>1, <1>n, <1>N
  <2>2. CASE x = g \/ x = k \/ x = h \/ x = o
    BY <2>2, <1>n, <1>N, <1>0, <1>1
  <2>3. ASSUME x \in H PROVE d.prev[x] \in K /\ d.next[d.prev[x]] = x
    <3>1. CASE c.prev[x] \notin {g, k}
      BY <3>1, <2>3, <1>n, <1>N
    <3>2. CASE c.prev[x] \in {g, k}
      BY <3>2, <2>3, <1>n, <1>N, <1>0
    <3>. QED BY <3>1, <3>2
  <2>4. d.next[x] \in K /\ d.prev[d.next[x]] = x
    BY <2>1, <2>2, <1>n, <1>N, <1>0, <1>1
  <2>5. x \in {h, o} => d.prev[x] \in K /\ d.next[d.prev[x]] = x
    BY <1>n, <1>N, <1>0, <1>1
  <2>. QED BY <2>3, <2>4, <2>5
<1>r. /\ \A x \in H \ {g, k} : Rotated(d, x) = Rotated(c, x)
      /\ g # Null => Rotated(d, g) = o /\ Rotated(d, o) = Rotated(c, g)
      /\ g = Null => Rotated(d, o) = o
      /\ k # Null => Rotated(d, k) = h /\ Rotated(d, h) = Rotated(c, k)
      /\ k = Null => Rotated(d, h) = h
  BY <1>N DEF Rotated
<1>R. \A x \in H : Rotated(c, x) \in H /\ c.target[Rotated(c, x)] = c.target[x]
  BY <1>n, <1>o, <1>t DEF Rotated
<1>3. ASSUME NEW x \in K
      PROVE  /\ d.target[x] \in V /\ d.target[x] = d.target[Opposite(d.next[x])]
             /\ d.face[x] \in F \cup {Null} /\ d.face[x] = d.face[d.next[x]]
  <2>1. d.target[x] \in V /\ d.face[x] \in F \cup {Null}
    BY <1>t, <1>f, <1>T
  <2>2. d.target[x] = d.target[Rotated(d, x)]
    <3>1. CASE x \in H /\ x \notin {g, k}
      BY <3>1, <1>r, <1>R, <1>T
    <3>2. CASE x \in {g, k}
      BY <3>2, <1>r, <1>T, <1>0, <1>1
    <3>3. CASE x = h
      <4>1. k # Null => d.target[Rotated(c, k)] = v
        BY <1>R, <1>T, <1>1
      <4>. QED BY <3>3, <4>1, <1>r, <1>T
    <3>4. CASE x = o
      <4>1. g # Null => d.target[Rotated(c, g)] = u
        BY <1>R, <1>T, <1>1
      <4>. QED BY <3>4, <4>1, <1>r, <1>T
    <3>. QED BY <3>1, <3>2, <3>3, <3>4
  <2>3. d.face[x] = d.face[d.next[x]]
    <3>1. CASE x \in H /\ x \notin {g, k}
      BY <3>1, <1>N, <1>f, <1>n, <1>T
    <3>2. CASE x \in {g, k}
      BY <3>2, <1>N, <1>T, <1>0, <1>1
    <3>3. CASE x = h
      <4>1. k # Null => d.face[c.next[k]] = Null
        BY <1>n, <1>f, <1>T, <1>1
      <4>. QED BY <3>3, <4>1, <1>N, <1>T
    <3>4. CASE x = o
      <4>1. g # Null => d.face[c.next[g]] = Null
        BY <1>n, <1>f, <1>T, <1>1
      <4>. QED BY <3>4, <4>1, <1>N, <1>T
    <3>. QED BY <3>1, <3>2, <3>3, <3>4
  <2>. QED BY <2>1, <2>2, <2>3 DEF Rotated
<1>4. \A w \in V : d.half[w] # Null => d.half[w] \in K /\ d.target[d.half[w]] = w
  <2>1. \A w \in V : c.half[w] # Null => c.half[w] \in H /\ c.target[c.half[w]] = w
    BY DEF Sound, IsValid
  <2>. QED BY <2>1, <1>H, <1>T
<1>5. \A f \in F : d.fhalf[f] \in K /\ d.face[d.fhalf[f]] = f
  <2>1. \A f \in F : c.fhalf[f] \in H /\ c.face[c.fhalf[f]] = f
    BY DEF Sound, IsValid
  <2>. QED BY <2>1, <1>H, <1>T
<1>6. IsValid(d, V, K, F)
  <2> HIDE DEF K
  <2>. QED BY <1>2, <1>3, <1>4, <1>5 DEF IsValid
<1>7. ASSUME NEW x \in K PROVE Opposite(x) \in K /\ d.target[x] # d.target[Opposite(x)]
  BY <1>o, <1>T
<1>8. ASSUME NEW w \in V, NEW S \in SUBSET K, d.half[w] \in S \cup {Null},
             \A x \in S : Rotated(d, x) \in S
      PROVE  {x \in K : d.target[x] = w} \subseteq S
  <2>1. \A x \in S \cap H : Rotated(c, x) \in S \cap H
    BY <1>8, <1>r, <1>R, <1>0, <1>1
  <2>2. c.half[w] \in (S \cap H) \cup {Null}
    <3>1. c.half[w] # Null => c.half[w] \in H
      BY DEF Sound, IsValid
    <3>. QED BY <3>1, <1>8, <1>H, <1>1
  <2>3. S \cap H \in SUBSET H
    OBVIOUS
  <2>4. {x \in H : c.target[x] = w} \subseteq S \cap H
    BY <2>1, <2>2, <2>3 DEF Sound, IsManifold
  <2>5. w = v => h \in S
    BY <2>4, <1>8, <1>r, <1>H, <1>0, <1>1
  <2>6. w = u => o \in S
    BY <2>4, <1>8, <1>r, <1>H, <1>0, <1>1
  <2>. QED BY <2>4, <2>5, <2>6, <1>T
<1>9. ASSUME NEW f \in F, NEW S \in SUBSET K, d.fhalf[f] \in S,
             \A x \in S : d.next[x] \in S
      PROVE  {x \in K : d.face[x] = f} \subseteq S
  <2> DEFINE T == {x \in S \cap H : c.face[x] = f}
  <2>1. \A x \in T : c.next[x] \in T
    BY <1>9, <1>N, <1>n, <1>f, <1>0, <1>1
  <2>2. c.fhalf[f] \in T
    <3>1. c.fhalf[f] \in H /\ c.face[c.fhalf[f]] = f
      BY DEF Sound, IsValid
    <3>. QED BY <3>1, <1>9, <1>H
  <2>3. T \in SUBSET H
    OBVIOUS
  <2> HIDE DEF T
  <2>4. {x \in H : c.face[x] = f} \subseteq T
    BY <2>1, <2>2, <2>3 DEF Sound, IsManifold
  <2>. QED BY <2>4, <1>T, <1>0 DEF T
<1>10. IsManifold(d, V, K, F)
  <2> HIDE DEF K
  <2>. QED BY <1>7, <1>8, <1>9 DEF IsManifold
<1>11. AreNumbers(V, K, F)
  BY DEF Sound, AreNumbers
<1>. QED BY <1>6, <1>10, <1>11 DEF Sound

Grown(S, i) == S \cup {i}

Without(S, i) == S \ {i}

Same(f, g, S) == \A x \in S : f[x] = g[x]

(* The operations on arrays, one array at a time. *)
VertexReset(d, c, V, v) ==
  /\ d.half[v] = Null /\ \A x \in V : x # v => d.half[x] = c.half[x]
  /\ d.target = c.target /\ d.next = c.next /\ d.prev = c.prev
  /\ d.face = c.face /\ d.fhalf = c.fhalf

(* Arrays with a reset entry for a vertex. *)
LEMMA WithVertexIs ==
  ASSUME NEW V, NEW D, NEW F, NEW c \in Arrays(V, D, F), NEW v, NEW W, W = V \cup {v},
         NEW d, d = WithVertex(c, v)
  PROVE  d \in Arrays(W, D, F) /\ VertexReset(d, c, V, v)
<1>1. c.half \in [V -> Int] /\ Null \in Int
  BY DEF Arrays, Null
<1>2. PICK b : b = Bind(c.half, {v}, Null)
  OBVIOUS
<1>3. /\ b \in [W -> Int] /\ b[v] = Null
      /\ \A x \in V : x # v => b[x] = c.half[x]
  BY <1>1, <1>2 DEF Bind
<1>4. d = [c EXCEPT !.half = b]
  BY <1>2 DEF WithVertex, Arrays
<1>. QED BY <1>3, <1>4 DEF Arrays, VertexReset

FaceReset(d, c, F, f) ==
  /\ d.fhalf[f] = Null /\ \A x \in F : x # f => d.fhalf[x] = c.fhalf[x]
  /\ d.target = c.target /\ d.next = c.next /\ d.prev = c.prev
  /\ d.face = c.face /\ d.half = c.half

(* Arrays with a reset entry for a face. *)
LEMMA WithFaceIs ==
  ASSUME NEW V, NEW D, NEW F, NEW c \in Arrays(V, D, F), NEW f, NEW G, G = F \cup {f},
         NEW d, d = WithFace(c, f)
  PROVE  d \in Arrays(V, D, G) /\ FaceReset(d, c, F, f)
<1>1. c.fhalf \in [F -> Int] /\ Null \in Int
  BY DEF Arrays, Null
<1>2. PICK b : b = Bind(c.fhalf, {f}, Null)
  OBVIOUS
<1>3. /\ b \in [G -> Int] /\ b[f] = Null
      /\ \A x \in F : x # f => b[x] = c.fhalf[x]
  BY <1>1, <1>2 DEF Bind
<1>4. d = [c EXCEPT !.fhalf = b]
  BY <1>2 DEF WithFace, Arrays
<1>. QED BY <1>3, <1>4 DEF Arrays, FaceReset

EdgeReset(d, c, D, h, o) ==
  /\ d.half = c.half /\ d.fhalf = c.fhalf
  /\ \A x \in {h, o} : d.face[x] = Null
  /\ \A x \in D : x \notin {h, o} =>
       /\ d.next[x] = c.next[x] /\ d.prev[x] = c.prev[x]
       /\ d.target[x] = c.target[x] /\ d.face[x] = c.face[x]

(* Arrays with reset entries for the halfedges of an edge. *)
LEMMA WithEdgeIs ==
  ASSUME NEW V, NEW D, NEW F, NEW c \in Arrays(V, D, F), NEW h, NEW o, o = h + 1,
         NEW E, E = D \cup {h, o}, NEW d, d = WithEdge(c, h)
  PROVE  d \in Arrays(V, E, F) /\ EdgeReset(d, c, D, h, o)
<1>1. PICK S : S = {h, o}
  OBVIOUS
<1>2. ASSUME NEW f \in [D -> Int]
      PROVE  \E b \in [E -> Int] :
               /\ b = Bind(f, S, Null) /\ \A x \in S : b[x] = Null
               /\ \A x \in D : x \notin S => b[x] = f[x]
  <2>1. Null \in Int /\ E = D \cup S
    BY <1>1 DEF Null
  <2>2. PICK b : b = Bind(f, S, Null)
    OBVIOUS
  <2>3. /\ b \in [E -> Int] /\ \A x \in S : b[x] = Null
        /\ \A x \in D : x \notin S => b[x] = f[x]
    BY <2>1, <2>2 DEF Bind
  <2>. QED BY <2>2, <2>3
<1>3. /\ c.next \in [D -> Int] /\ c.prev \in [D -> Int]
      /\ c.target \in [D -> Int] /\ c.face \in [D -> Int]
  BY DEF Arrays
<1>4. PICK t \in [E -> Int] : t = Bind(c.target, S, Null)
                              /\ \A x \in D : x \notin S => t[x] = c.target[x]
  BY <1>2, <1>3
<1>5. PICK n \in [E -> Int] : n = Bind(c.next, S, Null)
                              /\ \A x \in D : x \notin S => n[x] = c.next[x]
  BY <1>2, <1>3
<1>6. PICK p \in [E -> Int] : p = Bind(c.prev, S, Null)
                              /\ \A x \in D : x \notin S => p[x] = c.prev[x]
  BY <1>2, <1>3
<1>7. PICK a \in [E -> Int] : a = Bind(c.face, S, Null) /\ (\A x \in S : a[x] = Null)
                              /\ \A x \in D : x \notin S => a[x] = c.face[x]
  BY <1>2, <1>3
<1>8. d = [c EXCEPT !.target = t, !.next = n, !.prev = p, !.face = a]
  BY <1>1, <1>4, <1>5, <1>6, <1>7 DEF WithEdge, Arrays
<1>9. /\ d \in Arrays(V, E, F) /\ d.half = c.half /\ d.fhalf = c.fhalf
      /\ d.target = t /\ d.next = n /\ d.prev = p /\ d.face = a
  BY <1>8 DEF Arrays
<1>. QED BY <1>1, <1>4, <1>5, <1>6, <1>7, <1>9 DEF EdgeReset

(* d is c with next[h] = n. *)
NextSet(d, c, D, h, n) ==
  /\ d.half = c.half /\ d.target = c.target /\ d.face = c.face /\ d.fhalf = c.fhalf
  /\ d.next[h] = n /\ \A x \in D : x # h => d.next[x] = c.next[x]
  /\ d.prev[n] = h /\ \A x \in D : x # n => d.prev[x] = c.prev[x]

(* set_next writes one link forwards and one back. *)
LEMMA SetNextIs ==
  ASSUME NEW V, NEW D, NEW F, NEW c \in Arrays(V, D, F),
         Integral(D), NEW h \in D, NEW n \in D, NEW d, d = SetNext(c, h, n)
  PROVE  d \in Arrays(V, D, F) /\ NextSet(d, c, D, h, n)
<1>1. PICK a : a = [c.next EXCEPT ![h] = n]
  OBVIOUS
<1>2. PICK b : b = [c.prev EXCEPT ![n] = h]
  OBVIOUS
<1>3. d = [c EXCEPT !.next = a, !.prev = b]
  BY <1>1, <1>2 DEF SetNext, Arrays
<1>4. /\ a \in [D -> Int] /\ b \in [D -> Int]
      /\ a[h] = n /\ b[n] = h
      /\ \A x \in D : x # h => a[x] = c.next[x]
      /\ \A x \in D : x # n => b[x] = c.prev[x]
  BY <1>1, <1>2 DEF Arrays, Integral
<1>. QED BY <1>3, <1>4 DEF Arrays, NextSet

(* Nothing changes in the arrays where there is no vertex of V, and no     *)
(* halfedge of H.                                                          *)
Elsewhere(d, c, W, V, D, H) ==
  /\ d.fhalf = c.fhalf
  /\ \A w \in W : w \notin V => d.half[w] = c.half[w]
  /\ \A x \in D : x \notin H => d.next[x] = c.next[x]

Linked(c, H) ==
  \A x \in H : c.next[x] \in H /\ c.prev[c.next[x]] = x /\ c.prev[x] \in H

(* A new edge h, o in the arrays, and where its ends go. *)
Fits(c, D, H, h, o, g, k) ==
  /\ H \subseteq D /\ Null \notin D /\ Linked(c, H)
  /\ o = Opposite(h) /\ h # o /\ h \in D /\ o \in D /\ h \notin H /\ o \notin H
  /\ c.face[h] = Null /\ c.face[o] = Null
  /\ g \in H \cup {Null} /\ k \in H \cup {Null} /\ (g # Null => g # k)

(* What Connect stores, for a new edge in arrays that already hold it. *)
LEMMA ConnectIs ==
  ASSUME NEW V, NEW D, NEW F, NEW c \in Arrays(V, D, F), Integral(V), Integral(D),
         NEW H, NEW h, NEW o, NEW g, NEW k, Fits(c, D, H, h, o, g, k),
         NEW u \in V, NEW v \in V, u # v,
         NEW d, d = Connect(c, h, u, g, v, k)
  PROVE  /\ d \in Arrays(V, D, F) /\ Wired(d, c, V, H, F, h, o, u, g, v, k)
         /\ Elsewhere(d, c, V, {u, v}, D, H \cup {h, o})
<1>f. /\ H \subseteq D /\ Null \notin D /\ Linked(c, H)
      /\ o = Opposite(h) /\ h # o /\ h \in D /\ o \in D /\ h \notin H /\ o \notin H
      /\ c.face[h] = Null /\ c.face[o] = Null
      /\ g \in H \cup {Null} /\ k \in H \cup {Null} /\ (g # Null => g # k)
  BY DEF Fits
<1>l. \A x \in H : c.next[x] \in H /\ c.prev[c.next[x]] = x /\ c.prev[x] \in H
  BY <1>f DEF Linked
<1>0. /\ H \subseteq D /\ h \in D /\ o \in D
      /\ (g # Null => g \in D) /\ (k # Null => k \in D) /\ Null \notin D
  BY <1>f
<1>1. PICK a : a = IF k = Null THEN o ELSE c.next[k]
  OBVIOUS
<1>2. PICK b : b = IF g = Null THEN h ELSE c.next[g]
  OBVIOUS
<1>3. a \in D /\ b \in D /\ a # b
  BY <1>f, <1>l, <1>0, <1>1, <1>2
<1>4. PICK t : t = [c.target EXCEPT ![h] = v, ![o] = u]
  OBVIOUS
<1>5. PICK e : e = [c.half EXCEPT ![v] = IF k = Null THEN h ELSE c.half[v],
                                  ![u] = IF g = Null THEN o ELSE c.half[u]]
  OBVIOUS
<1>6. /\ t \in [D -> Int] /\ t[h] = v /\ t[o] = u
      /\ \A x \in D : x \notin {h, o} => t[x] = c.target[x]
  <2>1. c.target \in [D -> Int]
    BY DEF Arrays
  <2>. QED BY <1>f, <2>1, <1>0, <1>4 DEF Integral
<1>7. /\ e \in [V -> Int]
      /\ \A w \in V : w \notin {u, v} => e[w] = c.half[w]
      /\ e[u] = IF g = Null THEN o ELSE c.half[u]
      /\ e[v] = IF k = Null THEN h ELSE c.half[v]
  <2>1. c.half \in [V -> Int]
    BY DEF Arrays
  <2>. QED BY <1>f, <2>1, <1>0, <1>5 DEF Integral
<1>8. PICK c1 : c1 = [c EXCEPT !.target = t, !.half = e]
  OBVIOUS
<1>9. /\ c1 \in Arrays(V, D, F) /\ c1.half = e /\ c1.target = t
      /\ c1.next = c.next /\ c1.prev = c.prev /\ c1.face = c.face /\ c1.fhalf = c.fhalf
  BY <1>f, <1>6, <1>7, <1>8 DEF Arrays
<1>10. PICK c2 : c2 = SetNext(c1, h, a)
  OBVIOUS
<1>11. PICK c3 : c3 = SetNext(c2, o, b)
  OBVIOUS
<1>12. PICK c4 : c4 = IF g = Null THEN c3 ELSE SetNext(c3, g, h)
  OBVIOUS
<1>13. PICK d5 : d5 = IF k = Null THEN c4 ELSE SetNext(c4, k, o)
  OBVIOUS
<1>14. d = d5
  <2>1. c1 = [c EXCEPT !.target[h] = v, !.target[o] = u,
                       !.half[v] = IF k = Null THEN h ELSE @,
                       !.half[u] = IF g = Null THEN o ELSE @]
    BY <1>f, <1>4, <1>5, <1>8 DEF Arrays
  <2>. QED BY <1>f, <2>1, <1>1, <1>2, <1>10, <1>11, <1>12, <1>13 DEF Connect
<1>15. /\ c2 \in Arrays(V, D, F) /\ c2.half = e /\ c2.target = t
       /\ c2.face = c.face /\ c2.fhalf = c.fhalf
       /\ c2.next[h] = a /\ \A x \in D : x # h => c2.next[x] = c.next[x]
       /\ c2.prev[a] = h /\ \A x \in D : x # a => c2.prev[x] = c.prev[x]
  <2>1. c1 \in Arrays(V, D, F) /\ h \in D /\ a \in D
    BY <1>f, <1>0, <1>3, <1>9
  <2>2. c2 \in Arrays(V, D, F) /\ NextSet(c2, c1, D, h, a)
    BY <1>f, <2>1, <1>10, SetNextIs
  <2>. QED BY <1>f, <2>2, <1>9 DEF NextSet
<1>16. /\ c3 \in Arrays(V, D, F) /\ c3.half = e /\ c3.target = t
       /\ c3.face = c.face /\ c3.fhalf = c.fhalf
       /\ c3.next[o] = b /\ \A x \in D : x # o => c3.next[x] = c2.next[x]
       /\ c3.prev[b] = o /\ \A x \in D : x # b => c3.prev[x] = c2.prev[x]
  <2>1. c3 \in Arrays(V, D, F) /\ NextSet(c3, c2, D, o, b)
    BY <1>f, <1>3, <1>11, <1>15, SetNextIs
  <2>. QED BY <1>f, <2>1, <1>15 DEF NextSet
<1>17. /\ c4 \in Arrays(V, D, F) /\ c4.half = e /\ c4.target = t
       /\ c4.face = c.face /\ c4.fhalf = c.fhalf
       /\ g = Null => c4.next = c3.next /\ c4.prev = c3.prev
       /\ g # Null => c4.next[g] = h /\ c4.prev[h] = g
       /\ \A x \in D : x # g => c4.next[x] = c3.next[x]
       /\ \A x \in D : x # h => c4.prev[x] = c3.prev[x]
  <2>1. CASE g = Null
    BY <1>f, <2>1, <1>12, <1>16
  <2>2. CASE g # Null
    <3>1. c4 = SetNext(c3, g, h) /\ g \in D
      BY <1>f, <2>2, <1>0, <1>12
    <3>2. c4 \in Arrays(V, D, F) /\ NextSet(c4, c3, D, g, h)
      BY <1>f, <3>1, <1>16, SetNextIs
    <3>. QED BY <1>f, <2>2, <3>2, <1>16 DEF NextSet
  <2>. QED BY <1>f, <2>1, <2>2
<1>18. /\ d \in Arrays(V, D, F) /\ d.half = e /\ d.target = t
       /\ d.face = c.face /\ d.fhalf = c.fhalf
       /\ k = Null => d.next = c4.next /\ d.prev = c4.prev
       /\ k # Null => d.next[k] = o /\ d.prev[o] = k
       /\ \A x \in D : x # k => d.next[x] = c4.next[x]
       /\ \A x \in D : x # o => d.prev[x] = c4.prev[x]
  <2>1. CASE k = Null
    BY <1>f, <2>1, <1>13, <1>14, <1>17
  <2>2. CASE k # Null
    <3>1. d = SetNext(c4, k, o) /\ k \in D
      BY <1>f, <2>2, <1>0, <1>13, <1>14
    <3>2. d \in Arrays(V, D, F) /\ NextSet(d, c4, D, k, o)
      BY <1>f, <3>1, <1>17, SetNextIs
    <3>. QED BY <1>f, <2>2, <3>2, <1>17 DEF NextSet
  <2>. QED BY <1>f, <2>1, <2>2
<1>19. /\ \A x \in H : d.target[x] = c.target[x] /\ d.face[x] = c.face[x]
       /\ d.target[h] = v /\ d.target[o] = u /\ d.face[h] = Null /\ d.face[o] = Null
  BY <1>f, <1>0, <1>6, <1>18
<1>20. /\ \A x \in D : x \notin {g, k, h, o} => d.next[x] = c.next[x]
       /\ g = Null => d.next[o] = h
       /\ g # Null => d.next[g] = h /\ d.next[o] = c.next[g]
       /\ k = Null => d.next[h] = o
       /\ k # Null => d.next[k] = o /\ d.next[h] = c.next[k]
  <2>1. \A x \in D : x \notin {g, k, h, o} => d.next[x] = c.next[x]
    BY <1>f, <1>15, <1>16, <1>17, <1>18
  <2>2. d.next[h] = a /\ d.next[o] = b
    BY <1>f, <1>0, <1>15, <1>16, <1>17, <1>18
  <2>3. (g # Null => d.next[g] = h) /\ (k # Null => d.next[k] = o)
    BY <1>f, <1>0, <1>17, <1>18
  <2>. QED BY <1>f, <2>1, <2>2, <2>3, <1>1, <1>2
<1>21. /\ \A x \in H : c.prev[x] \notin {g, k} => d.prev[x] = c.prev[x]
       /\ g = Null => d.prev[h] = o
       /\ g # Null => d.prev[h] = g /\ d.prev[c.next[g]] = o
       /\ k = Null => d.prev[o] = h
       /\ k # Null => d.prev[o] = k /\ d.prev[c.next[k]] = h
  <2>1. \A x \in D : x \notin {a, b, h, o} => d.prev[x] = c.prev[x]
    BY <1>f, <1>15, <1>16, <1>17, <1>18
  <2>2. (g # Null => d.prev[h] = g) /\ (k # Null => d.prev[o] = k)
    BY <1>f, <1>0, <1>17, <1>18
  <2>3. (g = Null => d.prev[h] = o) /\ (k = Null => d.prev[o] = h)
    <3>1. g = Null => c3.prev[h] = o
      BY <1>f, <1>2, <1>16
    <3>2. k = Null => c2.prev[o] = h /\ b # o
      BY <1>f, <1>l, <1>1, <1>2, <1>15
    <3>. QED BY <1>f, <3>1, <3>2, <1>0, <1>16, <1>17, <1>18
  <2>4. (g # Null => d.prev[b] = o) /\ (k # Null => d.prev[a] = h)
    <3>1. (g # Null => b \notin {h, o}) /\ (k # Null => a \notin {h, o})
      BY <1>f, <1>l, <1>1, <1>2
    <3>. QED BY <1>f, <3>1, <1>3, <1>15, <1>16, <1>17, <1>18
  <2>5. \A x \in H : c.prev[x] \notin {g, k} => x \notin {a, b, h, o}
    BY <1>f, <1>l, <1>0, <1>1, <1>2
  <2>. QED BY <1>f, <2>1, <2>2, <2>3, <2>4, <2>5, <1>0, <1>1, <1>2
<1>22. Wired(d, c, V, H, F, h, o, u, g, v, k)
  BY <1>f, <1>0, <1>7, <1>18, <1>19, <1>20, <1>21 DEF Wired
<1>23. Elsewhere(d, c, V, {u, v}, D, H \cup {h, o})
  <2>1. \A w \in V : w \notin {u, v} => d.half[w] = c.half[w]
    BY <1>f, <1>7, <1>18
  <2>2. \A x \in D : x \notin H \cup {h, o} => d.next[x] = c.next[x]
    BY <1>f, <1>0, <1>20
  <2>. QED BY <1>f, <2>1, <2>2, <1>18 DEF Elsewhere
<1>. QED BY <1>f, <1>18, <1>22, <1>23

-----------------------------------------------------------------------------
(***************************************************************************)
(* Adding vertices and edges.                                              *)
(***************************************************************************)
LEMMA AddedVertexSound ==
  ASSUME NEW X, NEW D, NEW Y, NEW c \in Arrays(X, D, Y),
         NEW V, V \subseteq X, NEW H, NEW F, Sound(c, V, H, F),
         NEW v \in Nat, v \notin V, NEW Z, Z = X \cup {v},
         NEW d, d = WithVertex(c, v)
  PROVE  /\ d \in Arrays(Z, D, Y) /\ Sound(d, V \cup {v}, H, F)
         /\ Elsewhere(d, c, X, V \cup {v}, D, H)
<1>1. d \in Arrays(Z, D, Y) /\ VertexReset(d, c, X, v)
  BY WithVertexIs
<1>2. Agree(d, c, V, H, F)
  BY <1>1 DEF VertexReset, Agree
<1>3. \A h \in H : c.target[h] \in V /\ c.face[h] \in F \cup {Null}
  BY DEF Sound, IsValid
<1>4. Sound(d, V, H, F)
  <2>1. V \in SUBSET V /\ F \in SUBSET F
    OBVIOUS
  <2>. QED BY <1>2, <1>3, <2>1, AgreeingSound
<1>5. Sound(d, {v}, {}, {})
  <2>1. d.half[v] = Null
    BY <1>1 DEF VertexReset
  <2>. QED BY <2>1 DEF Sound, AreNumbers, IsValid, IsManifold
<1>6. Sound(d, V \cup {v}, H \cup {}, F \cup {})
  BY <1>4, <1>5, UnionSound
<1>7. Elsewhere(d, c, X, V \cup {v}, D, H)
  BY <1>1 DEF VertexReset, Elsewhere
<1>8. H \cup {} = H /\ F \cup {} = F
  OBVIOUS
<1>. QED BY <1>1, <1>6, <1>7, <1>8

IsEdge(h, o) ==
  h \in Nat /\ o = h + 1 /\ o = Opposite(h) /\ h = Opposite(o)

(* The halfedges of edge e. *)
LEMMA EdgeHalves ==
  ASSUME NEW e \in Nat, NEW h, h = 2 * e, NEW o, o = 2 * e + 1
  PROVE  IsEdge(h, o)
BY DEF IsEdge, Opposite

(* The elements that are in use are among those that the arrays hold. *)
Inside(V, H, F, X, D, Y) == V \subseteq X /\ H \subseteq D /\ F \subseteq Y

WithPair(S, h, o) == S \cup {h, o}

(* What an edge between two holes stores, and where it stores nothing. *)
LEMMA AddedEdgeWired ==
  ASSUME NEW X, NEW D, NEW Y, NEW c \in Arrays(X, D, Y), Integral(X), Null \notin D,
         NEW V, NEW H, NEW F, Inside(V, H, F, X, D, Y), Sound(c, V, H, F),
         NEW h, NEW o, IsEdge(h, o), h \notin H, o \notin H,
         NEW E, E = WithPair(D, h, o), Integral(E),
         NEW u \in V, NEW v \in V, u # v,
         NEW g, NEW k, Opening(c, H, u, g), Opening(c, H, v, k),
         NEW d, d = Connect(WithEdge(c, h), h, u, g, v, k)
  PROVE  /\ d \in Arrays(X, E, Y) /\ Wired(d, c, V, H, F, h, o, u, g, v, k)
         /\ Elsewhere(d, c, X, V, D, WithPair(H, h, o))
<1> USE DEF Inside, WithPair
<1>1. h # o /\ h = Opposite(o) /\ o = Opposite(h) /\ h # Null /\ o # Null
  BY DEF IsEdge, Null
<1>2. PICK e : e = WithEdge(c, h)
  OBVIOUS
<1>3. e \in Arrays(X, E, Y) /\ EdgeReset(e, c, D, h, o)
  <2>1. o = h + 1
    BY DEF IsEdge
  <2>. QED BY <1>2, <2>1, WithEdgeIs
<1>4. Agree(e, c, V, H, F)
  BY <1>3 DEF EdgeReset, Agree
<1>5. \A x \in H : c.next[x] \in H /\ c.prev[c.next[x]] = x /\ c.prev[x] \in H
  BY DEF Sound, IsValid
<1>6. Linked(e, H)
  BY <1>4, <1>5 DEF Agree, Linked
<1>7. g \in H \cup {Null} /\ k \in H \cup {Null} /\ (g # Null => g # k)
  BY DEF Opening
<1>8. e.face[h] = Null /\ e.face[o] = Null
  BY <1>3 DEF EdgeReset
<1>9. h \in E /\ o \in E /\ Null \notin E /\ H \in SUBSET E
  BY <1>1
<1>10. Fits(e, E, H, h, o, g, k)
  BY <1>1, <1>6, <1>7, <1>8, <1>9 DEF Fits
<1>11. d \in Arrays(X, E, Y) /\ Wired(d, e, X, H, Y, h, o, u, g, v, k)
       /\ Elsewhere(d, e, X, {u, v}, E, H \cup {h, o})
  <2>1. u \in X /\ v \in X /\ d = Connect(e, h, u, g, v, k)
    BY <1>2
  <2>. QED BY <1>3, <1>10, <2>1, ConnectIs
<1>12. Wired(d, c, V, H, F, h, o, u, g, v, k)
  <2>1. /\ \A x \in H : /\ e.next[x] = c.next[x] /\ e.prev[x] = c.prev[x]
                        /\ e.target[x] = c.target[x] /\ e.face[x] = c.face[x]
        /\ \A w \in V : e.half[w] = c.half[w]
        /\ \A f \in F : e.fhalf[f] = c.fhalf[f]
    BY <1>4 DEF Agree
  <2>. QED BY <1>7, <1>11, <2>1 DEF Wired
<1>13. Elsewhere(d, c, X, V, D, H \cup {h, o})
  BY <1>3, <1>11 DEF Elsewhere, EdgeReset
<1>. QED BY <1>11, <1>12, <1>13

(* A connectivity stays sound when an edge is added and wired. *)
LEMMA AddedEdgeSound ==
  ASSUME NEW X, NEW D, NEW Y, NEW c \in Arrays(X, D, Y), Integral(X), Null \notin D,
         NEW V, NEW H, NEW F, Inside(V, H, F, X, D, Y), Sound(c, V, H, F),
         NEW h, NEW o, IsEdge(h, o), h \notin H, o \notin H,
         NEW E, E = WithPair(D, h, o), Integral(E),
         NEW u \in V, NEW v \in V, u # v,
         NEW g, NEW k, Opening(c, H, u, g), Opening(c, H, v, k),
         NEW d, d = Connect(WithEdge(c, h), h, u, g, v, k)
  PROVE  /\ d \in Arrays(X, E, Y) /\ Sound(d, V, WithPair(H, h, o), F)
         /\ Elsewhere(d, c, X, V, D, WithPair(H, h, o))
<1>1. /\ d \in Arrays(X, E, Y) /\ Wired(d, c, V, H, F, h, o, u, g, v, k)
      /\ Elsewhere(d, c, X, V, D, WithPair(H, h, o))
  BY AddedEdgeWired
<1>2. h # o /\ h = Opposite(o) /\ o = Opposite(h) /\ h \in Nat /\ o \in Nat
  BY DEF IsEdge
<1>3. Sound(d, V, H \cup {h, o}, F)
  BY <1>1, <1>2, WiredSound
<1>. QED BY <1>1, <1>3 DEF WithPair

-----------------------------------------------------------------------------
(***************************************************************************)
(* Disconnecting an edge.                                                  *)
(***************************************************************************)
(* d is c without the edge h, o: p, q come before them, n, m after them.   *)
Unwired(d, c, V, K, F, h, o, p, q, n, m) ==
  /\ \A x \in K : d.target[x] = c.target[x] /\ d.face[x] = c.face[x]
  /\ \A x \in K : x \notin {p, q} => d.next[x] = c.next[x]
  /\ \A x \in K : x \notin {m, n} => d.prev[x] = c.prev[x]
  /\ p # o => d.next[p] = m /\ d.prev[m] = p
  /\ q # h => d.next[q] = n /\ d.prev[n] = q
  /\ d.half[c.target[h]] = IF c.half[c.target[h]] # h THEN c.half[c.target[h]]
                           ELSE IF q = h THEN Null ELSE q
  /\ d.half[c.target[o]] = IF c.half[c.target[o]] # o THEN c.half[c.target[o]]
                           ELSE IF p = o THEN Null ELSE p
  /\ \A w \in V : w \notin {c.target[h], c.target[o]} => d.half[w] = c.half[w]
  /\ \A f \in F : d.fhalf[f] = c.fhalf[f]

(* It stays sound when a border edge is unwired. *)
LEMMA UnwiredSound ==
  ASSUME NEW c, NEW V, NEW H, NEW F, Sound(c, V, H, F),
         NEW h \in H, NEW o \in H, o = Opposite(h), h = Opposite(o), h # o,
         c.face[h] = Null, c.face[o] = Null,
         NEW p, p = c.prev[h], NEW q, q = c.prev[o], NEW n, n = c.next[h], NEW m, m = c.next[o],
         NEW K, K = H \ {h, o}, NEW d, Unwired(d, c, V, K, F, h, o, p, q, n, m)
  PROVE  Sound(d, V, K, F)
<1>n. \A x \in H : /\ c.next[x] \in H /\ c.prev[c.next[x]] = x
                   /\ c.prev[x] \in H /\ c.next[c.prev[x]] = x
  BY DEF Sound, IsValid
<1>t. \A x \in H : c.target[x] \in V /\ c.target[x] = c.target[Opposite(c.next[x])]
  BY DEF Sound, IsValid
<1>f. \A x \in H : c.face[x] \in F \cup {Null} /\ c.face[x] = c.face[c.next[x]]
  BY DEF Sound, IsValid
<1>o. \A x \in H : Opposite(x) \in H /\ c.target[x] # c.target[Opposite(x)]
  BY DEF Sound, IsManifold
<1>h. \A w \in V : c.half[w] # Null => c.half[w] \in H /\ c.target[c.half[w]] = w
  BY DEF Sound, IsValid
<1>F. \A f \in F : c.fhalf[f] \in H /\ c.face[c.fhalf[f]] = f
  BY DEF Sound, IsValid
<1>0. Null \notin H /\ Null \notin F
  BY DEF Sound, AreNumbers, Null
<1>1. PICK u, v : u = c.target[o] /\ v = c.target[h]
  OBVIOUS
<1>2. u \in V /\ v \in V /\ u # v
  BY <1>1, <1>t, <1>o
<1>3. /\ p \in H /\ q \in H /\ n \in H /\ m \in H
      /\ c.next[p] = h /\ c.next[q] = o /\ c.prev[n] = h /\ c.prev[m] = o
  BY <1>n
<1>4. /\ c.target[p] = u /\ c.target[q] = v
      /\ c.target[Opposite(n)] = v /\ c.target[Opposite(m)] = u
  <2>1. c.target[p] = c.target[Opposite(h)] /\ c.target[q] = c.target[Opposite(o)]
    BY <1>3, <1>t
  <2>2. c.target[h] = c.target[Opposite(n)] /\ c.target[o] = c.target[Opposite(m)]
    BY <1>t
  <2>. QED BY <2>1, <2>2, <1>1
<1>5. /\ p # h /\ q # o /\ n # h /\ m # o /\ p # q /\ m # n
      /\ (p = o <=> m = h) /\ (q = h <=> n = o)
  BY <1>1, <1>2, <1>3, <1>4, <1>n
<1>6. c.face[p] = Null /\ c.face[q] = Null /\ c.face[n] = Null /\ c.face[m] = Null
  BY <1>3, <1>f
<1>N. /\ \A x \in K : x \notin {p, q} => d.next[x] = c.next[x]
      /\ \A x \in K : x \notin {m, n} => d.prev[x] = c.prev[x]
      /\ p # o => d.next[p] = m /\ d.prev[m] = p
      /\ q # h => d.next[q] = n /\ d.prev[n] = q
  BY DEF Unwired
<1>T. \A x \in K : d.target[x] = c.target[x] /\ d.face[x] = c.face[x]
  BY DEF Unwired
<1>H. /\ d.half[v] = IF c.half[v] # h THEN c.half[v] ELSE IF q = h THEN Null ELSE q
      /\ d.half[u] = IF c.half[u] # o THEN c.half[u] ELSE IF p = o THEN Null ELSE p
      /\ \A w \in V : w \notin {u, v} => d.half[w] = c.half[w]
      /\ \A f \in F : d.fhalf[f] = c.fhalf[f]
  BY <1>1 DEF Unwired
<1>7. ASSUME NEW x \in K
      PROVE  /\ d.next[x] \in K /\ d.prev[d.next[x]] = x
             /\ d.prev[x] \in K /\ d.next[d.prev[x]] = x
  <2>1. ASSUME x \notin {p, q} PROVE d.next[x] \in K /\ d.prev[d.next[x]] = x
    <3>1. c.next[x] \in K /\ c.next[x] \notin {m, n}
      BY <2>1, <1>n, <1>3
    <3>. QED BY <2>1, <3>1, <1>N, <1>n
  <2>2. p # o => m \in K /\ d.next[p] = m /\ d.prev[m] = p
    BY <1>N, <1>3, <1>5
  <2>3. q # h => n \in K /\ d.next[q] = n /\ d.prev[n] = q
    BY <1>N, <1>3, <1>5
  <2>4. ASSUME x \notin {m, n} PROVE d.prev[x] \in K /\ d.next[d.prev[x]] = x
    <3>1. c.prev[x] \in K /\ c.prev[x] \notin {p, q}
      BY <2>4, <1>n, <1>3
    <3>. QED BY <2>4, <3>1, <1>N, <1>n
  <2>5. (m \in K => p \in K /\ p # o) /\ (n \in K => q \in K /\ q # h)
    BY <1>3, <1>5
  <2>. QED BY <2>1, <2>2, <2>3, <2>4, <2>5
<1>O. \A x \in K : Opposite(x) \in K
  <2>1. \A x \in H : Opposite(Opposite(x)) = x
    BY OppositeTwice DEF Sound, AreNumbers
  <2>. QED BY <2>1, <1>o
<1>r. /\ \A x \in K : x \notin {p, q} => Rotated(d, x) = Rotated(c, x)
      /\ p # o => Rotated(d, p) = Opposite(m)
      /\ q # h => Rotated(d, q) = Opposite(n)
      /\ Rotated(c, p) = o /\ Rotated(c, q) = h
      /\ Rotated(c, h) = Opposite(n) /\ Rotated(c, o) = Opposite(m)
  BY <1>N, <1>3 DEF Rotated
<1>R. \A x \in H : Rotated(c, x) \in H /\ c.target[Rotated(c, x)] = c.target[x]
  BY <1>n, <1>o, <1>t DEF Rotated
<1>8. ASSUME NEW x \in K
      PROVE  /\ d.target[x] \in V /\ d.target[x] = d.target[Opposite(d.next[x])]
             /\ d.face[x] \in F \cup {Null} /\ d.face[x] = d.face[d.next[x]]
  <2>1. d.target[x] \in V /\ d.face[x] \in F \cup {Null}
    BY <1>t, <1>f, <1>T
  <2>2. Opposite(d.next[x]) \in K
    BY <1>7, <1>O
  <2>3. CASE x \notin {p, q}
    <3>1. d.next[x] = c.next[x] /\ c.next[x] \in K
      BY <2>3, <1>7, <1>N
    <3>. QED BY <2>1, <2>2, <3>1, <1>t, <1>f, <1>T
  <2>4. CASE x = p
    <3>1. d.next[p] = m /\ m \in K
      BY <2>4, <1>7, <1>N
    <3>. QED BY <2>1, <2>2, <2>4, <3>1, <1>4, <1>6, <1>T
  <2>5. CASE x = q
    <3>1. d.next[q] = n /\ n \in K
      BY <2>5, <1>7, <1>N
    <3>. QED BY <2>1, <2>2, <2>5, <3>1, <1>4, <1>6, <1>T
  <2>. QED BY <2>3, <2>4, <2>5
<1>9. ASSUME NEW w \in V, d.half[w] # Null
      PROVE  d.half[w] \in K /\ d.target[d.half[w]] = w
  <2>1. CASE w = v
    BY <2>1, <1>9, <1>H, <1>T, <1>h, <1>1, <1>2, <1>3, <1>4, <1>5
  <2>2. CASE w = u
    BY <2>2, <1>9, <1>H, <1>T, <1>h, <1>1, <1>2, <1>3, <1>4, <1>5
  <2>3. CASE w \notin {u, v}
    BY <2>3, <1>9, <1>H, <1>T, <1>h, <1>1
  <2>. QED BY <2>1, <2>2, <2>3
<1>10. \A f \in F : d.fhalf[f] \in K /\ d.face[d.fhalf[f]] = f
  <2> SUFFICES ASSUME NEW f \in F PROVE d.fhalf[f] \in K /\ d.face[d.fhalf[f]] = f
    OBVIOUS
  <2>1. PICK x \in H : x = c.fhalf[f] /\ c.face[x] = f /\ x = d.fhalf[f]
    BY <1>F, <1>H
  <2>2. x \in K
    BY <2>1, <1>0
  <2>. QED BY <2>1, <2>2, <1>T
<1>11. IsValid(d, V, K, F)
  BY <1>7, <1>8, <1>9, <1>10 DEF IsValid
<1>12. ASSUME NEW x \in K PROVE Opposite(x) \in K /\ d.target[x] # d.target[Opposite(x)]
  BY <1>O, <1>o, <1>T
<1>13. ASSUME NEW w \in V, NEW S \in SUBSET K, d.half[w] \in S \cup {Null},
              \A x \in S : Rotated(d, x) \in S
       PROVE  {x \in K : d.target[x] = w} \subseteq S
  <2> DEFINE T == S \cup {x \in {h} : q \in S} \cup {x \in {o} : p \in S}
  <2>1. \A x \in T : Rotated(c, x) \in T
    <3> SUFFICES ASSUME NEW x \in T PROVE Rotated(c, x) \in T
      OBVIOUS
    <3>1. CASE x \in S /\ x \notin {p, q}
      BY <3>1, <1>13, <1>r
    <3>2. CASE x \in S /\ x \in {p, q}
      BY <3>2, <1>r
    <3>3. CASE x = h /\ q \in S
      <4>1. q # h
        BY <3>3
      <4>. QED BY <3>3, <4>1, <1>13, <1>r
    <3>4. CASE x = o /\ p \in S
      <4>1. p # o
        BY <3>4
      <4>. QED BY <3>4, <4>1, <1>13, <1>r
    <3>. QED BY <3>1, <3>2, <3>3, <3>4
  <2>2. T \in SUBSET H
    OBVIOUS
  <2>3. ASSUME c.half[w] \in T \cup {Null} PROVE {x \in K : d.target[x] = w} \subseteq S
    <3> HIDE DEF T
    <3>1. {x \in H : c.target[x] = w} \subseteq T
      BY <2>1, <2>2, <2>3 DEF Sound, IsManifold
    <3>. QED BY <3>1, <1>T DEF T
  <2>4. CASE w \notin {u, v}
    BY <2>3, <2>4, <1>13, <1>H
  <2>5. CASE w = v
    <3>1. CASE c.half[v] # h
      BY <2>3, <2>5, <3>1, <1>13, <1>H
    <3>2. CASE c.half[v] = h /\ q # h
      <4>1. d.half[v] = q /\ q # Null
        BY <3>2, <1>H, <1>0, <1>3
      <4>. QED BY <2>3, <2>5, <3>2, <4>1, <1>13
    <3>3. CASE c.half[v] = h /\ q = h
      <4>1. Rotated(c, h) = h
        BY <3>3, <1>r, <1>5
      <4>2. {h} \in SUBSET H /\ \A x \in {h} : Rotated(c, x) \in {h}
        BY <4>1
      <4>3. {x \in H : c.target[x] = v} \subseteq {h}
        BY <4>2, <3>3, <1>2 DEF Sound, IsManifold
      <4>. QED BY <4>3, <2>5, <1>T
    <3>. QED BY <3>1, <3>2, <3>3
  <2>6. CASE w = u
    <3>1. CASE c.half[u] # o
      BY <2>3, <2>6, <3>1, <1>13, <1>H
    <3>2. CASE c.half[u] = o /\ p # o
      <4>1. d.half[u] = p /\ p # Null
        BY <3>2, <1>H, <1>0, <1>3
      <4>. QED BY <2>3, <2>6, <3>2, <4>1, <1>13
    <3>3. CASE c.half[u] = o /\ p = o
      <4>1. Rotated(c, o) = o
        BY <3>3, <1>r, <1>5
      <4>2. {o} \in SUBSET H /\ \A x \in {o} : Rotated(c, x) \in {o}
        BY <4>1
      <4>3. {x \in H : c.target[x] = u} \subseteq {o}
        BY <4>2, <3>3, <1>2 DEF Sound, IsManifold
      <4>. QED BY <4>3, <2>6, <1>T
    <3>. QED BY <3>1, <3>2, <3>3
  <2>. QED BY <2>4, <2>5, <2>6
<1>14. ASSUME NEW f \in F, NEW S \in SUBSET K, d.fhalf[f] \in S,
              \A x \in S : d.next[x] \in S
       PROVE  {x \in K : d.face[x] = f} \subseteq S
  <2> DEFINE T == {x \in S : c.face[x] = f}
  <2>1. \A x \in T : c.next[x] \in T
    BY <1>14, <1>N, <1>f, <1>0, <1>6
  <2>2. c.fhalf[f] \in T
    BY <1>14, <1>F, <1>H
  <2>3. T \in SUBSET H
    OBVIOUS
  <2> HIDE DEF T
  <2>4. {x \in H : c.face[x] = f} \subseteq T
    BY <2>1, <2>2, <2>3 DEF Sound, IsManifold
  <2>. QED BY <2>4, <1>T DEF T
<1>15. IsManifold(d, V, K, F)
  BY <1>12, <1>13, <1>14 DEF IsManifold
<1>16. AreNumbers(V, K, F)
  BY DEF Sound, AreNumbers
<1>. QED BY <1>11, <1>15, <1>16 DEF Sound

(* An edge in the cycles, and what is before and after it. *)
Lies(c, V, D, h, o, p, q, n, m) ==
  /\ o = Opposite(h) /\ h # o
  /\ p = c.prev[h] /\ q = c.prev[o] /\ n = c.next[h] /\ m = c.next[o]
  /\ h \in D /\ o \in D /\ p \in D /\ q \in D /\ n \in D /\ m \in D
  /\ p # q /\ m # n
  /\ c.target[h] \in V /\ c.target[o] \in V /\ c.target[h] # c.target[o]

(* What Disconnect writes. *)
LEMMA DisconnectIs ==
  ASSUME NEW V, NEW D, NEW F, NEW c \in Arrays(V, D, F), Integral(V), Integral(D),
         NEW h, NEW o, NEW p, NEW q, NEW n, NEW m, Lies(c, V, D, h, o, p, q, n, m),
         NEW d, d = Disconnect(c, h)
  PROVE  /\ d \in Arrays(V, D, F)
         /\ Unwired(d, c, V, D \ {h, o}, F, h, o, p, q, n, m)
         /\ Elsewhere(d, c, V, {c.target[h], c.target[o]}, D, {p, q})
<1>1. /\ o = Opposite(h) /\ h # o
      /\ p = c.prev[h] /\ q = c.prev[o] /\ n = c.next[h] /\ m = c.next[o]
      /\ h \in D /\ o \in D /\ p \in D /\ q \in D /\ n \in D /\ m \in D
      /\ p # q /\ m # n
  BY DEF Lies
<1>2. PICK u, v : u = c.target[o] /\ v = c.target[h] /\ u \in V /\ v \in V /\ u # v
  BY DEF Lies
<1>3. PICK c1 : c1 = IF p = o THEN c ELSE SetNext(c, p, m)
  OBVIOUS
<1>4. PICK c2 : c2 = IF q = h THEN c1 ELSE SetNext(c1, q, n)
  OBVIOUS
<1>5. PICK a : a = IF c.half[v] # h THEN c.half[v] ELSE IF q = h THEN Null ELSE q
  OBVIOUS
<1>6. PICK b : b = IF c.half[u] # o THEN c.half[u] ELSE IF p = o THEN Null ELSE p
  OBVIOUS
<1>7. PICK e : e = [c.half EXCEPT ![v] = a, ![u] = b]
  OBVIOUS
<1>8. /\ c1 \in Arrays(V, D, F)
      /\ c1.half = c.half /\ c1.target = c.target /\ c1.face = c.face /\ c1.fhalf = c.fhalf
      /\ p # o => c1.next[p] = m /\ c1.prev[m] = p
      /\ \A x \in D : x # p => c1.next[x] = c.next[x]
      /\ \A x \in D : x # m => c1.prev[x] = c.prev[x]
  <2>1. CASE p = o
    BY <2>1, <1>3
  <2>2. CASE p # o
    <3>1. c1 \in Arrays(V, D, F) /\ NextSet(c1, c, D, p, m)
      BY <2>2, <1>1, <1>3, SetNextIs
    <3>. QED BY <2>2, <3>1 DEF NextSet
  <2>. QED BY <2>1, <2>2
<1>9. /\ c2 \in Arrays(V, D, F)
      /\ c2.half = c1.half /\ c2.target = c1.target /\ c2.face = c1.face
      /\ c2.fhalf = c1.fhalf
      /\ q # h => c2.next[q] = n /\ c2.prev[n] = q
      /\ \A x \in D : x # q => c2.next[x] = c1.next[x]
      /\ \A x \in D : x # n => c2.prev[x] = c1.prev[x]
  <2>1. CASE q = h
    BY <2>1, <1>4, <1>8
  <2>2. CASE q # h
    <3>1. c2 \in Arrays(V, D, F) /\ NextSet(c2, c1, D, q, n)
      BY <2>2, <1>1, <1>4, <1>8, SetNextIs
    <3>. QED BY <2>2, <3>1 DEF NextSet
  <2>. QED BY <2>1, <2>2
<1>10. c.half \in [V -> Int] /\ c2.half = c.half
  BY <1>8, <1>9 DEF Arrays
<1>11. d = [c2 EXCEPT !.half = e]
  <2>1. d = [c2 EXCEPT
               !.half[v] = IF @ = h THEN IF q = h THEN Null ELSE q ELSE @,
               !.half[u] = IF @ = o THEN IF p = o THEN Null ELSE p ELSE @]
    BY <1>1, <1>2, <1>3, <1>4 DEF Disconnect
  <2>2. [c2.half EXCEPT ![v] = IF @ = h THEN IF q = h THEN Null ELSE q ELSE @,
                        ![u] = IF @ = o THEN IF p = o THEN Null ELSE p ELSE @] = e
    BY <1>2, <1>5, <1>6, <1>7, <1>10
  <2>. QED BY <2>1, <2>2, <1>9 DEF Arrays
<1>12. a \in Int /\ b \in Int
  BY <1>1, <1>2, <1>5, <1>6, <1>10 DEF Integral, Null
<1>13. /\ e \in [V -> Int] /\ e[v] = a /\ e[u] = b
       /\ \A w \in V : w \notin {u, v} => e[w] = c.half[w]
  BY <1>2, <1>7, <1>10, <1>12
<1>14. /\ d \in Arrays(V, D, F) /\ d.half = e
       /\ d.target = c.target /\ d.next = c2.next /\ d.prev = c2.prev
       /\ d.face = c.face /\ d.fhalf = c.fhalf
  BY <1>8, <1>9, <1>11, <1>13 DEF Arrays
<1>15. /\ \A x \in D : x \notin {p, q} => d.next[x] = c.next[x]
       /\ \A x \in D : x \notin {m, n} => d.prev[x] = c.prev[x]
       /\ p # o => d.next[p] = m /\ d.prev[m] = p
       /\ q # h => d.next[q] = n /\ d.prev[n] = q
  BY <1>1, <1>8, <1>9, <1>14
<1>16. Unwired(d, c, V, D \ {h, o}, F, h, o, p, q, n, m)
  BY <1>2, <1>5, <1>6, <1>13, <1>14, <1>15 DEF Unwired
<1>17. Elsewhere(d, c, V, {c.target[h], c.target[o]}, D, {p, q})
  BY <1>2, <1>13, <1>14, <1>15 DEF Elsewhere
<1>. QED BY <1>14, <1>16, <1>17

WithoutPair(S, h, o) == S \ {h, o}

(* What Disconnect stores, for an edge between two holes. *)
Severed(d, c, V, H, F, h, o) ==
  Unwired(d, c, V, WithoutPair(H, h, o), F, h, o, c.prev[h], c.prev[o], c.next[h], c.next[o])

(* Taking out an edge between two holes stores that, and nothing           *)
(* elsewhere.                                                              *)
LEMMA RemovedEdgeUnwired ==
  ASSUME NEW X, NEW D, NEW Y, NEW c \in Arrays(X, D, Y), Integral(X), Integral(D),
         NEW V, NEW H, NEW F, Inside(V, H, F, X, D, Y), Sound(c, V, H, F),
         NEW h \in H, NEW o \in H, IsEdge(h, o),
         NEW d, d = Disconnect(c, h)
  PROVE  d \in Arrays(X, D, Y) /\ Severed(d, c, V, H, F, h, o) /\ Elsewhere(d, c, X, V, D, H)
<1> USE DEF Inside, WithoutPair
<1>1. o = Opposite(h) /\ h = Opposite(o) /\ h # o
  BY DEF IsEdge
<1>n. \A x \in H : c.next[x] \in H /\ c.prev[x] \in H /\ c.target[x] \in V
                   /\ c.prev[c.next[x]] = x /\ c.next[c.prev[x]] = x
  BY DEF Sound, IsValid
<1>2. PICK p, q, n, m : p = c.prev[h] /\ q = c.prev[o] /\ n = c.next[h] /\ m = c.next[o]
  OBVIOUS
<1>3. c.target[h] # c.target[o]
  BY <1>1 DEF Sound, IsManifold
<1>4. p \in H /\ q \in H /\ n \in H /\ m \in H /\ p # q /\ m # n
  BY <1>1, <1>2, <1>n
<1>5. Lies(c, X, D, h, o, p, q, n, m)
  BY <1>1, <1>2, <1>3, <1>4, <1>n DEF Lies
<1>6. /\ d \in Arrays(X, D, Y)
      /\ Unwired(d, c, X, D \ {h, o}, Y, h, o, p, q, n, m)
      /\ Elsewhere(d, c, X, {c.target[h], c.target[o]}, D, {p, q})
  BY <1>5, DisconnectIs
<1>7. Unwired(d, c, V, H \ {h, o}, F, h, o, p, q, n, m)
  BY <1>6 DEF Unwired
<1>8. Elsewhere(d, c, X, V, D, H)
  BY <1>4, <1>6, <1>n DEF Elsewhere
<1>. QED BY <1>2, <1>6, <1>7, <1>8 DEF Severed

(* A connectivity stays sound when a border edge is unwired and removed. *)
LEMMA RemovedEdgeSound ==
  ASSUME NEW X, NEW D, NEW Y, NEW c \in Arrays(X, D, Y), Integral(X), Integral(D),
         NEW V, NEW H, NEW F, Inside(V, H, F, X, D, Y), Sound(c, V, H, F),
         NEW h \in H, NEW o \in H, IsEdge(h, o),
         c.face[h] = Null, c.face[o] = Null,
         NEW d, d = Disconnect(c, h)
  PROVE  /\ d \in Arrays(X, D, Y) /\ Sound(d, V, WithoutPair(H, h, o), F)
         /\ Elsewhere(d, c, X, V, D, H)
<1>1. d \in Arrays(X, D, Y) /\ Severed(d, c, V, H, F, h, o) /\ Elsewhere(d, c, X, V, D, H)
  BY RemovedEdgeUnwired
<1>2. PICK K, p, q, n, m : /\ K = H \ {h, o} /\ p = c.prev[h] /\ q = c.prev[o]
                           /\ n = c.next[h] /\ m = c.next[o]
  OBVIOUS
<1>3. Unwired(d, c, V, K, F, h, o, p, q, n, m)
  BY <1>1, <1>2 DEF Severed, WithoutPair
<1>4. o = Opposite(h) /\ h = Opposite(o) /\ h # o
  BY DEF IsEdge
<1>5. Sound(d, V, K, F)
  BY <1>2, <1>3, <1>4, UnwiredSound
<1>. QED BY <1>1, <1>2, <1>5 DEF WithoutPair

-----------------------------------------------------------------------------
(***************************************************************************)
(* Filling and clearing a face.                                            *)
(***************************************************************************)
IsCycle(C, c, H, h) ==
  /\ h \in C /\ C \subseteq H
  /\ \A g \in C : c.next[g] \in C
  /\ \A g \in H : c.next[g] \in C => g \in C
  /\ \A S \in SUBSET H : h \in S /\ (\A g \in S : c.next[g] \in S) => C \subseteq S

(* The halfedges that following next from h meets. *)
LEMMA CycleIs ==
  ASSUME NEW X, NEW D, NEW Y, NEW c \in Arrays(X, D, Y), IsFiniteSet(D),
         NEW V, NEW H, H \subseteq D, NEW F, Sound(c, V, H, F),
         NEW h \in H, NEW C, C = Cycle(c, h)
  PROVE  IsCycle(C, c, H, h)
<1>1. DOMAIN c.next = D
  BY DEF Arrays
<1>2. IsFiniteSet(DOMAIN c.next) /\ H \subseteq DOMAIN c.next
  BY <1>1
<1>3. \A g \in H : c.next[g] \in H
  BY DEF Sound, IsValid
<1>4. \A f, g \in H : c.next[f] = c.next[g] => f = g
  BY DEF Sound, IsValid
<1>5. /\ h \in Cycle(c, h) /\ Cycle(c, h) \subseteq H
      /\ \A g \in Cycle(c, h) : c.next[g] \in Cycle(c, h)
      /\ \A g \in H : c.next[g] \in Cycle(c, h) => g \in Cycle(c, h)
      /\ \A S \in SUBSET H :
           h \in S /\ (\A g \in S : c.next[g] \in S) => Cycle(c, h) \subseteq S
  BY <1>2, <1>3, <1>4, CycleCloses
<1>. QED BY <1>5 DEF IsCycle

(* d is c with the face f along C. *)
FaceSet(d, c, D, C, f) ==
  /\ d.half = c.half /\ d.target = c.target /\ d.next = c.next /\ d.prev = c.prev
  /\ \A x \in C : d.face[x] = f
  /\ \A x \in D : x \notin C => d.face[x] = c.face[x]

(* The halfedges of a cycle get a face. *)
LEMMA SetFaceIs ==
  ASSUME NEW X, NEW D, NEW Y, NEW c \in Arrays(X, D, Y), NEW h,
         NEW C, C = Cycle(c, h), C \subseteq D, NEW f \in Int,
         NEW d, d = SetFace(c, h, f)
  PROVE  d \in Arrays(X, D, Y) /\ FaceSet(d, c, D, C, f) /\ d.fhalf = c.fhalf
<1>1. c.face \in [D -> Int] /\ D = D \cup C
  BY DEF Arrays
<1>2. PICK b : b = Bind(c.face, C, f)
  OBVIOUS
<1>3. /\ b \in [D -> Int] /\ \A x \in C : b[x] = f
      /\ \A x \in D : x \notin C => b[x] = c.face[x]
  BY <1>1, <1>2 DEF Bind
<1>4. d = [c EXCEPT !.face = b]
  BY <1>2 DEF SetFace, Arrays
<1>5. /\ d \in Arrays(X, D, Y) /\ d.face = b /\ d.fhalf = c.fhalf
      /\ d.half = c.half /\ d.target = c.target /\ d.next = c.next /\ d.prev = c.prev
  BY <1>3, <1>4 DEF Arrays
<1>. QED BY <1>3, <1>5 DEF FaceSet

(* What is_valid and the walks around the faces demand of the faces. *)
FacesFit(d, H, G) ==
  /\ G \subseteq Nat
  /\ \A x \in H : d.face[x] \in G \cup {Null} /\ d.face[x] = d.face[d.next[x]]
  /\ \A f \in G : d.fhalf[f] \in H /\ d.face[d.fhalf[f]] = f
  /\ \A f \in G, S \in SUBSET H :
       d.fhalf[f] \in S /\ (\A x \in S : d.next[x] \in S) =>
         {x \in H : d.face[x] = f} \subseteq S

(* The targets and the next halfedges do not change: only what concerns    *)
(* the faces has to be looked at again.                                    *)
LEMMA RefacedSound ==
  ASSUME NEW c, NEW V, NEW H, NEW F, Sound(c, V, H, F),
         NEW G, NEW d, FacesFit(d, H, G),
         d.half = c.half, d.target = c.target, d.next = c.next, d.prev = c.prev
  PROVE  Sound(d, V, H, G)
<1>1. AreNumbers(V, H, G)
  BY DEF Sound, AreNumbers, FacesFit
<1>2. IsValid(d, V, H, G)
  BY DEF Sound, IsValid, FacesFit
<1>3. \A h \in H : Opposite(h) \in H /\ d.target[h] # d.target[Opposite(h)]
  BY DEF Sound, IsManifold
<1>4. ASSUME NEW v \in V, NEW S \in SUBSET H,
             d.half[v] \in S \cup {Null}, \A h \in S : Rotated(d, h) \in S
      PROVE  {h \in H : d.target[h] = v} \subseteq S
  <2>1. \A h \in S : Rotated(c, h) \in S
    BY <1>4 DEF Rotated
  <2>. QED BY <2>1, <1>4 DEF Sound, IsManifold
<1>5. IsManifold(d, V, H, G)
  BY <1>3, <1>4 DEF IsManifold, FacesFit
<1>. QED BY <1>1, <1>2, <1>5 DEF Sound

(* A connectivity stays sound when a hole is filled with a new face. *)
LEMMA FilledSound ==
  ASSUME NEW X, NEW D, NEW Y, NEW c \in Arrays(X, D, Y), IsFiniteSet(D), Integral(D),
         NEW V, NEW H, NEW F, Inside(V, H, F, X, D, Y), Sound(c, V, H, F),
         NEW f \in Nat, f \notin F, NEW Z, Z = Grown(Y, f),
         NEW h \in H, c.face[h] = Null,
         NEW d, d = Fill(WithFace(c, f), h, f)
  PROVE  /\ d \in Arrays(X, D, Z) /\ Sound(d, V, H, Grown(F, f))
         /\ d.half = c.half /\ d.next = c.next
         /\ Same(d.fhalf, c.fhalf, Without(Y, f))
<1> USE DEF Inside, Grown, Without, Same
<1>1. PICK e : e = WithFace(c, f)
  OBVIOUS
<1>2. e \in Arrays(X, D, Z) /\ FaceReset(e, c, Y, f)
  BY <1>1, WithFaceIs
<1>3. Agree(e, c, V, H, F)
  BY <1>2 DEF FaceReset, Agree
<1>4. Sound(e, V, H, F)
  <2>1. V \in SUBSET V /\ F \in SUBSET F
    OBVIOUS
  <2>2. \A x \in H : c.target[x] \in V /\ c.face[x] \in F \cup {Null}
    BY DEF Sound, IsValid
  <2>. QED BY <1>3, <2>1, <2>2, AgreeingSound
<1>5. PICK C : C = Cycle(e, h)
  OBVIOUS
<1>6. IsCycle(C, e, H, h)
  BY <1>2, <1>4, <1>5, CycleIs
<1>7. PICK a : a = SetFace(e, h, f)
  OBVIOUS
<1>8. a \in Arrays(X, D, Z) /\ FaceSet(a, e, D, C, f) /\ a.fhalf = e.fhalf
  <2>1. C \subseteq D
    BY <1>6 DEF IsCycle
  <2>. QED BY <1>2, <1>5, <1>7, <2>1, SetFaceIs
<1>9. d = [a EXCEPT !.fhalf[f] = h]
  BY <1>1, <1>7 DEF Fill
<1>10. /\ d \in Arrays(X, D, Z)
       /\ d.half = a.half /\ d.target = a.target /\ d.next = a.next /\ d.prev = a.prev
       /\ d.face = a.face /\ d.fhalf[f] = h
       /\ \A x \in Z : x # f => d.fhalf[x] = a.fhalf[x]
  <2>1. PICK b : b = [a.fhalf EXCEPT ![f] = h]
    OBVIOUS
  <2>2. h \in Int /\ f \in Z
    BY DEF Integral
  <2>3. a.fhalf \in [Z -> Int]
    BY <1>8 DEF Arrays
  <2>4. b \in [Z -> Int] /\ b[f] = h /\ \A x \in Z : x # f => b[x] = a.fhalf[x]
    BY <2>1, <2>2, <2>3
  <2>5. d = [a EXCEPT !.fhalf = b]
    BY <1>8, <1>9, <2>1 DEF Arrays
  <2>. QED BY <1>8, <2>4, <2>5 DEF Arrays
<1>11. /\ d.half = e.half /\ d.target = e.target /\ d.next = e.next /\ d.prev = e.prev
       /\ \A x \in C : d.face[x] = f
       /\ \A x \in H : x \notin C => d.face[x] = e.face[x]
       /\ d.fhalf[f] = h /\ \A x \in Z : x # f => d.fhalf[x] = e.fhalf[x]
  BY <1>8, <1>10 DEF FaceSet
<1>n. \A x \in H : e.next[x] \in H /\ e.face[x] \in F \cup {Null} /\ e.face[x] = e.face[e.next[x]]
  BY <1>4 DEF Sound, IsValid
<1>12. /\ h \in C /\ C \subseteq H
       /\ \A x \in C : e.next[x] \in C
       /\ \A x \in H : e.next[x] \in C => x \in C
  BY <1>6 DEF IsCycle
<1>13. \A x \in C : e.face[x] = Null
  <2>1. PICK S : S = {x \in H : e.face[x] = Null}
    OBVIOUS
  <2>2. h \in S /\ S \in SUBSET H /\ \A x \in S : e.next[x] \in S
    BY <2>1, <1>n, <1>2 DEF FaceReset
  <2>3. C \subseteq S
    BY <2>2, <1>6 DEF IsCycle
  <2>. QED BY <2>1, <2>3
<1>14. Null \notin F /\ f # Null
  BY DEF Sound, AreNumbers, Null
<1>15. ASSUME NEW x \in H
       PROVE  d.face[x] \in (F \cup {f}) \cup {Null} /\ d.face[x] = d.face[e.next[x]]
  BY <1>n, <1>11, <1>12
<1>16. ASSUME NEW y \in F \cup {f} PROVE d.fhalf[y] \in H /\ d.face[d.fhalf[y]] = y
  <2>1. CASE y = f
    BY <2>1, <1>11, <1>12
  <2>2. CASE y \in F
    <3>1. e.fhalf[y] \in H /\ e.face[e.fhalf[y]] = y
      BY <2>2, <1>4 DEF Sound, IsValid
    <3>2. e.fhalf[y] \notin C /\ d.fhalf[y] = e.fhalf[y]
      BY <2>2, <3>1, <1>11, <1>13, <1>14
    <3>. QED BY <3>1, <3>2, <1>11
  <2>. QED BY <2>1, <2>2
<1>17. ASSUME NEW y \in F \cup {f}, NEW S \in SUBSET H,
              d.fhalf[y] \in S, \A x \in S : e.next[x] \in S
       PROVE  {x \in H : d.face[x] = y} \subseteq S
  <2>1. CASE y = f
    <3>1. C \subseteq S
      BY <2>1, <1>6, <1>11, <1>17 DEF IsCycle
    <3>2. \A x \in H : d.face[x] = f => x \in C
      BY <1>n, <1>11, <1>14
    <3>. QED BY <2>1, <3>1, <3>2
  <2>2. CASE y \in F
    <3>1. e.fhalf[y] \in S
      BY <2>2, <1>11, <1>17
    <3>2. {x \in H : e.face[x] = y} \subseteq S
      BY <2>2, <3>1, <1>4, <1>17 DEF Sound, IsManifold
    <3>3. \A x \in H : d.face[x] = y => e.face[x] = y
      BY <2>2, <1>11
    <3>. QED BY <3>2, <3>3
  <2>. QED BY <2>1, <2>2
<1>18. Sound(d, V, H, F \cup {f})
  <2>1. F \cup {f} \subseteq Nat
    BY DEF Sound, AreNumbers
  <2>2. FacesFit(d, H, F \cup {f})
    BY <2>1, <1>11, <1>15, <1>16, <1>17 DEF FacesFit
  <2>. QED BY <2>2, <1>4, <1>11, RefacedSound
<1>19. d.half = c.half /\ d.next = c.next /\ \A x \in Y : x # f => d.fhalf[x] = c.fhalf[x]
  BY <1>2, <1>11 DEF FaceReset
<1>. QED BY <1>10, <1>18, <1>19

(* It stays sound when a face is taken off its halfedges. *)
LEMMA ClearedSound ==
  ASSUME NEW X, NEW D, NEW Y, NEW c \in Arrays(X, D, Y), IsFiniteSet(D),
         NEW V, NEW H, NEW F, Inside(V, H, F, X, D, Y), Sound(c, V, H, F),
         NEW f \in F, NEW d, d = SetFace(c, c.fhalf[f], Null)
  PROVE  /\ d \in Arrays(X, D, Y) /\ Sound(d, V, H, Without(F, f))
         /\ d.half = c.half /\ d.next = c.next /\ d.fhalf = c.fhalf
<1> USE DEF Inside, Without
<1>1. PICK h \in H : h = c.fhalf[f] /\ c.face[h] = f
  BY DEF Sound, IsValid
<1>2. PICK C : C = Cycle(c, h)
  OBVIOUS
<1>3. IsCycle(C, c, H, h)
  BY <1>2, CycleIs
<1>n. \A x \in H : c.next[x] \in H /\ c.face[x] \in F \cup {Null} /\ c.face[x] = c.face[c.next[x]]
  BY DEF Sound, IsValid
<1>4. C = {x \in H : c.face[x] = f}
  <2>1. PICK S : S = {x \in H : c.face[x] = f}
    OBVIOUS
  <2>2. h \in S /\ S \in SUBSET H /\ \A x \in S : c.next[x] \in S
    BY <2>1, <1>n, <1>1
  <2>3. C \subseteq S
    BY <2>2, <1>3 DEF IsCycle
  <2>4. c.fhalf[f] \in C /\ C \in SUBSET H /\ \A x \in C : c.next[x] \in C
    BY <1>1, <1>3 DEF IsCycle
  <2>5. {x \in H : c.face[x] = f} \subseteq C
    BY <2>4 DEF Sound, IsManifold
  <2>. QED BY <2>1, <2>3, <2>5
<1>5. d \in Arrays(X, D, Y) /\ FaceSet(d, c, D, C, Null) /\ d.fhalf = c.fhalf
  <2>1. C \subseteq D /\ Null \in Int
    BY <1>4 DEF Null
  <2>. QED BY <1>1, <1>2, <2>1, SetFaceIs
<1>6. /\ d.half = c.half /\ d.target = c.target /\ d.next = c.next /\ d.prev = c.prev
      /\ \A x \in H : d.face[x] = IF c.face[x] = f THEN Null ELSE c.face[x]
  BY <1>4, <1>5 DEF FaceSet
<1>7. Null \notin F
  BY DEF Sound, AreNumbers, Null
<1>8. FacesFit(d, H, F \ {f})
  <2>1. F \ {f} \subseteq Nat
    BY DEF Sound, AreNumbers
  <2>2. \A x \in H : d.face[x] \in (F \ {f}) \cup {Null} /\ d.face[x] = d.face[d.next[x]]
    BY <1>n, <1>6
  <2>3. ASSUME NEW y \in F \ {f} PROVE d.fhalf[y] \in H /\ d.face[d.fhalf[y]] = y
    <3>1. c.fhalf[y] \in H /\ c.face[c.fhalf[y]] = y
      BY DEF Sound, IsValid
    <3>. QED BY <3>1, <1>5, <1>6
  <2>4. ASSUME NEW y \in F \ {f}, NEW S \in SUBSET H,
               d.fhalf[y] \in S, \A x \in S : d.next[x] \in S
        PROVE  {x \in H : d.face[x] = y} \subseteq S
    <3>1. {x \in H : c.face[x] = y} \subseteq S
      BY <2>4, <1>5, <1>6 DEF Sound, IsManifold
    <3>2. \A x \in H : d.face[x] = y => c.face[x] = y
      BY <1>6, <1>7
    <3>. QED BY <3>1, <3>2
  <2>. QED BY <2>1, <2>2, <2>3, <2>4 DEF FacesFit
<1>9. Sound(d, V, H, F \ {f})
  BY <1>6, <1>8, RefacedSound
<1>. QED BY <1>5, <1>6, <1>9

-----------------------------------------------------------------------------
(***************************************************************************)
(* Two connectivities that differ in what their elements are called: v is  *)
(* called av[v], the halfedge h ah[h] and the face f af[f].                *)
(***************************************************************************)
Across(f, x) == IF x = Null THEN Null ELSE f[x]

(* d holds for the names what c holds for the elements. *)
Alike(d, c, V, H, F, av, ah, af) ==
  /\ \A v \in V : d.half[av[v]] = Across(ah, c.half[v])
  /\ \A h \in H : /\ d.target[ah[h]] = av[c.target[h]]
                  /\ d.next[ah[h]] = ah[c.next[h]]
                  /\ d.prev[ah[h]] = ah[c.prev[h]]
                  /\ d.face[ah[h]] = Across(af, c.face[h])
  /\ \A f \in F : d.fhalf[af[f]] = ah[c.fhalf[f]]

(* f gives each element of S a name of its own, and T are the names. *)
Matches(f, S, T) == OneToOne(f, S, T) /\ \A t \in T : \E s \in S : f[s] = t

(* The names of opposite halfedges are opposite. *)
Mates(ah, H) == \A h \in H : Opposite(h) \in H /\ ah[Opposite(h)] = Opposite(ah[h])

(* The element that a name belongs to. *)
LEMMA BackFrom ==
  ASSUME NEW f, NEW S, NEW T, Matches(f, S, T)
  PROVE  \E g : OneToOne(g, T, S) /\ (\A s \in S : g[f[s]] = s) /\ (\A t \in T : f[g[t]] = t)
<1>1. PICK g : g = [t \in T |-> CHOOSE s \in S : f[s] = t]
  OBVIOUS
<1>2. \A t \in T : g[t] \in S /\ f[g[t]] = t
  BY <1>1 DEF Matches
<1>3. \A s \in S : f[s] \in T
  BY DEF Matches, OneToOne
<1>4. \A s \in S : g[f[s]] = s
  BY <1>2, <1>3 DEF Matches, OneToOne
<1>5. OneToOne(g, T, S)
  BY <1>2 DEF OneToOne
<1>. QED BY <1>2, <1>4, <1>5

(* One more element, with a name of its own. *)
LEMMA MatchesMore ==
  ASSUME NEW f, NEW S, NEW T, Matches(f, S, T), NEW i, NEW n, i \notin S, n \notin T,
         NEW g, g[i] = n, Same(g, f, S)
  PROVE  Matches(g, S \cup {i}, T \cup {n})
<1>1. \A s \in S : g[s] \in T /\ g[s] = f[s]
  BY DEF Matches, OneToOne, Same
<1>2. ASSUME NEW x \in S \cup {i}, NEW y \in S \cup {i}, g[x] = g[y] PROVE x = y
  BY <1>1, <1>2 DEF Matches, OneToOne
<1>3. ASSUME NEW t \in T \cup {n} PROVE \E s \in S \cup {i} : g[s] = t
  BY <1>1 DEF Matches
<1>. QED BY <1>1, <1>2, <1>3 DEF Matches, OneToOne

(* One element less: its name is free. *)
LEMMA MatchesLess ==
  ASSUME NEW f, NEW S, NEW T, Matches(f, S, T), NEW i \in S
  PROVE  f[i] \in T /\ Matches(f, S \ {i}, T \ {f[i]})
BY DEF Matches, OneToOne

(* The names are determined by the elements. *)
LEMMA MatchesOnly ==
  ASSUME NEW f, NEW S, NEW T, NEW U, Matches(f, S, T), Matches(f, S, U)
  PROVE  T = U
BY DEF Matches, OneToOne

(* The names and the connectivity of the elements determine the other. *)
LEMMA AlikeOnly ==
  ASSUME NEW c, NEW V, NEW H, NEW F, NEW av, NEW ah, NEW af, NEW W, NEW K, NEW G,
         Matches(av, V, W), Matches(ah, H, K), Matches(af, F, G),
         NEW d \in Arrays(W, K, G), NEW e \in Arrays(W, K, G),
         Alike(d, c, V, H, F, av, ah, af), Alike(e, c, V, H, F, av, ah, af)
  PROVE  d = e
<1>1. /\ \A w \in W : \E v \in V : w = av[v]
      /\ \A k \in K : \E h \in H : k = ah[h]
      /\ \A g \in G : \E f \in F : g = af[f]
  BY DEF Matches
<1>2. \A w \in W : d.half[w] = e.half[w]
  BY <1>1 DEF Alike
<1>3. \A k \in K : /\ d.target[k] = e.target[k] /\ d.next[k] = e.next[k]
                   /\ d.prev[k] = e.prev[k] /\ d.face[k] = e.face[k]
  BY <1>1 DEF Alike
<1>4. \A g \in G : d.fhalf[g] = e.fhalf[g]
  BY <1>1 DEF Alike
<1>5. d.half = e.half
  <2>1. d.half \in [W -> Int] /\ e.half \in [W -> Int]
    BY DEF Arrays
  <2>. QED BY <2>1, <1>2
<1>6. d.target = e.target
  <2>1. d.target \in [K -> Int] /\ e.target \in [K -> Int]
    BY DEF Arrays
  <2>. QED BY <2>1, <1>3
<1>7. d.next = e.next
  <2>1. d.next \in [K -> Int] /\ e.next \in [K -> Int]
    BY DEF Arrays
  <2>. QED BY <2>1, <1>3
<1>8. d.prev = e.prev
  <2>1. d.prev \in [K -> Int] /\ e.prev \in [K -> Int]
    BY DEF Arrays
  <2>. QED BY <2>1, <1>3
<1>9. d.face = e.face
  <2>1. d.face \in [K -> Int] /\ e.face \in [K -> Int]
    BY DEF Arrays
  <2>. QED BY <2>1, <1>3
<1>10. d.fhalf = e.fhalf
  <2>1. d.fhalf \in [G -> Int] /\ e.fhalf \in [G -> Int]
    BY DEF Arrays
  <2>. QED BY <2>1, <1>4
<1>. QED BY <1>5, <1>6, <1>7, <1>8, <1>9, <1>10 DEF Arrays

(* A connectivity is sound under any names. *)
LEMMA AlikeSound ==
  ASSUME NEW c, NEW V, NEW H, NEW F, Sound(c, V, H, F),
         NEW av, NEW ah, NEW af, NEW W, NEW K, NEW G, AreNumbers(W, K, G),
         Matches(av, V, W), Matches(ah, H, K), Matches(af, F, G), Mates(ah, H),
         NEW d, Alike(d, c, V, H, F, av, ah, af)
  PROVE  Sound(d, W, K, G)
<1>1. PICK bv : OneToOne(bv, W, V) /\ (\A s \in V : bv[av[s]] = s) /\ (\A t \in W : av[bv[t]] = t)
  BY BackFrom
<1>2. PICK bh : OneToOne(bh, K, H) /\ (\A s \in H : bh[ah[s]] = s) /\ (\A t \in K : ah[bh[t]] = t)
  BY BackFrom
<1>3. PICK bf : OneToOne(bf, G, F) /\ (\A s \in F : bf[af[s]] = s) /\ (\A t \in G : af[bf[t]] = t)
  BY BackFrom
<1>4. /\ \A v \in V : av[v] \in W
      /\ \A h \in H : ah[h] \in K
      /\ \A f \in F : af[f] \in G
  BY DEF Matches, OneToOne
<1>5. /\ \A h \in H : /\ c.next[h] \in H /\ c.prev[h] \in H /\ c.target[h] \in V
                      /\ c.face[h] \in F \cup {Null}
      /\ \A v \in V : c.half[v] = Null \/ c.half[v] \in H
      /\ \A f \in F : c.fhalf[f] \in H
  BY DEF Sound, IsValid
<1>6. /\ \A h \in H : h # Null
      /\ \A f \in F : f # Null
  BY DEF Sound, AreNumbers, Null
<1>7. ASSUME NEW k \in K
      PROVE  /\ d.next[k] \in K /\ bh[d.next[k]] = c.next[bh[k]]
             /\ d.prev[k] \in K /\ bh[d.prev[k]] = c.prev[bh[k]]
             /\ d.target[k] \in W /\ bv[d.target[k]] = c.target[bh[k]]
             /\ \/ d.face[k] = Null /\ c.face[bh[k]] = Null
                \/ d.face[k] \in G /\ bf[d.face[k]] = c.face[bh[k]]
             /\ Opposite(k) \in K /\ bh[Opposite(k)] = Opposite(bh[k])
  <2>1. PICK h \in H : h = bh[k] /\ k = ah[h]
    BY <1>2 DEF OneToOne
  <2>2. /\ d.next[k] = ah[c.next[h]] /\ d.prev[k] = ah[c.prev[h]] /\ d.target[k] = av[c.target[h]]
        /\ d.face[k] = Across(af, c.face[h])
    BY <2>1 DEF Alike
  <2>3. /\ d.next[k] \in K /\ bh[d.next[k]] = c.next[h] /\ d.prev[k] \in K /\ bh[d.prev[k]] = c.prev[h]
    BY <2>2, <1>2, <1>4, <1>5
  <2>4. d.target[k] \in W /\ bv[d.target[k]] = c.target[h]
    BY <2>2, <1>1, <1>4, <1>5
  <2>5. \/ d.face[k] = Null /\ c.face[h] = Null
        \/ d.face[k] \in G /\ bf[d.face[k]] = c.face[h]
    BY <2>2, <1>3, <1>4, <1>5, <1>6 DEF Across
  <2>6. Opposite(h) \in H /\ ah[Opposite(h)] = Opposite(k)
    BY <2>1 DEF Mates
  <2>7. Opposite(k) \in K /\ bh[Opposite(k)] = Opposite(h)
    BY <2>6, <1>2, <1>4
  <2>. QED BY <2>1, <2>3, <2>4, <2>5, <2>7
<1>8. ASSUME NEW w \in W
      PROVE  \/ d.half[w] = Null /\ c.half[bv[w]] = Null
             \/ d.half[w] \in K /\ bh[d.half[w]] = c.half[bv[w]]
  <2>1. PICK v \in V : v = bv[w] /\ w = av[v]
    BY <1>1 DEF OneToOne
  <2>2. d.half[w] = Across(ah, c.half[v])
    BY <2>1 DEF Alike
  <2>3. CASE c.half[v] = Null
    BY <2>1, <2>2, <2>3 DEF Across
  <2>4. CASE c.half[v] # Null
    <3>1. PICK h \in H : h = c.half[v]
      BY <1>5, <2>4
    <3>2. d.half[w] = ah[h] /\ ah[h] \in K /\ bh[ah[h]] = h
      BY <2>2, <2>4, <3>1, <1>2, <1>4 DEF Across
    <3>. QED BY <2>1, <3>1, <3>2
  <2>. QED BY <2>3, <2>4
<1>9. ASSUME NEW g \in G PROVE d.fhalf[g] \in K /\ bh[d.fhalf[g]] = c.fhalf[bf[g]]
  <2>1. PICK f \in F : f = bf[g] /\ g = af[f]
    BY <1>3 DEF OneToOne
  <2>2. d.fhalf[g] = ah[c.fhalf[f]]
    BY <2>1 DEF Alike
  <2>. QED BY <2>1, <2>2, <1>2, <1>4, <1>5
<1>10. Renumbers(d, W, K, G, c, bv, bh, bf)
  BY <1>7, <1>8, <1>9 DEF Renumbers
<1>. QED BY <1>1, <1>2, <1>3, <1>10, RenumberedSound

-----------------------------------------------------------------------------
(***************************************************************************)
(* The same change, made under other names, gives the same result.         *)
(***************************************************************************)

(* A vertex is added to both. *)
LEMMA VertexAlike ==
  ASSUME NEW c, NEW V, NEW H, NEW F, Sound(c, V, H, F), NEW X, V \subseteq X,
         NEW av, NEW ah, NEW af, NEW W, Matches(av, V, W),
         NEW d, Alike(d, c, V, H, F, av, ah, af),
         NEW i, NEW n, i \notin V, n \notin W, NEW b, VertexReset(b, c, X, i),
         NEW e, VertexReset(e, d, W, n), NEW bv, bv[i] = n, Same(bv, av, V)
  PROVE  Alike(e, b, V \cup {i}, H, F, bv, ah, af)
<1>1. \A v \in V : av[v] \in W /\ bv[v] = av[v] /\ v # i
  BY DEF Matches, OneToOne, Same
<1>2. \A h \in H : c.target[h] \in V
  BY DEF Sound, IsValid
<1>3. ASSUME NEW v \in V \cup {i} PROVE e.half[bv[v]] = Across(ah, b.half[v])
  <2>1. CASE v = i
    BY <2>1 DEF VertexReset, Across
  <2>2. CASE v \in V
    <3>1. e.half[av[v]] = d.half[av[v]] /\ b.half[v] = c.half[v]
      BY <2>2, <1>1 DEF VertexReset
    <3>2. d.half[av[v]] = Across(ah, c.half[v])
      BY <2>2 DEF Alike
    <3>. QED BY <2>2, <3>1, <3>2, <1>1
  <2>. QED BY <2>1, <2>2
<1>4. /\ b.target = c.target /\ b.next = c.next /\ b.prev = c.prev /\ b.face = c.face
      /\ b.fhalf = c.fhalf
      /\ e.target = d.target /\ e.next = d.next /\ e.prev = d.prev /\ e.face = d.face
      /\ e.fhalf = d.fhalf
  BY DEF VertexReset
<1>5. \A h \in H : /\ e.target[ah[h]] = bv[b.target[h]] /\ e.next[ah[h]] = ah[b.next[h]]
                   /\ e.prev[ah[h]] = ah[b.prev[h]] /\ e.face[ah[h]] = Across(af, b.face[h])
  BY <1>1, <1>2, <1>4 DEF Alike
<1>6. \A f \in F : e.fhalf[af[f]] = ah[b.fhalf[f]]
  BY <1>4 DEF Alike
<1>. QED BY <1>3, <1>5, <1>6 DEF Alike

(* Where the edge begins or ends. *)
LEMMA OpeningAlike ==
  ASSUME NEW c, NEW V, NEW H, NEW F, Sound(c, V, H, F),
         NEW av, NEW ah, NEW af, NEW W, NEW K, Matches(av, V, W), Matches(ah, H, K),
         Null \notin K,
         NEW d, Alike(d, c, V, H, F, av, ah, af), NEW u \in V, NEW g, Opening(c, H, u, g)
  PROVE  Opening(d, K, av[u], Across(ah, g))
<1>1. /\ \A h \in H : h # Null /\ ah[h] \in K /\ ah[h] # Null
      /\ \A v \in V : c.half[v] # Null => c.half[v] \in H
  BY DEF Sound, IsValid, AreNumbers, Null, Matches, OneToOne
<1>2. d.half[av[u]] = Across(ah, c.half[u])
  BY DEF Alike
<1>3. CASE g = Null /\ c.half[u] = Null
  BY <1>2, <1>3 DEF Opening, Across
<1>4. CASE g \in H /\ c.half[u] # Null /\ c.target[g] = u /\ c.face[g] = Null
  <2>1. Across(ah, g) = ah[g] /\ ah[g] \in K
    BY <1>1, <1>4 DEF Across
  <2>2. d.target[ah[g]] = av[u] /\ d.face[ah[g]] = Null
    BY <1>4 DEF Alike, Across
  <2>3. d.half[av[u]] # Null
    BY <1>1, <1>2, <1>4 DEF Across
  <2>. QED BY <2>1, <2>2, <2>3 DEF Opening
<1>. QED BY <1>3, <1>4 DEF Opening

(* An edge is added to both, at the same places. *)
LEMMA WiredAlike ==
  ASSUME NEW c, NEW V, NEW H, NEW F, Sound(c, V, H, F),
         NEW av, NEW ah, NEW af, NEW W, NEW K, NEW G,
         Matches(av, V, W), Matches(ah, H, K), Matches(af, F, G), Null \notin K,
         NEW d, Alike(d, c, V, H, F, av, ah, af),
         NEW h, NEW o, h # o, h \notin H, o \notin H, NEW i, NEW j, i \notin K, j \notin K,
         NEW bh, bh[h] = i, bh[o] = j, Same(bh, ah, H), h # Null, o # Null,
         NEW u \in V, NEW v \in V, u # v,
         NEW g, NEW k, Opening(c, H, u, g), Opening(c, H, v, k),
         NEW b, Wired(b, c, V, H, F, h, o, u, g, v, k),
         NEW e, Wired(e, d, W, K, G, i, j, av[u], Across(ah, g), av[v], Across(ah, k))
  PROVE  Alike(e, b, V, WithPair(H, h, o), F, av, bh, af)
<1>1. /\ \A x \in H : x # Null /\ ah[x] \in K /\ ah[x] # Null /\ bh[x] = ah[x] /\ x # h /\ x # o
      /\ \A x, y \in H : ah[x] = ah[y] => x = y
  BY DEF Sound, AreNumbers, Null, Matches, OneToOne, Same
<1>2. /\ \A x \in V : av[x] \in W
      /\ \A x, y \in V : av[x] = av[y] => x = y
  BY DEF Matches, OneToOne
<1>3. \A x \in H : /\ c.next[x] \in H /\ c.prev[x] \in H /\ c.target[x] \in V
                   /\ c.next[c.prev[x]] = x /\ c.prev[c.next[x]] = x
  BY DEF Sound, IsValid
<1>4. /\ g = Null \/ g \in H
      /\ k = Null \/ k \in H
  BY DEF Opening
<1>5. PICK m, n : m = Across(ah, g) /\ n = Across(ah, k)
  OBVIOUS
<1>6. /\ g = Null => m = Null
      /\ g # Null => g \in H /\ m = ah[g] /\ m \in K /\ m # Null
      /\ k = Null => n = Null
      /\ k # Null => k \in H /\ n = ah[k] /\ n \in K /\ n # Null
  BY <1>1, <1>4, <1>5 DEF Across
<1>7. /\ \A x \in H : b.target[x] = c.target[x] /\ b.face[x] = c.face[x]
      /\ b.target[h] = v /\ b.target[o] = u /\ b.face[h] = Null /\ b.face[o] = Null
      /\ \A x \in H : x # g /\ x # k => b.next[x] = c.next[x]
      /\ \A x \in H : c.prev[x] # g /\ c.prev[x] # k => b.prev[x] = c.prev[x]
      /\ g = Null => b.next[o] = h /\ b.prev[h] = o
      /\ g # Null => b.next[g] = h /\ b.prev[h] = g /\ b.next[o] = c.next[g] /\ b.prev[c.next[g]] = o
      /\ k = Null => b.next[h] = o /\ b.prev[o] = h
      /\ k # Null => b.next[k] = o /\ b.prev[o] = k /\ b.next[h] = c.next[k] /\ b.prev[c.next[k]] = h
      /\ b.half[u] = IF g = Null THEN o ELSE c.half[u]
      /\ b.half[v] = IF k = Null THEN h ELSE c.half[v]
      /\ \A w \in V : w # u /\ w # v => b.half[w] = c.half[w]
      /\ \A f \in F : b.fhalf[f] = c.fhalf[f]
  BY DEF Wired
<1>8. /\ \A x \in K : e.target[x] = d.target[x] /\ e.face[x] = d.face[x]
      /\ e.target[i] = av[v] /\ e.target[j] = av[u] /\ e.face[i] = Null /\ e.face[j] = Null
      /\ \A x \in K : x # m /\ x # n => e.next[x] = d.next[x]
      /\ \A x \in K : d.prev[x] # m /\ d.prev[x] # n => e.prev[x] = d.prev[x]
      /\ m = Null => e.next[j] = i /\ e.prev[i] = j
      /\ m # Null => e.next[m] = i /\ e.prev[i] = m /\ e.next[j] = d.next[m] /\ e.prev[d.next[m]] = j
      /\ n = Null => e.next[i] = j /\ e.prev[j] = i
      /\ n # Null => e.next[n] = j /\ e.prev[j] = n /\ e.next[i] = d.next[n] /\ e.prev[d.next[n]] = i
      /\ e.half[av[u]] = IF m = Null THEN j ELSE d.half[av[u]]
      /\ e.half[av[v]] = IF n = Null THEN i ELSE d.half[av[v]]
      /\ \A w \in W : w # av[u] /\ w # av[v] => e.half[w] = d.half[w]
      /\ \A f \in G : e.fhalf[f] = d.fhalf[f]
  BY <1>5 DEF Wired
<1>9. \A x \in H : /\ d.target[ah[x]] = av[c.target[x]] /\ d.next[ah[x]] = ah[c.next[x]]
                   /\ d.prev[ah[x]] = ah[c.prev[x]] /\ d.face[ah[x]] = Across(af, c.face[x])
  BY DEF Alike
<1>10. ASSUME NEW x \in H
       PROVE  /\ e.target[ah[x]] = av[b.target[x]] /\ e.next[ah[x]] = bh[b.next[x]]
              /\ e.prev[ah[x]] = bh[b.prev[x]] /\ e.face[ah[x]] = Across(af, b.face[x])
  <2>1. e.target[ah[x]] = av[b.target[x]] /\ e.face[ah[x]] = Across(af, b.face[x])
    BY <1>1, <1>7, <1>8, <1>9
  <2>2. e.next[ah[x]] = bh[b.next[x]]
    <3>1. CASE x = g
      BY <3>1, <1>1, <1>6, <1>7, <1>8
    <3>2. CASE x = k
      BY <3>2, <1>1, <1>6, <1>7, <1>8
    <3>3. CASE x # g /\ x # k
      <4>1. ah[x] # m /\ ah[x] # n
        BY <3>3, <1>1, <1>6
      <4>2. e.next[ah[x]] = d.next[ah[x]] /\ b.next[x] = c.next[x]
        BY <3>3, <4>1, <1>1, <1>7, <1>8
      <4>. QED BY <4>2, <1>1, <1>3, <1>9
    <3>. QED BY <3>1, <3>2, <3>3
  <2>3. e.prev[ah[x]] = bh[b.prev[x]]
    <3>p. PICK p \in H : p = c.prev[x] /\ c.next[p] = x /\ d.prev[ah[x]] = ah[p] /\ d.next[ah[p]] = ah[x]
      BY <1>3, <1>9
    <3>1. CASE p = g
      BY <3>p, <3>1, <1>1, <1>6, <1>7, <1>8
    <3>2. CASE p = k
      BY <3>p, <3>2, <1>1, <1>6, <1>7, <1>8
    <3>3. CASE p # g /\ p # k
      <4>1. ah[p] # m /\ ah[p] # n
        BY <3>3, <1>1, <1>6
      <4>2. e.prev[ah[x]] = d.prev[ah[x]] /\ b.prev[x] = c.prev[x]
        BY <3>p, <3>3, <4>1, <1>1, <1>7, <1>8
      <4>. QED BY <3>p, <4>2, <1>1
    <3>. QED BY <3>1, <3>2, <3>3
  <2>. QED BY <2>1, <2>2, <2>3
<1>11. /\ e.target[i] = av[b.target[h]] /\ e.face[i] = Across(af, b.face[h])
       /\ e.target[j] = av[b.target[o]] /\ e.face[j] = Across(af, b.face[o])
  BY <1>7, <1>8 DEF Across
<1>12. e.next[i] = bh[b.next[h]] /\ e.prev[j] = bh[b.prev[o]]
  <2>1. CASE k = Null
    BY <2>1, <1>6, <1>7, <1>8
  <2>2. CASE k # Null
    BY <2>2, <1>1, <1>3, <1>6, <1>7, <1>8, <1>9
  <2>. QED BY <2>1, <2>2
<1>13. e.next[j] = bh[b.next[o]] /\ e.prev[i] = bh[b.prev[h]]
  <2>1. CASE g = Null
    BY <2>1, <1>6, <1>7, <1>8
  <2>2. CASE g # Null
    BY <2>2, <1>1, <1>3, <1>6, <1>7, <1>8, <1>9
  <2>. QED BY <2>1, <2>2
<1>14. ASSUME NEW x \in WithPair(H, h, o)
       PROVE  /\ e.target[bh[x]] = av[b.target[x]] /\ e.next[bh[x]] = bh[b.next[x]]
              /\ e.prev[bh[x]] = bh[b.prev[x]] /\ e.face[bh[x]] = Across(af, b.face[x])
  <2>1. CASE x \in H
    BY <2>1, <1>1, <1>10
  <2>2. CASE x = h
    BY <2>2, <1>11, <1>12, <1>13
  <2>3. CASE x = o
    BY <2>3, <1>11, <1>12, <1>13
  <2>. QED BY <2>1, <2>2, <2>3 DEF WithPair
<1>15. \A w \in V : c.half[w] = Null \/ c.half[w] \in H
  BY DEF Sound, IsValid
<1>16. \A w \in V : Across(bh, c.half[w]) = Across(ah, c.half[w])
  BY <1>1, <1>15 DEF Across
<1>17. Across(bh, h) = i /\ Across(bh, o) = j
  BY DEF Across
<1>18. ASSUME NEW w \in V PROVE e.half[av[w]] = Across(bh, b.half[w])
  <2>0. d.half[av[w]] = Across(ah, c.half[w])
    BY DEF Alike
  <2>1. CASE w = u
    BY <2>0, <2>1, <1>6, <1>7, <1>8, <1>16, <1>17
  <2>2. CASE w = v
    BY <2>0, <2>2, <1>6, <1>7, <1>8, <1>16, <1>17
  <2>3. CASE w # u /\ w # v
    <3>1. av[w] \in W /\ av[w] # av[u] /\ av[w] # av[v]
      BY <2>3, <1>2
    <3>. QED BY <2>0, <2>3, <3>1, <1>7, <1>8, <1>16
  <2>. QED BY <2>1, <2>2, <2>3
<1>19. ASSUME NEW f \in F PROVE e.fhalf[af[f]] = bh[b.fhalf[f]]
  <2>1. af[f] \in G /\ c.fhalf[f] \in H
    BY DEF Matches, OneToOne, Sound, IsValid
  <2>2. d.fhalf[af[f]] = ah[c.fhalf[f]]
    BY DEF Alike
  <2>. QED BY <2>1, <2>2, <1>1, <1>7, <1>8
<1>. QED BY <1>14, <1>18, <1>19 DEF Alike

(* An edge is taken out of both. *)
LEMMA UnwiredAlike ==
  ASSUME NEW c, NEW V, NEW H, NEW F, Sound(c, V, H, F),
         NEW av, NEW ah, NEW af, NEW W, NEW K, NEW G,
         Matches(av, V, W), Matches(ah, H, K), Matches(af, F, G), Null \notin K,
         NEW d, Alike(d, c, V, H, F, av, ah, af),
         NEW h \in H, NEW o \in H, h # o, o = Opposite(h),
         NEW p, p = c.prev[h], NEW q, q = c.prev[o], NEW n, n = c.next[h], NEW m, m = c.next[o],
         NEW L, L = WithoutPair(H, h, o), NEW M, M = WithoutPair(K, ah[h], ah[o]),
         NEW b, Unwired(b, c, V, L, F, h, o, p, q, n, m),
         NEW e, Unwired(e, d, W, M, G, ah[h], ah[o], ah[p], ah[q], ah[n], ah[m])
  PROVE  Alike(e, b, V, L, F, av, ah, af)
<1>1. /\ \A x \in H : x # Null /\ ah[x] \in K /\ ah[x] # Null
      /\ \A x, y \in H : ah[x] = ah[y] => x = y
  BY DEF Sound, AreNumbers, Null, Matches, OneToOne
<1>2. /\ \A x \in V : av[x] \in W
      /\ \A x, y \in V : av[x] = av[y] => x = y
  BY DEF Matches, OneToOne
<1>3. \A x \in H : /\ c.next[x] \in H /\ c.prev[x] \in H /\ c.target[x] \in V
                   /\ c.next[c.prev[x]] = x /\ c.prev[c.next[x]] = x
  BY DEF Sound, IsValid
<1>4. \A x \in H : /\ d.target[ah[x]] = av[c.target[x]] /\ d.next[ah[x]] = ah[c.next[x]]
                   /\ d.prev[ah[x]] = ah[c.prev[x]] /\ d.face[ah[x]] = Across(af, c.face[x])
  BY DEF Alike
<1>5. /\ p \in H /\ q \in H /\ n \in H /\ m \in H
      /\ c.next[p] = h /\ c.next[q] = o /\ c.prev[n] = h /\ c.prev[m] = o
  BY <1>3
<1>6. \A x \in L : x \in H /\ x # h /\ x # o /\ ah[x] \in M
  BY <1>1 DEF WithoutPair
<1>7. /\ \A x \in L : b.target[x] = c.target[x] /\ b.face[x] = c.face[x]
      /\ \A x \in L : x # p /\ x # q => b.next[x] = c.next[x]
      /\ \A x \in L : x # m /\ x # n => b.prev[x] = c.prev[x]
      /\ p # o => b.next[p] = m /\ b.prev[m] = p
      /\ q # h => b.next[q] = n /\ b.prev[n] = q
      /\ b.half[c.target[h]] = IF c.half[c.target[h]] # h THEN c.half[c.target[h]]
                               ELSE IF q = h THEN Null ELSE q
      /\ b.half[c.target[o]] = IF c.half[c.target[o]] # o THEN c.half[c.target[o]]
                               ELSE IF p = o THEN Null ELSE p
      /\ \A w \in V : w # c.target[h] /\ w # c.target[o] => b.half[w] = c.half[w]
      /\ \A f \in F : b.fhalf[f] = c.fhalf[f]
  BY DEF Unwired
<1>t. PICK i, j, s, t : /\ i = ah[h] /\ j = ah[o] /\ s = av[c.target[h]] /\ t = av[c.target[o]]
                        /\ d.target[i] = s /\ d.target[j] = t
  BY <1>4
<1>u. /\ \A x \in M : e.target[x] = d.target[x] /\ e.face[x] = d.face[x]
      /\ \A x \in M : x # ah[p] /\ x # ah[q] => e.next[x] = d.next[x]
      /\ \A x \in M : x # ah[m] /\ x # ah[n] => e.prev[x] = d.prev[x]
      /\ ah[p] # ah[o] => e.next[ah[p]] = ah[m] /\ e.prev[ah[m]] = ah[p]
      /\ ah[q] # ah[h] => e.next[ah[q]] = ah[n] /\ e.prev[ah[n]] = ah[q]
      /\ e.half[d.target[ah[h]]] = IF d.half[d.target[ah[h]]] # ah[h] THEN d.half[d.target[ah[h]]]
                     ELSE IF ah[q] = ah[h] THEN Null ELSE ah[q]
      /\ e.half[d.target[ah[o]]] = IF d.half[d.target[ah[o]]] # ah[o] THEN d.half[d.target[ah[o]]]
                     ELSE IF ah[p] = ah[o] THEN Null ELSE ah[p]
      /\ \A w \in W : w # d.target[ah[h]] /\ w # d.target[ah[o]] => e.half[w] = d.half[w]
      /\ \A f \in G : e.fhalf[f] = d.fhalf[f]
  BY DEF Unwired
<1>8. /\ \A x \in M : e.target[x] = d.target[x] /\ e.face[x] = d.face[x]
      /\ \A x \in M : x # ah[p] /\ x # ah[q] => e.next[x] = d.next[x]
      /\ \A x \in M : x # ah[m] /\ x # ah[n] => e.prev[x] = d.prev[x]
      /\ ah[p] # j => e.next[ah[p]] = ah[m] /\ e.prev[ah[m]] = ah[p]
      /\ ah[q] # i => e.next[ah[q]] = ah[n] /\ e.prev[ah[n]] = ah[q]
      /\ e.half[s] = IF d.half[s] # i THEN d.half[s]
                     ELSE IF ah[q] = i THEN Null ELSE ah[q]
      /\ e.half[t] = IF d.half[t] # j THEN d.half[t]
                     ELSE IF ah[p] = j THEN Null ELSE ah[p]
      /\ \A w \in W : w # s /\ w # t => e.half[w] = d.half[w]
      /\ \A f \in G : e.fhalf[f] = d.fhalf[f]
  BY <1>t, <1>u
<1>9. ASSUME NEW x \in L
      PROVE  /\ e.target[ah[x]] = av[b.target[x]] /\ e.next[ah[x]] = ah[b.next[x]]
             /\ e.prev[ah[x]] = ah[b.prev[x]] /\ e.face[ah[x]] = Across(af, b.face[x])
  <2>1. e.target[ah[x]] = av[b.target[x]] /\ e.face[ah[x]] = Across(af, b.face[x])
    BY <1>4, <1>6, <1>7, <1>8
  <2>2. e.next[ah[x]] = ah[b.next[x]]
    <3>1. CASE x = p
      <4>1. p # o /\ ah[p] # j
        BY <3>1, <1>1, <1>5, <1>6, <1>t
      <4>. QED BY <4>1, <3>1, <1>7, <1>8
    <3>2. CASE x = q
      <4>1. q # h /\ ah[q] # i
        BY <3>2, <1>1, <1>5, <1>6, <1>t
      <4>. QED BY <4>1, <3>2, <1>7, <1>8
    <3>3. CASE x # p /\ x # q
      <4>1. ah[x] # ah[p] /\ ah[x] # ah[q]
        BY <3>3, <1>1, <1>5, <1>6
      <4>. QED BY <3>3, <4>1, <1>4, <1>6, <1>7, <1>8
    <3>. QED BY <3>1, <3>2, <3>3
  <2>3. e.prev[ah[x]] = ah[b.prev[x]]
    <3>1. CASE x = m
      <4>1. p # o
        BY <3>1, <1>5, <1>6
      <4>2. ah[p] # j
        BY <4>1, <1>1, <1>5, <1>t
      <4>. QED BY <4>1, <4>2, <3>1, <1>7, <1>8
    <3>2. CASE x = n
      <4>1. q # h
        BY <3>2, <1>5, <1>6
      <4>2. ah[q] # i
        BY <4>1, <1>1, <1>5, <1>t
      <4>. QED BY <4>1, <4>2, <3>2, <1>7, <1>8
    <3>3. CASE x # m /\ x # n
      <4>1. ah[x] # ah[m] /\ ah[x] # ah[n]
        BY <3>3, <1>1, <1>5, <1>6
      <4>. QED BY <3>3, <4>1, <1>4, <1>6, <1>7, <1>8
    <3>. QED BY <3>1, <3>2, <3>3
  <2>. QED BY <2>1, <2>2, <2>3
<1>10. ASSUME NEW w \in V PROVE /\ d.half[av[w]] = Across(ah, c.half[w])
                                /\ c.half[w] = Null \/ c.half[w] \in H
  BY DEF Alike, Sound, IsValid
<1>11. ASSUME NEW w \in V, NEW x \in H PROVE d.half[av[w]] = ah[x] <=> c.half[w] = x
  BY <1>1, <1>10 DEF Across
<1>12. ASSUME NEW w \in V PROVE e.half[av[w]] = Across(ah, b.half[w])
  <2>0. PICK y, z : y = c.target[h] /\ z = c.target[o] /\ y \in V /\ z \in V /\ s = av[y] /\ t = av[z]
    BY <1>3, <1>t
  <2>1. CASE w = y
    <3>1. d.half[s] = i <=> c.half[w] = h
      BY <2>0, <2>1, <1>11, <1>t
    <3>2. ah[q] = i <=> q = h
      BY <1>1, <1>5, <1>t
    <3>3. Across(ah, q) = ah[q] /\ Across(ah, Null) = Null
      BY <1>1, <1>5 DEF Across
    <3>4. d.half[s] = Across(ah, c.half[w])
      BY <2>0, <2>1, <1>10
    <3>5. b.half[w] = IF c.half[w] # h THEN c.half[w] ELSE IF q = h THEN Null ELSE q
      BY <2>0, <2>1, <1>7
    <3>. QED BY <2>0, <2>1, <3>1, <3>2, <3>3, <3>4, <3>5, <1>8
  <2>2. CASE w = z
    <3>1. d.half[t] = j <=> c.half[w] = o
      BY <2>0, <2>2, <1>11, <1>t
    <3>2. ah[p] = j <=> p = o
      BY <1>1, <1>5, <1>t
    <3>3. Across(ah, p) = ah[p] /\ Across(ah, Null) = Null
      BY <1>1, <1>5 DEF Across
    <3>4. d.half[t] = Across(ah, c.half[w])
      BY <2>0, <2>2, <1>10
    <3>5. b.half[w] = IF c.half[w] # o THEN c.half[w] ELSE IF p = o THEN Null ELSE p
      BY <2>0, <2>2, <1>7
    <3>. QED BY <2>0, <2>2, <3>1, <3>2, <3>3, <3>4, <3>5, <1>8
  <2>3. CASE w # y /\ w # z
    <3>1. av[w] \in W /\ av[w] # s /\ av[w] # t
      BY <2>0, <2>3, <1>2
    <3>2. e.half[av[w]] = d.half[av[w]] /\ b.half[w] = c.half[w]
      BY <2>0, <2>3, <3>1, <1>7, <1>8
    <3>. QED BY <3>2, <1>10
  <2>. QED BY <2>1, <2>2, <2>3
<1>13. ASSUME NEW f \in F PROVE e.fhalf[af[f]] = ah[b.fhalf[f]]
  <2>1. af[f] \in G
    BY DEF Matches, OneToOne
  <2>2. d.fhalf[af[f]] = ah[c.fhalf[f]]
    BY DEF Alike
  <2>. QED BY <2>1, <2>2, <1>7, <1>8
<1>. QED BY <1>9, <1>12, <1>13 DEF Alike

(* Going around a face meets the same halfedges. *)
Meets(C, B, ah, H) == \A x \in H : x \in C <=> ah[x] \in B

(* The cycle of a halfedge has the cycle of its name for names. *)
LEMMA CycleAlike ==
  ASSUME NEW c, NEW V, NEW H, NEW F, NEW av, NEW ah, NEW af, NEW K, Matches(ah, H, K),
         NEW d, Alike(d, c, V, H, F, av, ah, af), NEW h \in H, NEW i, i = ah[h],
         NEW C, IsCycle(C, c, H, h), NEW B, IsCycle(B, d, K, i)
  PROVE  Meets(C, B, ah, H)
<1>1. /\ \A x \in H : ah[x] \in K /\ d.next[ah[x]] = ah[c.next[x]]
      /\ \A x, y \in H : ah[x] = ah[y] => x = y
  BY DEF Matches, OneToOne, Alike
<1>2. PICK S : S = {x \in H : ah[x] \in B}
  OBVIOUS
<1>3. PICK T : T = {ah[x] : x \in C}
  OBVIOUS
<1>4. C \subseteq S
  <2>1. h \in C /\ C \subseteq H /\ \A x \in C : c.next[x] \in C
    BY DEF IsCycle
  <2>2. PICK U : U = C \cap S
    OBVIOUS
  <2>3. U \in SUBSET H /\ h \in U
    BY <2>1, <2>2, <1>2 DEF IsCycle
  <2>4. \A x \in U : c.next[x] \in U
    <3>1. \A y \in B : d.next[y] \in B
      BY DEF IsCycle
    <3>. QED BY <2>1, <2>2, <3>1, <1>1, <1>2
  <2>5. C \subseteq U
    BY <2>3, <2>4 DEF IsCycle
  <2>. QED BY <2>2, <2>5
<1>5. B \subseteq T
  <2>1. h \in C /\ C \subseteq H /\ \A x \in C : c.next[x] \in C
    BY DEF IsCycle
  <2>2. T \in SUBSET K /\ i \in T
    BY <2>1, <1>1, <1>3
  <2>3. \A y \in T : d.next[y] \in T
    BY <2>1, <1>1, <1>3
  <2>. QED BY <2>2, <2>3 DEF IsCycle
<1>6. C \subseteq H
  BY DEF IsCycle
<1>. QED BY <1>1, <1>2, <1>3, <1>4, <1>5, <1>6 DEF Meets

(* The halfedges C belong to the face f of h. *)
Filled(b, c, H, F, C, h, f) ==
  /\ b.half = c.half /\ b.target = c.target /\ b.next = c.next /\ b.prev = c.prev
  /\ \A x \in H : b.face[x] = IF x \in C THEN f ELSE c.face[x]
  /\ b.fhalf[f] = h /\ \A y \in F : b.fhalf[y] = c.fhalf[y]

(* A face is filled in both, around the same halfedges. *)
LEMMA FilledAlike ==
  ASSUME NEW c, NEW V, NEW H, NEW F, Sound(c, V, H, F),
         NEW av, NEW ah, NEW af, NEW K, NEW G, Matches(ah, H, K), Matches(af, F, G),
         NEW d, Alike(d, c, V, H, F, av, ah, af), NEW h \in H,
         NEW C, IsCycle(C, c, H, h), NEW B, IsCycle(B, d, K, ah[h]),
         NEW f, f # Null, f \notin F, NEW n, n \notin G, NEW bf, bf[f] = n, Same(bf, af, F),
         NEW b, Filled(b, c, H, F, C, h, f), NEW e, Filled(e, d, K, G, B, ah[h], n)
  PROVE  Alike(e, b, V, H, F \cup {f}, av, ah, bf)
<1>c. \A x \in H : x \in C <=> ah[x] \in B
  <2>1. PICK i : i = ah[h]
    OBVIOUS
  <2>2. IsCycle(B, d, K, i)
    BY <2>1
  <2>3. Meets(C, B, ah, H)
    BY <2>1, <2>2, CycleAlike
  <2>. QED BY <2>3 DEF Meets
<1>1. /\ \A x \in H : ah[x] \in K /\ (x \in C <=> ah[x] \in B)
      /\ \A y \in F : af[y] \in G /\ bf[y] = af[y] /\ y # Null
      /\ \A x \in H : c.face[x] = Null \/ c.face[x] \in F
  BY <1>c DEF Matches, OneToOne, Same, Sound, AreNumbers, Null, IsValid
<1>2. /\ b.half = c.half /\ b.target = c.target /\ b.next = c.next /\ b.prev = c.prev
      /\ e.half = d.half /\ e.target = d.target /\ e.next = d.next /\ e.prev = d.prev
  BY DEF Filled
<1>3. \A v \in V : e.half[av[v]] = Across(ah, b.half[v])
  BY <1>2 DEF Alike
<1>4. ASSUME NEW x \in H
      PROVE  /\ e.target[ah[x]] = av[b.target[x]] /\ e.next[ah[x]] = ah[b.next[x]]
             /\ e.prev[ah[x]] = ah[b.prev[x]] /\ e.face[ah[x]] = Across(bf, b.face[x])
  <2>1. /\ e.target[ah[x]] = av[b.target[x]] /\ e.next[ah[x]] = ah[b.next[x]]
        /\ e.prev[ah[x]] = ah[b.prev[x]]
    BY <1>2 DEF Alike
  <2>2. CASE x \in C
    <3>1. e.face[ah[x]] = n /\ b.face[x] = f
      BY <2>2, <1>1 DEF Filled
    <3>. QED BY <2>1, <3>1 DEF Across
  <2>3. CASE x \notin C
    <3>1. e.face[ah[x]] = d.face[ah[x]] /\ b.face[x] = c.face[x]
      BY <2>3, <1>1 DEF Filled
    <3>2. d.face[ah[x]] = Across(af, c.face[x])
      BY DEF Alike
    <3>. QED BY <2>1, <3>1, <3>2, <1>1 DEF Across
  <2>. QED BY <2>2, <2>3
<1>5. ASSUME NEW y \in F \cup {f} PROVE e.fhalf[bf[y]] = ah[b.fhalf[y]]
  <2>1. CASE y = f
    BY <2>1 DEF Filled
  <2>2. CASE y \in F
    <3>1. e.fhalf[af[y]] = d.fhalf[af[y]] /\ b.fhalf[y] = c.fhalf[y] /\ bf[y] = af[y]
      BY <2>2, <1>1 DEF Filled
    <3>2. d.fhalf[af[y]] = ah[c.fhalf[y]]
      BY <2>2 DEF Alike
    <3>. QED BY <3>1, <3>2
  <2>. QED BY <2>1, <2>2
<1>. QED BY <1>3, <1>4, <1>5 DEF Alike

(* The halfedges C lose their face. *)
Opened(b, c, H, F, C) ==
  /\ b.half = c.half /\ b.target = c.target /\ b.next = c.next /\ b.prev = c.prev
  /\ \A x \in H : b.face[x] = IF x \in C THEN Null ELSE c.face[x]
  /\ \A y \in F : b.fhalf[y] = c.fhalf[y]

(* A face is taken out of both. *)
LEMMA OpenedAlike ==
  ASSUME NEW c, NEW V, NEW H, NEW F, NEW av, NEW ah, NEW af, NEW K, NEW G,
         Matches(ah, H, K), Matches(af, F, G),
         NEW d, Alike(d, c, V, H, F, av, ah, af), NEW h \in H,
         NEW C, IsCycle(C, c, H, h), NEW B, IsCycle(B, d, K, ah[h]), NEW f \in F,
         NEW E, E = Without(F, f), NEW b, Opened(b, c, H, E, C),
         NEW e, Opened(e, d, K, Without(G, af[f]), B)
  PROVE  Alike(e, b, V, H, E, av, ah, af)
<1>c. \A x \in H : x \in C <=> ah[x] \in B
  <2>1. PICK i : i = ah[h]
    OBVIOUS
  <2>2. IsCycle(B, d, K, i)
    BY <2>1
  <2>3. Meets(C, B, ah, H)
    BY <2>1, <2>2, CycleAlike
  <2>. QED BY <2>3 DEF Meets
<1>1. /\ \A x \in H : ah[x] \in K /\ (x \in C <=> ah[x] \in B)
      /\ \A y \in E : y \in F /\ af[y] \in Without(G, af[f])
  BY <1>c DEF Matches, OneToOne, Without
<1>2. /\ b.half = c.half /\ b.target = c.target /\ b.next = c.next /\ b.prev = c.prev
      /\ e.half = d.half /\ e.target = d.target /\ e.next = d.next /\ e.prev = d.prev
  BY DEF Opened
<1>3. \A v \in V : e.half[av[v]] = Across(ah, b.half[v])
  BY <1>2 DEF Alike
<1>4. ASSUME NEW x \in H
      PROVE  /\ e.target[ah[x]] = av[b.target[x]] /\ e.next[ah[x]] = ah[b.next[x]]
             /\ e.prev[ah[x]] = ah[b.prev[x]] /\ e.face[ah[x]] = Across(af, b.face[x])
  <2>1. /\ e.target[ah[x]] = av[b.target[x]] /\ e.next[ah[x]] = ah[b.next[x]]
        /\ e.prev[ah[x]] = ah[b.prev[x]]
    BY <1>2 DEF Alike
  <2>2. CASE x \in C
    <3>1. e.face[ah[x]] = Null /\ b.face[x] = Null
      BY <2>2, <1>1 DEF Opened
    <3>. QED BY <2>1, <3>1 DEF Across
  <2>3. CASE x \notin C
    <3>1. e.face[ah[x]] = d.face[ah[x]] /\ b.face[x] = c.face[x]
      BY <2>3, <1>1 DEF Opened
    <3>2. d.face[ah[x]] = Across(af, c.face[x])
      BY DEF Alike
    <3>. QED BY <2>1, <3>1, <3>2
  <2>. QED BY <2>2, <2>3
<1>5. ASSUME NEW y \in E PROVE e.fhalf[af[y]] = ah[b.fhalf[y]]
  <2>1. e.fhalf[af[y]] = d.fhalf[af[y]] /\ b.fhalf[y] = c.fhalf[y]
    BY <1>1 DEF Opened
  <2>2. d.fhalf[af[y]] = ah[c.fhalf[y]]
    BY <1>1 DEF Alike
  <2>. QED BY <2>1, <2>2
<1>. QED BY <1>3, <1>4, <1>5 DEF Alike

-----------------------------------------------------------------------------
(***************************************************************************)
(* What the changes of a face, and of an edge that is gone, leave behind.  *)
(***************************************************************************)

(* What is stored for other elements does not matter. *)
LEMMA ApartElsewhere ==
  ASSUME NEW c, NEW V, NEW H, NEW F, Sound(c, V, H, F),
         NEW h \in H, NEW o \in H, IsEdge(h, o),
         NEW d, Severed(d, c, V, H, F, h, o), NEW e, Agree(e, d, V, WithoutPair(H, h, o), F)
  PROVE  Severed(e, c, V, H, F, h, o)
<1>1. o = Opposite(h) /\ h = Opposite(o) /\ h # o
  BY DEF IsEdge
<1>2. \A x \in H : /\ c.next[x] \in H /\ c.prev[x] \in H /\ c.target[x] \in V
                   /\ c.prev[c.next[x]] = x /\ c.next[c.prev[x]] = x
                   /\ c.target[x] = c.target[Opposite(c.next[x])]
                   /\ c.target[x] # c.target[Opposite(x)]
  BY DEF Sound, IsValid, IsManifold
<1>3. PICK K, p, q, n, m : /\ K = H \ {h, o} /\ p = c.prev[h] /\ q = c.prev[o]
                           /\ n = c.next[h] /\ m = c.next[o]
  OBVIOUS
<1>4. p \in H /\ q \in H /\ n \in H /\ m \in H /\ c.next[p] = h /\ c.next[q] = o
  BY <1>2, <1>3
<1>5. p # h /\ q # o /\ n # h /\ m # o
  <2>1. c.target[h] # c.target[o] /\ c.target[o] # c.target[h]
    BY <1>1, <1>2
  <2>2. c.target[p] = c.target[o] /\ c.target[q] = c.target[h]
    BY <1>1, <1>2, <1>4
  <2>3. c.prev[n] = h /\ c.prev[m] = o
    BY <1>2, <1>3
  <2>4. p # h /\ q # o
    BY <2>1, <2>2
  <2>5. n # h /\ m # o
    BY <2>3, <2>4, <1>3
  <2>. QED BY <2>4, <2>5
<1>6. (p # o => m # h) /\ (q # h => n # o)
  BY <1>2, <1>3
<1>7. (p # o => p \in K /\ m \in K) /\ (q # h => q \in K /\ n \in K)
  BY <1>3, <1>4, <1>5, <1>6
<1>8. /\ \A w \in V : e.half[w] = d.half[w]
      /\ \A x \in K : /\ e.next[x] = d.next[x] /\ e.prev[x] = d.prev[x]
                      /\ e.target[x] = d.target[x] /\ e.face[x] = d.face[x]
      /\ \A f \in F : e.fhalf[f] = d.fhalf[f]
  BY <1>3 DEF Agree, WithoutPair
<1>9. Unwired(d, c, V, K, F, h, o, p, q, n, m)
  BY <1>3 DEF Severed, WithoutPair
<1>10. c.target[h] \in V /\ c.target[o] \in V
  BY <1>2
<1>11. Unwired(e, c, V, K, F, h, o, p, q, n, m)
  BY <1>7, <1>8, <1>9, <1>10 DEF Unwired
<1>. QED BY <1>3, <1>11 DEF Severed, WithoutPair

(* What add_face stores: the halfedges of one cycle, and the new face. *)
LEMMA FilledIs ==
  ASSUME NEW X, NEW D, NEW Y, NEW c \in Arrays(X, D, Y), IsFiniteSet(D), Integral(D),
         NEW V, NEW H, NEW F, Inside(V, H, F, X, D, Y), Sound(c, V, H, F),
         NEW f \in Nat, f \notin F, NEW Z, Z = Grown(Y, f), NEW h \in H,
         NEW d, d = Fill(WithFace(c, f), h, f)
  PROVE  /\ d \in Arrays(X, D, Z)
         /\ \E C : IsCycle(C, c, H, h) /\ Filled(d, c, H, F, C, h, f)
         /\ Same(d.fhalf, c.fhalf, Without(Y, f))
<1> USE DEF Inside, Grown, Without, Same
<1>1. PICK e : e = WithFace(c, f)
  OBVIOUS
<1>2. e \in Arrays(X, D, Z) /\ FaceReset(e, c, Y, f)
  BY <1>1, WithFaceIs
<1>3. Agree(e, c, V, H, F)
  BY <1>2 DEF FaceReset, Agree
<1>4. Sound(e, V, H, F)
  <2>1. V \in SUBSET V /\ F \in SUBSET F
    OBVIOUS
  <2>2. \A x \in H : c.target[x] \in V /\ c.face[x] \in F \cup {Null}
    BY DEF Sound, IsValid
  <2>. QED BY <1>3, <2>1, <2>2, AgreeingSound
<1>5. PICK C : C = Cycle(e, h)
  OBVIOUS
<1>6. IsCycle(C, e, H, h)
  BY <1>2, <1>4, <1>5, CycleIs
<1>7. PICK a : a = SetFace(e, h, f)
  OBVIOUS
<1>8. a \in Arrays(X, D, Z) /\ FaceSet(a, e, D, C, f) /\ a.fhalf = e.fhalf
  <2>1. C \subseteq D
    BY <1>6 DEF IsCycle
  <2>. QED BY <1>2, <1>5, <1>7, <2>1, SetFaceIs
<1>9. d = [a EXCEPT !.fhalf[f] = h]
  BY <1>1, <1>7 DEF Fill
<1>10. /\ d \in Arrays(X, D, Z)
       /\ d.half = a.half /\ d.target = a.target /\ d.next = a.next /\ d.prev = a.prev
       /\ d.face = a.face /\ d.fhalf[f] = h
       /\ \A x \in Z : x # f => d.fhalf[x] = a.fhalf[x]
  <2>1. PICK b : b = [a.fhalf EXCEPT ![f] = h]
    OBVIOUS
  <2>2. h \in Int /\ f \in Z
    BY DEF Integral
  <2>3. a.fhalf \in [Z -> Int]
    BY <1>8 DEF Arrays
  <2>4. b \in [Z -> Int] /\ b[f] = h /\ \A x \in Z : x # f => b[x] = a.fhalf[x]
    BY <2>1, <2>2, <2>3
  <2>5. d = [a EXCEPT !.fhalf = b]
    BY <1>8, <1>9, <2>1 DEF Arrays
  <2>. QED BY <1>8, <2>4, <2>5 DEF Arrays
<1>11. e.next = c.next /\ e.half = c.half /\ e.target = c.target /\ e.prev = c.prev /\ e.face = c.face
  BY <1>2 DEF FaceReset
<1>12. IsCycle(C, c, H, h)
  BY <1>6, <1>11 DEF IsCycle
<1>13. Filled(d, c, H, F, C, h, f)
  <2>1. \A x \in H : d.face[x] = IF x \in C THEN f ELSE c.face[x]
    BY <1>8, <1>10, <1>11 DEF FaceSet
  <2>2. \A y \in F : d.fhalf[y] = c.fhalf[y]
    <3>1. \A y \in F : y \in Y /\ y \in Z /\ y # f
      OBVIOUS
    <3>. QED BY <3>1, <1>2, <1>8, <1>10 DEF FaceReset
  <2>3. d.half = c.half /\ d.target = c.target /\ d.next = c.next /\ d.prev = c.prev
    BY <1>8, <1>10, <1>11 DEF FaceSet
  <2>. QED BY <2>1, <2>2, <2>3, <1>10 DEF Filled
<1>14. \A x \in Y \ {f} : d.fhalf[x] = c.fhalf[x]
  BY <1>2, <1>8, <1>10 DEF FaceReset
<1>. QED BY <1>10, <1>12, <1>13, <1>14

(* What remove_face stores: the halfedges of one cycle lose their face. *)
LEMMA OpenedIs ==
  ASSUME NEW X, NEW D, NEW Y, NEW c \in Arrays(X, D, Y), IsFiniteSet(D),
         NEW V, NEW H, NEW F, Inside(V, H, F, X, D, Y), Sound(c, V, H, F),
         NEW h \in H, NEW d, d = SetFace(c, h, Null)
  PROVE  /\ d \in Arrays(X, D, Y) /\ d.fhalf = c.fhalf
         /\ \E C : IsCycle(C, c, H, h) /\ Opened(d, c, H, F, C)
<1> USE DEF Inside
<1>2. PICK C : C = Cycle(c, h)
  OBVIOUS
<1>3. IsCycle(C, c, H, h)
  BY <1>2, CycleIs
<1>5. d \in Arrays(X, D, Y) /\ FaceSet(d, c, D, C, Null) /\ d.fhalf = c.fhalf
  <2>1. C \subseteq D /\ Null \in Int
    BY <1>3 DEF Null, IsCycle
  <2>. QED BY <1>2, <2>1, SetFaceIs
<1>6. Opened(d, c, H, F, C)
  BY <1>5 DEF FaceSet, Opened
<1>. QED BY <1>3, <1>5, <1>6

===============================================================================

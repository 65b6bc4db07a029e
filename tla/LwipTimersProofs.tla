-------------------------- MODULE LwipTimersProofs --------------------------
(***************************************************************************)
(* Proofs about lwIP's list of timeouts, for every number of nodes, every  *)
(* length of the timers and every width of the clock.                      *)
(***************************************************************************)
EXTENDS LwipTimers, FiniteSetTheorems, SequenceTheorems, TLAPS

(* A set of numbers that is not empty has a least one. *)
LEMMA LeastNat ==
  ASSUME NEW S, S \subseteq Nat, S # {}
  PROVE  \E k \in S : \A j \in S : k <= j
<1> DEFINE R == OpToRel(<, Nat)
<1>1. ASSUME NEW j \in Nat, NEW k \in Nat PROVE <<j, k>> \in R \/ k <= j
  BY DEF OpToRel
<1>2. IsWellFoundedOn(R, Nat)
  BY NatLessThanWellFounded
<1> HIDE DEF R
<1>3. PICK k \in S : \A j \in S : ~ (<<j, k>> \in R)
  BY <1>2, WFMin, Zenon
<1>4. \A j \in S : k <= j
  BY <1>1, <1>3, Zenon
<1>5. QED
  BY <1>4

(* A set of positions that has with each the ones before it is 1 .. c, c   *)
(* being how many they are.                                                *)
LEMMA PrefixCount ==
  ASSUME NEW m \in Nat, NEW S, S \subseteq 1 .. m,
         \A i \in S : \A j \in 1 .. m : j <= i => j \in S
  PROVE  Cardinality(S) \in 0 .. m /\ S = 1 .. Cardinality(S)
<1> DEFINE Out == {k \in 1 .. m + 1 : k \notin S}
<1>1. Out \subseteq Nat /\ Out # {}
  <2>1. m + 1 \in 1 .. m + 1 /\ m + 1 \notin S
    OBVIOUS
  <2>2. QED
    BY <2>1
<1>2. PICK k \in Out : \A j \in Out : k <= j
  <2> HIDE DEF Out
  <2>1. QED
    BY <1>1, LeastNat
<1>3. k - 1 \in 0 .. m /\ S = 1 .. k - 1
  <2>1. k \in 1 .. m + 1 /\ k \notin S
    BY <1>2
  <2>2. ASSUME NEW i \in S PROVE i \in 1 .. k - 1
    <3>1. ~ (k <= i)
      BY <2>1
    <3>2. QED
      BY <2>1, <3>1
  <2>3. ASSUME NEW i \in 1 .. k - 1 PROVE i \in S
    BY <1>2, <2>1
  <2>4. S \subseteq 1 .. k - 1 /\ 1 .. k - 1 \subseteq S
    BY <2>2, <2>3, Zenon
  <2>5. S = 1 .. k - 1
    BY <2>4, Zenon
  <2>6. QED
    BY <2>1, <2>5
<1>4. Cardinality(1 .. k - 1) = k - 1
  BY <1>3, FS_Interval
<1>5. QED
  BY <1>3, <1>4

-----------------------------------------------------------------------------
(* The two recursive functions: a walk from a along g, and running sums.   *)

(* w is such a walk, as far as position m. *)
Walks(w, m, a, g) == \A k \in 1 .. m : w[k] = IF k = 1 THEN a ELSE g[w[k - 1]]

(* There is one of every length. *)
LEMMA WalkExists ==
  ASSUME NEW m \in Nat, NEW A, NEW a \in A, NEW g \in [A -> A]
  PROVE  \E w \in [1 .. m -> A] : Walks(w, m, a, g)
<1> DEFINE Bad == {k \in 0 .. m : ~ \E w \in [1 .. k -> A] : Walks(w, k, a, g)}
<1>1. ASSUME Bad # {} PROVE FALSE
  <2>1. PICK k \in Bad : \A j \in Bad : k <= j
    <3>1. Bad \subseteq Nat
      OBVIOUS
    <3> HIDE DEF Bad
    <3>2. QED
      BY <1>1, <3>1, LeastNat
  <2>2. k \in 0 .. m /\ ~ \E w \in [1 .. k -> A] : Walks(w, k, a, g)
    BY <2>1
  <2>3. CASE k = 0
    <3> DEFINE w == [i \in 1 .. 0 |-> a]
    <3>1. w \in [1 .. k -> A] /\ Walks(w, k, a, g)
      BY <2>3 DEF Walks
    <3>2. QED
      BY <2>2, <3>1
  <2>4. CASE k # 0
    <3>1. k - 1 \in 0 .. m /\ k - 1 \notin Bad
      <4>1. k - 1 \in 0 .. m /\ ~ (k <= k - 1)
        BY <2>2, <2>4
      <4>2. QED
        BY <2>1, <4>1
    <3>2. PICK w \in [1 .. k - 1 -> A] : Walks(w, k - 1, a, g)
      BY <3>1
    <3> DEFINE x == IF k = 1 THEN a ELSE g[w[k - 1]]
               v == [i \in 1 .. k |-> IF i = k THEN x ELSE w[i]]
    <3>3. x \in A
      BY <2>2, <2>4
    <3>4. v \in [1 .. k -> A]
      <4> HIDE DEF x
      <4>1. QED
        BY <2>2, <2>4, <3>3
    <3>5. ASSUME NEW i \in 1 .. k PROVE v[i] = IF i = 1 THEN a ELSE g[v[i - 1]]
      BY <2>2, <2>4, <3>2 DEF Walks
    <3>6. QED
      BY <2>2, <3>4, <3>5 DEF Walks
  <2>5. QED
    BY <2>3, <2>4
<1>2. m \in 0 .. m
  OBVIOUS
<1>3. m \notin Bad
  BY <1>1, Zenon
<1>4. QED
  BY <1>2, <1>3, Zenon

(* Two walks from the same place agree. *)
LEMMA WalksAgree ==
  ASSUME NEW m \in Nat, NEW a, NEW g, NEW w, NEW v, Walks(w, m, a, g), Walks(v, m, a, g)
  PROVE  \A k \in 1 .. m : w[k] = v[k]
<1> DEFINE Bad == {k \in 1 .. m : w[k] # v[k]}
<1>1. ASSUME Bad # {} PROVE FALSE
  <2>1. PICK k \in Bad : \A j \in Bad : k <= j
    <3>1. Bad \subseteq Nat
      OBVIOUS
    <3> HIDE DEF Bad
    <3>2. QED
      BY <1>1, <3>1, LeastNat
  <2>2. k \in 2 .. m /\ k - 1 \in 1 .. m /\ ~ (k <= k - 1)
    BY <2>1 DEF Walks
  <2>3. w[k - 1] = v[k - 1]
    BY <2>1, <2>2
  <2>4. QED
    BY <2>1, <2>2, <2>3 DEF Walks
<1>2. QED
  BY <1>1

(* s holds the sums of the first values of c. *)
Sums(s, c, m) == s[0] = 0 /\ \A k \in 1 .. m : s[k] = s[k - 1] + c[k]

(* There are sums of every length. *)
LEMMA SumsExist ==
  ASSUME NEW m \in Nat, NEW c \in [1 .. m -> Nat]
  PROVE  \E s \in [0 .. m -> Nat] : Sums(s, c, m)
<1> DEFINE Bad == {k \in 0 .. m : ~ \E s \in [0 .. k -> Nat] : Sums(s, c, k)}
<1>1. ASSUME Bad # {} PROVE FALSE
  <2>1. PICK k \in Bad : \A j \in Bad : k <= j
    <3>1. Bad \subseteq Nat
      OBVIOUS
    <3> HIDE DEF Bad
    <3>2. QED
      BY <1>1, <3>1, LeastNat
  <2>2. k \in 0 .. m /\ ~ \E s \in [0 .. k -> Nat] : Sums(s, c, k)
    BY <2>1
  <2>3. CASE k = 0
    <3> DEFINE s == [i \in 0 .. 0 |-> 0]
    <3>1. s \in [0 .. k -> Nat] /\ Sums(s, c, k)
      BY <2>3 DEF Sums
    <3>2. QED
      BY <2>2, <3>1
  <2>4. CASE k # 0
    <3>1. k - 1 \in 0 .. m /\ k - 1 \notin Bad
      <4>1. k - 1 \in 0 .. m /\ ~ (k <= k - 1)
        BY <2>2, <2>4
      <4>2. QED
        BY <2>1, <4>1
    <3>2. PICK s \in [0 .. k - 1 -> Nat] : Sums(s, c, k - 1)
      BY <3>1
    <3> DEFINE r == [i \in 0 .. k |-> IF i = k THEN s[k - 1] + c[k] ELSE s[i]]
    <3>3. r \in [0 .. k -> Nat]
      BY <2>2, <2>4
    <3>4. r[0] = 0
      BY <2>2, <2>4, <3>2 DEF Sums
    <3>5. ASSUME NEW i \in 1 .. k PROVE r[i] = r[i - 1] + c[i]
      BY <2>2, <2>4, <3>2 DEF Sums
    <3>6. QED
      BY <2>2, <3>3, <3>4, <3>5 DEF Sums
  <2>5. QED
    BY <2>3, <2>4
<1>2. m \in 0 .. m
  OBVIOUS
<1>3. m \notin Bad
  BY <1>1, Zenon
<1>4. QED
  BY <1>2, <1>3, Zenon

(* Two functions of such sums agree. *)
LEMMA SumsAgree ==
  ASSUME NEW m \in Nat, NEW c \in [1 .. m -> Nat], NEW s \in [0 .. m -> Nat], NEW r,
         Sums(s, c, m), Sums(r, c, m)
  PROVE  \A k \in 0 .. m : r[k] = s[k]
<1> DEFINE Bad == {k \in 0 .. m : r[k] # s[k]}
<1>1. ASSUME Bad # {} PROVE FALSE
  <2>1. PICK k \in Bad : \A j \in Bad : k <= j
    <3>1. Bad \subseteq Nat
      OBVIOUS
    <3> HIDE DEF Bad
    <3>2. QED
      BY <1>1, <3>1, LeastNat
  <2>2. k \in 1 .. m /\ k - 1 \in 0 .. m /\ ~ (k <= k - 1)
    BY <2>1 DEF Sums
  <2>3. r[k - 1] = s[k - 1]
    BY <2>1, <2>2
  <2>4. QED
    BY <2>1, <2>2, <2>3 DEF Sums
<1>2. QED
  BY <1>1

(* Sums never fall. *)
LEMMA SumsRise ==
  ASSUME NEW m \in Nat, NEW c \in [1 .. m -> Nat], NEW s \in [0 .. m -> Nat], Sums(s, c, m)
  PROVE  \A i, j \in 0 .. m : i <= j => s[i] <= s[j]
<1> SUFFICES ASSUME NEW i \in 0 .. m PROVE \A j \in 0 .. m : i <= j => s[i] <= s[j]
  OBVIOUS
<1> DEFINE Bad == {j \in 0 .. m : i <= j /\ ~ (s[i] <= s[j])}
<1>1. ASSUME Bad # {} PROVE FALSE
  <2>1. PICK k \in Bad : \A j \in Bad : k <= j
    <3>1. Bad \subseteq Nat
      OBVIOUS
    <3> HIDE DEF Bad
    <3>2. QED
      BY <1>1, <3>1, LeastNat
  <2>2. k \in 1 .. m /\ k - 1 \in 0 .. m /\ i <= k - 1 /\ ~ (k <= k - 1) /\ ~ (s[i] <= s[k])
    <3>1. k \in 0 .. m /\ i <= k /\ ~ (s[i] <= s[k])
      BY <2>1
    <3>2. k # i
      BY <3>1
    <3>3. QED
      BY <3>1, <3>2
  <2>3. s[i] <= s[k - 1]
    BY <2>1, <2>2
  <2>4. s[k] = s[k - 1] + c[k] /\ c[k] \in Nat
    BY <2>2 DEF Sums
  <2>5. QED
    BY <2>2, <2>3, <2>4
<1>2. QED
  BY <1>1

-----------------------------------------------------------------------------
(* What Nth, Path and Sum are, in every state whose variables have their   *)
(* types.                                                                  *)
NodeType == [next : Nodes \cup {NULL}, time : 0 .. WIDTH - 1, h : Timers \cup {None}]

ListType == next_timeout \in Nodes \cup {NULL} /\ node \in [Nodes -> NodeType]

(* There are finitely many timers. *)
LEMMA TimersFinite == IsFiniteSet(Timers) /\ Cardinality(Timers) \in Nat
<1>1. IsFiniteSet({"ip"}) /\ IsFiniteSet({"ip"} \cup {"arp"})
  BY FS_Singleton, FS_AddElement
<1>2. IsFiniteSet(({"ip"} \cup {"arp"}) \cup {"tcp"})
  BY <1>1, FS_AddElement
<1>3. IsFiniteSet((({"ip"} \cup {"arp"}) \cup {"tcp"}) \cup {"tick"})
  BY <1>2, FS_AddElement
<1>4. Timers = (({"ip"} \cup {"arp"}) \cup {"tcp"}) \cup {"tick"}
  BY DEF Timers, Periodic
<1>5. QED
  BY <1>3, <1>4, FS_CardinalityType

(* The constants are numbers. *)
LEMMA ConstantFacts ==
  /\ NODES \in Nat /\ NODES >= 1 /\ WIDTH \in Nat /\ WIDTH >= 2 /\ NULL \notin Nodes
  /\ \A g \in Timers : Interval[g] \in 1 .. WIDTH - 1
<1>1. NODES \in Nat /\ NODES >= 1 /\ WIDTH \in Nat
  BY TimersFinite, TimersAssumption
<1>2. \A g \in Timers : Interval[g] \in 1 .. WIDTH - 1
  BY <1>1, TimersAssumption
<1>3. WIDTH >= 2
  <2>1. "ip" \in Timers
    BY DEF Timers, Periodic
  <2>2. QED
    BY <1>1, <1>2, <2>1
<1>4. QED
  BY <1>1, <1>2, <1>3 DEF NULL, Nodes

(* The nodes along the links from the first one, NULL behind the last. *)
NthFacts ==
  /\ Nth \in [Nodes -> Nodes \cup {NULL}]
  /\ Nth[1] = next_timeout
  /\ \A k \in 2 .. NODES : Nth[k] = IF Nth[k - 1] = NULL THEN NULL ELSE node[Nth[k - 1]].next

(* The recursion of Nth has a solution. *)
LEMMA NthType == ListType => NthFacts
<1> SUFFICES ASSUME ListType PROVE NthFacts
  OBVIOUS
<1> DEFINE A == Nodes \cup {NULL}
           F(v) == [k \in Nodes |-> IF k = 1 THEN next_timeout ELSE Succ[v[k - 1]]]
<1>1. Succ \in [A -> A] /\ next_timeout \in A
  BY DEF Succ, ListType, NodeType
<1>2. PICK v \in [1 .. NODES -> A] : Walks(v, NODES, next_timeout, Succ)
  BY <1>1, ConstantFacts, WalkExists
<1>3. v = F(v)
  BY <1>2 DEF Walks, Nodes
<1>4. Nth = CHOOSE w : w = F(w)
  BY DEF Nth
<1>5. Nth = F(Nth)
  BY <1>3, <1>4
<1>6. Walks(Nth, NODES, next_timeout, Succ)
  <2>1. ASSUME NEW k \in 1 .. NODES
        PROVE  Nth[k] = IF k = 1 THEN next_timeout ELSE Succ[Nth[k - 1]]
    <3>1. F(Nth)[k] = IF k = 1 THEN next_timeout ELSE Succ[Nth[k - 1]]
      BY DEF Nodes
    <3> HIDE DEF F
    <3>2. QED
      BY <1>5, <3>1
  <2>2. QED
    BY <2>1 DEF Walks
<1>7. \A k \in 1 .. NODES : Nth[k] = v[k]
  BY <1>2, <1>6, ConstantFacts, WalksAgree
<1>8. Nth = v
  <2>1. Nth = [k \in Nodes |-> Nth[k]]
    BY <1>5
  <2>2. QED
    BY <1>2, <1>7, <2>1 DEF Nodes
<1>9. Nth \in [Nodes -> Nodes \cup {NULL}]
  BY <1>8 DEF Nodes
<1>10. Nth[1] = next_timeout
  BY <1>6, ConstantFacts DEF Walks
<1>11. ASSUME NEW k \in 2 .. NODES
       PROVE  Nth[k] = IF Nth[k - 1] = NULL THEN NULL ELSE node[Nth[k - 1]].next
  <2>1. k \in 1 .. NODES /\ k - 1 \in Nodes /\ k # 1
    BY ConstantFacts DEF Nodes
  <2>2. Nth[k] = Succ[Nth[k - 1]]
    BY <1>6, <2>1 DEF Walks
  <2>3. Nth[k - 1] \in Nodes \cup {NULL}
    BY <1>9, <2>1
  <2>4. QED
    BY <2>2, <2>3 DEF Succ
<1>12. QED
  BY <1>9, <1>10, <1>11 DEF NthFacts

(* The list, as a sequence: as far as NULL, or all of NODES positions if   *)
(* the links go round.                                                     *)
PathFacts ==
  /\ Path \in Seq(Nodes) /\ Len(Path) \in 0 .. NODES /\ DOMAIN Path = 1 .. Len(Path)
  /\ \A k \in 1 .. Len(Path) : Path[k] = Nth[k] /\ Path[k] \in Nodes
  /\ \A k \in Nodes : Nth[k] # NULL <=> k <= Len(Path)

(* Behind NULL there is only NULL. *)
LEMMA PathType == ListType => PathFacts
<1> SUFFICES ASSUME ListType PROVE PathFacts
  OBVIOUS
<1> DEFINE S == {k \in Nodes : Nth[k] # NULL}
           c == Cardinality(S)
<1>1. NthFacts
  BY NthType
<1>2. ASSUME NEW i \in S, NEW j \in 1 .. NODES, j <= i PROVE j \in S
  <2> DEFINE Out == {k \in 1 .. NODES : j <= k /\ k <= i /\ Nth[k] # NULL}
  <2>1. i \in Out /\ Out \subseteq Nat
    BY <1>2 DEF Nodes
  <2>2. PICK k \in Out : \A x \in Out : k <= x
    <3> HIDE DEF Out
    <3>1. QED
      BY <2>1, LeastNat
  <2>3. CASE k = j
    BY <2>2, <2>3 DEF Nodes
  <2>4. CASE k # j
    <3>1. k \in 2 .. NODES /\ k - 1 \in 1 .. NODES /\ j <= k - 1 /\ k - 1 <= i /\ ~ (k <= k - 1)
      BY <2>2, <2>4, ConstantFacts DEF Nodes
    <3>2. Nth[k - 1] = NULL
      BY <2>2, <3>1
    <3>3. Nth[k] = NULL
      BY <1>1, <3>1, <3>2 DEF NthFacts
    <3>4. QED
      BY <2>2, <3>3
  <2>5. QED
    BY <2>3, <2>4
<1>3. c \in 0 .. NODES /\ S = 1 .. c
  <2>1. S \subseteq 1 .. NODES
    BY DEF Nodes
  <2> HIDE DEF S
  <2>2. QED
    BY <1>2, <2>1, ConstantFacts, PrefixCount
<1>4. Path = SubSeq(Nth, 1, c)
  BY DEF Path
<1> HIDE DEF c
<1>5. \A k \in 1 .. c : Nth[k] \in Nodes
  <2>1. ASSUME NEW k \in 1 .. c PROVE Nth[k] \in Nodes
    <3>1. k \in Nodes /\ Nth[k] # NULL
      BY <1>3
    <3>2. QED
      BY <1>1, <3>1 DEF NthFacts
  <2>2. QED
    BY <2>1
<1>6. /\ Path \in Seq(Nodes) /\ Len(Path) = c
      /\ \A k \in 1 .. c : Path[k] = Nth[k]
  <2>1. c \in Int /\ c >= 0
    BY <1>3, ConstantFacts
  <2>2. /\ Path \in Seq(Nodes) /\ Len(Path) = IF 1 <= c THEN c - 1 + 1 ELSE 0
        /\ \A k \in 1 .. c - 1 + 1 : Path[k] = Nth[1 + k - 1]
    BY <1>4, <1>5, <2>1, SubSeqProperties
  <2>3. QED
    BY <2>1, <2>2
<1>7. \A k \in Nodes : Nth[k] # NULL <=> k <= c
  <2>1. ASSUME NEW k \in Nodes PROVE Nth[k] # NULL <=> k \in 1 .. c
    BY <1>3
  <2>2. QED
    BY <1>3, <2>1, ConstantFacts DEF Nodes
<1>8. QED
  BY <1>3, <1>5, <1>6, <1>7, LenProperties DEF PathFacts

(* The sums of the times along it. *)
SumFacts ==
  /\ Sum \in [0 .. NODES -> Nat] /\ Sum[0] = 0
  /\ \A k \in Nodes : Sum[k] = Sum[k - 1] + Time(Nth[k])
  /\ \A i, j \in 0 .. NODES : i <= j => Sum[i] <= Sum[j]

(* The recursion of Sum has a solution. *)
LEMMA SumType == ListType => SumFacts
<1> SUFFICES ASSUME ListType PROVE SumFacts
  OBVIOUS
<1> DEFINE c == [k \in 1 .. NODES |-> Time(Nth[k])]
           F(s) == [k \in 0 .. NODES |-> IF k = 0 THEN 0 ELSE s[k - 1] + Time(Nth[k])]
<1>1. c \in [1 .. NODES -> Nat]
  <2>1. ASSUME NEW k \in 1 .. NODES PROVE Time(Nth[k]) \in Nat
    <3>1. Nth[k] \in Nodes \cup {NULL}
      BY NthType DEF NthFacts, Nodes
    <3>2. QED
      BY <3>1, ConstantFacts DEF Time, ListType, NodeType
  <2>2. QED
    BY <2>1
<1>2. PICK s \in [0 .. NODES -> Nat] : Sums(s, c, NODES)
  <2> HIDE DEF c
  <2>1. QED
    BY <1>1, ConstantFacts, SumsExist
<1>3. s = F(s)
  <2>1. \A k \in 0 .. NODES : s[k] = F(s)[k]
    BY <1>2, ConstantFacts DEF Sums
  <2>2. QED
    BY <2>1
<1>4. Sum = CHOOSE r : r = F(r)
  BY DEF Sum
<1>5. Sum = F(Sum)
  BY <1>3, <1>4
<1>6. Sums(Sum, c, NODES)
  <2>1. Sum[0] = 0
    BY <1>5, ConstantFacts
  <2>2. ASSUME NEW k \in 1 .. NODES PROVE Sum[k] = Sum[k - 1] + c[k]
    <3>1. k \in 0 .. NODES /\ k # 0
      BY ConstantFacts
    <3>2. F(Sum)[k] = Sum[k - 1] + c[k]
      BY <3>1
    <3> HIDE DEF F
    <3>3. QED
      BY <1>5, <3>2
  <2>3. QED
    BY <2>1, <2>2 DEF Sums
<1>7. \A k \in 0 .. NODES : Sum[k] = s[k]
  <2> HIDE DEF c
  <2>1. NODES \in Nat
    BY ConstantFacts
  <2>2. QED
    BY <1>1, <1>2, <1>6, <2>1, SumsAgree, Zenon
<1>8. Sum = s
  <2>1. Sum = [k \in 0 .. NODES |-> Sum[k]]
    BY <1>5
  <2>2. QED
    BY <1>2, <1>7, <2>1
<1>9. \A i, j \in 0 .. NODES : i <= j => Sum[i] <= Sum[j]
  <2> HIDE DEF c
  <2>1. \A i, j \in 0 .. NODES : i <= j => s[i] <= s[j]
    BY <1>1, <1>2, ConstantFacts, SumsRise
  <2>2. QED
    BY <1>8, <2>1, Zenon
<1>10. \A k \in Nodes : Sum[k] = Sum[k - 1] + Time(Nth[k])
  BY <1>6 DEF Sums, Nodes
<1>11. QED
  BY <1>2, <1>6, <1>8, <1>9, <1>10 DEF SumFacts, Sums

-----------------------------------------------------------------------------
(* The types of the variables.  A timer is being set only where there is   *)
(* one, and the boot sequence is a part of the whole one.                  *)
Setting ==
  /\ boot \in {<<"ip", "arp", None>>, <<"arp", None>>, <<None>>, <<>>}
  /\ pc = "boot" => boot # <<>>
  /\ pc \in {"tick_end", "alloc", "first", "front", "walk", "link"} => h \in Timers

TypeInv == TypeOK /\ Setting

(* With the types the list has its form. *)
LEMMA TypeIsList == TypeOK => ListType
BY DEF TypeOK, ListType, NodeType

(* What the boot sequence is made of. *)
LEMMA BootFacts ==
  ASSUME Setting, boot # <<>>
  PROVE  /\ Head(boot) \in Timers \cup {None}
         /\ Tail(boot) \in {<<"arp", None>>, <<None>>, <<>>}
         /\ Head(boot) = None <=> Tail(boot) = <<>>
<1>1. CASE boot = <<"ip", "arp", None>>
  BY <1>1 DEF Timers, Periodic, None
<1>2. CASE boot = <<"arp", None>>
  BY <1>2 DEF Timers, Periodic, None
<1>3. CASE boot = <<None>>
  BY <1>3 DEF None
<1>4. QED
  BY <1>1, <1>2, <1>3 DEF Setting

(* Subtraction keeps the width. *)
LEMMA MinusType == \A a \in 0 .. WIDTH - 1, b \in Nat : Minus(a, b) \in 0 .. WIDTH - 1
BY ConstantFacts DEF Minus

(* Ticks and milliseconds are numbers. *)
LEMMA PortType ==
  /\ \A ms \in Nat : Ticks(ms) \in Nat /\ Ticks(ms) >= 1
  /\ \A d \in Nat : Elapsed(d) \in Nat /\ Elapsed(d) >= 1
<1>1. SEC \in Nat \ {0} /\ OS_TICKS_PER_SEC \in Nat \ {0} /\ WIDTH \in Nat /\ WIDTH >= 2
  BY TimersAssumption, ConstantFacts
<1>2. ASSUME NEW ms \in Nat PROVE Ticks(ms) \in Nat /\ Ticks(ms) >= 1
  <2> DEFINE x == ms * OS_TICKS_PER_SEC
  <2>1. x \in Nat
    BY <1>1
  <2> HIDE DEF x
  <2>2. x \div SEC \in Int
    BY <1>1, <2>1
  <2>3. Ticks(ms) = IF x \div SEC < 1 THEN 1 ELSE x \div SEC
    BY DEF Ticks, x
  <2>4. QED
    BY <2>2, <2>3
<1>3. ASSUME NEW d \in Nat PROVE Elapsed(d) \in Nat /\ Elapsed(d) >= 1
  <2> DEFINE y == IF d > 0 THEN d ELSE WIDTH - 1
             x == (y * SEC) % WIDTH
  <2>1. y \in Nat
    BY <1>1
  <2> HIDE DEF y
  <2>2. y * SEC \in Nat
    BY <1>1, <2>1
  <2>3. x \in Nat
    BY <1>1, <2>2
  <2> HIDE DEF x
  <2>4. x \div OS_TICKS_PER_SEC \in Nat
    BY <1>1, <2>3
  <2>5. Elapsed(d) = x \div OS_TICKS_PER_SEC + 1
    BY DEF Elapsed, x, y
  <2>6. QED
    BY <2>4, <2>5
<1>4. QED
  BY <1>2, <1>3

(* A node from the pool is one of it. *)
LEMMA MallocType ==
  ASSUME memp \subseteq Nodes
  PROVE  memp_malloc \in memp \cup {NULL} /\ (memp_malloc = NULL <=> memp = {})
<1>1. CASE memp = {}
  BY <1>1 DEF memp_malloc
<1>2. CASE memp # {}
  <2>1. memp \subseteq Nat
    BY DEF Nodes
  <2>2. \E n \in memp : \A m \in memp : n <= m
    BY <1>2, <2>1, LeastNat
  <2>3. memp_malloc \in memp
    BY <1>2, <2>2 DEF memp_malloc
  <2>4. QED
    BY <1>2, <2>3, ConstantFacts
<1>3. QED
  BY <1>1, <1>2

(* The list is empty at first. *)
LEMMA InitType == Init => TypeInv
<1> SUFFICES ASSUME Init PROVE TypeInv
  OBVIOUS
<1>1. node \in [Nodes -> [next : Nodes \cup {NULL}, time : 0 .. WIDTH - 1, h : Timers \cup {None}]]
  BY ConstantFacts DEF Init, Free
<1>2. Enable \in BOOLEAN /\ tcpip_tcp_timer_active \in BOOLEAN
  BY Zenon DEF Init
<1>3. TypeOK
  BY <1>1, <1>2, TimersAssumption DEF Init, TypeOK
<1>4. Setting
  BY DEF Init, Setting, None
<1>5. QED
  BY <1>3, <1>4 DEF TypeInv

(* The boot sequence names timers. *)
LEMMA BootType ==
  ASSUME TypeInv, Boot
  PROVE  TypeInv'
<1>10. TypeOK'
  BY ConstantFacts, BootFacts DEF TypeInv, TypeOK, Setting, list, wait, flags, Goes, Boot
<1>11. Setting'
  BY BootFacts DEF TypeInv, TypeOK, Setting, Goes, Boot
<1>12. QED
  BY <1>10, <1>11 DEF TypeInv

(* The wait is as long as the first timeout. *)
LEMMA FetchType ==
  ASSUME TypeInv, Fetch
  PROVE  TypeInv'
<1>1. next_timeout # NULL => Ticks(node[next_timeout].time) \in Nat
  <2>1. next_timeout # NULL => node[next_timeout].time \in Nat
    BY ConstantFacts DEF TypeInv, TypeOK
  <2>2. QED
    BY <2>1, PortType
<1>10. TypeOK'
  BY <1>1 DEF TypeInv, TypeOK, Setting, list, wait, flags, Goes, Fetch
<1>11. Setting'
  BY DEF TypeInv, TypeOK, Setting, Goes, Fetch
<1>12. QED
  BY <1>10, <1>11 DEF TypeInv

(* A wait that has run out. *)
LEMMA PendTimeoutType ==
  ASSUME TypeInv, PendTimeout
  PROVE  TypeInv'
<1>10. TypeOK'
  BY ConstantFacts DEF TypeInv, TypeOK, Setting, list, wait, flags, Goes, PendTimeout
<1>11. Setting'
  BY DEF TypeInv, TypeOK, Setting, Goes, PendTimeout
<1>12. QED
  BY <1>10, <1>11 DEF TypeInv

(* The time waited is a number. *)
LEMMA GetMessageType ==
  ASSUME TypeInv, GetMessage
  PROVE  TypeInv'
<1>1. Elapsed(spent) \in Nat
  BY PortType DEF TypeInv, TypeOK
<1>10. TypeOK'
  BY <1>1, TimersAssumption DEF TypeInv, TypeOK, Setting, list, wait, flags, Goes, GetMessage
<1>11. Setting'
  BY DEF TypeInv, TypeOK, Setting, Goes, GetMessage
<1>12. QED
  BY <1>10, <1>11 DEF TypeInv

(* What is left of the first timeout has its width. *)
LEMMA CountType ==
  ASSUME TypeInv, Count
  PROVE  TypeInv'
<1>9. node' \in [Nodes -> [next : Nodes \cup {NULL}, time : 0 .. WIDTH - 1, h : Timers \cup {None}]]
  <2> DEFINE x == IF pc = "zero" THEN 0 ELSE Minus(node[next_timeout].time, time_needed)
  <2>1. CASE next_timeout \in Nodes
    <3>1. x \in 0 .. WIDTH - 1
      <4>1. node[next_timeout].time \in 0 .. WIDTH - 1 /\ time_needed \in Nat
        BY <2>1 DEF TypeInv, TypeOK
      <4>2. Minus(node[next_timeout].time, time_needed) \in 0 .. WIDTH - 1
        BY <4>1, MinusType
      <4>3. QED
        BY <4>2, ConstantFacts
    <3>2. node' = [node EXCEPT ![next_timeout].time = x]
      BY DEF Count
    <3> HIDE DEF x
    <3>3. QED
      BY <2>1, <3>1, <3>2 DEF TypeInv, TypeOK
  <2>2. CASE next_timeout \notin Nodes
    <3>1. node' = node
      BY <2>2 DEF Count, TypeInv, TypeOK
    <3>2. QED
      BY <3>1 DEF TypeInv, TypeOK
  <2>3. QED
    BY <2>1, <2>2
<1>10. TypeOK'
  BY ConstantFacts, <1>9 DEF TypeInv, TypeOK, Setting, list, wait, flags, Goes, Count
<1>11. Setting'
  BY DEF TypeInv, TypeOK, Setting, Goes, Count
<1>12. QED
  BY <1>10, <1>11 DEF TypeInv

(* A message may set the TCP timer. *)
LEMMA MessageType ==
  ASSUME TypeInv, Message
  PROVE  TypeInv'
<1>8. Enable' \in BOOLEAN /\ tcpip_tcp_timer_active' \in BOOLEAN
  BY Zenon DEF TypeInv, TypeOK, flags, Message
<1>10. TypeOK'
  BY ConstantFacts, <1>8 DEF TypeInv, TypeOK, Setting, list, wait, flags, Goes, Message, Timers
<1>11. Setting'
  BY DEF TypeInv, TypeOK, Setting, Goes, Message, Timers
<1>12. QED
  BY <1>10, <1>11 DEF TypeInv

(* A timeout taken from the list is there. *)
LEMMA ExpiredType ==
  ASSUME TypeInv, Expired
  PROVE  TypeInv'
<1>10. TypeOK'
  BY ConstantFacts DEF TypeInv, TypeOK, Setting, list, wait, flags, Goes, Expired
<1>11. Setting'
  BY DEF TypeInv, TypeOK, Setting, Goes, Expired
<1>12. QED
  BY <1>10, <1>11 DEF TypeInv

(* What follows it in the list is a node or NULL. *)
LEMMA PopType ==
  ASSUME TypeInv, Pop
  PROVE  TypeInv'
<1>9. node' \in [Nodes -> [next : Nodes \cup {NULL}, time : 0 .. WIDTH - 1, h : Timers \cup {None}]]
  BY ConstantFacts DEF TypeInv, TypeOK, Pop, Free
<1>10. TypeOK'
  BY ConstantFacts, <1>9 DEF TypeInv, TypeOK, Setting, list, wait, flags, Goes, Pop
<1>11. Setting'
  BY DEF TypeInv, TypeOK, Setting, Goes, Pop
<1>12. QED
  BY <1>10, <1>11 DEF TypeInv

(* A handler sets its own timer or none. *)
LEMMA HandlerType ==
  ASSUME TypeInv, Handler
  PROVE  TypeInv'
<1>8. Enable' \in BOOLEAN /\ tcpip_tcp_timer_active' \in BOOLEAN
  BY Zenon DEF TypeInv, TypeOK, flags, Handler, Return
<1>10. TypeOK'
  BY ConstantFacts, <1>8 DEF TypeInv, TypeOK, Setting, list, wait, flags, Goes, Handler, Return
<1>11. Setting'
  BY DEF TypeInv, TypeOK, Setting, Goes, Handler, Return, Timers
<1>12. QED
  BY <1>10, <1>11 DEF TypeInv

(* So does the DHCP server's. *)
LEMMA TickEndType ==
  ASSUME TypeInv, TickEnd
  PROVE  TypeInv'
<1>10. TypeOK'
  BY ConstantFacts DEF TypeInv, TypeOK, Setting, list, wait, flags, Goes, TickEnd, Return
<1>11. Setting'
  BY DEF TypeInv, TypeOK, Setting, Goes, TickEnd, Return
<1>12. QED
  BY <1>10, <1>11 DEF TypeInv

(* The new node holds the timer. *)
LEMMA AllocType ==
  ASSUME TypeInv, Alloc
  PROVE  TypeInv'
<1>1. memp \subseteq Nodes /\ memp_malloc \in Nodes \cup {NULL} /\ Interval[h] \in 0 .. WIDTH - 1
  BY MallocType, ConstantFacts DEF TypeInv, TypeOK, Setting, Alloc
<1>9. node' \in [Nodes -> [next : Nodes \cup {NULL}, time : 0 .. WIDTH - 1, h : Timers \cup {None}]]
  BY <1>1 DEF TypeInv, TypeOK, Setting, Alloc
<1>10. TypeOK'
  BY <1>1, <1>9 DEF TypeInv, TypeOK, Setting, list, wait, flags, Goes, Alloc, Return
<1>11. Setting'
  BY DEF TypeInv, TypeOK, Setting, Goes, Alloc, Return
<1>12. QED
  BY <1>10, <1>11 DEF TypeInv

(* Its place is before the first one or behind a node. *)
LEMMA FirstType ==
  ASSUME TypeInv, First
  PROVE  TypeInv'
<1>10. TypeOK'
  BY ConstantFacts DEF TypeInv, TypeOK, Setting, list, wait, flags, Goes, First, Return
<1>11. Setting'
  BY DEF TypeInv, TypeOK, Setting, Goes, First, Return
<1>12. QED
  BY <1>10, <1>11 DEF TypeInv

(* What is left of its time has its width. *)
LEMMA WalkType ==
  ASSUME TypeInv, Walk
  PROVE  TypeInv'
<1>9. node' \in [Nodes -> [next : Nodes \cup {NULL}, time : 0 .. WIDTH - 1, h : Timers \cup {None}]]
  BY ConstantFacts, MinusType DEF TypeInv, TypeOK, Walk
<1>10. TypeOK'
  BY ConstantFacts, <1>9 DEF TypeInv, TypeOK, Setting, list, wait, flags, Goes, Walk
<1>11. Setting'
  BY DEF TypeInv, TypeOK, Setting, Goes, Walk
<1>12. QED
  BY <1>10, <1>11 DEF TypeInv

(* The one behind it is counted from it. *)
LEMMA LinkFrontType ==
  ASSUME TypeInv, LinkFront
  PROVE  TypeInv'
<1>1. Interval[h] \in Nat
  BY ConstantFacts DEF TypeInv, Setting, LinkFront
<1>9. node' \in [Nodes -> [next : Nodes \cup {NULL}, time : 0 .. WIDTH - 1, h : Timers \cup {None}]]
  BY <1>1, MinusType DEF TypeInv, TypeOK, LinkFront, Less
<1>10. TypeOK'
  BY ConstantFacts, <1>9 DEF TypeInv, TypeOK, Setting, list, wait, flags, Goes, LinkFront, Return
<1>11. Setting'
  BY DEF TypeInv, TypeOK, Setting, Goes, LinkFront, Return
<1>12. QED
  BY <1>10, <1>11 DEF TypeInv

(* The one behind it is counted from it. *)
LEMMA LinkType ==
  ASSUME TypeInv, Link
  PROVE  TypeInv'
<1>9. node' \in [Nodes -> [next : Nodes \cup {NULL}, time : 0 .. WIDTH - 1, h : Timers \cup {None}]]
  <2> DEFINE succ == node[t].next
             left == node[timeout].time
             less == Less(node, succ, left)
  <2>1. t \in Nodes /\ timeout \in Nodes /\ succ \in Nodes \cup {NULL} /\ left \in Nat
    BY ConstantFacts DEF TypeInv, TypeOK, Link
  <2>2. node' = [less EXCEPT ![timeout].next = succ, ![t].next = timeout]
    BY DEF Link
  <2> HIDE DEF succ, left
  <2>3. less \in [Nodes -> [next : Nodes \cup {NULL}, time : 0 .. WIDTH - 1, h : Timers \cup {None}]]
    BY <2>1, MinusType DEF TypeInv, TypeOK, Less
  <2> HIDE DEF less
  <2>4. QED
    BY <2>1, <2>2, <2>3
<1>10. TypeOK'
  BY ConstantFacts, <1>9 DEF TypeInv, TypeOK, Setting, list, wait, flags, Goes, Link, Return
<1>11. Setting'
  BY DEF TypeInv, TypeOK, Setting, Goes, Link, Return
<1>12. QED
  BY <1>10, <1>11 DEF TypeInv

(* There is room for the message. *)
LEMMA ArriveType ==
  ASSUME TypeInv, Arrive
  PROVE  TypeInv'
<1>10. TypeOK'
  BY TimersAssumption DEF TypeInv, TypeOK, Setting, list, wait, flags, Goes, Arrive
<1>11. Setting'
  BY DEF TypeInv, TypeOK, Setting, Goes, Arrive
<1>12. QED
  BY <1>10, <1>11 DEF TypeInv

(* A wait goes on for a tick. *)
LEMMA OSTickType ==
  ASSUME TypeInv, OSTick
  PROVE  TypeInv'
<1>10. TypeOK'
  BY ConstantFacts DEF TypeInv, TypeOK, Setting, list, wait, flags, Goes, OSTick
<1>11. Setting'
  BY DEF TypeInv, TypeOK, Setting, Goes, OSTick
<1>12. QED
  BY <1>10, <1>11 DEF TypeInv

(* Where a new timer of ms milliseconds belongs in the list: behind the    *)
(* timers due no later, which come first.                                  *)
LEMMA PlaceFacts ==
  ASSUME ListType, NEW ms \in Nat
  PROVE  LET k == Cardinality({i \in DOMAIN Path : Sum[i] <= ms})
         IN /\ k \in 0 .. Len(Path) /\ Len(Path) \in 0 .. NODES
            /\ Sum[k] \in Nat /\ Sum[k] <= ms
            /\ k < Len(Path) => Sum[k + 1] > ms
<1> DEFINE S == {i \in 1 .. Len(Path) : Sum[i] <= ms}
           k == Cardinality(S)
<1>1. PathFacts /\ SumFacts
  BY PathType, SumType
<1>2. Len(Path) \in Nat /\ Len(Path) \in 0 .. NODES /\ DOMAIN Path = 1 .. Len(Path)
  BY <1>1, ConstantFacts DEF PathFacts
<1>3. ASSUME NEW i \in S, NEW j \in 1 .. Len(Path), j <= i PROVE j \in S
  <2>1. i \in 0 .. NODES /\ j \in 0 .. NODES /\ Sum[i] <= ms
    BY <1>2, ConstantFacts
  <2>2. Sum[j] <= Sum[i] /\ Sum[j] \in Nat /\ Sum[i] \in Nat
    BY <1>1, <1>3, <2>1 DEF SumFacts
  <2>3. Sum[j] <= ms
    BY <2>1, <2>2
  <2>4. QED
    BY <2>3
<1>4. k \in 0 .. Len(Path) /\ S = 1 .. k
  <2>1. S \subseteq 1 .. Len(Path)
    OBVIOUS
  <2> HIDE DEF S
  <2>2. QED
    BY <1>2, <1>3, <2>1, PrefixCount
<1> HIDE DEF k
<1>5. k \in 0 .. NODES
  BY <1>2, <1>4, ConstantFacts
<1>6. Sum[k] \in Nat /\ Sum[k] <= ms
  <2>1. Sum[k] \in Nat
    BY <1>1, <1>5 DEF SumFacts
  <2>2. CASE k = 0
    BY <1>1, <2>2 DEF SumFacts
  <2>3. CASE k # 0
    <3>1. k \in 1 .. k
      BY <1>4, <2>3, <1>2
    <3>2. k \in S
      BY <1>4, <3>1
    <3>3. QED
      BY <2>1, <3>2
  <2>4. QED
    BY <2>1, <2>2, <2>3
<1>7. k < Len(Path) => Sum[k + 1] > ms
  <2> SUFFICES ASSUME k < Len(Path) PROVE Sum[k + 1] > ms
    OBVIOUS
  <2>1. k + 1 \in 1 .. Len(Path) /\ k + 1 \notin 1 .. k /\ k + 1 \in 0 .. NODES
    BY <1>2, <1>4, ConstantFacts
  <2>2. k + 1 \notin S
    BY <1>4, <2>1
  <2>3. Sum[k + 1] \in Nat
    BY <1>1, <2>1 DEF SumFacts
  <2>4. QED
    BY <2>1, <2>2, <2>3
<1>8. k = Cardinality({i \in DOMAIN Path : Sum[i] <= ms})
  BY <1>2 DEF k
<1>9. QED
  BY <1>2, <1>4, <1>6, <1>7, <1>8

(* Starting the DHCP server: its node goes where the sums say. *)
LEMMA DHCPS_StartType ==
  ASSUME TypeInv, DHCPS_Start
  PROVE  TypeInv'
<1> DEFINE ms   == Interval["tick"]
           k    == Cardinality({i \in DOMAIN Path : Sum[i] <= ms})
           left == ms - Sum[k]
           succ == IF k = Len(Path) THEN NULL ELSE Path[k + 1]
           n    == memp_malloc
           less == Less(node, succ, left)
           rest == [less EXCEPT ![n] = [next |-> succ, time |-> left, h |-> "tick"]]
<1>1. /\ n # NULL /\ memp' = memp \ {n} /\ Enable' = TRUE
      /\ IF k = 0 THEN next_timeout' = n /\ node' = rest
         ELSE node' = [rest EXCEPT ![Path[k]].next = n] /\ next_timeout' = next_timeout
      /\ Races(InList \/ TickWillBeSet \/ TickMayBeSet)
      /\ UNCHANGED <<pc, boot, h, timeout, t, wait, mbox, tcpip_tcp_timer_active>>
  BY DEF DHCPS_Start
<1>2. ms \in 1 .. WIDTH - 1 /\ "tick" \in Timers
  BY ConstantFacts DEF Timers
<1>3. /\ k \in 0 .. Len(Path) /\ Len(Path) \in 0 .. NODES
      /\ Sum[k] \in Nat /\ Sum[k] <= ms
  <2>1. ListType /\ ms \in Nat
    BY <1>2, TypeIsList, ConstantFacts DEF TypeInv
  <2> HIDE DEF ms
  <2>2. QED
    BY <2>1, PlaceFacts
<1>4. n \in Nodes
  BY <1>1, MallocType DEF TypeInv, TypeOK
<1> HIDE DEF k, ms, n
<1>5. left \in 0 .. WIDTH - 1 /\ left \in Nat
  BY <1>2, <1>3, ConstantFacts
<1>6. succ \in Nodes \cup {NULL} /\ (k # 0 => Path[k] \in Nodes)
  <2>1. PathFacts
    BY TypeIsList, PathType DEF TypeInv
  <2>2. k # Len(Path) => k + 1 \in 1 .. Len(Path)
    BY <1>3, ConstantFacts
  <2>3. k # 0 => k \in 1 .. Len(Path)
    BY <1>3, ConstantFacts
  <2>4. QED
    BY <2>1, <2>2, <2>3 DEF PathFacts
<1> HIDE DEF left, succ
<1>7. less \in [Nodes -> NodeType]
  BY <1>5, <1>6, MinusType DEF TypeInv, TypeOK, Less, NodeType
<1> HIDE DEF less
<1>8. rest \in [Nodes -> NodeType]
  BY <1>2, <1>4, <1>5, <1>6, <1>7 DEF NodeType
<1> HIDE DEF rest
<1>9. node' \in [Nodes -> NodeType] /\ next_timeout' \in Nodes \cup {NULL}
  BY <1>1, <1>4, <1>6, <1>8 DEF NodeType, TypeInv, TypeOK
<1>10. Enable' \in BOOLEAN /\ tcpip_tcp_timer_active' \in BOOLEAN
  BY <1>1, Zenon DEF TypeInv, TypeOK
<1>11. races' \in 0 .. RACES
  BY <1>1, TimersAssumption DEF Races, TypeInv, TypeOK
<1>12. TypeOK'
  BY <1>1, <1>9, <1>10, <1>11 DEF TypeInv, TypeOK, NodeType, wait
<1>13. Setting'
  BY <1>1 DEF TypeInv, Setting
<1>14. QED
  BY <1>12, <1>13 DEF TypeInv

(* Stopping it: the node behind its own gets its time. *)
LEMMA DHCPS_StopType ==
  ASSUME TypeInv, DHCPS_Stop
  PROVE  TypeInv'
<1> DEFINE ticks == {k \in DOMAIN Path : node[Path[k]].h = "tick"}
<1>1. /\ Enable' = FALSE
      /\ IF ticks = {} THEN UNCHANGED list
         ELSE \E k \in ticks : (\A i \in ticks : k <= i) /\ Unlink(k)
      /\ Races(InList \/ TickWillBeSet)
      /\ UNCHANGED <<pc, boot, h, timeout, t, wait, mbox, tcpip_tcp_timer_active>>
  BY DEF DHCPS_Stop
<1>2. PathFacts
  BY TypeIsList, PathType DEF TypeInv
<1>3. ASSUME NEW k \in DOMAIN Path, Unlink(k)
      PROVE  /\ node' \in [Nodes -> NodeType] /\ next_timeout' \in Nodes \cup {NULL}
             /\ memp' \subseteq Nodes
  <2> DEFINE n    == Path[k]
             succ == node[n].next
             sum  == (node[succ].time + node[n].time) % WIDTH
             more == IF succ = NULL THEN node ELSE [node EXCEPT ![succ].time = sum]
             rest == [more EXCEPT ![n] = Free]
  <2>1. /\ IF k = 1 THEN next_timeout' = succ /\ node' = rest
           ELSE node' = [rest EXCEPT ![Path[k - 1]].next = succ] /\ next_timeout' = next_timeout
        /\ memp' = memp \cup {n}
    BY <1>3 DEF Unlink
  <2>2. n \in Nodes /\ (k # 1 => Path[k - 1] \in Nodes)
    <3>1. k \in 1 .. Len(Path) /\ (k # 1 => k - 1 \in 1 .. Len(Path))
      BY <1>2, ConstantFacts DEF PathFacts
    <3>2. QED
      BY <1>2, <3>1 DEF PathFacts
  <2>3. node \in [Nodes -> NodeType] /\ memp \subseteq Nodes /\ next_timeout \in Nodes \cup {NULL}
    BY DEF TypeInv, TypeOK, NodeType
  <2> HIDE DEF n
  <2>4. succ \in Nodes \cup {NULL} /\ node[n].time \in Nat
    BY <2>2, <2>3, ConstantFacts DEF NodeType
  <2> HIDE DEF succ
  <2>5. succ # NULL => sum \in 0 .. WIDTH - 1
    <3>1. succ # NULL => node[succ].time \in Nat
      BY <2>3, <2>4, ConstantFacts DEF NodeType
    <3>2. QED
      BY <2>4, <3>1, ConstantFacts
  <2> HIDE DEF sum
  <2>6. more \in [Nodes -> NodeType]
    BY <2>3, <2>4, <2>5 DEF NodeType
  <2> HIDE DEF more
  <2>7. rest \in [Nodes -> NodeType]
    BY <2>2, <2>6, ConstantFacts DEF Free, NodeType
  <2> HIDE DEF rest
  <2>8. QED
    BY <2>1, <2>2, <2>3, <2>4, <2>7 DEF NodeType
<1>4. /\ node' \in [Nodes -> NodeType] /\ next_timeout' \in Nodes \cup {NULL}
      /\ memp' \subseteq Nodes
  <2>1. CASE ticks = {}
    BY <1>1, <2>1 DEF list, TypeInv, TypeOK, NodeType
  <2>2. CASE ticks # {}
    BY <1>1, <1>3, <2>2
  <2>3. QED
    BY <2>1, <2>2
<1>5. Enable' \in BOOLEAN /\ tcpip_tcp_timer_active' \in BOOLEAN
  BY <1>1, Zenon DEF TypeInv, TypeOK
<1>6. races' \in 0 .. RACES
  BY <1>1, TimersAssumption DEF Races, TypeInv, TypeOK
<1>7. TypeOK'
  BY <1>1, <1>4, <1>5, <1>6 DEF TypeInv, TypeOK, NodeType, wait
<1>8. Setting'
  BY <1>1 DEF TypeInv, Setting
<1>9. QED
  BY <1>7, <1>8 DEF TypeInv

(* Every step keeps the types. *)
LEMMA NextType == TypeInv /\ [Next]_vars => TypeInv'
<1> SUFFICES ASSUME TypeInv, [Next]_vars PROVE TypeInv'
  OBVIOUS
<1>1. CASE Thread
  BY <1>1, BootType, FetchType, PendTimeoutType, GetMessageType, CountType, MessageType,
     ExpiredType, PopType, HandlerType, TickEndType, AllocType, FirstType, WalkType,
     LinkFrontType, LinkType DEF Thread
<1>2. CASE DHCPS_Start \/ DHCPS_Stop \/ Arrive \/ OSTick
  BY <1>2, DHCPS_StartType, DHCPS_StopType, ArriveType, OSTickType
<1>3. CASE UNCHANGED vars
  BY <1>3 DEF vars, list, wait, flags, TypeInv, TypeOK, Setting
<1>4. QED
  BY <1>1, <1>2, <1>3 DEF Next

(* The variables have their types, also where the other task's calls fall  *)
(* into an operation on the list: no node outside the pool is linked, and  *)
(* no time leaves the clock's width (timers.c:266-347, 423-477).           *)
THEOREM TimersTypeOK == Spec => []TypeOK
<1>1. Init => TypeInv
  BY InitType
<1>2. TypeInv /\ [Next]_vars => TypeInv'
  BY NextType
<1>3. TypeInv => TypeOK
  BY DEF TypeInv
<1>4. QED
  BY <1>1, <1>2, <1>3, PTL DEF Spec

-----------------------------------------------------------------------------
(* The list as a queue.  The operators are about any list: p its nodes, s  *)
(* the sums of their times, nt its first node, nd the nodes and mp the     *)
(* free ones.                                                              *)
At(p, i) == IF i \in 1 .. Len(p) THEN p[i] ELSE NULL

IsList(p, s, nt, nd) ==
  /\ p \in Seq(Nodes) /\ Len(p) < NODES /\ nt = At(p, 1)
  /\ s \in [0 .. Len(p) -> Nat] /\ s[0] = 0
  /\ \A i \in 1 .. Len(p) : nd[p[i]].next = At(p, i + 1) /\ s[i] = s[i - 1] + nd[p[i]].time

(* Each timer is in it at most once, and is due within its interval. *)
IsQueue(p, s, nd, mp) ==
  /\ \A i \in 1 .. Len(p) :
       nd[p[i]].h \in Timers /\ s[i] <= Interval[nd[p[i]].h] /\ p[i] \notin mp
  /\ \A i, j \in 1 .. Len(p) : nd[p[i]].h = nd[p[j]].h => i = j

NotIn(g, p, nd) == \A i \in 1 .. Len(p) : nd[p[i]].h # g

QueueOf(p, s, nd) == [i \in 1 .. Len(p) |-> [timer |-> nd[p[i]].h, due |-> s[i]]]

Due == [i \in 0 .. Len(Path) |-> Sum[i]]

(* A timer that is being handled or set, one that has still to be set at   *)
(* boot, and the two that are switched off are not in the list.            *)
Placing == pc \in {"first", "front", "walk", "link"}
Handling == Placing \/ pc \in {"handler", "tick_end", "alloc"}

Waits(g) == NotIn(g, Path, node) /\ (Handling => h # g)

Outside ==
  /\ Handling => NotIn(h, Path, node)
  /\ boot = <<"ip", "arp", None>> => Waits("ip")
  /\ boot \in {<<"ip", "arp", None>>, <<"arp", None>>} => Waits("arp")
  /\ ~ tcpip_tcp_timer_active => Waits("tcp")
  /\ ~ Enable => NotIn("tick", Path, node) /\ (Placing \/ pc = "alloc" => h # "tick")

(* The new node is not yet in the list, and its place is found. *)
Place ==
  /\ Placing => /\ timeout \notin memp /\ node[timeout].h = h
                /\ \A i \in 1 .. Len(Path) : Path[i] # timeout
  /\ pc \in {"first", "front"} => node[timeout].time = Interval[h] /\ node[timeout].next = NULL
  /\ pc = "front" => t = next_timeout /\ node[t].time > Interval[h]
  /\ pc = "walk" => \E k \in 1 .. Len(Path) :
       t = Path[k] /\ Due[k] <= Interval[h] /\ node[timeout].time = Interval[h] - Due[k - 1]
  /\ pc = "link" => \E k \in 1 .. Len(Path) :
       /\ t = Path[k] /\ Due[k] <= Interval[h] /\ node[timeout].time = Interval[h] - Due[k]
       /\ k < Len(Path) => Due[k + 1] > Interval[h]

(* The first one, where the thread is about to change it. *)
AtFirst ==
  /\ pc = "pop" => t = next_timeout
  /\ pc \in {"subtract", "zero"} => next_timeout # NULL
  /\ pc = "subtract" => time_needed >= 1 /\ time_needed < node[next_timeout].time

(* Nothing gets lost.  A node is free, in the list or about to be in it;   *)
(* a timer that runs all the time is in the list, being handled or set, or *)
(* has still to be set at boot.                                            *)
InPath(x) == \E i \in 1 .. Len(Path) : Path[i] = x

NodesKept == \A x \in Nodes : x \in memp \/ InPath(x) \/ (Placing /\ x = timeout)

InHand(g) == h = g /\ (Placing \/ pc \in {"handler", "alloc"})
ToBoot(g) == boot = <<"ip", "arp", None>> \/ (g = "arp" /\ boot = <<"arp", None>>)

PeriodicKept == \A g \in Periodic : NotIn(g, Path, node) => InHand(g) \/ ToBoot(g)

Booted == /\ pc # "undefined"
          /\ pc \in {"fetch", "pend", "subtract", "zero", "message", "expired", "pop"}
               => boot = <<>>

Kept == NodesKept /\ PeriodicKept /\ Booted

Shape == /\ IsList(Path, Due, next_timeout, node) /\ IsQueue(Path, Due, node, memp)
         /\ Outside /\ Place /\ AtFirst /\ Kept

(* It holds until a call of the other task has fallen into an operation.   *)
ShapeInv == races = 0 => Shape

(* A list in which each timer is at most once is shorter than the pool. *)
LEMMA LengthBound ==
  ASSUME NEW p \in Seq(Nodes), NEW nd,
         \A i \in 1 .. Len(p) : nd[p[i]].h \in Timers,
         \A i, j \in 1 .. Len(p) : nd[p[i]].h = nd[p[j]].h => i = j
  PROVE  Len(p) < NODES
<1> DEFINE f == [i \in 1 .. Len(p) |-> nd[p[i]].h]
<1>1. f \in [1 .. Len(p) -> Timers] /\ \A i, j \in 1 .. Len(p) : f[i] = f[j] => i = j
  OBVIOUS
<1>2. Len(p) \in Nat
  BY LenProperties
<1>3. IsFiniteSet(Timers) /\ Cardinality(Timers) \in Nat
  BY TimersFinite
<1>4. IsFiniteSet(1 .. Len(p)) /\ Cardinality(1 .. Len(p)) = Len(p)
  <2>1. \A a, b \in Int : /\ IsFiniteSet(a .. b)
                          /\ Cardinality(a .. b) = IF a > b THEN 0 ELSE b - a + 1
    BY FS_Interval
  <2>2. 1 \in Int /\ Len(p) \in Int
    BY <1>2
  <2>3. Cardinality(1 .. Len(p)) = IF 1 > Len(p) THEN 0 ELSE Len(p) - 1 + 1
    BY <2>1, <2>2
  <2>4. QED
    BY <1>2, <2>1, <2>2, <2>3
<1> HIDE DEF f
<1>5. ~ (Cardinality(Timers) < Len(p))
  <2>1. ASSUME Cardinality(Timers) < Len(p) PROVE FALSE
    <3>1. \E x, y \in 1 .. Len(p) : x # y /\ f[x] = f[y]
      BY <1>1, <1>3, <1>4, <2>1, FS_PigeonHole
    <3>2. QED
      BY <1>1, <3>1
  <2>2. QED
    BY <2>1
<1>6. QED
  BY <1>2, <1>3, <1>5, TimersAssumption

(* The links decide what the list is and when its timers are due. *)
ListUnique ==
  \A p, s : ListType /\ IsList(p, s, next_timeout, node) => Path = p /\ Due = s

(* Both follow the same links from next_timeout (Path, Due).               *)
LEMMA ListIsUnique == ListUnique
<1> SUFFICES ASSUME ListType, NEW p, NEW s, IsList(p, s, next_timeout, node)
             PROVE  Path = p /\ Due = s
  BY DEF ListUnique
<1>1. /\ NthFacts /\ PathFacts /\ SumFacts /\ NODES \in Nat /\ NULL \notin Nodes
  BY NthType, PathType, SumType, ConstantFacts
<1>2. /\ p \in Seq(Nodes) /\ Len(p) \in Nat /\ Len(p) < NODES /\ next_timeout = At(p, 1)
      /\ \A i \in 1 .. Len(p) : p[i] \in Nodes
      /\ s \in [0 .. Len(p) -> Nat] /\ s[0] = 0
      /\ \A i \in 1 .. Len(p) : node[p[i]].next = At(p, i + 1) /\ s[i] = s[i - 1] + node[p[i]].time
  BY LenProperties, ElementOfSeq DEF IsList
<1>3. \A k \in 1 .. NODES : Nth[k] = At(p, k)
  <2> DEFINE Bad == {k \in 1 .. NODES : Nth[k] # At(p, k)}
  <2>1. ASSUME Bad # {} PROVE FALSE
    <3>1. PICK k \in Bad : \A j \in Bad : k <= j
      <4>1. Bad \subseteq Nat
        OBVIOUS
      <4> HIDE DEF Bad
      <4>2. QED
        BY <2>1, <4>1, LeastNat
    <3>2. k # 1
      BY <1>1, <1>2, <3>1 DEF NthFacts
    <3>3. k \in 2 .. NODES /\ k - 1 \in 1 .. NODES /\ ~ (k <= k - 1)
      BY <1>1, <3>1, <3>2
    <3>4. Nth[k - 1] = At(p, k - 1)
      BY <3>1, <3>3
    <3>5. Nth[k] = IF At(p, k - 1) = NULL THEN NULL ELSE node[At(p, k - 1)].next
      BY <1>1, <3>3, <3>4 DEF NthFacts
    <3>6. CASE k - 1 \in 1 .. Len(p)
      <4>1. At(p, k - 1) = p[k - 1] /\ p[k - 1] \in Nodes
        BY <1>2, <3>6 DEF At
      <4>2. Nth[k] = At(p, (k - 1) + 1)
        BY <1>1, <1>2, <3>5, <3>6, <4>1
      <4>3. QED
        BY <3>1, <3>3, <4>2
    <3>7. CASE k - 1 \notin 1 .. Len(p)
      <4>1. At(p, k - 1) = NULL /\ At(p, k) = NULL
        BY <1>2, <3>3, <3>7 DEF At
      <4>2. QED
        BY <3>1, <3>5, <4>1
    <3>8. QED
      BY <3>6, <3>7
  <2>2. QED
    BY <2>1
<1>4. Len(Path) = Len(p)
  <2>1. \A k \in 1 .. NODES : k <= Len(Path) <=> k \in 1 .. Len(p)
    <3>1. ASSUME NEW k \in 1 .. NODES PROVE k <= Len(Path) <=> k \in 1 .. Len(p)
      <4>1. Nth[k] # NULL <=> k <= Len(Path)
        BY <1>1 DEF PathFacts, Nodes
      <4>2. At(p, k) # NULL <=> k \in 1 .. Len(p)
        BY <1>1, <1>2 DEF At
      <4>3. QED
        BY <1>3, <4>1, <4>2
    <3>2. QED
      BY <3>1
  <2>2. Len(Path) \in Nat /\ Len(Path) <= NODES
    BY <1>1 DEF PathFacts
  <2>3. ~ (Len(Path) < Len(p))
    <3>1. Len(Path) < Len(p) => Len(Path) + 1 \in 1 .. NODES /\ Len(Path) + 1 \in 1 .. Len(p)
      BY <1>1, <1>2, <2>2
    <3>2. QED
      BY <2>1, <2>2, <3>1
  <2>4. ~ (Len(p) < Len(Path))
    <3>1. Len(p) < Len(Path) => Len(p) + 1 \in 1 .. NODES /\ Len(p) + 1 <= Len(Path)
      BY <1>1, <1>2, <2>2
    <3>2. QED
      BY <1>2, <2>1, <3>1
  <2>5. QED
    BY <1>2, <2>2, <2>3, <2>4
<1>5. Path = p
  <2>1. \A k \in 1 .. Len(p) : Path[k] = p[k]
    <3>1. ASSUME NEW k \in 1 .. Len(p) PROVE Path[k] = p[k]
      <4>1. k \in 1 .. NODES /\ Path[k] = Nth[k]
        BY <1>1, <1>2, <1>4 DEF PathFacts
      <4>2. QED
        BY <1>3, <4>1 DEF At
    <3>2. QED
      BY <3>1
  <2>2. Path \in Seq(Nodes)
    BY <1>1 DEF PathFacts
  <2>3. QED
    BY <1>2, <1>4, <2>1, <2>2, SeqEqual
<1>6. Due = s
  <2> DEFINE c == [k \in 1 .. Len(p) |-> node[p[k]].time]
  <2>1. c \in [1 .. Len(p) -> Nat]
    BY <1>2, ConstantFacts DEF ListType, NodeType
  <2>2. Sums(s, c, Len(p))
    BY <1>2 DEF Sums
  <2>3. Sums(Sum, c, Len(p))
    <3>1. ASSUME NEW k \in 1 .. Len(p) PROVE Sum[k] = Sum[k - 1] + c[k]
      <4>1. k \in Nodes /\ k \in 1 .. NODES
        BY <1>1, <1>2 DEF Nodes
      <4>2. Nth[k] = p[k] /\ p[k] \in Nodes
        BY <1>2, <1>3, <4>1 DEF At
      <4>3. Time(Nth[k]) = node[p[k]].time
        BY <1>1, <4>2 DEF Time
      <4>4. QED
        BY <1>1, <4>1, <4>3 DEF SumFacts
    <3>2. QED
      BY <1>1, <3>1 DEF Sums, SumFacts
  <2> HIDE DEF c
  <2>4. \A k \in 0 .. Len(p) : Sum[k] = s[k]
    <3>1. Len(p) \in Nat /\ s \in [0 .. Len(p) -> Nat]
      BY <1>2
    <3>2. QED
      BY <2>1, <2>2, <2>3, <3>1, SumsAgree, Zenon
  <2>5. QED
    BY <1>2, <1>5, <2>4 DEF Due
<1>7. QED
  BY <1>5, <1>6

(* So they do after a step. *)
LEMMA ListIsUniqueNext == ListUnique'
BY ListIsUnique, PTL

(* The queue is what the list says. *)
QueueFacts == ListType => Queue = QueueOf(Path, Due, node)

(* Both are read off the same nodes at the same places.                    *)
LEMMA QueueIsOfList == QueueFacts
<1> SUFFICES ASSUME ListType PROVE Queue = QueueOf(Path, Due, node)
  BY DEF QueueFacts
<1>1. /\ DOMAIN Path = 1 .. Len(Path) /\ Len(Path) \in Nat
      /\ \A k \in 1 .. Len(Path) : Path[k] = Nth[k]
  BY PathType, ConstantFacts DEF PathFacts
<1>2. \A k \in 1 .. Len(Path) : Due[k] = Sum[k]
  BY <1>1 DEF Due
<1>3. QED
  BY <1>1, <1>2 DEF Queue, QueueOf

(* So it is after a step. *)
LEMMA QueueIsOfListNext == QueueFacts'
BY QueueIsOfList, PTL

-----------------------------------------------------------------------------
(* What an operation does to such a list.  The elements of a list are      *)
(* nodes, and those further on are not due earlier.                        *)
LEMMA ListFacts ==
  ASSUME NEW p, NEW s, NEW nt, NEW nd \in [Nodes -> NodeType], IsList(p, s, nt, nd)
  PROVE  /\ p \in Seq(Nodes) /\ Len(p) \in Nat /\ DOMAIN p = 1 .. Len(p)
         /\ \A i \in 1 .. Len(p) : p[i] \in Nodes
         /\ \A i \in 1 .. Len(p) : nd[p[i]].time \in Nat
         /\ \A i \in 0 .. Len(p) : s[i] \in Nat
         /\ \A i, j \in 0 .. Len(p) : i <= j => s[i] <= s[j]
<1>1. p \in Seq(Nodes) /\ s \in [0 .. Len(p) -> Nat] /\ s[0] = 0
  BY DEF IsList
<1>2. Len(p) \in Nat /\ DOMAIN p = 1 .. Len(p) /\ \A i \in 1 .. Len(p) : p[i] \in Nodes
  BY <1>1, LenProperties, ElementOfSeq
<1>3. \A i \in 1 .. Len(p) : nd[p[i]].time \in Nat
  BY <1>2, ConstantFacts DEF NodeType
<1> DEFINE c == [i \in 1 .. Len(p) |-> nd[p[i]].time]
<1>4. c \in [1 .. Len(p) -> Nat]
  BY <1>3
<1>5. Sums(s, c, Len(p))
  BY <1>1 DEF Sums, IsList
<1> HIDE DEF c
<1>6. \A i, j \in 0 .. Len(p) : i <= j => s[i] <= s[j]
  BY <1>1, <1>2, <1>4, <1>5, SumsRise, Zenon
<1>7. QED
  BY <1>1, <1>2, <1>3, <1>6

(* Subtraction in the clock's width is subtraction. *)
LEMMA MinusExact ==
  ASSUME NEW a \in 0 .. WIDTH - 1, NEW b \in 0 .. a
  PROVE  Minus(a, b) = a - b
<1>1. a \in Nat /\ b \in Nat /\ WIDTH \in Nat /\ a < WIDTH /\ b <= a
  BY ConstantFacts
<1>2. a + WIDTH - b = (a - b) + WIDTH /\ a - b \in 0 .. WIDTH - 1
  BY <1>1
<1>3. \A x \in 0 .. WIDTH - 1 : (x + WIDTH) % WIDTH = x
  BY ConstantFacts
<1>4. QED
  BY <1>2, <1>3 DEF Minus

(* q is p with n behind position k. *)
HasBehind(q, p, k, n) ==
  /\ q \in Seq(Nodes) /\ Len(q) = Len(p) + 1
  /\ \A i \in 1 .. Len(p) + 1 :
       q[i] = IF i <= k THEN p[i] ELSE IF i = k + 1 THEN n ELSE p[i - 1]
  /\ \A i \in 1 .. Len(p) + 2 :
       At(q, i) = IF i <= k THEN p[i] ELSE IF i = k + 1 THEN n ELSE At(p, i - 1)

(* Where elements go when one is put in. *)
LEMMA InsertFacts ==
  ASSUME NEW p \in Seq(Nodes), NEW k \in 0 .. Len(p), NEW n \in Nodes
  PROVE  HasBehind(T!Insert(p, k, n), p, k, n)
<1> DEFINE q == T!Insert(p, k, n)
<1>1. Len(p) \in Nat /\ \A i \in 1 .. Len(p) : p[i] \in Nodes
  BY LenProperties, ElementOfSeq
<1>2. q = [i \in 1 .. Len(p) + 1 |-> IF i <= k THEN p[i] ELSE IF i = k + 1 THEN n ELSE p[i - 1]]
  BY DEF T!Insert
<1>3. \A i \in 1 .. Len(p) + 1 : (IF i <= k THEN p[i] ELSE IF i = k + 1 THEN n ELSE p[i - 1]) \in Nodes
  <2>1. ASSUME NEW i \in 1 .. Len(p) + 1
        PROVE  (IF i <= k THEN p[i] ELSE IF i = k + 1 THEN n ELSE p[i - 1]) \in Nodes
    <3>1. (i <= k => i \in 1 .. Len(p)) /\ (i > k + 1 => i - 1 \in 1 .. Len(p))
      BY <1>1
    <3>2. QED
      BY <1>1, <3>1
  <2>2. QED
    BY <2>1
<1>4. q \in [1 .. Len(p) + 1 -> Nodes]
  BY <1>2, <1>3
<1>5. q \in Seq(Nodes) /\ Len(q) = Len(p) + 1
  <2> HIDE DEF q
  <2>1. Len(p) + 1 \in Nat
    BY <1>1
  <2>2. q \in Seq(Nodes)
    BY <1>4, <2>1
  <2>3. DOMAIN q = 1 .. Len(q) /\ Len(q) \in Nat
    BY <2>2, LenProperties
  <2>4. QED
    BY <1>4, <2>1, <2>2, <2>3
<1>6. \A i \in 1 .. Len(p) + 1 :
        q[i] = IF i <= k THEN p[i] ELSE IF i = k + 1 THEN n ELSE p[i - 1]
  BY <1>2
<1> HIDE DEF q
<1>7. \A i \in 1 .. Len(p) + 2 :
        At(q, i) = IF i <= k THEN p[i] ELSE IF i = k + 1 THEN n ELSE At(p, i - 1)
  BY <1>1, <1>5, <1>6 DEF At
<1>8. QED
  BY <1>5, <1>6, <1>7 DEF q, HasBehind

(* Each timer is in the list once. *)
Distinct(p, nd) ==
  /\ \A i \in 1 .. Len(p) : nd[p[i]].h \in Timers
  /\ \A i, j \in 1 .. Len(p) : nd[p[i]].h = nd[p[j]].h => i = j

Keeps(p, nd, nd2) == \A i \in 1 .. Len(p) : nd2[p[i]].h = nd[p[i]].h

(* So it is when one is put in that was not. *)
LEMMA InsertTimers ==
  ASSUME NEW p \in Seq(Nodes), NEW nd, NEW k \in 0 .. Len(p), NEW n, NEW g \in Timers,
         NEW q, NEW nd2, HasBehind(q, p, k, n), nd2[n].h = g, Keeps(p, nd, nd2),
         Distinct(p, nd), NotIn(g, p, nd)
  PROVE  Distinct(q, nd2)
<1> DEFINE who(i) == nd2[q[i]].h
           was(i) == IF i <= k THEN i ELSE i - 1
<1>1. Len(p) \in Nat /\ Len(q) = Len(p) + 1
  BY LenProperties DEF HasBehind
<1>2. ASSUME NEW i \in 1 .. Len(q)
      PROVE  IF i = k + 1 THEN q[i] = n ELSE q[i] = p[was(i)] /\ was(i) \in 1 .. Len(p)
  <2>1. q[i] = IF i <= k THEN p[i] ELSE IF i = k + 1 THEN n ELSE p[i - 1]
    BY <1>1 DEF HasBehind
  <2>2. QED
    BY <1>1, <2>1
<1>3. ASSUME NEW i \in 1 .. Len(q)
      PROVE  IF i = k + 1 THEN who(i) = g ELSE who(i) = nd[p[was(i)]].h /\ was(i) \in 1 .. Len(p)
  <2> HIDE DEF was
  <2>1. QED
    BY <1>2 DEF Keeps
<1>4. \A x, y \in 1 .. Len(q) : was(x) = was(y) /\ x # k + 1 /\ y # k + 1 => x = y
  BY <1>1
<1> HIDE DEF who, was
<1>5. ASSUME NEW i \in 1 .. Len(q) PROVE who(i) \in Timers
  BY <1>3 DEF Distinct
<1>6. ASSUME NEW i \in 1 .. Len(q), NEW j \in 1 .. Len(q), who(i) = who(j) PROVE i = j
  <2>1. CASE i # k + 1 /\ j # k + 1
    <3>1. was(i) = was(j)
      BY <1>3, <1>6, <2>1 DEF Distinct
    <3>2. QED
      BY <1>4, <2>1, <3>1
  <2>2. CASE ~ (i # k + 1 /\ j # k + 1)
    BY <1>3, <1>6, <2>2 DEF NotIn
  <2>3. QED
    BY <2>1, <2>2
<1>7. QED
  BY <1>5, <1>6 DEF who, Distinct

(* The list that Insert makes: the new node is due at its interval, the    *)
(* one behind it is counted from it.                                       *)
Inserted(p, s, k, n, g, nt, nd, nt2, nd2) ==
  /\ nt2 = IF k = 0 THEN n ELSE nt
  /\ nd2[n] = [next |-> At(p, k + 1), time |-> Interval[g] - s[k], h |-> g]
  /\ \A i \in 1 .. Len(p) :
       /\ nd2[p[i]].h = nd[p[i]].h
       /\ nd2[p[i]].next = IF i = k THEN n ELSE nd[p[i]].next
       /\ nd2[p[i]].time = nd[p[i]].time - (IF i = k + 1 THEN Interval[g] - s[k] ELSE 0)

(* Its place is behind those due no later. *)
Fits(p, s, k, ms) == k \in 0 .. Len(p) /\ s[k] <= ms /\ (k < Len(p) => s[k + 1] > ms)

InsertSums(p, s, k, ms) ==
  [i \in 0 .. Len(p) + 1 |-> IF i <= k THEN s[i] ELSE IF i = k + 1 THEN ms ELSE s[i - 1]]

(* Putting a timer in that is not in the list leaves a list. *)
LEMMA InsertList ==
  ASSUME NEW p, NEW s, NEW nt, NEW nd \in [Nodes -> NodeType], NEW mp, NEW k, NEW n \in Nodes,
         NEW g \in Timers, NEW nt2, NEW nd2,
         IsList(p, s, nt, nd), IsQueue(p, s, nd, mp), NotIn(g, p, nd),
         Fits(p, s, k, Interval[g]), Inserted(p, s, k, n, g, nt, nd, nt2, nd2)
  PROVE  IsList(T!Insert(p, k, n), InsertSums(p, s, k, Interval[g]), nt2, nd2)
<1> DEFINE q == T!Insert(p, k, n)
           ms == Interval[g]
           r == InsertSums(p, s, k, ms)
<1>1. /\ p \in Seq(Nodes) /\ Len(p) \in Nat
      /\ \A i \in 1 .. Len(p) : p[i] \in Nodes
      /\ \A i \in 1 .. Len(p) : nd[p[i]].time \in Nat
      /\ \A i \in 0 .. Len(p) : s[i] \in Nat
  BY ListFacts, Zenon
<1>2. k \in 0 .. Len(p) /\ s[k] <= ms /\ (k < Len(p) => s[k + 1] > ms) /\ ms \in Nat
  BY ConstantFacts DEF Fits
<1>3. /\ q \in Seq(Nodes) /\ Len(q) = Len(p) + 1
      /\ \A i \in 1 .. Len(p) + 1 :
           q[i] = IF i <= k THEN p[i] ELSE IF i = k + 1 THEN n ELSE p[i - 1]
      /\ \A i \in 1 .. Len(p) + 2 :
           At(q, i) = IF i <= k THEN p[i] ELSE IF i = k + 1 THEN n ELSE At(p, i - 1)
  <2>1. p \in Seq(Nodes) /\ k \in 0 .. Len(p)
    BY <1>1, <1>2
  <2>2. HasBehind(q, p, k, n)
    BY <2>1, InsertFacts, Zenon
  <2>3. QED
    BY <2>2, Zenon DEF HasBehind
<1> HIDE DEF q, ms
<1>4. r \in [0 .. Len(p) + 1 -> Nat]
  <2>1. ASSUME NEW i \in 0 .. Len(p) + 1
        PROVE  (IF i <= k THEN s[i] ELSE IF i = k + 1 THEN ms ELSE s[i - 1]) \in Nat
    BY <1>1, <1>2
  <2>2. QED
    BY <2>1 DEF InsertSums
<1>5. \A i \in 0 .. Len(p) + 1 : r[i] = IF i <= k THEN s[i] ELSE IF i = k + 1 THEN ms ELSE s[i - 1]
  BY DEF InsertSums
<1> HIDE DEF r
<1>6. nt2 = At(q, 1)
  <2>1. nt = At(p, 1)
    BY DEF IsList
  <2>2. nt2 = IF k = 0 THEN n ELSE nt
    BY DEF Inserted
  <2>3. At(q, 1) = IF 1 <= k THEN p[1] ELSE n
    BY <1>1, <1>2, <1>3
  <2>4. 1 <= k => At(p, 1) = p[1]
    BY <1>1, <1>2 DEF At
  <2>5. QED
    BY <1>2, <2>1, <2>2, <2>3, <2>4
<1>7. r[0] = 0
  BY <1>2, <1>5 DEF IsList
<1>8. ASSUME NEW i \in 1 .. Len(p) + 1
      PROVE  nd2[q[i]].next = At(q, i + 1) /\ r[i] = r[i - 1] + nd2[q[i]].time
  <2>0. /\ At(q, i + 1) = IF i + 1 <= k THEN p[i + 1] ELSE IF i + 1 = k + 1 THEN n ELSE At(p, i)
        /\ r[i] = IF i <= k THEN s[i] ELSE IF i = k + 1 THEN ms ELSE s[i - 1]
        /\ r[i - 1] = IF i - 1 <= k THEN s[i - 1] ELSE IF i - 1 = k + 1 THEN ms ELSE s[i - 2]
    BY <1>1, <1>2, <1>3, <1>5
  <2>1. CASE i <= k
    <3>1. i \in 1 .. Len(p) /\ q[i] = p[i] /\ i - 1 <= k
      BY <1>1, <1>2, <1>3, <2>1
    <3>2. /\ nd2[p[i]].next = IF i = k THEN n ELSE nd[p[i]].next
          /\ nd2[p[i]].time = nd[p[i]].time - (IF i = k + 1 THEN ms - s[k] ELSE 0)
      BY <3>1 DEF Inserted, ms
    <3>3. nd[p[i]].next = At(p, i + 1) /\ s[i] = s[i - 1] + nd[p[i]].time
      BY <3>1 DEF IsList
    <3>4. nd2[q[i]].next = At(q, i + 1)
      BY <1>1, <1>2, <2>0, <2>1, <3>1, <3>2, <3>3 DEF At
    <3>5. nd2[q[i]].time = nd[p[i]].time
      BY <1>1, <1>2, <2>1, <3>1, <3>2
    <3>6. QED
      BY <2>0, <2>1, <3>1, <3>3, <3>4, <3>5
  <2>2. CASE i = k + 1
    <3>1. q[i] = n
      BY <1>1, <1>2, <1>3, <2>2
    <3>2. nd2[n].next = At(p, k + 1) /\ nd2[n].time = ms - s[k]
      BY DEF Inserted, ms
    <3>3. At(q, i + 1) = At(p, k + 1)
      BY <1>1, <1>2, <2>0, <2>2
    <3>4. r[i] = ms /\ r[i - 1] = s[k] /\ s[k] \in Nat
      BY <1>1, <1>2, <2>0, <2>2
    <3>5. QED
      BY <1>2, <3>1, <3>2, <3>3, <3>4
  <2>3. CASE i > k + 1
    <3>1. i - 1 \in 1 .. Len(p) /\ q[i] = p[i - 1] /\ i - 1 # k /\ s[i - 1] \in Nat /\ s[i - 2] \in Nat
      BY <1>1, <1>2, <1>3, <2>3
    <3>2. /\ nd2[p[i - 1]].next = nd[p[i - 1]].next
          /\ nd2[p[i - 1]].time = nd[p[i - 1]].time - (IF i - 1 = k + 1 THEN ms - s[k] ELSE 0)
      BY <3>1 DEF Inserted, ms
    <3>3. /\ nd[p[i - 1]].next = At(p, (i - 1) + 1)
          /\ s[i - 1] = s[(i - 1) - 1] + nd[p[i - 1]].time /\ nd[p[i - 1]].time \in Nat
      BY <1>1, <3>1 DEF IsList
    <3>4. nd2[q[i]].next = At(q, i + 1)
      BY <1>1, <1>2, <2>0, <2>3, <3>1, <3>2, <3>3
    <3>5. (i - 1) - 1 = i - 2 /\ r[i] = s[i - 1] /\ ~ (i <= k) /\ i # k + 1
      BY <1>1, <1>2, <2>0, <2>3
    <3>6. CASE i - 1 = k + 1
      <4>1. r[i - 1] = ms /\ i - 2 = k
        BY <1>1, <1>2, <2>0, <3>6
      <4>2. QED
        BY <1>1, <1>2, <3>1, <3>2, <3>3, <3>4, <3>5, <3>6, <4>1
    <3>7. CASE i - 1 # k + 1
      <4>1. r[i - 1] = s[i - 2]
        BY <1>1, <1>2, <2>0, <2>3, <3>7
      <4>2. QED
        BY <3>1, <3>2, <3>3, <3>4, <3>5, <3>7, <4>1
    <3>8. QED
      BY <3>6, <3>7
  <2>4. QED
    BY <1>1, <1>2, <2>1, <2>2, <2>3
<1>9. Len(q) < NODES
  <2>1. HasBehind(q, p, k, n) /\ nd2[n].h = g /\ Keeps(p, nd, nd2)
    <3>1. HasBehind(q, p, k, n)
      BY <1>3 DEF HasBehind
    <3>2. QED
      BY <3>1 DEF Inserted, Keeps
  <2>2. Distinct(p, nd)
    BY DEF IsQueue, Distinct
  <2>3. Distinct(q, nd2)
    BY <1>1, <1>2, <2>1, <2>2, InsertTimers, Zenon
  <2>4. QED
    BY <1>3, <2>3, LengthBound DEF Distinct
<1>10. QED
  BY <1>3, <1>4, <1>6, <1>7, <1>8, <1>9 DEF IsList, q, r, ms

(* It leaves a queue, with that timer behind those due no later. *)
Arms(old, new, g) ==
  /\ g \notin T!Armed(old)
  /\ \E k \in 0 .. Len(old) :
       /\ \A i \in DOMAIN old : i <= k <=> old[i].due <= Interval[g]
       /\ new = T!Insert(old, k, [timer |-> g, due |-> Interval[g]])

(* Putting one in arms it. *)
LEMMA InsertQueue ==
  ASSUME NEW p, NEW s, NEW nt, NEW nd \in [Nodes -> NodeType], NEW mp, NEW k, NEW n \in Nodes,
         NEW g \in Timers, NEW nt2, NEW nd2, NEW mp2,
         IsList(p, s, nt, nd), IsQueue(p, s, nd, mp), NotIn(g, p, nd),
         Fits(p, s, k, Interval[g]), Inserted(p, s, k, n, g, nt, nd, nt2, nd2),
         mp2 \subseteq mp, n \notin mp2
  PROVE  LET q == T!Insert(p, k, n)
             r == InsertSums(p, s, k, Interval[g])
         IN IsQueue(q, r, nd2, mp2) /\ Arms(QueueOf(p, s, nd), QueueOf(q, r, nd2), g)
<1> DEFINE q == T!Insert(p, k, n)
           ms == Interval[g]
           r == InsertSums(p, s, k, ms)
           old == QueueOf(p, s, nd)
<1>1. /\ p \in Seq(Nodes) /\ Len(p) \in Nat
      /\ \A i \in 1 .. Len(p) : p[i] \in Nodes
      /\ \A i \in 0 .. Len(p) : s[i] \in Nat
      /\ \A i, j \in 0 .. Len(p) : i <= j => s[i] <= s[j]
  BY ListFacts, Zenon
<1>2. k \in 0 .. Len(p) /\ s[k] <= ms /\ (k < Len(p) => s[k + 1] > ms) /\ ms \in Nat
  BY ConstantFacts DEF Fits
<1>3. HasBehind(q, p, k, n) /\ nd2[n].h = g /\ Keeps(p, nd, nd2) /\ Distinct(p, nd)
  <2>1. HasBehind(q, p, k, n)
    BY <1>1, <1>2, InsertFacts, Zenon
  <2> HIDE DEF q
  <2>2. QED
    BY <2>1 DEF Inserted, Keeps, IsQueue, Distinct
<1> HIDE DEF ms
<1>4. \A i \in 1 .. Len(p) + 1 : r[i] = IF i <= k THEN s[i] ELSE IF i = k + 1 THEN ms ELSE s[i - 1]
  BY DEF InsertSums
<1>5. q = [i \in 1 .. Len(p) + 1 |-> IF i <= k THEN p[i] ELSE IF i = k + 1 THEN n ELSE p[i - 1]]
  BY DEF T!Insert
<1> HIDE DEF q, r
<1>6. Distinct(q, nd2)
  BY <1>1, <1>2, <1>3, InsertTimers, Zenon
<1>7. ASSUME NEW i \in 1 .. Len(p) + 1
      PROVE  /\ i <= k => i \in 1 .. Len(p) /\ q[i] = p[i] /\ nd2[q[i]].h = nd[p[i]].h /\ r[i] = s[i]
             /\ i = k + 1 => q[i] = n /\ nd2[q[i]].h = g /\ r[i] = ms
             /\ i > k + 1 => /\ i - 1 \in 1 .. Len(p) /\ q[i] = p[i - 1]
                             /\ nd2[q[i]].h = nd[p[i - 1]].h /\ r[i] = s[i - 1]
  <2>1. /\ i <= k => i \in 1 .. Len(p) /\ q[i] = p[i]
        /\ i = k + 1 => q[i] = n
        /\ i > k + 1 => i - 1 \in 1 .. Len(p) /\ q[i] = p[i - 1]
    BY <1>1, <1>2, <1>3 DEF HasBehind
  <2>2. /\ i <= k => r[i] = s[i]
        /\ i = k + 1 => r[i] = ms
        /\ i > k + 1 => r[i] = s[i - 1]
    BY <1>2, <1>4
  <2>3. QED
    BY <1>3, <2>1, <2>2 DEF Keeps
<1>8. IsQueue(q, r, nd2, mp2)
  <2>1. ASSUME NEW i \in 1 .. Len(p) + 1 PROVE r[i] <= Interval[nd2[q[i]].h] /\ q[i] \notin mp2
    <3>1. i <= k \/ i = k + 1 \/ i > k + 1
      BY <1>2
    <3>2. \A j \in 1 .. Len(p) : s[j] <= Interval[nd[p[j]].h] /\ p[j] \notin mp2
      BY DEF IsQueue
    <3>3. QED
      BY <1>2, <1>7, <3>1, <3>2 DEF ms
  <2>2. Len(q) = Len(p) + 1
    BY <1>3 DEF HasBehind
  <2>3. QED
    BY <1>6, <2>1, <2>2 DEF IsQueue, Distinct
<1>9. old = [i \in 1 .. Len(p) |-> [timer |-> nd[p[i]].h, due |-> s[i]]]
  BY DEF QueueOf
<1>10. DOMAIN old = 1 .. Len(p) /\ Len(old) = Len(p) /\ \A i \in 1 .. Len(p) : old[i].due = s[i]
  BY <1>1, <1>9
<1>11. ASSUME NEW i \in DOMAIN old PROVE i <= k <=> old[i].due <= ms
  <2>1. i \in 1 .. Len(p) /\ old[i].due = s[i] /\ s[i] \in Nat
    BY <1>1, <1>10
  <2>2. CASE i <= k
    <3>1. s[i] <= s[k] /\ s[k] \in Nat
      BY <1>1, <1>2, <2>1, <2>2
    <3>2. QED
      BY <1>2, <2>1, <2>2, <3>1
  <2>3. CASE i > k
    <3>1. k + 1 \in 0 .. Len(p) /\ k + 1 <= i /\ k < Len(p)
      BY <1>1, <1>2, <2>1, <2>3
    <3>2. s[k + 1] <= s[i] /\ s[k + 1] \in Nat
      BY <1>1, <2>1, <3>1
    <3>3. QED
      BY <1>2, <2>1, <2>3, <3>1, <3>2
  <2>4. QED
    BY <1>2, <2>1, <2>2, <2>3
<1> HIDE DEF old
<1>12. QueueOf(q, r, nd2) = T!Insert(old, k, [timer |-> g, due |-> ms])
  <2> DEFINE e == [timer |-> g, due |-> ms]
  <2>2. T!Insert(old, k, e) = [i \in 1 .. Len(p) + 1 |-> IF i <= k THEN old[i]
                                             ELSE IF i = k + 1 THEN e ELSE old[i - 1]]
    BY <1>10 DEF T!Insert
  <2>3. QueueOf(q, r, nd2) = [i \in 1 .. Len(p) + 1 |-> [timer |-> nd2[q[i]].h, due |-> r[i]]]
    BY <1>3 DEF QueueOf, HasBehind
  <2>4. ASSUME NEW i \in 1 .. Len(p) + 1
        PROVE  [timer |-> nd2[q[i]].h, due |-> r[i]]
               = IF i <= k THEN old[i] ELSE IF i = k + 1 THEN e ELSE old[i - 1]
    <3>1. \A j \in 1 .. Len(p) : old[j] = [timer |-> nd[p[j]].h, due |-> s[j]]
      BY <1>9 DEF old
    <3>2. CASE i <= k
      BY <1>7, <3>1, <3>2
    <3>3. CASE i = k + 1
      BY <1>2, <1>7, <3>3
    <3>4. CASE i > k + 1
      <4>1. ~ (i <= k) /\ i # k + 1
        BY <1>2, <3>4
      <4>2. QED
        BY <1>7, <3>1, <3>4, <4>1
    <3>5. QED
      BY <1>2, <3>2, <3>3, <3>4
  <2> HIDE DEF e
  <2>5. QED
    BY <2>2, <2>3, <2>4 DEF e
<1>13. g \notin T!Armed(old)
  <2>1. \A i \in 1 .. Len(p) : old[i].timer # g
    BY <1>9 DEF old, NotIn
  <2>2. QED
    BY <1>10, <2>1 DEF T!Armed
<1>14. Arms(old, QueueOf(q, r, nd2), g)
  BY <1>2, <1>10, <1>11, <1>12, <1>13 DEF Arms, ms
<1>15. QED
  BY <1>8, <1>14 DEF q, r, old, ms

(* q is p without position k. *)
HasWithout(q, p, k) ==
  /\ q \in Seq(Nodes) /\ Len(q) = Len(p) - 1
  /\ \A i \in 1 .. Len(p) - 1 : q[i] = IF i < k THEN p[i] ELSE p[i + 1]
  /\ \A i \in 1 .. Len(p) : At(q, i) = IF i < k THEN p[i] ELSE At(p, i + 1)

(* Where elements go when one is taken out. *)
LEMMA RemoveFacts ==
  ASSUME NEW p \in Seq(Nodes), NEW k \in 1 .. Len(p)
  PROVE  HasWithout(T!Remove(p, k), p, k)
<1> DEFINE q == T!Remove(p, k)
<1>1. Len(p) \in Nat /\ \A i \in 1 .. Len(p) : p[i] \in Nodes
  BY LenProperties, ElementOfSeq
<1>2. q = [i \in 1 .. Len(p) - 1 |-> IF i < k THEN p[i] ELSE p[i + 1]]
  BY DEF T!Remove
<1>3. \A i \in 1 .. Len(p) - 1 : (IF i < k THEN p[i] ELSE p[i + 1]) \in Nodes
  BY <1>1
<1>4. q \in [1 .. Len(p) - 1 -> Nodes]
  BY <1>2, <1>3
<1>5. q \in Seq(Nodes) /\ Len(q) = Len(p) - 1
  <2> HIDE DEF q
  <2>1. Len(p) - 1 \in Nat
    BY <1>1
  <2>2. q \in Seq(Nodes)
    BY <1>4, <2>1
  <2>3. DOMAIN q = 1 .. Len(q) /\ Len(q) \in Nat
    BY <2>2, LenProperties
  <2>4. QED
    BY <1>4, <2>1, <2>2, <2>3
<1>6. \A i \in 1 .. Len(p) - 1 : q[i] = IF i < k THEN p[i] ELSE p[i + 1]
  BY <1>2
<1> HIDE DEF q
<1>7. \A i \in 1 .. Len(p) : At(q, i) = IF i < k THEN p[i] ELSE At(p, i + 1)
  <2>1. ASSUME NEW i \in 1 .. Len(p) PROVE At(q, i) = IF i < k THEN p[i] ELSE At(p, i + 1)
    <3>1. CASE i = Len(p)
      BY <1>1, <1>5, <3>1 DEF At
    <3>2. CASE i # Len(p)
      BY <1>1, <1>5, <1>6, <3>2 DEF At
    <3>3. QED
      BY <3>1, <3>2
  <2>2. QED
    BY <2>1
<1>8. QED
  BY <1>5, <1>6, <1>7 DEF q, HasWithout

(* Node k is out, and time d is over for those behind it: the next one     *)
(* has got the rest of its time.                                           *)
Taken(p, k, d, nt, nd, nt2, nd2) ==
  /\ nt2 = IF k = 1 THEN At(p, 2) ELSE nt
  /\ \A i \in 1 .. Len(p) : i # k =>
       /\ nd2[p[i]].h = nd[p[i]].h
       /\ nd2[p[i]].next = IF i = k - 1 THEN At(p, k + 1) ELSE nd[p[i]].next
       /\ nd2[p[i]].time = nd[p[i]].time + (IF i = k + 1 THEN nd[p[k]].time - d ELSE 0)

TakeSums(p, s, k, d) ==
  [i \in 0 .. Len(p) - 1 |-> IF i < k THEN s[i] ELSE s[i + 1] - d]

(* Taking a node out leaves a list. *)
LEMMA TakeList ==
  ASSUME NEW p, NEW s, NEW nt, NEW nd \in [Nodes -> NodeType], NEW k, NEW d, NEW nt2, NEW nd2,
         IsList(p, s, nt, nd), k \in 1 .. Len(p), d \in 0 .. nd[p[k]].time,
         Taken(p, k, d, nt, nd, nt2, nd2)
  PROVE  IsList(T!Remove(p, k), TakeSums(p, s, k, d), nt2, nd2)
<1> DEFINE q == T!Remove(p, k)
           r == TakeSums(p, s, k, d)
<1>1. /\ p \in Seq(Nodes) /\ Len(p) \in Nat
      /\ \A i \in 1 .. Len(p) : p[i] \in Nodes
      /\ \A i \in 1 .. Len(p) : nd[p[i]].time \in Nat
      /\ \A i \in 0 .. Len(p) : s[i] \in Nat
      /\ \A i, j \in 0 .. Len(p) : i <= j => s[i] <= s[j]
  BY ListFacts, Zenon
<1>2. HasWithout(q, p, k)
  BY <1>1, RemoveFacts, Zenon
<1> HIDE DEF q
<1>3. /\ q \in Seq(Nodes) /\ Len(q) = Len(p) - 1
      /\ \A i \in 1 .. Len(p) - 1 : q[i] = IF i < k THEN p[i] ELSE p[i + 1]
      /\ \A i \in 1 .. Len(p) : At(q, i) = IF i < k THEN p[i] ELSE At(p, i + 1)
  BY <1>2 DEF HasWithout
<1>4. d \in Nat /\ nd[p[k]].time \in Nat /\ d <= nd[p[k]].time
  BY <1>1
<1>5. /\ \A i \in 1 .. Len(p) : nd[p[i]].next = At(p, i + 1)
      /\ \A i \in 1 .. Len(p) : s[i] = s[i - 1] + nd[p[i]].time
  BY DEF IsList
<1>6. \A i \in 0 .. Len(p) - 1 : r[i] = IF i < k THEN s[i] ELSE s[i + 1] - d
  BY DEF TakeSums
<1>7. r \in [0 .. Len(p) - 1 -> Nat]
  <2>1. ASSUME NEW i \in 0 .. Len(p) - 1
        PROVE  (IF i < k THEN s[i] ELSE s[i + 1] - d) \in Nat
    <3>1. CASE i < k
      BY <1>1, <3>1
    <3>2. CASE i >= k
      <4>1. s[k] <= s[i + 1] /\ s[i + 1] \in Nat /\ s[k] \in Nat
        BY <1>1, <3>2
      <4>2. s[k] = s[k - 1] + nd[p[k]].time /\ s[k - 1] \in Nat
        BY <1>1, <1>5
      <4>3. QED
        BY <1>4, <3>2, <4>1, <4>2
    <3>3. QED
      BY <1>1, <3>1, <3>2
  <2>2. QED
    BY <2>1 DEF TakeSums
<1> HIDE DEF r
<1>8. nt2 = At(q, 1)
  <2>1. nt = At(p, 1) /\ nt2 = IF k = 1 THEN At(p, 2) ELSE nt
    BY DEF IsList, Taken
  <2>2. At(p, 1) = p[1]
    BY <1>1 DEF At
  <2>3. QED
    BY <1>1, <1>3, <2>1, <2>2
<1>9. r[0] = 0
  BY <1>1, <1>6 DEF IsList
<1>10. ASSUME NEW i \in 1 .. Len(p) - 1
       PROVE  nd2[q[i]].next = At(q, i + 1) /\ r[i] = r[i - 1] + nd2[q[i]].time
  <2>1. /\ At(q, i + 1) = IF i + 1 < k THEN p[i + 1] ELSE At(p, i + 2)
        /\ r[i] = IF i < k THEN s[i] ELSE s[i + 1] - d
        /\ r[i - 1] = IF i - 1 < k THEN s[i - 1] ELSE s[i] - d
    BY <1>1, <1>3, <1>6
  <2>2. /\ i \in 1 .. Len(p) /\ i + 1 \in 1 .. Len(p)
        /\ s[i - 1] \in Nat /\ s[i] \in Nat /\ s[i + 1] \in Nat
    BY <1>1
  <2>3. CASE i < k
    <3>1. q[i] = p[i]
      BY <1>3, <2>3
    <3>2. /\ nd2[p[i]].next = IF i = k - 1 THEN At(p, k + 1) ELSE nd[p[i]].next
          /\ nd2[p[i]].time = nd[p[i]].time + (IF i = k + 1 THEN nd[p[k]].time - d ELSE 0)
      BY <2>2, <2>3, SMTT(40) DEF Taken
    <3>3. nd2[p[i]].time = nd[p[i]].time /\ nd[p[i]].time \in Nat
      BY <1>1, <2>2, <2>3, <3>2
    <3>4. r[i] = r[i - 1] + nd2[q[i]].time
      BY <1>5, <2>1, <2>2, <2>3, <3>1, <3>3
    <3>5. At(q, i + 1) = IF i = k - 1 THEN At(p, k + 1) ELSE At(p, i + 1)
      BY <1>1, <2>1, <2>2, <2>3 DEF At
    <3>6. QED
      BY <1>5, <2>2, <3>1, <3>2, <3>4, <3>5
  <2>4. CASE i >= k
    <3>1. q[i] = p[i + 1] /\ i + 1 # k /\ i + 1 # k - 1 /\ ~ (i + 1 < k) /\ ~ (i < k)
      BY <1>1, <1>3, <2>4
    <3>2. /\ nd2[p[i + 1]].next = nd[p[i + 1]].next
          /\ nd2[p[i + 1]].time = nd[p[i + 1]].time
                                  + (IF i + 1 = k + 1 THEN nd[p[k]].time - d ELSE 0)
      BY <2>2, <3>1 DEF Taken
    <3>3. nd2[q[i]].next = At(q, i + 1)
      <4>1. nd[p[i + 1]].next = At(p, (i + 1) + 1) /\ (i + 1) + 1 = i + 2
        BY <1>5, <2>2
      <4>2. QED
        BY <2>1, <3>1, <3>2, <4>1
    <3>4. s[i + 1] = s[i] + nd[p[i + 1]].time /\ nd[p[i + 1]].time \in Nat
      <4>1. s[i + 1] = s[(i + 1) - 1] + nd[p[i + 1]].time /\ (i + 1) - 1 = i
        BY <1>5, <2>2
      <4>2. QED
        BY <1>1, <2>2, <4>1
    <3>5. CASE i = k
      <4>1. s[k] = s[k - 1] + nd[p[k]].time
        BY <1>5
      <4>2. r[i] = s[i + 1] - d /\ r[i - 1] = s[k - 1]
        BY <2>1, <3>5
      <4>3. nd2[q[i]].time = nd[p[i + 1]].time + (nd[p[k]].time - d)
        BY <3>1, <3>2, <3>5
      <4>4. s[k - 1] \in Nat /\ s[i] = s[k - 1] + nd[p[k]].time
        BY <2>2, <3>5, <4>1
      <4>5. r[i] = r[i - 1] + nd2[q[i]].time
        BY <1>4, <3>4, <4>2, <4>3, <4>4, SMTT(40)
      <4>6. QED
        BY <3>3, <4>5
    <3>6. CASE i # k
      <4>1. r[i] = s[i + 1] - d /\ r[i - 1] = s[i] - d
        BY <2>1, <2>4, <3>6
      <4>2. nd2[q[i]].time = nd[p[i + 1]].time
        BY <3>1, <3>2, <3>4, <3>6
      <4>3. QED
        BY <1>4, <2>2, <3>3, <3>4, <4>1, <4>2
    <3>7. QED
      BY <3>5, <3>6
  <2>5. QED
    BY <2>3, <2>4
<1>11. Len(q) < NODES
  BY <1>1, <1>3, ConstantFacts DEF IsList
<1>12. QED
  BY <1>3, <1>7, <1>8, <1>9, <1>10, <1>11 DEF IsList, q, r

(* It leaves a queue, in which that timer is not. *)
LEMMA TakeQueue ==
  ASSUME NEW p, NEW s, NEW nt, NEW nd \in [Nodes -> NodeType], NEW mp, NEW k, NEW d, NEW nt2,
         NEW nd2, NEW mp2, IsList(p, s, nt, nd), IsQueue(p, s, nd, mp),
         k \in 1 .. Len(p), d \in 0 .. nd[p[k]].time, Taken(p, k, d, nt, nd, nt2, nd2),
         mp2 = mp \cup {p[k]}
  PROVE  LET q == T!Remove(p, k)
             r == TakeSums(p, s, k, d)
         IN IsQueue(q, r, nd2, mp2) /\ NotIn(nd[p[k]].h, q, nd2)
<1> DEFINE q == T!Remove(p, k)
           r == TakeSums(p, s, k, d)
           was(i) == IF i < k THEN i ELSE i + 1
<1>1. /\ p \in Seq(Nodes) /\ Len(p) \in Nat
      /\ \A i \in 0 .. Len(p) : s[i] \in Nat
      /\ \A i \in 1 .. Len(p) : nd[p[i]].time \in Nat
  BY ListFacts, Zenon
<1>2. HasWithout(q, p, k)
  BY <1>1, RemoveFacts, Zenon
<1>3. \A i \in 0 .. Len(p) - 1 : r[i] = IF i < k THEN s[i] ELSE s[i + 1] - d
  BY DEF TakeSums
<1> HIDE DEF q, r
<1>4. Len(q) = Len(p) - 1 /\ d \in Nat
  BY <1>1, <1>2 DEF HasWithout
<1>5. ASSUME NEW i \in 1 .. Len(q)
      PROVE  /\ was(i) \in 1 .. Len(p) /\ was(i) # k /\ q[i] = p[was(i)]
             /\ r[i] <= s[was(i)]
  <2>1. q[i] = IF i < k THEN p[i] ELSE p[i + 1]
    BY <1>2, <1>4 DEF HasWithout
  <2>2. r[i] = IF i < k THEN s[i] ELSE s[i + 1] - d
    BY <1>1, <1>3, <1>4
  <2>3. QED
    BY <1>1, <1>4, <2>1, <2>2
<1>6. \A x, y \in 1 .. Len(q) : was(x) = was(y) => x = y
  BY <1>1, <1>4
<1> HIDE DEF was
<1>7. ASSUME NEW i \in 1 .. Len(q) PROVE nd2[q[i]].h = nd[p[was(i)]].h
  BY <1>5 DEF Taken
<1>8. /\ \A i \in 1 .. Len(p) : nd[p[i]].h \in Timers
      /\ \A i \in 1 .. Len(p) : s[i] <= Interval[nd[p[i]].h]
      /\ \A i \in 1 .. Len(p) : p[i] \notin mp
      /\ \A i, j \in 1 .. Len(p) : nd[p[i]].h = nd[p[j]].h => i = j
  BY DEF IsQueue
<1>9. ASSUME NEW i \in 1 .. Len(q)
      PROVE  nd2[q[i]].h \in Timers /\ r[i] <= Interval[nd2[q[i]].h] /\ q[i] \notin mp2
  <2>1. s[was(i)] \in Nat /\ Interval[nd[p[was(i)]].h] \in Nat /\ r[i] \in Int
    <3>1. was(i) \in 0 .. Len(p)
      BY <1>1, <1>5
    <3>2. r[i] = IF i < k THEN s[i] ELSE s[i + 1] - d
      BY <1>1, <1>3, <1>4
    <3>3. s[i] \in Nat /\ s[i + 1] \in Nat
      BY <1>1, <1>4
    <3>4. r[i] \in Int
      BY <1>4, <3>2, <3>3
    <3>5. nd[p[was(i)]].h \in Timers
      BY <1>5, <1>8
    <3>6. Interval[nd[p[was(i)]].h] \in Nat
      BY <3>5, ConstantFacts
    <3>7. QED
      BY <1>1, <3>1, <3>4, <3>6
  <2>2. r[i] <= Interval[nd2[q[i]].h]
    <3>1. r[i] <= s[was(i)] /\ s[was(i)] <= Interval[nd[p[was(i)]].h]
      BY <1>5, <1>8
    <3>2. QED
      BY <1>7, <2>1, <3>1, SMTT(40)
  <2>3. p[was(i)] # p[k]
    BY <1>5, <1>8
  <2>4. QED
    BY <1>5, <1>7, <1>8, <2>2, <2>3
<1>10. ASSUME NEW i \in 1 .. Len(q), NEW j \in 1 .. Len(q), nd2[q[i]].h = nd2[q[j]].h PROVE i = j
  <2>1. was(i) \in 1 .. Len(p) /\ was(j) \in 1 .. Len(p) /\ nd[p[was(i)]].h = nd[p[was(j)]].h
    BY <1>5, <1>7, <1>10
  <2>2. was(i) = was(j)
    BY <1>8, <2>1
  <2>3. QED
    BY <1>6, <2>2
<1>11. ASSUME NEW i \in 1 .. Len(q) PROVE nd2[q[i]].h # nd[p[k]].h
  BY <1>5, <1>7, <1>8
<1>12. QED
  BY <1>9, <1>10, <1>11 DEF IsQueue, NotIn, q, r

(* It cancels the timer if no time is over, *)
LEMMA TakeCancels ==
  ASSUME NEW p, NEW s, NEW nt, NEW nd \in [Nodes -> NodeType], NEW k, NEW nt2, NEW nd2,
         IsList(p, s, nt, nd), k \in 1 .. Len(p), Taken(p, k, 0, nt, nd, nt2, nd2)
  PROVE  QueueOf(T!Remove(p, k), TakeSums(p, s, k, 0), nd2) = T!Remove(QueueOf(p, s, nd), k)
<1> DEFINE q == T!Remove(p, k)
           r == TakeSums(p, s, k, 0)
           old == QueueOf(p, s, nd)
<1>1. p \in Seq(Nodes) /\ Len(p) \in Nat /\ \A i \in 0 .. Len(p) : s[i] \in Nat
  BY ListFacts, Zenon
<1>2. HasWithout(q, p, k)
  BY <1>1, RemoveFacts, Zenon
<1>3. \A i \in 0 .. Len(p) - 1 : r[i] = IF i < k THEN s[i] ELSE s[i + 1] - 0
  BY DEF TakeSums
<1>4. Len(old) = Len(p) /\ \A i \in 1 .. Len(p) : old[i] = [timer |-> nd[p[i]].h, due |-> s[i]]
  BY <1>1 DEF QueueOf
<1> HIDE DEF q, r, old
<1>5. ASSUME NEW i \in 1 .. Len(p) - 1
      PROVE  [timer |-> nd2[q[i]].h, due |-> r[i]] = IF i < k THEN old[i] ELSE old[i + 1]
  <2>1. q[i] = IF i < k THEN p[i] ELSE p[i + 1]
    BY <1>2 DEF HasWithout
  <2>2. r[i] = IF i < k THEN s[i] ELSE s[i + 1]
    BY <1>1, <1>3
  <2>3. nd2[q[i]].h = IF i < k THEN nd[p[i]].h ELSE nd[p[i + 1]].h
    <3>1. \A j \in 1 .. Len(p) : j # k => nd2[p[j]].h = nd[p[j]].h
      BY DEF Taken
    <3>2. i \in 1 .. Len(p) /\ i + 1 \in 1 .. Len(p)
      BY <1>1
    <3>3. CASE i < k
      BY <2>1, <3>1, <3>2, <3>3
    <3>4. CASE ~ (i < k)
      <4>1. i + 1 # k
        BY <1>1, <3>4
      <4>2. QED
        BY <2>1, <3>1, <3>2, <3>4, <4>1
    <3>5. QED
      BY <3>3, <3>4
  <2>4. QED
    BY <1>1, <1>4, <2>2, <2>3
<1>6. QueueOf(q, r, nd2) = [i \in 1 .. Len(p) - 1 |-> [timer |-> nd2[q[i]].h, due |-> r[i]]]
  BY <1>2 DEF QueueOf, HasWithout
<1>7. T!Remove(old, k) = [i \in 1 .. Len(p) - 1 |-> IF i < k THEN old[i] ELSE old[i + 1]]
  BY <1>4 DEF T!Remove
<1>8. QueueOf(q, r, nd2) = T!Remove(old, k)
  BY <1>5, <1>6, <1>7
<1>9. QED
  BY <1>8 DEF q, r, old

(* and expires it, being the first one, if all of its time is over. *)
LEMMA TakeExpires ==
  ASSUME NEW p, NEW s, NEW nt, NEW nd \in [Nodes -> NodeType], NEW nt2, NEW nd2,
         IsList(p, s, nt, nd), 1 \in 1 .. Len(p), Taken(p, 1, s[1], nt, nd, nt2, nd2)
  PROVE  LET old == QueueOf(p, s, nd)
         IN /\ old # <<>>
            /\ QueueOf(T!Remove(p, 1), TakeSums(p, s, 1, s[1]), nd2) = T!Later(Tail(old), old[1].due)
<1> DEFINE q == T!Remove(p, 1)
           r == TakeSums(p, s, 1, s[1])
           old == QueueOf(p, s, nd)
           e(i) == [timer |-> nd[p[i]].h, due |-> s[i]]
<1>1. p \in Seq(Nodes) /\ Len(p) \in Nat /\ \A i \in 0 .. Len(p) : s[i] \in Nat
  BY ListFacts, Zenon
<1>2. HasWithout(q, p, 1)
  BY <1>1, RemoveFacts, Zenon
<1>3. \A i \in 0 .. Len(p) - 1 : r[i] = IF i < 1 THEN s[i] ELSE s[i + 1] - s[1]
  BY DEF TakeSums
<1>4. old = [i \in 1 .. Len(p) |-> e(i)]
  BY DEF QueueOf
<1> HIDE DEF q, r
<1>5. ASSUME NEW i \in 1 .. Len(p) - 1
      PROVE  [timer |-> nd2[q[i]].h, due |-> r[i]] = [e(i + 1) EXCEPT !.due = @ - s[1]]
  <2>1. q[i] = p[i + 1]
    BY <1>2 DEF HasWithout
  <2>2. r[i] = s[i + 1] - s[1]
    BY <1>1, <1>3
  <2>3. nd2[q[i]].h = nd[p[i + 1]].h
    BY <1>1, <2>1 DEF Taken
  <2>4. QED
    BY <2>2, <2>3
<1>6. QueueOf(q, r, nd2) = [i \in 1 .. Len(p) - 1 |-> [timer |-> nd2[q[i]].h, due |-> r[i]]]
  BY <1>2 DEF QueueOf, HasWithout
<1>7. Len(old) = Len(p) /\ old # <<>> /\ old[1].due = s[1] /\ \A i \in 1 .. Len(p) : old[i] = e(i)
  BY <1>1, <1>4
<1> HIDE DEF e
<1>8. Tail(old) = [i \in 1 .. Len(p) - 1 |-> e(i + 1)]
  <2>1. Tail(old) = [i \in 1 .. Len(old) - 1 |-> old[i + 1]]
    <3> DEFINE S == {e(i) : i \in 1 .. Len(p)}
    <3>1. old \in [1 .. Len(p) -> S]
      BY <1>4
    <3> HIDE DEF S, old
    <3>2. old \in Seq(S)
      BY <1>1, <3>1
    <3>3. /\ Tail(old) \in Seq(S) /\ Len(Tail(old)) = Len(old) - 1
          /\ \A i \in 1 .. Len(Tail(old)) : Tail(old)[i] = old[i + 1]
      BY <1>7, <3>2, HeadTailProperties
    <3>4. DOMAIN Tail(old) = 1 .. Len(old) - 1 /\ Tail(old) \in [1 .. Len(old) - 1 -> S]
      BY <3>3, LenProperties
    <3>5. QED
      BY <3>3, <3>4
  <2>2. \A i \in 1 .. Len(p) - 1 : old[i + 1] = e(i + 1)
    BY <1>1, <1>7
  <2>3. QED
    BY <1>7, <2>1, <2>2
<1>9. T!Later(Tail(old), s[1]) = [i \in 1 .. Len(p) - 1 |-> [e(i + 1) EXCEPT !.due = @ - s[1]]]
  BY <1>8 DEF T!Later
<1>10. QueueOf(q, r, nd2) = T!Later(Tail(old), s[1])
  BY <1>5, <1>6, <1>9
<1>11. QED
  BY <1>7, <1>10 DEF q, r

(* Time d has passed: the first node has less of it. *)
Passed(p, d, nd, nd2) ==
  \A i \in 1 .. Len(p) :
    /\ nd2[p[i]].h = nd[p[i]].h /\ nd2[p[i]].next = nd[p[i]].next
    /\ nd2[p[i]].time = nd[p[i]].time - (IF i = 1 THEN d ELSE 0)

PassSums(p, s, d) == [i \in 0 .. Len(p) |-> IF i = 0 THEN 0 ELSE s[i] - d]

(* It passes for all timers alike. *)
LEMMA PassList ==
  ASSUME NEW p, NEW s, NEW nt, NEW nd \in [Nodes -> NodeType], NEW mp, NEW d, NEW nd2,
         IsList(p, s, nt, nd), IsQueue(p, s, nd, mp),
         p # <<>>, d \in 0 .. s[1], Passed(p, d, nd, nd2)
  PROVE  /\ IsList(p, PassSums(p, s, d), nt, nd2)
         /\ IsQueue(p, PassSums(p, s, d), nd2, mp)
         /\ QueueOf(p, PassSums(p, s, d), nd2) = T!Later(QueueOf(p, s, nd), d)
<1> DEFINE r == PassSums(p, s, d)
           old == QueueOf(p, s, nd)
<1>1. /\ p \in Seq(Nodes) /\ Len(p) \in Nat
      /\ \A i \in 1 .. Len(p) : nd[p[i]].time \in Nat
      /\ \A i \in 0 .. Len(p) : s[i] \in Nat
      /\ \A i, j \in 0 .. Len(p) : i <= j => s[i] <= s[j]
  BY ListFacts, Zenon
<1>2. 1 \in 1 .. Len(p) /\ d \in Nat /\ s[1] \in Nat /\ d <= s[1]
  <2>1. Len(p) # 0
    BY <1>1, EmptySeq
  <2>2. QED
    BY <1>1, <2>1
<1>3. \A i \in 1 .. Len(p) : d <= s[i] /\ s[i] \in Nat
  <2>1. ASSUME NEW i \in 1 .. Len(p) PROVE d <= s[i] /\ s[i] \in Nat
    <3>1. 1 \in 0 .. Len(p) /\ i \in 0 .. Len(p) /\ 1 <= i
      BY <1>1, <1>2
    <3>2. s[1] <= s[i] /\ s[i] \in Nat
      BY <1>1, <3>1
    <3>3. QED
      BY <1>2, <3>2
  <2>2. QED
    BY <2>1
<1>4. r \in [0 .. Len(p) -> Nat]
  BY <1>1, <1>2, <1>3 DEF PassSums
<1>5. r[0] = 0 /\ \A i \in 1 .. Len(p) : r[i] = s[i] - d
  BY <1>1 DEF PassSums
<1> HIDE DEF r
<1>6. ASSUME NEW i \in 1 .. Len(p)
      PROVE  nd2[p[i]].next = At(p, i + 1) /\ r[i] = r[i - 1] + nd2[p[i]].time
  <2>1. nd[p[i]].next = At(p, i + 1) /\ s[i] = s[i - 1] + nd[p[i]].time /\ s[0] = 0
    BY DEF IsList
  <2>2. nd2[p[i]].next = nd[p[i]].next /\ nd2[p[i]].time = nd[p[i]].time - (IF i = 1 THEN d ELSE 0)
    BY DEF Passed
  <2>3. nd[p[i]].time \in Nat /\ s[i] \in Nat /\ s[i - 1] \in Nat
    BY <1>1
  <2>4. CASE i = 1
    BY <1>2, <1>5, <2>1, <2>2, <2>3, <2>4
  <2>5. CASE i # 1
    <3>1. i - 1 \in 1 .. Len(p)
      BY <1>1, <2>5
    <3>2. r[i] = s[i] - d /\ r[i - 1] = s[i - 1] - d
      BY <1>5, <3>1
    <3>3. QED
      BY <1>2, <2>1, <2>2, <2>3, <2>5, <3>2, SMTT(40)
  <2>6. QED
    BY <2>4, <2>5
<1>7. IsList(p, r, nt, nd2)
  BY <1>1, <1>4, <1>5, <1>6 DEF IsList
<1>8. \A i \in 1 .. Len(p) : nd2[p[i]].h = nd[p[i]].h
  BY DEF Passed
<1>9. IsQueue(p, r, nd2, mp)
  <2>1. /\ \A i \in 1 .. Len(p) : nd[p[i]].h \in Timers
        /\ \A i \in 1 .. Len(p) : s[i] <= Interval[nd[p[i]].h]
        /\ \A i \in 1 .. Len(p) : p[i] \notin mp
        /\ \A i, j \in 1 .. Len(p) : nd[p[i]].h = nd[p[j]].h => i = j
    BY DEF IsQueue
  <2>2. ASSUME NEW i \in 1 .. Len(p) PROVE r[i] <= Interval[nd2[p[i]].h]
    <3>1. Interval[nd[p[i]].h] \in Nat
      BY <2>1, ConstantFacts
    <3>2. QED
      BY <1>2, <1>3, <1>5, <1>8, <2>1, <3>1
  <2>3. QED
    BY <1>8, <2>1, <2>2 DEF IsQueue
<1>10. QueueOf(p, r, nd2) = T!Later(old, d)
  <2>1. old = [i \in 1 .. Len(p) |-> [timer |-> nd[p[i]].h, due |-> s[i]]]
    BY DEF QueueOf
  <2>2. QueueOf(p, r, nd2) = [i \in 1 .. Len(p) |-> [timer |-> nd[p[i]].h, due |-> s[i] - d]]
    BY <1>5, <1>8 DEF QueueOf
  <2> HIDE DEF old
  <2>3. QED
    BY <2>1, <2>2 DEF T!Later
<1>11. QED
  BY <1>7, <1>9, <1>10 DEF r, old

-----------------------------------------------------------------------------
(* Steps.  Every one is a step of the queue, or leaves it alone. *)
QueueStep == T!QueueNext \/ Queue' = Queue

(* What is linked after a step is the list after it. *)
LEMMA NewList ==
  ASSUME TypeInv', NEW p, NEW s, IsList(p, s, next_timeout', node')
  PROVE  Path' = p /\ Due' = s /\ Queue' = QueueOf(p, s, node')
<1>1. ListType'
  BY DEF TypeInv, TypeOK, ListType, NodeType
<1>2. Path' = p /\ Due' = s
  BY <1>1, ListIsUniqueNext, Zenon DEF ListUnique
<1>3. Queue' = QueueOf(Path', Due', node')
  BY <1>1, QueueIsOfListNext DEF QueueFacts
<1>4. QED
  BY <1>2, <1>3

(* A step that changes no node of the list changes nothing of it. *)
SameList ==
  /\ Path' = Path /\ Due' = Due /\ Queue' = Queue
  /\ IsList(Path, Due, next_timeout', node') /\ IsQueue(Path, Due, node', memp')
  /\ \A g \in Timers : NotIn(g, Path, node) <=> NotIn(g, Path, node')

(* Nor does it change the queue. *)
LEMMA ListStays ==
  ASSUME TypeInv, TypeInv', Shape, next_timeout' = next_timeout,
         \A i \in 1 .. Len(Path) : node'[Path[i]] = node[Path[i]],
         \A i \in 1 .. Len(Path) : Path[i] \notin memp'
  PROVE  SameList
<1>1. IsList(Path, Due, next_timeout, node) /\ IsQueue(Path, Due, node, memp)
  BY DEF Shape
<1>2. IsList(Path, Due, next_timeout', node')
  BY <1>1 DEF IsList
<1>3. Path' = Path /\ Due' = Due /\ Queue' = QueueOf(Path, Due, node')
  BY <1>2, NewList
<1>4. QueueOf(Path, Due, node') = QueueOf(Path, Due, node)
  BY DEF QueueOf
<1>5. Queue = QueueOf(Path, Due, node)
  BY QueueIsOfList, TypeIsList DEF QueueFacts, TypeInv
<1>6. IsQueue(Path, Due, node', memp')
  BY <1>1 DEF IsQueue
<1>7. \A g \in Timers : NotIn(g, Path, node) <=> NotIn(g, Path, node')
  BY DEF NotIn
<1>8. QED
  BY <1>2, <1>3, <1>4, <1>5, <1>6, <1>7 DEF SameList

(* So it is if the variables of the list do not change at all. *)
LEMMA ListUnchanged ==
  ASSUME TypeInv, TypeInv', Shape, UNCHANGED list
  PROVE  SameList /\ node' = node /\ memp' = memp /\ next_timeout' = next_timeout
<1>1. node' = node /\ memp' = memp /\ next_timeout' = next_timeout
  BY DEF list
<1>2. \A i \in 1 .. Len(Path) : Path[i] \notin memp'
  BY <1>1 DEF Shape, IsQueue
<1>3. QED
  BY <1>1, <1>2, ListStays

(* What remains to be shown then. *)
LEMMA ShapeStays ==
  ASSUME SameList, Outside', Place', AtFirst', Kept'
  PROVE  Shape' /\ QueueStep
<1>1. IsList(Path', Due', next_timeout', node') /\ IsQueue(Path', Due', node', memp')
  BY DEF SameList
<1>2. Shape'
  BY <1>1 DEF Shape
<1>3. QED
  BY <1>2 DEF SameList, QueueStep

(* The list of a state in order. *)
PathGood ==
  /\ node \in [Nodes -> NodeType] /\ Len(Path) \in Nat /\ Due[0] = 0
  /\ IsList(Path, Due, next_timeout, node) /\ IsQueue(Path, Due, node, memp)
  /\ next_timeout = At(Path, 1) /\ (next_timeout = NULL => Len(Path) = 0)
  /\ \A i \in 1 .. Len(Path) : Path[i] \in Nodes
  /\ \A i \in 1 .. Len(Path) : node[Path[i]].time \in Nat
  /\ \A i \in 1 .. Len(Path) : node[Path[i]].next = At(Path, i + 1)
  /\ \A i \in 1 .. Len(Path) : Due[i] = Due[i - 1] + node[Path[i]].time
  /\ \A i \in 0 .. Len(Path) : Due[i] \in Nat
  /\ \A i, j \in 1 .. Len(Path) : Path[i] = Path[j] => i = j

(* It is a list of nodes, each in it once. *)
LEMMA PathIsGood ==
  ASSUME TypeInv, Shape
  PROVE  PathGood
<1>1. /\ IsList(Path, Due, next_timeout, node) /\ IsQueue(Path, Due, node, memp)
      /\ node \in [Nodes -> NodeType]
  BY DEF Shape, TypeInv, TypeOK, NodeType
<1>2. /\ Len(Path) \in Nat
      /\ \A i \in 1 .. Len(Path) : Path[i] \in Nodes
      /\ \A i \in 1 .. Len(Path) : node[Path[i]].time \in Nat
      /\ \A i \in 0 .. Len(Path) : Due[i] \in Nat
  BY <1>1, ListFacts, Zenon
<1>3. /\ next_timeout = At(Path, 1) /\ Due[0] = 0
      /\ \A i \in 1 .. Len(Path) : node[Path[i]].next = At(Path, i + 1)
      /\ \A i \in 1 .. Len(Path) : Due[i] = Due[i - 1] + node[Path[i]].time
  BY <1>1 DEF IsList
<1>4. next_timeout = NULL => Len(Path) = 0
  BY <1>2, <1>3, ConstantFacts DEF At
<1>5. \A i, j \in 1 .. Len(Path) : Path[i] = Path[j] => i = j
  BY <1>1 DEF IsQueue
<1>6. QED
  BY <1>1, <1>2, <1>3, <1>4, <1>5 DEF PathGood

(* Nodes change hands only where the list or the pool does. *)
LEMMA ThreadNodes ==
  ASSUME NodesKept, Path' = Path, memp' = memp, Placing => Placing' /\ timeout' = timeout
  PROVE  NodesKept'
BY DEF NodesKept, InPath

(* There is always a timer in the list when the thread waits or a time is  *)
(* over.                                                                   *)
LEMMA FirstIsThere ==
  ASSUME TypeInv, Shape, pc \in {"pend", "expired"}
  PROVE  next_timeout # NULL
<1>1. PathGood /\ boot = <<>> /\ ~ InHand("ip") /\ ~ ToBoot("ip")
  BY PathIsGood DEF Shape, Kept, Booted, InHand, ToBoot, Placing
<1>2. ~ NotIn("ip", Path, node)
  BY <1>1 DEF Shape, Kept, PeriodicKept, Periodic
<1>3. QED
  BY <1>1, <1>2 DEF NotIn, PathGood

(* The boot sequence sets timers that are not in the list. *)
LEMMA BootShape ==
  ASSUME TypeInv, TypeInv', Shape, Boot
  PROVE  Shape' /\ QueueStep
<1>1. SameList /\ node' = node /\ memp' = memp /\ next_timeout' = next_timeout
  BY ListUnchanged DEF Boot
<1>2. /\ Path' = Path /\ Due' = Due
  BY <1>1 DEF SameList
<1>3. /\ pc = "boot" /\ ~ Handling /\ h' = Head(boot) /\ boot' = Tail(boot)
      /\ Handling' <=> Head(boot) # None
      /\ (Placing \/ pc = "alloc")' => Head(boot) # None
      /\ UNCHANGED <<Enable, tcpip_tcp_timer_active>>
  BY DEF Boot, Handling, Placing, Goes, flags
<1>4. Outside
  BY DEF Shape
<1>5. Outside'
  <2>1. CASE boot = <<"ip", "arp", None>>
    <3>1. Head(boot) = "ip" /\ Tail(boot) = <<"arp", None>> /\ <<"arp", None>> # <<"ip", "arp", None>>
      BY <2>1
    <3>2. NotIn("ip", Path, node) /\ NotIn("arp", Path, node)
      BY <1>4, <2>1 DEF Outside, Waits
    <3>3. QED
      BY <1>1, <1>2, <1>3, <1>4, <3>1, <3>2 DEF Outside, Waits
  <2>2. CASE boot = <<"arp", None>>
    <3>1. /\ Head(boot) = "arp" /\ Tail(boot) = <<None>>
          /\ <<None>> # <<"ip", "arp", None>> /\ <<None>> # <<"arp", None>>
      BY <2>2 DEF None
    <3>2. NotIn("arp", Path, node)
      BY <1>4, <2>2 DEF Outside, Waits
    <3>3. QED
      BY <1>1, <1>2, <1>3, <1>4, <3>1, <3>2 DEF Outside, Waits
  <2>3. CASE boot = <<None>>
    <3>1. /\ Head(boot) = None /\ Tail(boot) = <<>>
          /\ <<>> # <<"ip", "arp", None>> /\ <<>> # <<"arp", None>>
      BY <2>3
    <3>2. QED
      BY <1>1, <1>2, <1>3, <1>4, <3>1 DEF Outside, Waits
  <2>4. QED
    BY <1>3, <2>1, <2>2, <2>3 DEF TypeInv, Setting
<1>6. Place'
  BY <1>1, <1>2, BootFacts DEF Shape, Place, Placing, Boot, Goes, flags, wait, Setting, TypeInv, None
<1>7. AtFirst'
  BY <1>1, <1>2, BootFacts DEF Shape, AtFirst, Boot, Goes, flags, wait, Setting, TypeInv, None
<1>8. Kept'
  <2>1. NodesKept'
    BY <1>1, <1>2, <1>3, ThreadNodes DEF Shape, Kept, Placing, Handling
  <2>2. boot # <<>> /\ pc' = (IF Head(boot) = None THEN "fetch" ELSE "alloc")
    BY <1>3 DEF TypeInv, Setting, Boot, Goes
  <2>3. PeriodicKept'
    <3>1. CASE boot = <<"ip", "arp", None>>
      <4>1. Head(boot) = "ip" /\ Tail(boot) = <<"arp", None>>
        BY <3>1
      <4>2. InHand("ip")' /\ ToBoot("arp")'
        BY <1>3, <2>2, <4>1 DEF InHand, ToBoot, None
      <4>3. QED
        BY <4>2 DEF PeriodicKept, Periodic
    <3>2. CASE boot = <<"arp", None>>
      <4>1. Head(boot) = "arp" /\ boot # <<"ip", "arp", None>>
        BY <3>2 DEF None
      <4>2. InHand("arp")' /\ ~ InHand("ip") /\ ~ ToBoot("ip")
        BY <1>3, <2>2, <4>1 DEF InHand, ToBoot, None, Placing, Handling
      <4>3. ~ NotIn("ip", Path', node')
        BY <1>1, <1>2, <4>2 DEF Shape, Kept, PeriodicKept, Periodic
      <4>4. QED
        BY <4>2, <4>3 DEF PeriodicKept, Periodic
    <3>3. CASE boot = <<None>>
      <4>1. boot # <<"ip", "arp", None>> /\ boot # <<"arp", None>>
        BY <3>3 DEF None
      <4>2. \A g \in Periodic : ~ InHand(g) /\ ~ ToBoot(g)
        BY <1>3, <4>1 DEF InHand, ToBoot, Placing, Handling
      <4>3. \A g \in Periodic : ~ NotIn(g, Path', node')
        BY <1>1, <1>2, <4>2 DEF Shape, Kept, PeriodicKept
      <4>4. QED
        BY <4>3 DEF PeriodicKept
    <3>4. QED
      BY <2>2, <3>1, <3>2, <3>3 DEF TypeInv, Setting
  <2>4. Booted'
    BY <1>3, <2>2, BootFacts DEF Booted, TypeInv
  <2>5. QED
    BY <2>1, <2>3, <2>4 DEF Kept
<1>9. QED
  BY <1>1, <1>5, <1>6, <1>7, <1>8, ShapeStays

(* Waiting begins. *)
LEMMA FetchShape ==
  ASSUME TypeInv, TypeInv', Shape, Fetch
  PROVE  Shape' /\ QueueStep
<1>1. SameList /\ node' = node /\ memp' = memp /\ next_timeout' = next_timeout
  BY ListUnchanged DEF Fetch
<1>2. /\ Path' = Path /\ Due' = Due
  BY <1>1 DEF SameList
<1>3. Outside'
  BY <1>1, <1>2 DEF Shape, Outside, Waits, Handling, Placing, Fetch, Goes, flags, wait
<1>4. Place'
  BY <1>1, <1>2 DEF Shape, Place, Placing, Fetch, Goes, flags, wait
<1>5. AtFirst'
  BY <1>1, <1>2 DEF Shape, AtFirst, Fetch, Goes, flags, wait
<1>6. Kept'
  <2>1. NodesKept'
    BY <1>1, <1>2, ThreadNodes DEF Shape, Kept, Placing, Fetch, Goes
  <2>2. PeriodicKept'
    BY <1>1, <1>2 DEF Shape, Kept, PeriodicKept, InHand, ToBoot, Placing, Fetch, Goes, Periodic
  <2>3. Booted'
    BY DEF Shape, Kept, Booted, Fetch, Goes, TypeInv, Setting
  <2>4. QED
    BY <2>1, <2>2, <2>3 DEF Kept
<1>7. QED
  BY <1>1, <1>3, <1>4, <1>5, <1>6, ShapeStays

(* Waiting is over. *)
LEMMA PendTimeoutShape ==
  ASSUME TypeInv, TypeInv', Shape, PendTimeout
  PROVE  Shape' /\ QueueStep
<1>1. SameList /\ node' = node /\ memp' = memp /\ next_timeout' = next_timeout
  BY ListUnchanged DEF PendTimeout
<1>2. /\ Path' = Path /\ Due' = Due
  BY <1>1 DEF SameList
<1>3. Outside'
  BY <1>1, <1>2 DEF Shape, Outside, Waits, Handling, Placing, PendTimeout, Goes, flags, wait
<1>4. Place'
  BY <1>1, <1>2 DEF Shape, Place, Placing, PendTimeout, Goes, flags, wait
<1>5. AtFirst'
  BY <1>1, <1>2 DEF Shape, AtFirst, PendTimeout, Goes, flags, wait
<1>6. Kept'
  <2>1. NodesKept'
    BY <1>1, <1>2, ThreadNodes DEF Shape, Kept, Placing, PendTimeout, Goes
  <2>2. PeriodicKept'
    BY <1>1, <1>2 DEF Shape, Kept, PeriodicKept, InHand, ToBoot, Placing, PendTimeout, Goes, Periodic
  <2>3. Booted'
    BY DEF Shape, Kept, Booted, PendTimeout, Goes, TypeInv, Setting
  <2>4. QED
    BY <2>1, <2>2, <2>3 DEF Kept
<1>7. QED
  BY <1>1, <1>3, <1>4, <1>5, <1>6, ShapeStays

(* The time waited is not zero, and what is subtracted is less than there is. *)
LEMMA GetMessageShape ==
  ASSUME TypeInv, TypeInv', Shape, GetMessage
  PROVE  Shape' /\ QueueStep
<1>1. SameList /\ node' = node /\ memp' = memp /\ next_timeout' = next_timeout
  BY ListUnchanged DEF GetMessage
<1>2. /\ Path' = Path /\ Due' = Due
  BY <1>1 DEF SameList
<1>3. Outside'
  BY <1>1, <1>2, PortType DEF Shape, Outside, Waits, Handling, Placing, GetMessage, Goes,
     flags, wait, TypeInv, TypeOK
<1>4. Place'
  BY <1>1, <1>2, PortType DEF Shape, Place, Placing, GetMessage, Goes, flags, wait, TypeInv, TypeOK
<1>5. AtFirst'
  BY <1>1, <1>2, PortType DEF Shape, AtFirst, GetMessage, Goes, flags, wait, TypeInv, TypeOK
<1>6. Kept'
  <2>1. NodesKept'
    BY <1>1, <1>2, ThreadNodes DEF Shape, Kept, Placing, GetMessage, Goes
  <2>2. PeriodicKept'
    BY <1>1, <1>2 DEF Shape, Kept, PeriodicKept, InHand, ToBoot, Placing, GetMessage, Goes, Periodic
  <2>3. Booted'
    BY FirstIsThere DEF Shape, Kept, Booted, GetMessage, Goes
  <2>4. QED
    BY <2>1, <2>2, <2>3 DEF Kept
<1>7. QED
  BY <1>1, <1>3, <1>4, <1>5, <1>6, ShapeStays

(* The TCP timer is set if it is not active. *)
LEMMA MessageShape ==
  ASSUME TypeInv, TypeInv', Shape, Message
  PROVE  Shape' /\ QueueStep
<1>1. SameList /\ node' = node /\ memp' = memp /\ next_timeout' = next_timeout
  BY ListUnchanged DEF Message
<1>2. /\ Path' = Path /\ Due' = Due
  BY <1>1 DEF SameList
<1>3. Outside'
  BY <1>1, <1>2 DEF Shape, Outside, Waits, Handling, Placing, Message, Goes, flags, wait
<1>4. Place'
  BY <1>1, <1>2 DEF Shape, Place, Placing, Message, Goes, flags, wait
<1>5. AtFirst'
  BY <1>1, <1>2 DEF Shape, AtFirst, Message, Goes, flags, wait
<1>6. Kept'
  <2>1. NodesKept'
    BY <1>1, <1>2, ThreadNodes DEF Shape, Kept, Placing, Message, Goes
  <2>2. PeriodicKept'
    BY <1>1, <1>2 DEF Shape, Kept, PeriodicKept, InHand, ToBoot, Placing, Message, Goes, Periodic
  <2>3. Booted'
    BY DEF Shape, Kept, Booted, Message, Goes, TypeInv, Setting
  <2>4. QED
    BY <2>1, <2>2, <2>3 DEF Kept
<1>7. QED
  BY <1>1, <1>3, <1>4, <1>5, <1>6, ShapeStays

(* The first timeout is looked up. *)
LEMMA ExpiredShape ==
  ASSUME TypeInv, TypeInv', Shape, Expired
  PROVE  Shape' /\ QueueStep
<1>1. SameList /\ node' = node /\ memp' = memp /\ next_timeout' = next_timeout
  BY ListUnchanged DEF Expired
<1>2. /\ Path' = Path /\ Due' = Due
  BY <1>1 DEF SameList
<1>3. Outside'
  BY <1>1, <1>2 DEF Shape, Outside, Waits, Handling, Placing, Expired, Goes, flags, wait
<1>4. Place'
  BY <1>1, <1>2 DEF Shape, Place, Placing, Expired, Goes, flags, wait
<1>5. AtFirst'
  BY <1>1, <1>2 DEF Shape, AtFirst, Expired, Goes, flags, wait
<1>6. Kept'
  <2>1. NodesKept'
    BY <1>1, <1>2, ThreadNodes DEF Shape, Kept, Placing, Expired, Goes
  <2>2. PeriodicKept'
    BY <1>1, <1>2 DEF Shape, Kept, PeriodicKept, InHand, ToBoot, Placing, Expired, Goes, Periodic
  <2>3. Booted'
    BY FirstIsThere DEF Shape, Kept, Booted, Expired, Goes
  <2>4. QED
    BY <2>1, <2>2, <2>3 DEF Kept
<1>7. QED
  BY <1>1, <1>3, <1>4, <1>5, <1>6, ShapeStays

(* A handler keeps its timer out of the list until it sets it. *)
LEMMA HandlerShape ==
  ASSUME TypeInv, TypeInv', Shape, Handler
  PROVE  Shape' /\ QueueStep
<1>1. SameList /\ node' = node /\ memp' = memp /\ next_timeout' = next_timeout
  BY ListUnchanged DEF Handler
<1>2. /\ Path' = Path /\ Due' = Due
  BY <1>1 DEF SameList
<1>3. Outside'
  BY <1>1, <1>2 DEF Shape, Outside, Waits, Handling, Placing, Handler, Goes, flags, wait, Return
<1>4. Place'
  BY <1>1, <1>2 DEF Shape, Place, Placing, Handler, Goes, flags, wait, Return
<1>5. AtFirst'
  BY <1>1, <1>2 DEF Shape, AtFirst, Handler, Goes, flags, wait, Return
<1>6. Kept'
  <2>1. NodesKept'
    BY <1>1, <1>2, ThreadNodes DEF Shape, Kept, Placing, Handler, Goes, Return
  <2>2. PeriodicKept'
    BY <1>1, <1>2 DEF Shape, Kept, PeriodicKept, InHand, ToBoot, Placing, Handler, Goes,
       Periodic, Return
  <2>3. Booted'
    BY DEF Shape, Kept, Booted, Handler, Goes, TypeInv, Setting, Return
  <2>4. QED
    BY <2>1, <2>2, <2>3 DEF Kept
<1>7. QED
  BY <1>1, <1>3, <1>4, <1>5, <1>6, ShapeStays

(* The tick is set again while the server is enabled. *)
LEMMA TickEndShape ==
  ASSUME TypeInv, TypeInv', Shape, TickEnd
  PROVE  Shape' /\ QueueStep
<1>1. SameList /\ node' = node /\ memp' = memp /\ next_timeout' = next_timeout
  BY ListUnchanged DEF TickEnd
<1>2. /\ Path' = Path /\ Due' = Due
  BY <1>1 DEF SameList
<1>3. Outside'
  BY <1>1, <1>2 DEF Shape, Outside, Waits, Handling, Placing, TickEnd, Goes, flags, wait, Return
<1>4. Place'
  BY <1>1, <1>2 DEF Shape, Place, Placing, TickEnd, Goes, flags, wait, Return
<1>5. AtFirst'
  BY <1>1, <1>2 DEF Shape, AtFirst, TickEnd, Goes, flags, wait, Return
<1>6. Kept'
  <2>1. NodesKept'
    BY <1>1, <1>2, ThreadNodes DEF Shape, Kept, Placing, TickEnd, Goes, Return
  <2>2. PeriodicKept'
    BY <1>1, <1>2 DEF Shape, Kept, PeriodicKept, InHand, ToBoot, Placing, TickEnd, Goes,
       Periodic, Return
  <2>3. Booted'
    BY DEF Shape, Kept, Booted, TickEnd, Goes, TypeInv, Setting, Return
  <2>4. QED
    BY <2>1, <2>2, <2>3 DEF Kept
<1>7. QED
  BY <1>1, <1>3, <1>4, <1>5, <1>6, ShapeStays

(* A message comes. *)
LEMMA ArriveShape ==
  ASSUME TypeInv, TypeInv', Shape, Arrive
  PROVE  Shape' /\ QueueStep
<1>1. SameList /\ node' = node /\ memp' = memp /\ next_timeout' = next_timeout
  BY ListUnchanged DEF Arrive
<1>2. /\ Path' = Path /\ Due' = Due
  BY <1>1 DEF SameList
<1>3. Outside'
  BY <1>1, <1>2 DEF Shape, Outside, Waits, Handling, Placing, Arrive, Goes, flags, wait
<1>4. Place'
  BY <1>1, <1>2 DEF Shape, Place, Placing, Arrive, Goes, flags, wait
<1>5. AtFirst'
  BY <1>1, <1>2 DEF Shape, AtFirst, Arrive, Goes, flags, wait
<1>6. Kept'
  <2>1. NodesKept'
    BY <1>1, <1>2, ThreadNodes DEF Shape, Kept, Placing, Arrive, Goes
  <2>2. PeriodicKept'
    BY <1>1, <1>2 DEF Shape, Kept, PeriodicKept, InHand, ToBoot, Placing, Arrive, Goes, Periodic
  <2>3. Booted'
    BY DEF Shape, Kept, Booted, Arrive, Goes, TypeInv, Setting
  <2>4. QED
    BY <2>1, <2>2, <2>3 DEF Kept
<1>7. QED
  BY <1>1, <1>3, <1>4, <1>5, <1>6, ShapeStays

(* The clock ticks. *)
LEMMA OSTickShape ==
  ASSUME TypeInv, TypeInv', Shape, OSTick
  PROVE  Shape' /\ QueueStep
<1>1. SameList /\ node' = node /\ memp' = memp /\ next_timeout' = next_timeout
  BY ListUnchanged DEF OSTick
<1>2. /\ Path' = Path /\ Due' = Due
  BY <1>1 DEF SameList
<1>3. Outside'
  BY <1>1, <1>2 DEF Shape, Outside, Waits, Handling, Placing, OSTick, Goes, flags, wait
<1>4. Place'
  BY <1>1, <1>2 DEF Shape, Place, Placing, OSTick, Goes, flags, wait
<1>5. AtFirst'
  BY <1>1, <1>2 DEF Shape, AtFirst, OSTick, Goes, flags, wait
<1>6. Kept'
  <2>1. NodesKept'
    BY <1>1, <1>2, ThreadNodes DEF Shape, Kept, Placing, OSTick, Goes
  <2>2. PeriodicKept'
    BY <1>1, <1>2 DEF Shape, Kept, PeriodicKept, InHand, ToBoot, Placing, OSTick, Goes, Periodic
  <2>3. Booted'
    BY DEF Shape, Kept, Booted, OSTick, Goes, TypeInv, Setting
  <2>4. QED
    BY <2>1, <2>2, <2>3 DEF Kept
<1>7. QED
  BY <1>1, <1>3, <1>4, <1>5, <1>6, ShapeStays

(* While none is being put in, a node is left: each of the list's nodes is *)
(* of a timer of its own, and there are more nodes than timers.            *)
LEMMA PoolNotEmpty ==
  ASSUME TypeInv, Shape, pc = "alloc"
  PROVE  memp # {}
<1> SUFFICES ASSUME memp = {} PROVE FALSE
  OBVIOUS
<1>1. \A x \in Nodes : \E i \in 1 .. Len(Path) : Path[i] = x
  BY DEF Shape, Kept, NodesKept, InPath, Placing
<1>2. PathGood /\ Len(Path) < NODES
  BY PathIsGood DEF PathGood, IsList
<1> DEFINE f == [x \in Nodes |-> CHOOSE i \in 1 .. Len(Path) : Path[i] = x]
<1>3. ASSUME NEW x \in Nodes PROVE f[x] \in 1 .. Len(Path) /\ Path[f[x]] = x
  BY <1>1, Zenon
<1>4. f \in [Nodes -> 1 .. Len(Path)]
  BY <1>3
<1> HIDE DEF f
<1>5. /\ IsFiniteSet(Nodes) /\ Cardinality(Nodes) = NODES
      /\ IsFiniteSet(1 .. Len(Path)) /\ Cardinality(1 .. Len(Path)) = Len(Path)
  <2>1. \A a, b \in Int : /\ IsFiniteSet(a .. b)
                          /\ Cardinality(a .. b) = IF a > b THEN 0 ELSE b - a + 1
    BY FS_Interval
  <2>2. 1 \in Int /\ Len(Path) \in Nat /\ NODES \in Nat
    BY <1>2, ConstantFacts DEF PathGood
  <2>3. ASSUME NEW m \in Nat PROVE IsFiniteSet(1 .. m) /\ Cardinality(1 .. m) = m
    <3>1. IsFiniteSet(1 .. m) /\ Cardinality(1 .. m) = IF 1 > m THEN 0 ELSE m - 1 + 1
      BY <2>1
    <3>2. QED
      BY <3>1
  <2>4. QED
    BY <2>2, <2>3 DEF Nodes
<1>6. \E x, y \in Nodes : x # y /\ f[x] = f[y]
  BY <1>2, <1>4, <1>5, FS_PigeonHole
<1>7. QED
  BY <1>3, <1>6

(* A node that is taken from the pool is not in the list. *)
LEMMA AllocShape ==
  ASSUME TypeInv, TypeInv', Shape, Alloc
  PROVE  Shape' /\ QueueStep
<1>1. memp \subseteq Nodes /\ h \in Timers /\ pc = "alloc" /\ node \in [Nodes -> NodeType]
  BY DEF TypeInv, TypeOK, Setting, Alloc, NodeType
<1>2. timeout' = memp_malloc /\ timeout' \in memp \cup {NULL}
  BY <1>1, MallocType DEF Alloc
<1>3. /\ \A i \in 1 .. Len(Path) : Path[i] \notin memp
      /\ \A i \in 1 .. Len(Path) : Path[i] \in Nodes
  <2>1. IsList(Path, Due, next_timeout, node)
    BY DEF Shape
  <2>2. \A i \in 1 .. Len(Path) : Path[i] \in Nodes
    BY <1>1, <2>1, ListFacts, Zenon
  <2>3. QED
    BY <2>2 DEF Shape, IsQueue
<1>4. timeout' # NULL
  BY <1>1, <1>2, PoolNotEmpty, MallocType
<1>5. QED
  <2>1. /\ node' = [node EXCEPT ![timeout'] = [next |-> NULL, time |-> Interval[h], h |-> h]]
        /\ memp' = memp \ {timeout'} /\ pc' = "first" /\ UNCHANGED <<h, next_timeout, boot, flags>>
    BY <1>4 DEF Alloc, Goes
  <2>2. timeout' \in memp /\ timeout' \in Nodes
    BY <1>1, <1>2, <1>4
  <2>3. /\ \A i \in 1 .. Len(Path) : node'[Path[i]] = node[Path[i]]
        /\ \A i \in 1 .. Len(Path) : Path[i] \notin memp'
        /\ \A i \in 1 .. Len(Path) : Path[i] # timeout'
    BY <1>1, <1>3, <2>1, <2>2
  <2>4. SameList
    BY <2>1, <2>3, ListStays
  <2>5. Path' = Path /\ \A g \in Timers : NotIn(g, Path, node) => NotIn(g, Path, node')
    BY <2>4 DEF SameList
  <2>6. Outside'
    BY <1>1, <2>1, <2>5 DEF Shape, Outside, Waits, Handling, Placing, flags, Timers, Periodic
  <2>7. Place'
    <3>1. node'[timeout'] = [next |-> NULL, time |-> Interval[h], h |-> h] /\ timeout' \notin memp'
      BY <1>1, <2>1, <2>2
    <3>2. QED
      BY <2>1, <2>3, <2>5, <3>1 DEF Place, Placing
  <2>8. AtFirst'
    BY <2>1 DEF AtFirst
  <2>9. Kept'
    <3>1. NodesKept'
      BY <1>1, <2>1, <2>5 DEF Shape, Kept, NodesKept, InPath, Placing
    <3>2. PeriodicKept'
      BY <1>1, <2>1, <2>4, <2>5 DEF Shape, Kept, PeriodicKept, SameList, InHand, ToBoot, Placing,
         Timers
    <3>3. QED
      BY <2>1, <3>1, <3>2 DEF Kept, Booted
  <2>10. QED
    BY <2>4, <2>6, <2>7, <2>8, <2>9, ShapeStays

(* Setting a timer that is not in the list arms it, *)
ArmsNow(k, n, g) ==
  /\ n \in Nodes /\ g \in Timers /\ NotIn(g, Path, node)
  /\ Fits(Path, Due, k, Interval[g])
  /\ Inserted(Path, Due, k, n, g, next_timeout, node, next_timeout', node')
  /\ memp' \subseteq memp /\ n \notin memp'

(* adds that timer and its node to the list,                               *)
Gains(n, g) ==
  /\ \A f : NotIn(f, Path', node') <=> f # g /\ NotIn(f, Path, node)
  /\ \A x : InPath(x)' <=> x = n \/ InPath(x)

(* and leaves the list in order. *)
LEMMA ArmStep ==
  ASSUME TypeInv, TypeInv', Shape, NEW k, NEW n, NEW g, ArmsNow(k, n, g)
  PROVE  /\ IsList(Path', Due', next_timeout', node') /\ IsQueue(Path', Due', node', memp')
         /\ T!QueueNext /\ Gains(n, g)
<1> DEFINE q == T!Insert(Path, k, n)
           r == InsertSums(Path, Due, k, Interval[g])
           old == QueueOf(Path, Due, node)
<1>1. /\ IsList(Path, Due, next_timeout, node) /\ IsQueue(Path, Due, node, memp)
      /\ node \in [Nodes -> NodeType]
  BY DEF Shape, TypeInv, TypeOK, NodeType
<1>2. /\ n \in Nodes /\ g \in Timers /\ NotIn(g, Path, node)
      /\ Fits(Path, Due, k, Interval[g]) /\ memp' \subseteq memp /\ n \notin memp'
      /\ Inserted(Path, Due, k, n, g, next_timeout, node, next_timeout', node')
  BY DEF ArmsNow
<1>3. IsList(q, r, next_timeout', node')
  BY <1>1, <1>2, InsertList, Zenon
<1>4. IsQueue(q, r, node', memp') /\ Arms(old, QueueOf(q, r, node'), g)
  BY <1>1, <1>2, InsertQueue
<1>5. HasBehind(q, Path, k, n)
  <2>1. Path \in Seq(Nodes) /\ k \in 0 .. Len(Path)
    BY <1>1, <1>2 DEF IsList, Fits
  <2>2. QED
    BY <1>2, <2>1, InsertFacts, Zenon
<1> HIDE DEF q, r, old
<1>6. Path' = q /\ Due' = r /\ Queue' = QueueOf(q, r, node')
  BY <1>3, NewList
<1>7. Queue = old
  BY QueueIsOfList, TypeIsList DEF QueueFacts, TypeInv, old
<1>8. T!QueueNext
  <2>1. Arms(Queue, Queue', g)
    BY <1>4, <1>6, <1>7
  <2>2. T!Arm
    BY <1>2, <2>1 DEF Arms, T!Arm
  <2>3. QED
    BY <2>2 DEF T!QueueNext
<1>9. ASSUME NEW i \in 1 .. Len(q)
      PROVE  \/ q[i] = n /\ node'[q[i]].h = g
             \/ \E j \in 1 .. Len(Path) : q[i] = Path[j] /\ node'[q[i]].h = node[Path[j]].h
  <2>1. Len(Path) \in Nat /\ k \in 0 .. Len(Path)
    BY <1>1, <1>2, LenProperties DEF IsList, Fits
  <2>2. q[i] = IF i <= k THEN Path[i] ELSE IF i = k + 1 THEN n ELSE Path[i - 1]
    BY <1>5 DEF HasBehind
  <2>3. i \in 1 .. Len(Path) + 1
    BY <1>5 DEF HasBehind
  <2>4. node'[n].h = g /\ \A j \in 1 .. Len(Path) : node'[Path[j]].h = node[Path[j]].h
    BY <1>2 DEF Inserted
  <2>5. CASE i <= k
    <3>1. i \in 1 .. Len(Path) /\ q[i] = Path[i]
      BY <2>1, <2>2, <2>3, <2>5
    <3>2. QED
      BY <2>4, <3>1
  <2>6. CASE i = k + 1
    <3>1. q[i] = n
      BY <2>1, <2>2, <2>6
    <3>2. QED
      BY <2>4, <3>1
  <2>7. CASE i > k + 1
    <3>1. i - 1 \in 1 .. Len(Path) /\ q[i] = Path[i - 1]
      BY <2>1, <2>2, <2>3, <2>7
    <3>2. QED
      BY <2>4, <3>1
  <2>8. QED
    BY <2>1, <2>3, <2>5, <2>6, <2>7
<1>10. ASSUME NEW j \in 1 .. Len(Path)
       PROVE  \E i \in 1 .. Len(q) : q[i] = Path[j] /\ node'[q[i]].h = node[Path[j]].h
  <2>1. /\ Len(Path) \in Nat /\ k \in 0 .. Len(Path) /\ Len(q) = Len(Path) + 1
        /\ node'[Path[j]].h = node[Path[j]].h
    BY <1>1, <1>2, <1>5, LenProperties DEF IsList, Fits, HasBehind, Inserted
  <2>2. \A i \in 1 .. Len(q) : q[i] = IF i <= k THEN Path[i] ELSE IF i = k + 1 THEN n ELSE Path[i - 1]
    BY <1>5, <2>1 DEF HasBehind
  <2>3. CASE j <= k
    BY <2>1, <2>2, <2>3
  <2>4. CASE ~ (j <= k)
    <3>1. j + 1 \in 1 .. Len(q) /\ ~ (j + 1 <= k) /\ j + 1 # k + 1 /\ (j + 1) - 1 = j
      BY <2>1, <2>4
    <3>2. q[j + 1] = Path[j]
      BY <2>2, <3>1
    <3>3. QED
      BY <2>1, <3>1, <3>2
  <2>5. QED
    BY <2>3, <2>4
<1>11. \E i \in 1 .. Len(q) : q[i] = n /\ node'[q[i]].h = g
  <2>1. /\ Len(Path) \in Nat /\ k \in 0 .. Len(Path) /\ Len(q) = Len(Path) + 1
        /\ node'[n].h = g
    BY <1>1, <1>2, <1>5, LenProperties DEF IsList, Fits, HasBehind, Inserted
  <2>2. k + 1 \in 1 .. Len(Path) + 1 /\ ~ (k + 1 <= k) /\ q[k + 1] = n
    BY <1>5, <2>1 DEF HasBehind
  <2>3. QED
    BY <2>1, <2>2
<1>12. \A f : NotIn(f, q, node') <=> f # g /\ NotIn(f, Path, node)
  <2>1. ASSUME NEW f, NotIn(f, q, node') PROVE f # g /\ NotIn(f, Path, node)
    <3>1. f # g
      BY <1>11, <2>1 DEF NotIn
    <3>2. ASSUME NEW j \in 1 .. Len(Path) PROVE node[Path[j]].h # f
      BY <1>10, <2>1, <3>2 DEF NotIn
    <3>3. QED
      BY <3>1, <3>2 DEF NotIn
  <2>2. ASSUME NEW f, f # g, NotIn(f, Path, node) PROVE NotIn(f, q, node')
    BY <1>9, <2>2 DEF NotIn
  <2>3. QED
    BY <2>1, <2>2
<1>13. \A x : (\E i \in 1 .. Len(q) : q[i] = x) <=> x = n \/ \E i \in 1 .. Len(Path) : Path[i] = x
  <2>1. ASSUME NEW i \in 1 .. Len(q) PROVE q[i] = n \/ \E j \in 1 .. Len(Path) : Path[j] = q[i]
    BY <1>9
  <2>2. ASSUME NEW j \in 1 .. Len(Path) PROVE \E i \in 1 .. Len(q) : q[i] = Path[j]
    BY <1>10
  <2>3. \E i \in 1 .. Len(q) : q[i] = n
    BY <1>11
  <2>4. QED
    BY <2>1, <2>2, <2>3, Zenon
<1>14. Gains(n, g)
  BY <1>6, <1>12, <1>13 DEF Gains, InPath
<1>15. QED
  BY <1>3, <1>4, <1>6, <1>8, <1>14

(* When the thread has set the timer it was handling, nothing is under way. *)
LEMMA ArmReturns ==
  ASSUME TypeInv, TypeInv', Shape, Placing, Return, UNCHANGED <<boot, memp, flags>>,
         NEW k, ArmsNow(k, timeout, h)
  PROVE  Shape' /\ QueueStep
<1>1. /\ IsList(Path', Due', next_timeout', node') /\ IsQueue(Path', Due', node', memp')
      /\ T!QueueNext /\ Gains(timeout, h)
  BY ArmStep
<1>2. pc' = IF boot = <<>> THEN "fetch" ELSE "boot"
  BY DEF Return, Goes
<1>3. Outside'
  <2>1. \A f : f # h /\ NotIn(f, Path, node) => NotIn(f, Path', node')
    BY <1>1 DEF Gains
  <2>2. QED
    BY <1>2, <2>1 DEF Shape, Outside, Waits, Handling, Placing, flags
<1>4. Place' /\ AtFirst'
  BY <1>2 DEF Place, Placing, AtFirst
<1>5. Kept'
  <2>1. NodesKept'
    BY <1>1 DEF Shape, Kept, NodesKept, Gains
  <2>2. PeriodicKept'
    <3>1. \A g \in Periodic : InHand(g) => g = h
      BY DEF InHand
    <3>2. QED
      BY <1>1, <3>1 DEF Shape, Kept, PeriodicKept, Gains, ToBoot
  <2>3. QED
    BY <1>2, <2>1, <2>2 DEF Kept, Booted
<1>6. QED
  BY <1>1, <1>3, <1>4, <1>5 DEF Shape, QueueStep

(* The links that sys_timeout sets make the list with the node in it. *)
Linked(p, s, k, n, g, nd) ==
  LET succ == At(p, k + 1)
      left == Interval[g] - s[k]
      rest == [Less(nd, succ, left) EXCEPT ![n] = [next |-> succ, time |-> left, h |-> g]]
  IN IF k = 0 THEN rest ELSE [rest EXCEPT ![p[k]].next = n]

(* The subtraction is exact, as the next one is due later. *)
LEMMA LinkMakes ==
  ASSUME NEW p, NEW s, NEW nt, NEW nd \in [Nodes -> NodeType], NEW mp, NEW k, NEW n \in Nodes,
         NEW g \in Timers, NEW nt2, NEW nd2,
         IsList(p, s, nt, nd), IsQueue(p, s, nd, mp), Fits(p, s, k, Interval[g]),
         \A i \in 1 .. Len(p) : p[i] # n,
         nt2 = IF k = 0 THEN n ELSE nt, nd2 = Linked(p, s, k, n, g, nd)
  PROVE  Inserted(p, s, k, n, g, nt, nd, nt2, nd2)
<1> DEFINE succ == At(p, k + 1)
           left == Interval[g] - s[k]
           new  == [next |-> succ, time |-> left, h |-> g]
           less == Less(nd, succ, left)
           rest == [less EXCEPT ![n] = new]
<1>1. /\ Len(p) \in Nat
      /\ \A i \in 1 .. Len(p) : p[i] \in Nodes
      /\ \A i \in 1 .. Len(p) : nd[p[i]].time \in Nat
      /\ \A i \in 0 .. Len(p) : s[i] \in Nat
  BY ListFacts, Zenon
<1>2. /\ k \in 0 .. Len(p) /\ s[k] <= Interval[g] /\ (k < Len(p) => s[k + 1] > Interval[g])
      /\ Interval[g] \in Nat /\ left \in Nat
  BY <1>1, ConstantFacts DEF Fits
<1>3. \A i, j \in 1 .. Len(p) : p[i] = p[j] => i = j
  BY DEF IsQueue
<1>4. nd2 = IF k = 0 THEN rest ELSE [rest EXCEPT ![p[k]].next = n]
  BY DEF Linked
<1>5. k < Len(p) => /\ k + 1 \in 1 .. Len(p) /\ succ = p[k + 1]
                    /\ Minus(nd[succ].time, left) = nd[succ].time - left
  <2> SUFFICES ASSUME k < Len(p)
               PROVE  /\ k + 1 \in 1 .. Len(p) /\ succ = p[k + 1]
                      /\ Minus(nd[succ].time, left) = nd[succ].time - left
    OBVIOUS
  <2>1. k + 1 \in 1 .. Len(p) /\ succ = p[k + 1]
    BY <1>1, <1>2 DEF At
  <2>2. s[k + 1] = s[(k + 1) - 1] + nd[p[k + 1]].time /\ (k + 1) - 1 = k
    BY <1>1, <1>2, <2>1 DEF IsList
  <2>3. s[k] \in Nat /\ nd[succ].time \in Nat /\ succ \in Nodes
    BY <1>1, <1>2, <2>1
  <2>4. left \in 0 .. nd[succ].time
    BY <1>2, <2>1, <2>2, <2>3
  <2>5. nd[succ].time \in 0 .. WIDTH - 1
    BY <2>3 DEF NodeType
  <2> HIDE DEF succ, left
  <2>6. QED
    BY <2>1, <2>4, <2>5, MinusExact
<1>6. k = Len(p) => succ = NULL
  BY <1>1 DEF At
<1> HIDE DEF succ, left
<1>7. ASSUME NEW i \in 1 .. Len(p)
      PROVE  /\ less[p[i]].h = nd[p[i]].h /\ less[p[i]].next = nd[p[i]].next
             /\ less[p[i]].time = nd[p[i]].time - (IF i = k + 1 THEN left ELSE 0)
  <2>0. p[i] \in Nodes /\ nd[p[i]].time \in Nat
    BY <1>1
  <2>1. CASE k = Len(p)
    <3>1. less = nd /\ i # k + 1
      BY <1>1, <1>6, <2>1 DEF Less
    <3>2. QED
      BY <2>0, <3>1
  <2>2. CASE k < Len(p)
    <3>1. succ = p[k + 1] /\ succ \in Nodes /\ succ # NULL /\ k + 1 \in 1 .. Len(p)
      BY <1>1, <1>5, <2>2, ConstantFacts
    <3>2. less = [nd EXCEPT ![succ].time = Minus(@, left)]
      BY <3>1 DEF Less
    <3>3. CASE i = k + 1
      <4>1. p[i] = succ
        BY <3>1, <3>3
      <4>2. less[succ] = [nd[succ] EXCEPT !.time = nd[succ].time - left]
        BY <1>5, <2>2, <3>1, <3>2
      <4>3. nd[succ] \in NodeType
        BY <3>1
      <4>4. QED
        BY <3>3, <4>1, <4>2, <4>3 DEF NodeType
    <3>4. CASE i # k + 1
      <4>1. p[i] # succ
        BY <1>3, <3>1, <3>4
      <4>2. less[p[i]] = nd[p[i]]
        BY <2>0, <3>2, <4>1
      <4>3. QED
        BY <2>0, <3>4, <4>2
    <3>5. QED
      BY <3>3, <3>4
  <2>3. QED
    BY <1>1, <1>2, <2>1, <2>2
<1>8. DOMAIN less = Nodes
  BY DEF Less
<1> HIDE DEF less
<1>9. rest[n] = new /\ DOMAIN rest = Nodes /\ \A i \in 1 .. Len(p) : rest[p[i]] = less[p[i]]
  BY <1>1, <1>8
<1> HIDE DEF rest, new
<1>10. nd2[n] = new
  <2>1. k # 0 => p[k] # n
    BY <1>1, <1>2
  <2>2. QED
    BY <1>4, <1>9, <2>1
<1>11. ASSUME NEW i \in 1 .. Len(p)
       PROVE  /\ nd2[p[i]].h = nd[p[i]].h
              /\ nd2[p[i]].next = IF i = k THEN n ELSE nd[p[i]].next
              /\ nd2[p[i]].time = nd[p[i]].time - (IF i = k + 1 THEN left ELSE 0)
  <2>1. CASE i = k
    <3>1. k # 0 /\ i # k + 1 /\ p[i] \in Nodes
      BY <1>1, <2>1
    <3>2. nd2 = [rest EXCEPT ![p[i]].next = n]
      BY <1>4, <2>1, <3>1
    <3>3. nd2[p[i]] = [rest[p[i]] EXCEPT !.next = n]
      BY <1>9, <3>1, <3>2
    <3>4. nd[p[i]] \in NodeType
      BY <3>1
    <3>5. less[p[i]] \in [next : Nodes \cup {NULL}, time : Int, h : Timers \cup {None}]
      <4>1. less[p[i]] = nd[p[i]] \/ less[p[i]] = [nd[p[i]] EXCEPT !.time = Minus(@, left)]
        BY <3>1 DEF less, Less
      <4>2. Minus(nd[p[i]].time, left) \in Int
        BY <1>1, <1>2, <3>4, MinusType DEF NodeType
      <4>3. QED
        BY <3>4, <4>1, <4>2, ConstantFacts, SMTT(40) DEF NodeType
    <3>6. QED
      BY <1>7, <1>9, <2>1, <3>3, <3>5
  <2>2. CASE i # k
    <3>1. k # 0 => p[i] # p[k]
      BY <1>1, <1>2, <1>3, <2>2
    <3>2. nd2[p[i]] = less[p[i]]
      BY <1>1, <1>4, <1>9, <3>1
    <3>3. QED
      BY <1>7, <2>2, <3>2
  <2>3. QED
    BY <2>1, <2>2
<1>12. QED
  BY <1>10, <1>11 DEF Inserted, new, succ, left

(* An empty list gets its first node; else its place is looked for. *)
LEMMA FirstShape ==
  ASSUME TypeInv, TypeInv', Shape, First
  PROVE  Shape' /\ QueueStep
<1>1. /\ pc = "first" /\ h \in Timers /\ timeout \in Nodes /\ Placing /\ NotIn(h, Path, node)
      /\ timeout \notin memp /\ node[timeout].h = h /\ node[timeout].time = Interval[h]
      /\ node[timeout].next = NULL /\ \A i \in 1 .. Len(Path) : Path[i] # timeout
      /\ Interval[h] \in Nat
  BY ConstantFacts DEF First, TypeInv, TypeOK, Setting, Shape, Place, Outside, Handling, Placing
<1>2. PathGood
  BY PathIsGood
<1>3. CASE next_timeout = NULL
  <2>1. /\ next_timeout' = timeout /\ node' = node /\ memp' = memp /\ Return
        /\ UNCHANGED <<boot, memp, flags>>
    BY <1>3 DEF First
  <2>2. Len(Path) = 0 /\ At(Path, 1) = NULL /\ Due[0] = 0 /\ node[timeout] \in NodeType
    BY <1>1, <1>2, <1>3 DEF PathGood
  <2>3. node[timeout] = [next |-> At(Path, 0 + 1), time |-> Interval[h] - Due[0], h |-> h]
    BY <1>1, <2>2 DEF NodeType
  <2>4. Inserted(Path, Due, 0, timeout, h, next_timeout, node, next_timeout', node')
    BY <2>1, <2>2, <2>3 DEF Inserted
  <2>5. Fits(Path, Due, 0, Interval[h])
    BY <1>1, <2>2 DEF Fits
  <2>6. ArmsNow(0, timeout, h)
    BY <1>1, <2>1, <2>4, <2>5 DEF ArmsNow
  <2>7. QED
    BY <1>1, <2>1, <2>6, ArmReturns
<1>4. CASE next_timeout # NULL
  <2>1. /\ UNCHANGED list /\ UNCHANGED <<timeout, h, boot, flags>> /\ t' = next_timeout
        /\ pc' = IF node[next_timeout].time > Interval[h] THEN "front" ELSE "walk"
    BY <1>4 DEF First, list, Goes
  <2>2. SameList /\ node' = node /\ memp' = memp /\ next_timeout' = next_timeout
    BY <2>1, ListUnchanged
  <2>3. Path' = Path /\ Due' = Due
    BY <2>2 DEF SameList
  <2>4. Outside'
    BY <1>1, <2>1, <2>2, <2>3 DEF Shape, Outside, Waits, Handling, Placing, flags
  <2>5. /\ 1 \in 1 .. Len(Path) /\ next_timeout = Path[1] /\ Due[1] = node[Path[1]].time
        /\ Due[1] \in Nat
    <3>1. 1 \in 1 .. Len(Path) /\ next_timeout = Path[1]
      BY <1>2, <1>4 DEF PathGood, At
    <3>2. Due[1] = Due[1 - 1] + node[Path[1]].time /\ Due[0] = 0 /\ node[Path[1]].time \in Nat
      BY <1>2, <3>1 DEF PathGood
    <3>3. QED
      BY <3>1, <3>2
  <2>6. pc' = "walk" => \E k \in 1 .. Len(Path) :
          t' = Path[k] /\ Due[k] <= Interval[h] /\ node[timeout].time = Interval[h] - Due[k - 1]
    <3> SUFFICES ASSUME pc' = "walk"
                 PROVE  /\ t' = Path[1] /\ Due[1] <= Interval[h]
                        /\ node[timeout].time = Interval[h] - Due[1 - 1]
      BY <2>5
    <3>1. ~ (node[next_timeout].time > Interval[h])
      BY <2>1
    <3>2. QED
      BY <1>1, <1>2, <2>1, <2>5, <3>1 DEF PathGood
  <2>7. Place'
    BY <1>1, <2>1, <2>2, <2>3, <2>6 DEF Place, Placing
  <2>8. AtFirst'
    BY <2>1 DEF AtFirst
  <2>9. Kept'
    <3>1. NodesKept'
      BY <1>1, <2>1, <2>2, <2>3, ThreadNodes DEF Shape, Kept, Placing
    <3>2. PeriodicKept'
      BY <1>1, <2>1, <2>2, <2>3 DEF Shape, Kept, PeriodicKept, InHand, ToBoot, Placing
    <3>3. QED
      BY <2>1, <3>1, <3>2 DEF Kept, Booted
  <2>10. QED
    BY <2>2, <2>4, <2>7, <2>8, <2>9, ShapeStays
<1>5. QED
  BY <1>3, <1>4

(* Along the list the time that is left is counted down, exactly. *)
LEMMA WalkShape ==
  ASSUME TypeInv, TypeInv', Shape, Walk
  PROVE  Shape' /\ QueueStep
<1> DEFINE left == Minus(node[timeout].time, node[t].time)
           n    == node[t].next
<1>1. /\ pc = "walk" /\ h \in Timers /\ timeout \in Nodes /\ NotIn(h, Path, node)
      /\ timeout \notin memp /\ node[timeout].h = h
      /\ \A i \in 1 .. Len(Path) : Path[i] # timeout
      /\ Interval[h] \in Nat /\ Interval[h] < WIDTH
  <2>1. pc = "walk" /\ h \in Timers /\ timeout \in Nodes
    BY DEF Walk, TypeInv, TypeOK, Setting
  <2>2. Interval[h] \in Nat /\ Interval[h] < WIDTH
    BY <2>1, ConstantFacts
  <2>3. QED
    BY <2>1, <2>2 DEF Shape, Place, Outside, Handling, Placing
<1>2. PathGood
  BY PathIsGood
<1>3. /\ node' = [node EXCEPT ![timeout].time = left]
      /\ IF n = NULL THEN pc' = "link" /\ t' = t
         ELSE IF node[n].time > left THEN pc' = "link" /\ t' = t
         ELSE t' = n /\ pc' = pc
      /\ UNCHANGED <<next_timeout, memp, boot, h, timeout, flags>>
  BY DEF Walk, Goes
<1>4. PICK k \in 1 .. Len(Path) :
        t = Path[k] /\ Due[k] <= Interval[h] /\ node[timeout].time = Interval[h] - Due[k - 1]
  BY <1>1 DEF Shape, Place
<1>5. /\ Due[k] = Due[k - 1] + node[Path[k]].time /\ Due[k] \in Nat /\ Due[k - 1] \in Nat
      /\ node[Path[k]].time \in Nat /\ n = At(Path, k + 1)
  BY <1>2, <1>4 DEF PathGood
<1>6. left = Interval[h] - Due[k]
  <2>1. node[timeout].time \in 0 .. WIDTH - 1 /\ node[t].time \in 0 .. node[timeout].time
    <3>1. node[t].time = node[Path[k]].time
      BY <1>4
    <3>2. /\ node[timeout].time = Interval[h] - Due[k - 1] /\ WIDTH \in Nat
          /\ Due[k - 1] + node[t].time <= Interval[h] /\ node[t].time \in Nat
      BY <1>4, <1>5, <3>1, ConstantFacts
    <3>3. QED
      BY <1>1, <1>5, <3>2, SMTT(40)
  <2>2. left = node[timeout].time - node[t].time
    BY <2>1, MinusExact
  <2>3. QED
    BY <1>1, <1>4, <1>5, <2>2
<1> HIDE DEF left, n
<1>7. /\ \A i \in 1 .. Len(Path) : node'[Path[i]] = node[Path[i]]
      /\ \A i \in 1 .. Len(Path) : Path[i] \notin memp'
      /\ node'[timeout].h = h /\ node'[timeout].time = left
  <2>1. node \in [Nodes -> NodeType] /\ node[timeout] \in NodeType
    BY <1>1, <1>2 DEF PathGood
  <2>2. node'[timeout] = [node[timeout] EXCEPT !.time = left]
    BY <1>1, <1>3, <2>1
  <2>3. node'[timeout].h = h /\ node'[timeout].time = left
    BY <1>1, <2>1, <2>2 DEF NodeType
  <2>4. QED
    BY <1>1, <1>2, <1>3, <2>1, <2>3 DEF PathGood, IsQueue
<1>8. SameList
  BY <1>3, <1>7, ListStays
<1>9. /\ Path' = Path /\ Due' = Due
      /\ \A g \in Timers : NotIn(g, Path, node) <=> NotIn(g, Path, node')
  BY <1>8 DEF SameList
<1>10. pc' \in {"walk", "link"}
  BY <1>1, <1>3
<1>11. Outside'
  BY <1>1, <1>3, <1>9, <1>10 DEF Shape, Outside, Waits, Handling, Placing, flags, Timers, Periodic
<1>12. pc' = "walk" => \E j \in 1 .. Len(Path) :
         t' = Path[j] /\ Due[j] <= Interval[h] /\ node'[timeout].time = Interval[h] - Due[j - 1]
  <2> SUFFICES ASSUME pc' = "walk"
               PROVE  \E j \in 1 .. Len(Path) :
                        /\ t' = Path[j] /\ Due[j] <= Interval[h]
                        /\ node'[timeout].time = Interval[h] - Due[j - 1]
    OBVIOUS
  <2>1. n # NULL /\ t' = n /\ ~ (node[n].time > left)
    BY <1>1, <1>3
  <2>2. k + 1 \in 1 .. Len(Path) /\ n = Path[k + 1]
    BY <1>2, <1>4, <1>5, <2>1 DEF PathGood, At
  <2>3. Due[k + 1] = Due[(k + 1) - 1] + node[Path[k + 1]].time /\ (k + 1) - 1 = k
    BY <1>2, <1>4, <2>2 DEF PathGood
  <2>4. node[Path[k + 1]].time \in Nat /\ Due[k + 1] \in Nat
    BY <1>2, <2>2 DEF PathGood
  <2>5. Due[k + 1] <= Interval[h]
    <3>1. node[n].time = node[Path[k + 1]].time /\ left \in Int
      BY <1>1, <1>5, <1>6, <2>2
    <3>2. node[Path[k + 1]].time <= Interval[h] - Due[k]
      BY <1>6, <2>1, <2>4, <3>1
    <3>3. QED
      BY <1>1, <1>5, <2>3, <2>4, <3>2
  <2>6. node'[timeout].time = Interval[h] - Due[(k + 1) - 1]
    BY <1>6, <1>7, <2>3
  <2>7. QED
    BY <2>1, <2>2, <2>5, <2>6
<1>13. pc' = "link" => \E j \in 1 .. Len(Path) :
         /\ t' = Path[j] /\ Due[j] <= Interval[h] /\ node'[timeout].time = Interval[h] - Due[j]
         /\ j < Len(Path) => Due[j + 1] > Interval[h]
  <2> SUFFICES ASSUME pc' = "link"
               PROVE  /\ t' = Path[k] /\ Due[k] <= Interval[h]
                      /\ node'[timeout].time = Interval[h] - Due[k]
                      /\ k < Len(Path) => Due[k + 1] > Interval[h]
    BY <1>4
  <2>1. t' = t /\ (n = NULL \/ node[n].time > left)
    BY <1>1, <1>3
  <2>2. k < Len(Path) => Due[k + 1] > Interval[h]
    <3> SUFFICES ASSUME k < Len(Path) PROVE Due[k + 1] > Interval[h]
      OBVIOUS
    <3>1. k + 1 \in 1 .. Len(Path) /\ n = Path[k + 1] /\ n # NULL
      BY <1>2, <1>4, <1>5, ConstantFacts DEF PathGood, At
    <3>2. Due[k + 1] = Due[(k + 1) - 1] + node[Path[k + 1]].time /\ (k + 1) - 1 = k
      BY <1>2, <1>4, <3>1 DEF PathGood
    <3>3. node[Path[k + 1]].time \in Nat /\ Due[k + 1] \in Nat
      BY <1>2, <3>1 DEF PathGood
    <3>4. QED
      BY <1>1, <1>4, <1>5, <1>6, <2>1, <3>1, <3>2, <3>3, SMTT(40)
  <2>3. QED
    BY <1>4, <1>6, <1>7, <2>1, <2>2
<1>14. Place'
  BY <1>1, <1>3, <1>7, <1>9, <1>10, <1>12, <1>13 DEF Place, Placing
<1>15. AtFirst'
  BY <1>10 DEF AtFirst
<1>16. Kept'
  <2>1. NodesKept'
    BY <1>1, <1>3, <1>9, <1>10, ThreadNodes DEF Shape, Kept, Placing
  <2>2. PeriodicKept'
    BY <1>1, <1>3, <1>9, <1>10 DEF Shape, Kept, PeriodicKept, InHand, ToBoot, Placing, Timers
  <2>3. QED
    BY <1>10, <2>1, <2>2 DEF Kept, Booted
<1>17. QED
  BY <1>8, <1>11, <1>14, <1>15, <1>16, ShapeStays

(* Before the first one, which is due later, *)
LEMMA LinkFrontShape ==
  ASSUME TypeInv, TypeInv', Shape, LinkFront
  PROVE  Shape' /\ QueueStep
<1>1. pc = "front" /\ h \in Timers /\ timeout \in Nodes /\ t \in Nodes
  BY DEF LinkFront, TypeInv, TypeOK, Setting
<1>2. /\ Placing /\ NotIn(h, Path, node) /\ timeout \notin memp /\ node[timeout].h = h
      /\ \A i \in 1 .. Len(Path) : Path[i] # timeout
      /\ node[timeout].time = Interval[h] /\ node[timeout].next = NULL
      /\ t = next_timeout /\ node[t].time > Interval[h]
  BY <1>1 DEF Shape, Place, Outside, Handling, Placing
<1>3. PathGood /\ Interval[h] \in Nat
  BY <1>1, PathIsGood, ConstantFacts
<1>4. /\ node' = [Less(node, t, Interval[h]) EXCEPT ![timeout].next = t]
      /\ next_timeout' = timeout /\ memp' = memp /\ Return /\ UNCHANGED <<boot, memp, flags>>
  BY DEF LinkFront
<1>5. /\ 1 \in 1 .. Len(Path) /\ t = Path[1] /\ At(Path, 0 + 1) = t
      /\ Due[0] = 0 /\ Due[1] = node[t].time
  <2>1. t # NULL
    BY <1>1, ConstantFacts
  <2>2. 1 \in 1 .. Len(Path) /\ t = Path[1] /\ At(Path, 1) = t
    BY <1>2, <1>3, <2>1 DEF PathGood, At
  <2>3. Due[1] = Due[1 - 1] + node[Path[1]].time /\ Due[0] = 0 /\ node[Path[1]].time \in Nat
    BY <1>3, <2>2 DEF PathGood
  <2>4. QED
    BY <2>2, <2>3
<1>6. Fits(Path, Due, 0, Interval[h])
  BY <1>2, <1>3, <1>5 DEF Fits, PathGood
<1>7. node' = Linked(Path, Due, 0, timeout, h, node)
  <2> DEFINE less == Less(node, t, Interval[h])
  <2>1. t # timeout /\ t # NULL
    BY <1>1, <1>2, <1>5, ConstantFacts
  <2>2. less = [node EXCEPT ![t].time = Minus(@, Interval[h])]
    BY <2>1 DEF Less
  <2>3. node \in [Nodes -> NodeType]
    BY <1>3 DEF PathGood
  <2>4. less[timeout] = node[timeout] /\ DOMAIN less = Nodes /\ node[timeout] \in NodeType
    BY <1>1, <2>1, <2>2, <2>3
  <2> HIDE DEF less
  <2>5. [less[timeout] EXCEPT !.next = t] = [next |-> t, time |-> Interval[h], h |-> h]
    BY <1>2, <2>4 DEF NodeType
  <2>6. node' = [less EXCEPT ![timeout] = [next |-> t, time |-> Interval[h], h |-> h]]
    BY <1>1, <1>4, <2>4, <2>5 DEF less
  <2>7. Interval[h] - Due[0] = Interval[h]
    BY <1>3, <1>5
  <2>8. QED
    BY <1>5, <2>6, <2>7 DEF Linked, less
<1>8. Inserted(Path, Due, 0, timeout, h, next_timeout, node, next_timeout', node')
  <2>1. /\ node \in [Nodes -> NodeType] /\ IsList(Path, Due, next_timeout, node)
        /\ IsQueue(Path, Due, node, memp)
    BY <1>3 DEF PathGood
  <2>2. next_timeout' = IF 0 = 0 THEN timeout ELSE next_timeout
    BY <1>4
  <2>3. QED
    BY <1>1, <1>2, <1>6, <1>7, <2>1, <2>2, LinkMakes
<1>9. ArmsNow(0, timeout, h)
  BY <1>1, <1>2, <1>4, <1>6, <1>8 DEF ArmsNow
<1>10. QED
  BY <1>2, <1>4, <1>9, ArmReturns

(* or behind the last one that is due no later. *)
LEMMA LinkShape ==
  ASSUME TypeInv, TypeInv', Shape, Link
  PROVE  Shape' /\ QueueStep
<1>1. pc = "link" /\ h \in Timers /\ timeout \in Nodes /\ t \in Nodes
  BY DEF Link, TypeInv, TypeOK, Setting
<1>2. /\ Placing /\ NotIn(h, Path, node) /\ timeout \notin memp /\ node[timeout].h = h
      /\ \A i \in 1 .. Len(Path) : Path[i] # timeout
  BY <1>1 DEF Shape, Place, Outside, Handling, Placing
<1>3. PICK k \in 1 .. Len(Path) :
        /\ t = Path[k] /\ Due[k] <= Interval[h] /\ node[timeout].time = Interval[h] - Due[k]
        /\ k < Len(Path) => Due[k + 1] > Interval[h]
  BY <1>1 DEF Shape, Place
<1>4. PathGood /\ Interval[h] \in Nat
  BY <1>1, PathIsGood, ConstantFacts
<1> DEFINE succ == At(Path, k + 1)
           left == Interval[h] - Due[k]
           less == Less(node, succ, left)
           new  == [next |-> succ, time |-> left, h |-> h]
<1>5. /\ node' = [less EXCEPT ![timeout].next = succ, ![t].next = timeout]
      /\ next_timeout' = next_timeout /\ memp' = memp /\ Return /\ UNCHANGED <<boot, memp, flags>>
  <2>1. node[t].next = succ
    BY <1>3, <1>4 DEF PathGood
  <2> HIDE DEF succ
  <2>2. QED
    BY <1>3, <2>1 DEF Link
<1>6. Fits(Path, Due, k, Interval[h])
  BY <1>3, <1>4 DEF Fits, PathGood
<1>7. node' = Linked(Path, Due, k, timeout, h, node)
  <2>1. t # timeout /\ succ # timeout
    BY <1>1, <1>2, <1>3, ConstantFacts DEF At
  <2>2. node \in [Nodes -> NodeType]
    BY <1>4 DEF PathGood
  <2> HIDE DEF succ, left
  <2>3. less[timeout] = node[timeout] /\ DOMAIN less = Nodes /\ node[timeout] \in NodeType
    BY <1>1, <2>1, <2>2 DEF Less
  <2> HIDE DEF less
  <2>4. [less[timeout] EXCEPT !.next = succ] = new
    BY <1>2, <1>3, <2>3 DEF NodeType, left
  <2> HIDE DEF new
  <2>5. [less EXCEPT ![timeout].next = succ] = [less EXCEPT ![timeout] = new]
    BY <1>1, <2>3, <2>4
  <2>6. node' = [[less EXCEPT ![timeout] = new] EXCEPT ![Path[k]].next = timeout]
    BY <1>3, <1>5, <2>5
  <2>7. k # 0
    BY <1>4 DEF PathGood
  <2>8. QED
    BY <2>6, <2>7 DEF Linked, less, new, left, succ
<1>8. Inserted(Path, Due, k, timeout, h, next_timeout, node, next_timeout', node')
  <2>1. /\ node \in [Nodes -> NodeType] /\ IsList(Path, Due, next_timeout, node)
        /\ IsQueue(Path, Due, node, memp)
    BY <1>4 DEF PathGood
  <2>2. next_timeout' = IF k = 0 THEN timeout ELSE next_timeout
    BY <1>5
  <2>3. QED
    BY <1>1, <1>2, <1>6, <1>7, <2>1, <2>2, LinkMakes, Zenon
<1>9. ArmsNow(k, timeout, h)
  BY <1>1, <1>2, <1>5, <1>6, <1>8 DEF ArmsNow
<1>10. QED
  BY <1>2, <1>5, <1>9, ArmReturns

(* Time passes for the list when a message has come. *)
LEMMA CountShape ==
  ASSUME TypeInv, TypeInv', Shape, Count
  PROVE  Shape' /\ QueueStep
<1> DEFINE old == QueueOf(Path, Due, node)
           now == node[next_timeout].time
           d   == IF pc = "zero" THEN now ELSE time_needed
           r   == PassSums(Path, Due, d)
<1>1. PathGood /\ next_timeout # NULL /\ pc \in {"subtract", "zero"}
  BY PathIsGood DEF Count, Shape, AtFirst
<1>2. /\ 1 \in 1 .. Len(Path) /\ next_timeout = Path[1] /\ Due[1] = now /\ now \in Nat
      /\ now \in 0 .. WIDTH - 1
  <2>1. 1 \in 1 .. Len(Path) /\ next_timeout = Path[1]
    BY <1>1 DEF PathGood, At
  <2>2. Due[1] = Due[1 - 1] + node[Path[1]].time /\ Due[0] = 0 /\ node[Path[1]].time \in Nat
    BY <1>1, <2>1 DEF PathGood
  <2>3. now \in 0 .. WIDTH - 1
    BY <1>1, <2>1 DEF PathGood, NodeType
  <2>4. QED
    BY <2>1, <2>2, <2>3
<1>3. d \in 0 .. now
  <2>1. pc = "subtract" => time_needed >= 1 /\ time_needed < now /\ time_needed \in Nat
    BY DEF Shape, AtFirst, TypeInv, TypeOK
  <2>2. QED
    BY <1>1, <1>2, <2>1
<1>4. /\ node' = [node EXCEPT ![next_timeout].time = now - d] /\ pc' = "message"
      /\ UNCHANGED <<next_timeout, memp, boot, flags>>
  <2>1. (IF pc = "zero" THEN 0 ELSE Minus(now, time_needed)) = now - d
    BY <1>2, <1>3, MinusExact
  <2>2. node' = [node EXCEPT ![next_timeout].time =
                   IF pc = "zero" THEN 0 ELSE Minus(now, time_needed)]
    BY DEF Count
  <2> HIDE DEF d
  <2>3. QED
    BY <2>1, <2>2 DEF Count, Goes
<1> HIDE DEF d
<1>5. ASSUME NEW i \in 1 .. Len(Path)
      PROVE  /\ node'[Path[i]].h = node[Path[i]].h /\ node'[Path[i]].next = node[Path[i]].next
             /\ node'[Path[i]].time = node[Path[i]].time - (IF i = 1 THEN d ELSE 0)
  <2>1. node \in [Nodes -> NodeType] /\ Path[i] \in Nodes /\ node[Path[i]].time \in Nat
    BY <1>1 DEF PathGood
  <2>2. CASE i = 1
    <3>1. node'[Path[i]] = [node[Path[i]] EXCEPT !.time = now - d]
      BY <1>2, <1>4, <2>1, <2>2
    <3>2. QED
      BY <1>2, <2>1, <2>2, <3>1 DEF NodeType
  <2>3. CASE i # 1
    <3>1. Path[i] # next_timeout
      BY <1>1, <1>2, <2>3 DEF PathGood
    <3>2. node'[Path[i]] = node[Path[i]]
      BY <1>4, <2>1, <3>1
    <3>3. QED
      BY <2>1, <2>3, <3>2
  <2>4. QED
    BY <2>2, <2>3
<1>6. Passed(Path, d, node, node')
  BY <1>5 DEF Passed
<1>7. /\ IsList(Path, r, next_timeout', node') /\ IsQueue(Path, r, node', memp')
      /\ QueueOf(Path, r, node') = T!Later(old, d)
  <2>1. /\ node \in [Nodes -> NodeType] /\ IsList(Path, Due, next_timeout, node)
        /\ IsQueue(Path, Due, node, memp)
    BY <1>1 DEF PathGood
  <2>2. d \in 0 .. Due[1]
    BY <1>2, <1>3
  <2>3. /\ IsList(Path, r, next_timeout, node') /\ IsQueue(Path, r, node', memp)
        /\ QueueOf(Path, r, node') = T!Later(old, d)
    <3>1. Path # <<>>
      BY <1>2
    <3>2. QED
      BY <1>6, <2>1, <2>2, <3>1, PassList
  <2> HIDE DEF r, old
  <2>4. QED
    BY <1>4, <2>3
<1> HIDE DEF r, old
<1>8. Path' = Path /\ Due' = r /\ Queue' = T!Later(old, d) /\ Queue = old
  <2>1. Path' = Path /\ Due' = r /\ Queue' = QueueOf(Path, r, node')
    BY <1>7, NewList
  <2>2. Queue = old
    BY QueueIsOfList, TypeIsList DEF QueueFacts, TypeInv, old
  <2>3. QED
    BY <1>7, <2>1, <2>2
<1>9. QueueStep
  <2>1. /\ old = [i \in 1 .. Len(Path) |-> [timer |-> node[Path[i]].h, due |-> Due[i]]]
        /\ Len(Path) \in Nat /\ \A i \in 1 .. Len(Path) : Due[i] \in Nat
    BY <1>1 DEF old, QueueOf, PathGood
  <2>2. CASE d = 0
    <3>1. T!Later(old, 0) = old
      BY <2>1 DEF T!Later
    <3>2. QED
      BY <1>8, <2>2, <3>1 DEF QueueStep
  <2>3. CASE d # 0
    <3>1. old # <<>> /\ old[1].due = now
      BY <1>2, <2>1
    <3>2. d \in 1 .. old[1].due
      BY <1>2, <1>3, <2>3, <3>1
    <3>3. T!Pass
      BY <1>8, <3>1, <3>2 DEF T!Pass
    <3>4. QED
      BY <3>3 DEF QueueStep, T!QueueNext
  <2>4. QED
    BY <2>2, <2>3
<1>10. \A g : NotIn(g, Path, node) <=> NotIn(g, Path, node')
  BY <1>5 DEF NotIn
<1>11. Outside'
  BY <1>4, <1>8, <1>10 DEF Shape, Outside, Waits, Handling, Placing, flags
<1>12. Place' /\ AtFirst'
  BY <1>4 DEF Place, Placing, AtFirst
<1>13. Kept'
  <2>1. NodesKept'
    BY <1>1, <1>4, <1>8, ThreadNodes DEF Shape, Kept, Placing
  <2>2. PeriodicKept'
    BY <1>1, <1>4, <1>8, <1>10 DEF Shape, Kept, PeriodicKept, InHand, ToBoot, Placing
  <2>3. QED
    BY <1>1, <1>4, <2>1, <2>2 DEF Shape, Kept, Booted
<1>14. QED
  BY <1>7, <1>8, <1>9, <1>11, <1>12, <1>13 DEF Shape

(* Taking a node out of the list leaves it in order, *)
TakesNow(k, d) ==
  /\ k \in 1 .. Len(Path) /\ d \in 0 .. node[Path[k]].time
  /\ Taken(Path, k, d, next_timeout, node, next_timeout', node')
  /\ memp' = memp \cup {Path[k]}

(* without that timer and node, and with all others. *)
Loses(n, g) ==
  /\ \A f : NotIn(f, Path', node') <=> f = g \/ NotIn(f, Path, node)
  /\ \A x : InPath(x)' => InPath(x)
  /\ \A x : InPath(x) => x = n \/ InPath(x)'

(* What is left is a queue. *)
LEMMA TakeStep ==
  ASSUME TypeInv, TypeInv', Shape, NEW k, NEW d, TakesNow(k, d)
  PROVE  /\ IsList(Path', Due', next_timeout', node') /\ IsQueue(Path', Due', node', memp')
         /\ Queue' = QueueOf(T!Remove(Path, k), TakeSums(Path, Due, k, d), node')
         /\ Loses(Path[k], node[Path[k]].h)
<1> DEFINE q == T!Remove(Path, k)
           r == TakeSums(Path, Due, k, d)
<1>1. /\ IsList(Path, Due, next_timeout, node) /\ IsQueue(Path, Due, node, memp)
      /\ node \in [Nodes -> NodeType] /\ Len(Path) \in Nat
  BY PathIsGood DEF PathGood
<1>2. /\ k \in 1 .. Len(Path) /\ d \in 0 .. node[Path[k]].time
      /\ Taken(Path, k, d, next_timeout, node, next_timeout', node')
      /\ memp' = memp \cup {Path[k]}
  BY DEF TakesNow
<1>3. IsList(q, r, next_timeout', node')
  BY <1>1, <1>2, TakeList, Zenon
<1>4. IsQueue(q, r, node', memp') /\ NotIn(node[Path[k]].h, q, node')
  BY <1>1, <1>2, TakeQueue
<1>5. HasWithout(q, Path, k)
  <2>1. Path \in Seq(Nodes)
    BY <1>1 DEF IsList
  <2>2. QED
    BY <1>2, <2>1, RemoveFacts, Zenon
<1> HIDE DEF q, r
<1>6. Path' = q /\ Due' = r /\ Queue' = QueueOf(q, r, node')
  BY <1>3, NewList
<1>7. ASSUME NEW i \in 1 .. Len(q)
      PROVE  \E j \in 1 .. Len(Path) : q[i] = Path[j] /\ node'[q[i]].h = node[Path[j]].h
  <2>1. i \in 1 .. Len(Path) - 1 /\ q[i] = IF i < k THEN Path[i] ELSE Path[i + 1]
    BY <1>5 DEF HasWithout
  <2>2. \A j \in 1 .. Len(Path) : j # k => node'[Path[j]].h = node[Path[j]].h
    BY <1>2 DEF Taken
  <2>3. CASE i < k
    <3>1. i \in 1 .. Len(Path) /\ i # k
      BY <1>1, <1>2, <2>1, <2>3
    <3>2. QED
      BY <2>1, <2>2, <2>3, <3>1
  <2>4. CASE ~ (i < k)
    <3>1. i + 1 \in 1 .. Len(Path) /\ i + 1 # k
      BY <1>1, <1>2, <2>1, <2>4
    <3>2. QED
      BY <2>1, <2>2, <2>4, <3>1
  <2>5. QED
    BY <2>3, <2>4
<1>8. ASSUME NEW j \in 1 .. Len(Path), j # k
      PROVE  \E i \in 1 .. Len(q) : q[i] = Path[j] /\ node'[q[i]].h = node[Path[j]].h
  <2>1. Len(q) = Len(Path) - 1 /\ node'[Path[j]].h = node[Path[j]].h
    BY <1>2, <1>5, <1>8 DEF HasWithout, Taken
  <2>2. \A i \in 1 .. Len(q) : q[i] = IF i < k THEN Path[i] ELSE Path[i + 1]
    BY <1>5, <2>1 DEF HasWithout
  <2>3. CASE j < k
    <3>1. j \in 1 .. Len(q) /\ q[j] = Path[j]
      BY <1>1, <1>2, <2>1, <2>2, <2>3
    <3>2. QED
      BY <2>1, <3>1
  <2>4. CASE ~ (j < k)
    <3>1. j - 1 \in 1 .. Len(q) /\ ~ (j - 1 < k) /\ (j - 1) + 1 = j
      BY <1>1, <1>2, <1>8, <2>1, <2>4
    <3>2. q[j - 1] = Path[j]
      BY <2>2, <3>1
    <3>3. QED
      BY <2>1, <3>1, <3>2
  <2>5. QED
    BY <2>3, <2>4
<1>9. \A f : NotIn(f, q, node') <=> f = node[Path[k]].h \/ NotIn(f, Path, node)
  <2>1. ASSUME NEW f, NotIn(f, q, node'), f # node[Path[k]].h PROVE NotIn(f, Path, node)
    <3>1. ASSUME NEW j \in 1 .. Len(Path) PROVE node[Path[j]].h # f
      BY <1>8, <2>1, <3>1 DEF NotIn
    <3>2. QED
      BY <3>1 DEF NotIn
  <2>2. ASSUME NEW f, NotIn(f, Path, node) PROVE NotIn(f, q, node')
    BY <1>7, <2>2 DEF NotIn
  <2>3. QED
    BY <1>4, <2>1, <2>2
<1>10. Loses(Path[k], node[Path[k]].h)
  <2>1. \A x : (\E i \in 1 .. Len(q) : q[i] = x) => \E i \in 1 .. Len(Path) : Path[i] = x
    BY <1>7
  <2>2. \A x : (\E i \in 1 .. Len(Path) : Path[i] = x)
               => x = Path[k] \/ \E i \in 1 .. Len(q) : q[i] = x
    BY <1>8
  <2>3. QED
    BY <1>6, <1>9, <2>1, <2>2 DEF Loses, InPath
<1>11. QED
  BY <1>3, <1>4, <1>6, <1>10 DEF q, r

(* The first timer expires. *)
LEMMA PopShape ==
  ASSUME TypeInv, TypeInv', Shape, Pop
  PROVE  Shape' /\ QueueStep
<1>1. PathGood /\ pc = "pop" /\ t = next_timeout /\ t # NULL
  BY PathIsGood DEF Pop, Shape, AtFirst, TypeInv, TypeOK
<1>2. /\ 1 \in 1 .. Len(Path) /\ t = Path[1] /\ Due[1] = node[Path[1]].time
      /\ node[Path[1]].time \in Nat /\ node[t].next = At(Path, 2)
  <2>1. 1 \in 1 .. Len(Path) /\ t = Path[1]
    BY <1>1 DEF PathGood, At
  <2>2. /\ Due[1] = Due[1 - 1] + node[Path[1]].time /\ Due[0] = 0
        /\ node[Path[1]].time \in Nat /\ node[Path[1]].next = At(Path, 1 + 1)
    BY <1>1, <2>1 DEF PathGood
  <2>3. QED
    BY <2>1, <2>2
<1>3. /\ h' = node[Path[1]].h /\ next_timeout' = At(Path, 2) /\ pc' = "handler"
      /\ node' = [node EXCEPT ![Path[1]] = Free] /\ memp' = memp \cup {Path[1]}
      /\ UNCHANGED <<boot, flags>>
  BY <1>2 DEF Pop, Goes
<1>4. Taken(Path, 1, Due[1], next_timeout, node, next_timeout', node')
  <2>1. ASSUME NEW i \in 1 .. Len(Path), i # 1
        PROVE  /\ node'[Path[i]] = node[Path[i]] /\ i # 1 - 1
               /\ node[Path[i]].time = node[Path[i]].time
                                       + (IF i = 1 + 1 THEN node[Path[1]].time - Due[1] ELSE 0)
    <3>1. Path[i] # Path[1] /\ node[Path[i]].time \in Nat
      BY <1>1, <1>2, <2>1 DEF PathGood
    <3>2. QED
      BY <1>1, <1>2, <1>3, <2>1, <3>1 DEF PathGood
  <2>2. QED
    BY <1>3, <2>1 DEF Taken
<1>5. TakesNow(1, Due[1])
  BY <1>2, <1>3, <1>4 DEF TakesNow
<1>6. /\ IsList(Path', Due', next_timeout', node') /\ IsQueue(Path', Due', node', memp')
      /\ Queue' = QueueOf(T!Remove(Path, 1), TakeSums(Path, Due, 1, Due[1]), node')
      /\ Loses(Path[1], h')
  BY <1>3, <1>5, TakeStep
<1>7. T!QueueNext
  <2> DEFINE old == QueueOf(Path, Due, node)
  <2>1. node \in [Nodes -> NodeType] /\ IsList(Path, Due, next_timeout, node)
    BY <1>1 DEF PathGood
  <2>2. /\ old # <<>>
        /\ QueueOf(T!Remove(Path, 1), TakeSums(Path, Due, 1, Due[1]), node')
           = T!Later(Tail(old), old[1].due)
    BY <1>2, <1>4, <2>1, TakeExpires, ZenonT(40)
  <2>3. Queue = old
    BY QueueIsOfList, TypeIsList DEF QueueFacts, TypeInv
  <2> HIDE DEF old
  <2>4. T!Expire
    BY <1>6, <2>2, <2>3 DEF T!Expire
  <2>5. QED
    BY <2>4 DEF T!QueueNext
<1>8. Outside'
  <2>1. \A f : NotIn(f, Path, node) => f # h'
    BY <1>2, <1>3 DEF NotIn
  <2>2. /\ Outside /\ NotIn(h', Path', node')
        /\ \A f : NotIn(f, Path, node) => NotIn(f, Path', node')
    BY <1>6 DEF Shape, Loses
  <2>3. QED
    BY <1>3, <2>1, <2>2 DEF Outside, Waits, Handling, Placing, flags
<1>9. Place' /\ AtFirst'
  BY <1>3 DEF Place, Placing, AtFirst
<1>10. Kept'
  <2>1. NodesKept'
    BY <1>1, <1>3, <1>6 DEF Shape, Kept, NodesKept, Loses, Placing
  <2>2. PeriodicKept'
    <3>1. \A g \in Periodic : ~ InHand(g)
      BY <1>1 DEF InHand, Placing
    <3>2. \A g : g = h' => InHand(g)'
      BY <1>3 DEF InHand
    <3>3. QED
      BY <1>3, <1>6, <3>1, <3>2 DEF Shape, Kept, PeriodicKept, Loses, ToBoot
  <2>3. QED
    BY <1>3, <2>1, <2>2 DEF Kept, Booted
<1>11. QED
  BY <1>6, <1>7, <1>8, <1>9, <1>10 DEF Shape, QueueStep

(* Starting the DHCP server arms its tick. *)
LEMMA DHCPS_StartShape ==
  ASSUME TypeInv, TypeInv', Shape, DHCPS_Start, ~ (InList \/ TickWillBeSet \/ TickMayBeSet)
  PROVE  Shape' /\ QueueStep
<1> DEFINE ms   == Interval["tick"]
           k    == Cardinality({i \in DOMAIN Path : Sum[i] <= ms})
           left == ms - Sum[k]
           succ == IF k = Len(Path) THEN NULL ELSE Path[k + 1]
           n    == memp_malloc
           less == Less(node, succ, left)
           rest == [less EXCEPT ![n] = [next |-> succ, time |-> left, h |-> "tick"]]
<1>1. /\ n # NULL /\ memp' = memp \ {n} /\ boot = <<>> /\ ~ Enable /\ Enable'
      /\ IF k = 0 THEN next_timeout' = n /\ node' = rest
         ELSE node' = [rest EXCEPT ![Path[k]].next = n] /\ next_timeout' = next_timeout
      /\ UNCHANGED <<pc, boot, h, timeout, t, tcpip_tcp_timer_active>>
  BY DEF DHCPS_Start
<1>2. ms \in Nat /\ "tick" \in Timers
  BY ConstantFacts DEF Timers
<1>3. PathGood /\ n \in memp /\ n \in Nodes
  BY <1>1, PathIsGood, MallocType DEF TypeInv, TypeOK
<1>4. /\ k \in 0 .. Len(Path) /\ Sum[k] <= ms
      /\ k < Len(Path) => Sum[k + 1] > ms
  <2>1. ListType
    BY TypeIsList DEF TypeInv
  <2> HIDE DEF ms
  <2>2. QED
    BY <1>2, <2>1, PlaceFacts
<1> HIDE DEF k, n
<1>5. /\ Due[k] = Sum[k] /\ (k < Len(Path) => Due[k + 1] = Sum[k + 1])
  BY <1>3, <1>4 DEF Due, PathGood
<1>6. succ = At(Path, k + 1)
  BY <1>3, <1>4 DEF PathGood, At
<1>7. Fits(Path, Due, k, Interval["tick"])
  BY <1>4, <1>5 DEF Fits
<1>8. node' = Linked(Path, Due, k, n, "tick", node) /\ next_timeout' = IF k = 0 THEN n ELSE next_timeout
  <2>1. left = Interval["tick"] - Due[k]
    BY <1>5
  <2> HIDE DEF left, succ, ms
  <2>2. QED
    BY <1>1, <1>6, <2>1 DEF Linked
<1>9. NotIn("tick", Path, node) /\ \A i \in 1 .. Len(Path) : Path[i] # n
  BY <1>1, <1>3 DEF Shape, Outside, PathGood, IsQueue
<1>10. Inserted(Path, Due, k, n, "tick", next_timeout, node, next_timeout', node')
  <2>1. /\ node \in [Nodes -> NodeType] /\ IsList(Path, Due, next_timeout, node)
        /\ IsQueue(Path, Due, node, memp)
    BY <1>3 DEF PathGood
  <2>2. QED
    BY <1>2, <1>3, <1>7, <1>8, <1>9, <2>1, LinkMakes, Zenon
<1>11. ArmsNow(k, n, "tick")
  BY <1>1, <1>2, <1>3, <1>7, <1>9, <1>10 DEF ArmsNow
<1>12. /\ IsList(Path', Due', next_timeout', node') /\ IsQueue(Path', Due', node', memp')
       /\ T!QueueNext /\ Gains(n, "tick")
  BY <1>11, ArmStep
<1>13. pc \notin {"subtract", "zero", "pop", "front", "walk", "link"} /\ (Handling => h # "tick")
  BY DEF InList, TickWillBeSet, TickMayBeSet, Handling, Placing
<1>14. Outside'
  <2>1. \A f : f # "tick" /\ NotIn(f, Path, node) => NotIn(f, Path', node')
    BY <1>12 DEF Gains
  <2>2. QED
    BY <1>1, <1>13, <2>1 DEF Shape, Outside, Waits, Handling, Placing
<1>15. Place'
  <2>1. CASE pc = "first"
    <3>1. /\ timeout \in Nodes /\ timeout \notin memp /\ node[timeout].h = h
          /\ \A i \in 1 .. Len(Path) : Path[i] # timeout
          /\ node[timeout].time = Interval[h] /\ node[timeout].next = NULL
      BY <2>1 DEF TypeInv, TypeOK, Shape, Place, Placing
    <3>2. timeout # n /\ timeout # succ /\ (k # 0 => timeout # Path[k])
      BY <1>3, <1>4, <1>6, <3>1, ConstantFacts DEF PathGood, At
    <3>3. node'[timeout] = node[timeout]
      <4>1. node \in [Nodes -> NodeType]
        BY <1>3 DEF PathGood
      <4> HIDE DEF succ, left
      <4>2. DOMAIN less = Nodes /\ less[timeout] = node[timeout]
        BY <3>1, <3>2, <4>1 DEF Less
      <4> HIDE DEF less
      <4>3. DOMAIN rest = Nodes /\ rest[timeout] = node[timeout]
        BY <3>1, <3>2, <4>2
      <4> HIDE DEF rest
      <4>4. QED
        BY <1>1, <3>1, <3>2, <4>3
    <3>4. \A i \in 1 .. Len(Path') : Path'[i] # timeout
      BY <1>12, <3>1, <3>2 DEF Gains, InPath
    <3>5. QED
      BY <1>1, <2>1, <3>1, <3>3, <3>4 DEF Place, Placing
  <2>2. CASE pc # "first"
    BY <1>1, <1>13, <2>2 DEF Place, Placing
  <2>3. QED
    BY <2>1, <2>2
<1>16. AtFirst'
  BY <1>1, <1>13 DEF AtFirst
<1>17. Kept'
  <2>1. NodesKept'
    BY <1>1, <1>12 DEF Shape, Kept, NodesKept, Gains, Placing
  <2>2. PeriodicKept'
    BY <1>1, <1>12 DEF Shape, Kept, PeriodicKept, Gains, InHand, ToBoot, Placing
  <2>3. QED
    BY <1>1, <2>1, <2>2 DEF Shape, Kept, Booted
<1>18. QED
  BY <1>12, <1>14, <1>15, <1>16, <1>17 DEF Shape, QueueStep

(* Removing position k takes it out, and no time is over: the sum that the *)
(* next one gets is a time due, which fits the width.                      *)
LEMMA UnlinkTakes ==
  ASSUME TypeInv, Shape, NEW k \in 1 .. Len(Path), Unlink(k)
  PROVE  TakesNow(k, 0)
<1> DEFINE n    == Path[k]
           succ == node[n].next
           sum  == (node[succ].time + node[n].time) % WIDTH
           more == IF succ = NULL THEN node ELSE [node EXCEPT ![succ].time = sum]
           rest == [more EXCEPT ![n] = Free]
<1>1. PathGood
  BY PathIsGood
<1>2. /\ IF k = 1 THEN next_timeout' = succ /\ node' = rest
         ELSE node' = [rest EXCEPT ![Path[k - 1]].next = succ] /\ next_timeout' = next_timeout
      /\ memp' = memp \cup {n}
  BY DEF Unlink
<1>3. /\ n \in Nodes /\ node[n].time \in Nat /\ succ = At(Path, k + 1) /\ Len(Path) \in Nat
      /\ node \in [Nodes -> NodeType]
  BY <1>1 DEF PathGood
<1>4. k < Len(Path) => /\ k + 1 \in 1 .. Len(Path) /\ succ = Path[k + 1]
                       /\ sum = node[succ].time + node[n].time
  <2> SUFFICES ASSUME k < Len(Path)
               PROVE  /\ k + 1 \in 1 .. Len(Path) /\ succ = Path[k + 1]
                      /\ sum = node[succ].time + node[n].time
    OBVIOUS
  <2>1. k + 1 \in 1 .. Len(Path) /\ succ = Path[k + 1]
    BY <1>3 DEF At
  <2>2. /\ Due[k + 1] = Due[(k + 1) - 1] + node[Path[k + 1]].time /\ (k + 1) - 1 = k
        /\ Due[k] = Due[k - 1] + node[n].time /\ Due[k - 1] \in Nat
        /\ node[Path[k + 1]].time \in Nat
    BY <1>1, <1>3, <2>1 DEF PathGood
  <2>3. Due[k + 1] <= Interval[node[Path[k + 1]].h] /\ node[Path[k + 1]].h \in Timers
    BY <1>1, <2>1 DEF PathGood, IsQueue
  <2>4. Interval[node[Path[k + 1]].h] \in 1 .. WIDTH - 1 /\ WIDTH \in Nat
    BY <2>3, ConstantFacts
  <2>5. node[succ].time = node[Path[k + 1]].time
    BY <2>1
  <2>6. node[succ].time + node[n].time \in 0 .. WIDTH - 1
    <3>1. Due[k + 1] = Due[k - 1] + node[n].time + node[succ].time
      BY <1>3, <2>2, <2>5
    <3>2. /\ Due[k - 1] + node[n].time + node[succ].time <= Interval[node[Path[k + 1]].h]
          /\ Due[k - 1] \in Nat /\ node[n].time \in Nat /\ node[succ].time \in Nat
      BY <1>3, <2>2, <2>3, <2>5, <3>1
    <3>3. \A a, b, c, w \in Nat : \A e \in 1 .. w - 1 : a + b + c <= e => c + b \in 0 .. w - 1
      OBVIOUS
    <3>4. QED
      BY <2>4, <3>2, <3>3
  <2>7. \A x \in 0 .. WIDTH - 1 : x % WIDTH = x
    BY ConstantFacts
  <2> HIDE DEF n, succ
  <2>8. QED
    BY <2>1, <2>6, <2>7
<1>5. k = Len(Path) => succ = NULL
  BY <1>3 DEF At
<1> HIDE DEF sum, succ, n
<1>6. DOMAIN more = Nodes
  BY <1>3
<1>7. ASSUME NEW i \in 1 .. Len(Path), i # k
      PROVE  /\ more[Path[i]].h = node[Path[i]].h /\ more[Path[i]].next = node[Path[i]].next
             /\ more[Path[i]].time = node[Path[i]].time + (IF i = k + 1 THEN node[n].time - 0 ELSE 0)
             /\ more[Path[i]] \in [next : Nodes \cup {NULL}, time : Nat, h : Timers \cup {None}]
  <2>1. Path[i] \in Nodes /\ node[Path[i]] \in NodeType /\ node[Path[i]].time \in Nat
    BY <1>1, <1>3 DEF PathGood
  <2>2. node[Path[i]] \in [next : Nodes \cup {NULL}, time : Nat, h : Timers \cup {None}]
    BY <2>1, ConstantFacts DEF NodeType
  <2>3. CASE i = k + 1
    <3>1. k < Len(Path)
      BY <1>3, <2>3
    <3>2. Path[i] = succ /\ succ # NULL /\ sum = node[Path[i]].time + node[n].time
      BY <1>4, <2>1, <2>3, <3>1, ConstantFacts
    <3>3. more = [node EXCEPT ![succ].time = sum]
      BY <3>2
    <3>4. more[Path[i]] = [node[Path[i]] EXCEPT !.time = sum]
      BY <1>3, <2>1, <3>2, <3>3
    <3>5. QED
      BY <1>3, <2>1, <2>2, <2>3, <3>2, <3>4
  <2>4. CASE i # k + 1
    <3>1. succ = NULL \/ Path[i] # succ
      BY <1>1, <1>3, <1>4, <1>5, <2>4 DEF PathGood
    <3>2. more[Path[i]] = node[Path[i]]
      BY <1>3, <2>1, <3>1
    <3>3. QED
      BY <2>1, <2>2, <2>4, <3>2
  <2>5. QED
    BY <2>3, <2>4
<1> HIDE DEF more
<1>8. DOMAIN rest = Nodes /\ \A i \in 1 .. Len(Path) : i # k => rest[Path[i]] = more[Path[i]]
  BY <1>1, <1>3, <1>6 DEF PathGood, n
<1> HIDE DEF rest
<1>9. ASSUME NEW i \in 1 .. Len(Path), i # k
      PROVE  /\ node'[Path[i]].h = node[Path[i]].h
             /\ node'[Path[i]].next = IF i = k - 1 THEN At(Path, k + 1) ELSE node[Path[i]].next
             /\ node'[Path[i]].time = node[Path[i]].time
                                      + (IF i = k + 1 THEN node[Path[k]].time - 0 ELSE 0)
  <2>1. CASE i = k - 1
    <3>1. k # 1 /\ Path[k - 1] = Path[i] /\ Path[i] \in Nodes
      BY <1>1, <2>1 DEF PathGood
    <3>2. node' = [rest EXCEPT ![Path[i]].next = succ]
      BY <1>2, <3>1
    <3>3. node'[Path[i]] = [more[Path[i]] EXCEPT !.next = succ]
      BY <1>8, <1>9, <3>1, <3>2
    <3>4. QED
      BY <1>3, <1>7, <1>9, <2>1, <3>3 DEF n
  <2>2. CASE i # k - 1
    <3>1. k # 1 => Path[i] # Path[k - 1] /\ k - 1 \in 1 .. Len(Path)
      BY <1>1, <1>3, <2>2 DEF PathGood
    <3>2. node'[Path[i]] = more[Path[i]]
      <4>1. Path[i] \in Nodes /\ rest[Path[i]] = more[Path[i]]
        BY <1>1, <1>8, <1>9 DEF PathGood
      <4>2. CASE k = 1
        BY <1>2, <4>1, <4>2
      <4>3. CASE k # 1
        <5>1. node' = [rest EXCEPT ![Path[k - 1]].next = succ]
          BY <1>2, <4>3
        <5>2. QED
          BY <1>8, <3>1, <4>1, <4>3, <5>1
      <4>4. QED
        BY <4>2, <4>3
    <3>3. QED
      BY <1>7, <1>9, <2>2, <3>2 DEF n
  <2>3. QED
    BY <2>1, <2>2
<1>10. next_timeout' = IF k = 1 THEN At(Path, 2) ELSE next_timeout
  BY <1>2, <1>3
<1>11. Taken(Path, k, 0, next_timeout, node, next_timeout', node')
  BY <1>9, <1>10 DEF Taken
<1>12. QED
  BY <1>2, <1>3, <1>11 DEF TakesNow, n

(* Stopping the DHCP server cancels its tick, if it is armed. *)
LEMMA DHCPS_StopShape ==
  ASSUME TypeInv, TypeInv', Shape, DHCPS_Stop, ~ (InList \/ TickWillBeSet)
  PROVE  Shape' /\ QueueStep
<1> DEFINE ticks == {k \in DOMAIN Path : node[Path[k]].h = "tick"}
<1>1. /\ ~ Enable' /\ boot = <<>>
      /\ IF ticks = {} THEN UNCHANGED list
         ELSE \E k \in ticks : (\A i \in ticks : k <= i) /\ Unlink(k)
      /\ UNCHANGED <<pc, boot, h, timeout, t, tcpip_tcp_timer_active>>
  BY DEF DHCPS_Stop
<1>2. PathGood /\ DOMAIN Path = 1 .. Len(Path)
  BY PathIsGood, LenProperties DEF PathGood, IsList
<1>3. /\ pc \notin {"subtract", "zero", "pop", "front", "walk", "link"}
      /\ Placing \/ pc = "alloc" => h # "tick"
  BY DEF InList, TickWillBeSet, Placing
<1>4. pc = "first" =>
        /\ timeout \in Nodes /\ timeout \notin memp /\ node[timeout].h = h
        /\ \A i \in 1 .. Len(Path) : Path[i] # timeout
        /\ node[timeout].time = Interval[h] /\ node[timeout].next = NULL
  BY DEF TypeInv, TypeOK, Shape, Place, Placing
<1>5. AtFirst'
  BY <1>1, <1>3 DEF AtFirst
<1>6. CASE ticks = {}
  <2>1. SameList /\ node' = node /\ memp' = memp /\ next_timeout' = next_timeout
    BY <1>1, <1>6, ListUnchanged
  <2>2. Path' = Path
    BY <2>1 DEF SameList
  <2>3. NotIn("tick", Path, node)
    BY <1>2, <1>6 DEF NotIn
  <2>4. Outside'
    BY <1>1, <1>3, <2>1, <2>2, <2>3 DEF Shape, Outside, Waits, Handling, Placing
  <2>5. Place'
    BY <1>1, <1>3, <1>4, <2>1, <2>2 DEF Place, Placing
  <2>6. Kept'
    BY <1>1, <2>1, <2>2 DEF Shape, Kept, NodesKept, InPath, PeriodicKept, InHand, ToBoot, Booted,
       Placing
  <2>7. QED
    BY <1>5, <2>1, <2>4, <2>5, <2>6, ShapeStays
<1>7. CASE ticks # {}
  <2>1. PICK k \in 1 .. Len(Path) : node[Path[k]].h = "tick" /\ Unlink(k)
    BY <1>1, <1>2, <1>7
  <2>2. TakesNow(k, 0)
    BY <2>1, UnlinkTakes
  <2>3. /\ IsList(Path', Due', next_timeout', node') /\ IsQueue(Path', Due', node', memp')
        /\ Queue' = QueueOf(T!Remove(Path, k), TakeSums(Path, Due, k, 0), node')
        /\ Loses(Path[k], "tick")
    BY <2>1, <2>2, TakeStep
  <2>4. T!QueueNext
    <3> DEFINE old == QueueOf(Path, Due, node)
    <3>1. node \in [Nodes -> NodeType] /\ IsList(Path, Due, next_timeout, node)
      BY <1>2 DEF PathGood
    <3>2. Taken(Path, k, 0, next_timeout, node, next_timeout', node')
      BY <2>2 DEF TakesNow
    <3>3. QueueOf(T!Remove(Path, k), TakeSums(Path, Due, k, 0), node') = T!Remove(old, k)
      <4>1. k \in 1 .. Len(Path)
        BY <2>1
      <4>2. QED
        BY <3>1, <3>2, <4>1, TakeCancels
    <3>4. Queue = old
      BY QueueIsOfList, TypeIsList DEF QueueFacts, TypeInv
    <3>5. k \in DOMAIN old
      BY <2>1 DEF QueueOf
    <3> HIDE DEF old
    <3>6. T!Cancel
      BY <2>3, <3>3, <3>4, <3>5 DEF T!Cancel
    <3>7. QED
      BY <3>6 DEF T!QueueNext
  <2>5. Outside'
    <3>1. /\ NotIn("tick", Path', node')
          /\ \A f : NotIn(f, Path, node) => NotIn(f, Path', node')
      BY <2>3 DEF Loses
    <3>2. QED
      BY <1>1, <1>3, <3>1 DEF Shape, Outside, Waits, Handling, Placing
  <2>6. Place'
    <3>1. CASE pc = "first"
      <4>1. /\ node'[timeout] = node[timeout]
            /\ timeout # Path[k]
        <5>1. timeout # Path[k] /\ (k # 1 => timeout # Path[k - 1]) /\ timeout \in Nodes
          BY <1>2, <1>4, <2>1, <3>1 DEF PathGood
        <5>2. timeout # node[Path[k]].next
          <6>1. node[Path[k]].next = At(Path, k + 1) /\ At(Path, k + 1) # timeout
            <7>1. node[Path[k]].next = At(Path, k + 1)
              BY <1>2, <2>1 DEF PathGood
            <7>2. timeout \in Nodes /\ NULL \notin Nodes /\ \A i \in 1 .. Len(Path) : Path[i] # timeout
              BY <1>4, <3>1, ConstantFacts
            <7>3. QED
              BY <7>1, <7>2 DEF At
          <6>2. QED
            BY <6>1
        <5>3. QED
          <6> DEFINE n    == Path[k]
                     succ == node[n].next
                     sum  == (node[succ].time + node[n].time) % WIDTH
                     more == IF succ = NULL THEN node ELSE [node EXCEPT ![succ].time = sum]
                     rest == [more EXCEPT ![n] = Free]
          <6>1. IF k = 1 THEN node' = rest ELSE node' = [rest EXCEPT ![Path[k - 1]].next = succ]
            BY <2>1 DEF Unlink
          <6>2. node \in [Nodes -> NodeType]
            BY <1>2 DEF PathGood
          <6> HIDE DEF sum, n, succ
          <6>3. DOMAIN more = Nodes /\ more[timeout] = node[timeout]
            BY <5>1, <5>2, <6>2 DEF n, succ
          <6> HIDE DEF more
          <6>4. DOMAIN rest = Nodes /\ rest[timeout] = node[timeout]
            BY <5>1, <6>3 DEF n
          <6> HIDE DEF rest
          <6>5. QED
            BY <5>1, <6>1, <6>4
      <4>2. memp' = memp \cup {Path[k]}
        BY <2>2 DEF TakesNow
      <4>3. \A i \in 1 .. Len(Path') : Path'[i] # timeout
        BY <1>4, <2>3, <3>1 DEF Loses, InPath
      <4>4. QED
        BY <1>1, <1>4, <3>1, <4>1, <4>2, <4>3 DEF Place, Placing
    <3>2. CASE pc # "first"
      BY <1>1, <1>3, <3>2 DEF Place, Placing
    <3>3. QED
      BY <3>1, <3>2
  <2>7. Kept'
    <3>1. NodesKept'
      <4>1. memp' = memp \cup {Path[k]}
        BY <2>2 DEF TakesNow
      <4>2. QED
        BY <1>1, <2>3, <4>1 DEF Shape, Kept, NodesKept, Loses, Placing
    <3>2. PeriodicKept'
      BY <1>1, <2>3 DEF Shape, Kept, PeriodicKept, Periodic, Loses, InHand, ToBoot, Placing
    <3>3. QED
      BY <1>1, <3>1, <3>2 DEF Shape, Kept, Booted
  <2>8. QED
    BY <1>5, <2>3, <2>4, <2>5, <2>6, <2>7 DEF Shape, QueueStep
<1>8. QED
  BY <1>6, <1>7

(* At first the list is empty, and so is the queue. *)
LEMMA InitShape == Init => ShapeInv /\ T!QueueInit
<1> SUFFICES ASSUME Init PROVE Shape /\ T!QueueInit
  BY DEF ShapeInv
<1> DEFINE s == [i \in 0 .. 0 |-> 0]
<1>1. TypeInv /\ ListType
  BY InitType, TypeIsList DEF TypeInv
<1>2. <<>> \in Seq(Nodes) /\ Len(<<>>) = 0
  BY EmptySeq
<1>3. IsList(<<>>, s, next_timeout, node)
  BY <1>2, ConstantFacts DEF IsList, At, Init
<1> HIDE DEF s
<1>4. Path = <<>> /\ Due = s
  BY <1>1, <1>3, ListIsUnique, Zenon DEF ListUnique
<1>5. Queue = QueueOf(Path, Due, node)
  BY <1>1, QueueIsOfList DEF QueueFacts
<1>6. Queue = <<>>
  BY <1>2, <1>4, <1>5 DEF QueueOf
<1>7. IsQueue(Path, Due, node, memp) /\ \A g : NotIn(g, Path, node)
  BY <1>2, <1>4 DEF IsQueue, NotIn
<1>8. pc = "boot"
  BY DEF Init
<1>9. Outside /\ Place /\ AtFirst
  BY <1>7, <1>8 DEF Outside, Waits, Handling, Placing, Place, AtFirst
<1>10. Kept
  BY <1>8 DEF Kept, NodesKept, PeriodicKept, ToBoot, Booted, Init
<1>11. QED
  BY <1>3, <1>4, <1>6, <1>7, <1>9, <1>10 DEF Shape, T!QueueInit

(* Every step keeps the shape and is a step of the queue, unless a call of *)
(* the other task falls into an operation.                                 *)
LEMMA NextShape ==
  ASSUME TypeInv, ShapeInv, [Next]_vars
  PROVE  ShapeInv' /\ (QueueStep \/ races' > 0)
<1>1. TypeInv' /\ races \in Nat
  BY NextType DEF TypeInv, TypeOK
<1>2. races' \in Nat
  BY <1>1 DEF TypeInv, TypeOK
<1>3. CASE races' > 0
  BY <1>3 DEF ShapeInv
<1>4. CASE races' = 0
  <2>1. races = 0
    <3>1. CASE UNCHANGED races
      BY <1>4, <3>1
    <3>2. CASE DHCPS_Start \/ DHCPS_Stop
      <4>1. races' = races \/ races' = races + 1
        <5>1. ASSUME NEW hit, Races(hit) PROVE races' = races \/ races' = races + 1
          BY <1>1, <5>1 DEF Races
        <5>2. CASE DHCPS_Start
          BY <5>1, <5>2 DEF DHCPS_Start
        <5>3. CASE DHCPS_Stop
          BY <5>1, <5>3 DEF DHCPS_Stop
        <5>4. QED
          BY <3>2, <5>2, <5>3
      <4>2. QED
        BY <1>1, <1>4, <4>1
    <3>3. QED
      BY <3>1, <3>2 DEF Next, Thread, vars, Boot, Fetch, PendTimeout, GetMessage, Count, Message,
         Expired, Pop, Handler, TickEnd, Alloc, First, Walk, LinkFront, Link, Arrive, OSTick
  <2>2. Shape
    BY <2>1 DEF ShapeInv
  <2>3. Shape' /\ QueueStep
    <3>1. CASE Thread
      BY <1>1, <2>2, <3>1, BootShape, FetchShape, PendTimeoutShape, GetMessageShape, CountShape,
         MessageShape, ExpiredShape, PopShape, HandlerShape, TickEndShape, AllocShape, FirstShape,
         WalkShape, LinkFrontShape, LinkShape DEF Thread
    <3>2. CASE DHCPS_Start
      <4>1. ~ (InList \/ TickWillBeSet \/ TickMayBeSet)
        BY <1>4, <2>1, <3>2 DEF DHCPS_Start, Races
      <4>2. QED
        BY <1>1, <2>2, <3>2, <4>1, DHCPS_StartShape
    <3>3. CASE DHCPS_Stop
      <4>1. ~ (InList \/ TickWillBeSet)
        BY <1>4, <2>1, <3>3 DEF DHCPS_Stop, Races
      <4>2. QED
        BY <1>1, <2>2, <3>3, <4>1, DHCPS_StopShape
    <3>4. CASE Arrive \/ OSTick
      BY <1>1, <2>2, <3>4, ArriveShape, OSTickShape
    <3>5. CASE UNCHANGED vars
      <4>1. UNCHANGED <<list, pc, boot, h, timeout, t, time_needed, flags>>
        BY <3>5 DEF vars, wait
      <4>2. SameList /\ node' = node /\ memp' = memp /\ next_timeout' = next_timeout
        BY <1>1, <2>2, <4>1, ListUnchanged
      <4>3. Path' = Path /\ Due' = Due
        BY <4>2 DEF SameList
      <4>4. Outside' /\ Place' /\ AtFirst'
        BY <2>2, <4>1, <4>2, <4>3 DEF Shape, Outside, Waits, Handling, Placing, Place, AtFirst, flags
      <4>5. Kept'
        BY <2>2, <4>1, <4>2, <4>3 DEF Shape, Kept, NodesKept, InPath, PeriodicKept, InHand, ToBoot,
           Booted, Placing
      <4>6. QED
        BY <4>2, <4>4, <4>5, ShapeStays
    <3>6. QED
      BY <3>1, <3>2, <3>3, <3>4, <3>5 DEF Next
  <2>4. QED
    BY <2>3 DEF ShapeInv
<1>5. QED
  BY <1>2, <1>3, <1>4

(* The list implements the queue of timers as long as no call of the other *)
(* task has fallen into an operation of the thread on it: setting or       *)
(* removing a timer, also while the thread is about to set another, moves  *)
(* no other one, and none is in it twice (timers.c:276-340, 440-475).      *)
THEOREM TimersImplementQueue == Spec => ImplementsQueue
<1>1. Init => TypeInv /\ ShapeInv /\ T!QueueInit
  BY InitType, InitShape
<1>2. TypeInv /\ [Next]_vars => TypeInv'
  BY NextType
<1>3. TypeInv /\ ShapeInv /\ [Next]_vars => ShapeInv' /\ [T!QueueNext \/ races' > 0]_Queue
  BY NextShape DEF QueueStep
<1>4. QED
  BY <1>1, <1>2, <1>3, PTL DEF Spec, ImplementsQueue

(* As long as no call of the other task has fallen into an operation on    *)
(* the list, no timer that runs all the time is lost (sys_timeout never    *)
(* lacks a node, timers.c:271-275), and the thread never takes the first   *)
(* timeout of an empty list (timers.c:444-450, 471).                       *)
THEOREM TimersNeverLost == Spec => [](races = 0 => TimersKept /\ pc # "undefined")
<1>1. Init => TypeInv /\ ShapeInv
  BY InitType, InitShape
<1>2. TypeInv /\ ShapeInv /\ [Next]_vars => TypeInv' /\ ShapeInv'
  BY NextType, NextShape
<1>3. TypeInv /\ ShapeInv => (races = 0 => TimersKept /\ pc # "undefined")
  <2> SUFFICES ASSUME TypeInv, Shape PROVE TimersKept /\ pc # "undefined"
    BY DEF ShapeInv
  <2>1. DOMAIN Path = 1 .. Len(Path)
    BY PathIsGood, LenProperties DEF PathGood, IsList
  <2>2. boot = <<>> => \A g \in Periodic : ~ ToBoot(g)
    BY DEF ToBoot
  <2>3. \A g : InHand(g) => h = g /\ pc \in {"handler", "alloc", "first", "front", "walk", "link"}
    BY DEF InHand, Placing
  <2>4. TimersKept
    BY <2>1, <2>2, <2>3 DEF Shape, Kept, PeriodicKept, NotIn, TimersKept
  <2>5. QED
    BY <2>4 DEF Shape, Kept, Booted
<1>4. QED
  BY <1>1, <1>2, <1>3, PTL DEF Spec
=============================================================================

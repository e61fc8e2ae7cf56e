---------------------------- MODULE Routes_proofs ----------------------------
(* Proofs about Routes, for every table of routes and requests of any length. *)
EXTENDS MCRequests, FiniteSetTheorems, SequenceTheorems, WellFoundedInduction, TLAPS

-----------------------------------------------------------------------------
(* Induction.  The library's rules take a predicate; these take a set.      *)

LEMMA LeastNumber ==
  ASSUME NEW T, T \subseteq Nat, T # {}
  PROVE  \E n \in T : \A m \in T : n <= m
<1> DEFINE R == OpToRel(<, Nat)
<1>1. IsWellFoundedOn(R, Nat)
  BY NatLessThanWellFounded
<1>2. ASSUME NEW x \in Nat, NEW y \in Nat, x < y PROVE <<x, y>> \in R
  BY <1>2, Zenon DEF OpToRel
<1> HIDE DEF R
<1>3. PICK n \in T : \A m \in T : <<m, n>> \notin R
  BY <1>1, WFMin
<1>4. \A m \in T : ~(m < n)
  BY <1>2, <1>3, Zenon
<1> QED
  BY <1>4

LEMMA SetInduction ==
  ASSUME NEW N \in Nat, NEW S, 0 \in S, \A n \in 0 .. N : n < N /\ n \in S => n + 1 \in S
  PROVE  0 .. N \subseteq S
<1> DEFINE T == (0 .. N) \ S
<1> SUFFICES ASSUME T # {} PROVE FALSE
  OBVIOUS
<1>1. PICK n \in T : \A m \in T : n <= m
  <2>1. T \subseteq Nat
    OBVIOUS
  <2> HIDE DEF T
  <2> QED
    BY <2>1, LeastNumber
<1>2. n # 0 /\ n \in 0 .. N /\ n - 1 \in 0 .. N /\ n - 1 < N /\ ~(n <= n - 1) /\ (n - 1) + 1 = n
  BY <1>1
<1>3. n - 1 \in S
  BY <1>1, <1>2
<1> QED
  BY <1>1, <1>2, <1>3

-----------------------------------------------------------------------------
(* The walk is the function its definition describes *)

\* From the nodes that a part of the request finds to those it leads to.
Onward(tree, at, part) == UNION {Child(tree, node, part) : node \in at}

\* g is the walk so far.
WalkUpTo(tree, path, g, n) ==
  g = [k \in 0 .. n |-> IF k = 0 THEN {<<>>} ELSE Onward(tree, g[k - 1], path[k])]

LEMMA WalkGoesOn ==
  ASSUME NEW tree, NEW path, NEW n \in Nat, NEW g, WalkUpTo(tree, path, g, n)
  PROVE  \E h : WalkUpTo(tree, path, h, n + 1)
<1> DEFINE h == [k \in 0 .. n + 1 |->
                   IF k = n + 1 THEN Onward(tree, g[n], path[n + 1]) ELSE g[k]]
<1>1. \A k \in 0 .. n :
        g[k] = IF k = 0 THEN {<<>>} ELSE Onward(tree, g[k - 1], path[k])
  BY DEF WalkUpTo
<1>2. ASSUME NEW k \in 0 .. n + 1
      PROVE  h[k] = IF k = 0 THEN {<<>>} ELSE Onward(tree, h[k - 1], path[k])
  <2>1. CASE k = n + 1
    BY <2>1
  <2>2. CASE k \in 0 .. n
    <3>1. h[k] = g[k] /\ (k # 0 => h[k - 1] = g[k - 1])
      BY <2>2
    <3> HIDE DEF h
    <3> QED
      BY <1>1, <2>2, <3>1
  <2> QED
    BY <2>1, <2>2
<1>3. h = [k \in 0 .. n + 1 |-> h[k]]
  OBVIOUS
<1> HIDE DEF h
<1>4. WalkUpTo(tree, path, h, n + 1)
  BY <1>2, <1>3 DEF WalkUpTo
<1> QED
  BY <1>4

LEMMA VisitedSteps ==
  ASSUME NEW tree, NEW path, Len(path) \in Nat
  PROVE  /\ Visited(tree, path)[0] = {<<>>}
         /\ \A k \in 1 .. Len(path) :
              Visited(tree, path)[k] = Onward(tree, Visited(tree, path)[k - 1], path[k])
<1> DEFINE N == Len(path)
           Some == {n \in 0 .. N : \E g : WalkUpTo(tree, path, g, n)}
<1>1. 0 \in Some
  <2>1. WalkUpTo(tree, path, [k \in {0} |-> {<<>>}], 0)
    BY DEF WalkUpTo
  <2> QED
    BY <2>1
<1>2. ASSUME NEW n \in 0 .. N, n < N, n \in Some PROVE n + 1 \in Some
  BY <1>2, WalkGoesOn
<1>3. N \in Some
  <2> HIDE DEF Some
  <2>1. 0 .. N \subseteq Some
    BY <1>1, <1>2, SetInduction
  <2> QED
    BY <2>1
<1>4. \E g : WalkUpTo(tree, path, g, N)
  BY <1>3
<1>5. WalkUpTo(tree, path, Visited(tree, path), N)
  <2>1. Visited(tree, path) = CHOOSE g : WalkUpTo(tree, path, g, N)
    BY DEF Visited, Onward, WalkUpTo
  <2> QED
    BY <1>4, <2>1
<1> HIDE DEF Some
<1>6. \A k \in 0 .. N : Visited(tree, path)[k] =
        IF k = 0 THEN {<<>>} ELSE Onward(tree, Visited(tree, path)[k - 1], path[k])
  BY <1>5 DEF WalkUpTo
<1> QED
  BY <1>6

-----------------------------------------------------------------------------
(* The tree *)

\* The parts of a table and of a request.
Alphabet(S) == {"*"} \cup Parameters \subseteq S
IsTable(table, S) == Alphabet(S) /\ \A r \in table : r.path \in Seq(S)

LEMMA PathPrefixes ==
  ASSUME NEW S, NEW p \in Seq(S), NEW k \in 0 .. Len(p)
  PROVE  /\ SubSeq(p, 1, k) \in Seq(S) /\ Len(SubSeq(p, 1, k)) = k
         /\ k < Len(p) =>
              p[k + 1] \in S /\ SubSeq(p, 1, k + 1) = Append(SubSeq(p, 1, k), p[k + 1])
         /\ SubSeq(p, 1, 0) = <<>> /\ SubSeq(p, 1, Len(p)) = p
         /\ DOMAIN p = 1 .. Len(p) /\ Len(p) \in Nat
<1>1. Len(p) \in Nat /\ DOMAIN p = 1 .. Len(p) /\ \A i \in 1 .. Len(p) : p[i] \in S
  BY LenProperties, ElementOfSeq
<1>2. SubSeq(p, 1, k) \in Seq(S) /\ Len(SubSeq(p, 1, k)) = k
  BY <1>1, SubSeqProperties
<1>3. ASSUME k < Len(p)
      PROVE  p[k + 1] \in S /\ SubSeq(p, 1, k + 1) = Append(SubSeq(p, 1, k), p[k + 1])
  <2>1. p[k + 1] \in S
    BY <1>1, <1>3
  <2>2. SubSeq(p, 1, k + 1) = SubSeq(p, 1, k) \o <<p[k + 1]>>
    <3>1. k + 1 \in 1 .. Len(p) /\ 1 \in 1 .. Len(p) /\ k + 1 \in 1 .. Len(p) /\ (k + 1) - 1 = k
      BY <1>1, <1>3
    <3> QED
      BY <3>1, SubSeqRecursiveSecond
  <2> QED
    BY <1>2, <2>1, <2>2, AppendIsConcat
<1>4. SubSeq(p, 1, 0) = <<>>
  BY SubSeqEmpty
<1>5. SubSeq(p, 1, Len(p)) = p
  BY SubSeqFull
<1> QED
  BY <1>1, <1>2, <1>3, <1>4, <1>5

LEMMA InTree ==
  ASSUME NEW S, NEW table, IsTable(table, S), NEW node \in Seq(S), NEW part \in S
  PROVE  Append(node, part) \in Tree(table) <=>
           \E q \in table : /\ Len(node) < Len(q.path)
                            /\ SubSeq(q.path, 1, Len(node)) = node
                            /\ q.path[Len(node) + 1] = part
<1> DEFINE n == Len(node)
<1>1. n \in Nat /\ Append(node, part) \in Seq(S) /\ Len(Append(node, part)) = n + 1
  BY LenProperties, AppendProperties
<1>2. ASSUME NEW q \in table, NEW k \in 0 .. Len(q.path), Append(node, part) = SubSeq(q.path, 1, k)
      PROVE  n < Len(q.path) /\ SubSeq(q.path, 1, n) = node /\ q.path[n + 1] = part
  <2>1. q.path \in Seq(S)
    BY DEF IsTable
  <2>2. k = n + 1
    BY <1>1, <1>2, <2>1, PathPrefixes
  <2>3. n \in 0 .. Len(q.path) /\ n < Len(q.path)
    BY <1>1, <2>1, <2>2, LenProperties
  <2>4. Append(node, part) = Append(SubSeq(q.path, 1, n), q.path[n + 1])
    BY <1>2, <2>1, <2>2, <2>3, PathPrefixes
  <2>5. SubSeq(q.path, 1, n) \in Seq(S) /\ q.path[n + 1] \in S
    BY <2>1, <2>3, PathPrefixes
  <2>6. node = SubSeq(q.path, 1, n) /\ part = q.path[n + 1]
    <3> DEFINE t == SubSeq(q.path, 1, n)
               e == q.path[n + 1]
    <3>1. Append(node, part) = Append(t, e) /\ t \in Seq(S) /\ e \in S
      BY <2>4, <2>5
    <3> HIDE DEF t, e
    <3>2. node = t /\ part = e
      BY <3>1, AppendInjective
    <3> QED
      BY <3>2 DEF t, e
  <2> QED
    BY <2>3, <2>6
<1>3. ASSUME NEW q \in table, n < Len(q.path), SubSeq(q.path, 1, n) = node, q.path[n + 1] = part
      PROVE  Append(node, part) = SubSeq(q.path, 1, n + 1) /\ n + 1 \in 0 .. Len(q.path)
  <2>1. q.path \in Seq(S)
    BY DEF IsTable
  <2>2. n \in 0 .. Len(q.path) /\ n + 1 \in 0 .. Len(q.path)
    BY <1>1, <1>3, <2>1, LenProperties
  <2> QED
    BY <1>3, <2>1, <2>2, PathPrefixes
<1> QED
  BY <1>2, <1>3 DEF Tree

\* The parts that routes have after a node.
Successors(table, node, S) ==
  {part \in S : Append(node, part) \in Tree(table)}

\* Where the walk goes from a node: the node's part itself, else its parameter, else *.
LEMMA ChildParts ==
  ASSUME NEW S, NEW table, IsTable(table, S), NEW node \in Seq(S), NEW part \in S, NEW x \in S
  PROVE  Append(node, x) \in Child(Tree(table), node, part) <=>
           /\ x \in Successors(table, node, S)
           /\ IF part \in Successors(table, node, S) THEN x = part
              ELSE IF Parameters \cap Successors(table, node, S) # {} THEN x \in Parameters
              ELSE x = "*"
<1> DEFINE tree == Tree(table)
           itself == {Append(node, part)} \cap tree
           parameter == {Append(node, p) : p \in Parameters} \cap tree
<1>0. \A y, z \in S : Append(node, y) = Append(node, z) => y = z
  BY AppendInjective
<1>1. itself # {} <=> part \in Successors(table, node, S)
  BY DEF Successors
<1>2. parameter # {} <=> Parameters \cap Successors(table, node, S) # {}
  BY DEF Successors, IsTable, Alphabet
<1>3. "*" \in S /\ Parameters \subseteq S
  BY DEF IsTable, Alphabet
<1>4. Append(node, x) \in itself <=> x = part /\ x \in Successors(table, node, S)
  BY <1>0 DEF Successors
<1>5. Append(node, x) \in parameter <=> x \in Parameters /\ x \in Successors(table, node, S)
  BY <1>0 DEF Successors, IsTable, Alphabet
<1>6. Append(node, x) \in {Append(node, "*")} \cap tree
        <=> x = "*" /\ x \in Successors(table, node, S)
  BY <1>0, <1>3 DEF Successors
<1>7. Child(tree, node, part) =
        IF itself # {} THEN itself
        ELSE IF parameter # {} THEN parameter ELSE {Append(node, "*")} \cap tree
  BY DEF Child, Alphabet
<1> HIDE DEF itself, parameter, tree
<1> QED
  BY <1>1, <1>2, <1>4, <1>5, <1>6, <1>7 DEF tree

\* A child is its node and one part more.
Extends(child, node, S) == \E x \in S : child = Append(node, x)

LEMMA ChildNodes ==
  ASSUME NEW S, NEW tree, Alphabet(S), NEW node \in Seq(S), NEW part \in S,
         NEW child \in Child(tree, node, part)
  PROVE  child \in tree /\ Extends(child, node, S)
BY DEF Child, Alphabet, Extends

LEMMA ExtendsOnce ==
  ASSUME NEW S, NEW node \in Seq(S), NEW child, Extends(child, node, S)
  PROVE  /\ child \in Seq(S) /\ Len(child) = Len(node) + 1
         /\ \A other \in Seq(S) : Extends(child, other, S) => other = node
<1>1. PICK x \in S : child = Append(node, x)
  BY DEF Extends
<1>2. child \in Seq(S) /\ Len(child) = Len(node) + 1
  BY <1>1, AppendProperties
<1>3. ASSUME NEW other \in Seq(S), Extends(child, other, S) PROVE other = node
  <2>1. PICK y \in S : child = Append(other, y)
    BY <1>3 DEF Extends
  <2>2. Append(node, x) = Append(other, y)
    BY <1>1, <2>1
  <2> QED
    BY <2>2, AppendInjective
<1> QED
  BY <1>2, <1>3

-----------------------------------------------------------------------------
(* The walk takes the most specific part at each step *)

\* r fits the request at part k, and of the routes that have come as far none that
\* fits too is more specific there.
Best(table, r, k, path) ==
  /\ Fits(r, k, path)
  /\ \A q \in table :
       /\ k \in DOMAIN q.path
       /\ SubSeq(q.path, 1, k - 1) = SubSeq(r.path, 1, k - 1)
       /\ Fits(q, k, path)
       => Rank(r.path[k]) <= Rank(q.path[k])

LEMMA BestPart ==
  ASSUME NEW F, NEW x \in F, NEW part, part # "*",
         \A y, z \in F \cap Parameters : y = z
  PROVE  (IF part \in F THEN x = part
          ELSE IF Parameters \cap F # {} THEN x \in Parameters ELSE x = "*")
         <=> /\ x \in Parameters \cup {part, "*"}
             /\ \A y \in F : y \in Parameters \cup {part, "*"} => Rank(x) <= Rank(y)
<1> USE ParameterAssumption
<1>1. \A y : Rank(y) \in 1 .. 3 /\ (Rank(y) = 3 <=> y = "*") /\ (Rank(y) = 2 <=> y \in Parameters)
  BY DEF Rank
<1>2. CASE part \in F /\ part \notin Parameters
  <2>1. Rank(part) = 1
    BY <1>1, <1>2
  <2>2. x \in Parameters \cup {part, "*"} /\ Rank(x) <= 1 => x = part
    BY <1>1
  <2> QED
    BY <1>1, <1>2, <2>1, <2>2
<1>3. CASE part \in F /\ part \in Parameters
  <2>1. Rank(part) = 2 /\ \A y \in F : y \in Parameters => y = part
    BY <1>1, <1>3
  <2>2. \A y \in F : y \in Parameters \cup {part, "*"} => Rank(y) \in {2, 3}
    BY <1>1, <1>3
  <2>3. x \in Parameters \cup {part, "*"} /\ Rank(x) <= 2 => x = part
    BY <1>1, <1>3, <2>1
  <2> QED
    BY <1>1, <1>3, <2>1, <2>2, <2>3
<1>4. CASE part \notin F /\ Parameters \cap F # {}
  <2>1. PICK p \in F : p \in Parameters
    BY <1>4
  <2>2. Rank(p) = 2 /\ \A y \in F : y \in Parameters \cup {part, "*"} => Rank(y) \in {2, 3}
    BY <1>1, <1>4, <2>1
  <2> QED
    BY <1>1, <1>4, <2>1, <2>2
<1>5. CASE part \notin F /\ Parameters \cap F = {}
  <2>1. \A y \in F : y \in Parameters \cup {part, "*"} => y = "*"
    BY <1>5
  <2> QED
    BY <1>1, <1>5, <2>1
<1> QED
  BY <1>2, <1>3, <1>4, <1>5

\* A node has one parameter at most.
LEMMA OneParameter ==
  ASSUME NEW S, NEW table, IsTable(table, S), Accepted(table), NEW node \in Seq(S),
         NEW y \in Parameters, NEW z \in Parameters,
         y \in Successors(table, node, S), z \in Successors(table, node, S)
  PROVE  y = z
<1> DEFINE k == Len(node) + 1
<1>1. k \in Nat \ {0} /\ k - 1 = Len(node)
  BY LenProperties
<1>2. PICK q \in table : Len(node) < Len(q.path) /\ SubSeq(q.path, 1, Len(node)) = node
                         /\ q.path[k] = y
  BY InTree DEF Successors
<1>3. PICK r \in table : Len(node) < Len(r.path) /\ SubSeq(r.path, 1, Len(node)) = node
                         /\ r.path[k] = z
  BY InTree DEF Successors
<1>4. q.path \in Seq(S) /\ r.path \in Seq(S)
  BY DEF IsTable
<1>5. k \in DOMAIN q.path /\ k \in DOMAIN r.path
  BY <1>1, <1>2, <1>3, <1>4, LenProperties
<1>6. CASE q # r
  <2>1. Registered(table \ {r}, r) /\ q \in table \ {r}
    BY <1>6 DEF Accepted
  <2>2. {q.path[k], r.path[k]} \subseteq Parameters
    BY <1>2, <1>3
  <2>3. SubSeq(q.path, 1, k - 1) = SubSeq(r.path, 1, k - 1)
    BY <1>1, <1>2, <1>3
  <2> HIDE DEF k
  <2>4. q.path[k] = r.path[k]
    BY <1>5, <2>1, <2>2, <2>3 DEF Registered
  <2> QED
    BY <1>2, <1>3, <2>4
<1> QED
  BY <1>2, <1>3, <1>6

LEMMA StepIsBest ==
  ASSUME NEW S, NEW table, IsTable(table, S), Accepted(table), NEW path \in Seq(S),
         NEW r \in table, NEW k \in 1 .. Len(path), k <= Len(r.path), path[k] # "*"
  PROVE  SubSeq(r.path, 1, k) \in Child(Tree(table), SubSeq(r.path, 1, k - 1), path[k])
           <=> Best(table, r, k, path)
<1> DEFINE node == SubSeq(r.path, 1, k - 1)
           x == r.path[k]
           F == Successors(table, node, S)
<1>1. r.path \in Seq(S) /\ Len(r.path) \in Nat /\ Len(path) \in Nat /\ path[k] \in S
  BY LenProperties, ElementOfSeq DEF IsTable
<1>2. k - 1 \in 0 .. Len(r.path) /\ k - 1 < Len(r.path) /\ (k - 1) + 1 = k
  BY <1>1
<1>3. node \in Seq(S) /\ Len(node) = k - 1 /\ x \in S /\ SubSeq(r.path, 1, k) = Append(node, x)
  BY <1>1, <1>2, PathPrefixes
<1>4. ASSUME NEW y \in S
      PROVE  y \in F <=> \E q \in table : /\ k \in DOMAIN q.path
                                          /\ SubSeq(q.path, 1, k - 1) = node
                                          /\ q.path[k] = y
  <2>1. \A q \in table : k \in DOMAIN q.path <=> k - 1 < Len(q.path)
    BY <1>1, LenProperties DEF IsTable
  <2> HIDE DEF node
  <2> QED
    BY <1>2, <1>3, <2>1, InTree DEF Successors
<1>5. x \in F
  <2>1. k \in DOMAIN r.path
    BY <1>1, LenProperties
  <2> QED
    BY <1>3, <1>4, <2>1
<1>6. SubSeq(r.path, 1, k) \in Child(Tree(table), node, path[k]) <=>
        IF path[k] \in F THEN x = path[k]
        ELSE IF Parameters \cap F # {} THEN x \in Parameters ELSE x = "*"
  <2> HIDE DEF node, x
  <2>1. Append(node, x) \in Child(Tree(table), node, path[k]) <=>
          /\ x \in F
          /\ IF path[k] \in F THEN x = path[k]
             ELSE IF Parameters \cap F # {} THEN x \in Parameters ELSE x = "*"
    BY <1>1, <1>3, ChildParts
  <2> HIDE DEF F
  <2> QED
    BY <1>3, <1>5, <2>1
<1>7. \A y, z \in F \cap Parameters : y = z
  <2> HIDE DEF node
  <2> QED
    BY <1>3, OneParameter
<1>8. Best(table, r, k, path) <=>
        /\ x \in Parameters \cup {path[k], "*"}
        /\ \A y \in F : y \in Parameters \cup {path[k], "*"} => Rank(x) <= Rank(y)
  <2>1. F \subseteq S
    BY DEF Successors
  <2>2. \A q \in table : k \in DOMAIN q.path => q.path[k] \in S
    BY LenProperties, ElementOfSeq DEF IsTable
  <2> HIDE DEF F
  <2> QED
    BY <1>4, <2>1, <2>2 DEF Best, Fits
<1> HIDE DEF F, node, x
<1> QED
  BY <1>5, <1>6, <1>7, <1>8, BestPart DEF node

AtDepth(nodes, k, S) == \A node \in nodes : node \in Seq(S) /\ Len(node) = k

LEMMA VisitedNodes ==
  ASSUME NEW S, NEW tree, Alphabet(S), NEW path \in Seq(S)
  PROVE  \A k \in 0 .. Len(path) : AtDepth(Visited(tree, path)[k], k, S)
<1> DEFINE V == Visited(tree, path)
           K == {k \in 0 .. Len(path) : \A node \in V[k] : node \in Seq(S) /\ Len(node) = k}
<1>1. Len(path) \in Nat /\ \A k \in 1 .. Len(path) : path[k] \in S
  BY LenProperties, ElementOfSeq
<1>2. V[0] = {<<>>} /\ \A k \in 1 .. Len(path) : V[k] = Onward(tree, V[k - 1], path[k])
  BY <1>1, VisitedSteps
<1> HIDE DEF V
<1>3. 0 \in K
  <2>1. \A node \in V[0] : node = <<>>
    BY <1>2
  <2>2. <<>> \in Seq(S) /\ Len(<<>>) = 0
    BY EmptySeq
  <2>3. \A node \in V[0] : node \in Seq(S) /\ Len(node) = 0
    BY <2>1, <2>2
  <2> QED
    BY <1>1, <2>3
<1>4. ASSUME NEW k \in 0 .. Len(path), k < Len(path), k \in K PROVE k + 1 \in K
  <2>1. k + 1 \in 1 .. Len(path) /\ (k + 1) - 1 = k
    BY <1>1, <1>4
  <2>2. V[k + 1] = UNION {Child(tree, node, path[k + 1]) : node \in V[k]}
    BY <1>2, <2>1 DEF Onward
  <2>3. ASSUME NEW child \in V[k + 1] PROVE child \in Seq(S) /\ Len(child) = k + 1
    <3>1. PICK node \in V[k] : child \in Child(tree, node, path[k + 1])
      BY <2>2
    <3>2. node \in Seq(S) /\ Len(node) = k
      BY <1>4, <3>1
    <3>3. path[k + 1] \in S
      BY <1>1, <2>1
    <3>4. Extends(child, node, S)
      BY <3>1, <3>2, <3>3, ChildNodes
    <3> QED
      BY <3>2, <3>4, ExtendsOnce
  <2> QED
    BY <1>1, <2>1, <2>3
<1>5. 0 .. Len(path) \subseteq K
  <2> HIDE DEF K
  <2> QED
    BY <1>1, <1>3, <1>4, SetInduction
<1> QED
  BY <1>5 DEF V, AtDepth

\* The walk goes along a route as long as the route is the best.
LEMMA VisitedBest ==
  ASSUME NEW S, NEW table, IsTable(table, S), Accepted(table), NEW path \in Seq(S),
         \A k \in DOMAIN path : path[k] # "*"
  PROVE  \A k \in 0 .. Len(path) : \A r \in table : k <= Len(r.path) =>
           (SubSeq(r.path, 1, k) \in Visited(Tree(table), path)[k]
              <=> \A j \in 1 .. k : Best(table, r, j, path))
<1> DEFINE tree == Tree(table)
           V == Visited(tree, path)
           Along(r, k) ==
             SubSeq(r.path, 1, k) \in V[k] <=> \A j \in 1 .. k : Best(table, r, j, path)
           K == {k \in 0 .. Len(path) : \A r \in table : k <= Len(r.path) => Along(r, k)}
<1>1. /\ Len(path) \in Nat /\ DOMAIN path = 1 .. Len(path)
      /\ \A k \in 1 .. Len(path) : path[k] \in S /\ path[k] # "*"
  BY LenProperties, ElementOfSeq
<1>2. V[0] = {<<>>} /\ \A k \in 1 .. Len(path) : V[k] = Onward(tree, V[k - 1], path[k])
  BY <1>1, VisitedSteps
<1>3. \A k \in 0 .. Len(path) : \A node \in V[k] : node \in Seq(S) /\ Len(node) = k
  <2>1. Alphabet(S)
    BY DEF IsTable
  <2>2. \A k \in 0 .. Len(path) : AtDepth(V[k], k, S)
    BY <2>1, VisitedNodes
  <2> QED
    BY <2>2 DEF AtDepth
<1>4. Alphabet(S) /\ \A r \in table : r.path \in Seq(S)
  BY DEF IsTable
<1> HIDE DEF V, tree
<1>5. 0 \in K
  <2>1. ASSUME NEW r \in table PROVE SubSeq(r.path, 1, 0) \in V[0]
    BY <1>2, SubSeqEmpty
  <2> QED
    BY <1>1, <2>1
<1>6. ASSUME NEW k \in 0 .. Len(path), k < Len(path), k \in K PROVE k + 1 \in K
  <2> DEFINE m == k + 1
  <2>1. m \in 1 .. Len(path) /\ m \in 0 .. Len(path) /\ m - 1 = k /\ k \in Nat
    BY <1>1, <1>6
  <2>2. V[m] = UNION {Child(tree, node, path[m]) : node \in V[k]}
    BY <1>2, <2>1 DEF Onward
  <2> HIDE DEF m
  <2>3. ASSUME NEW r \in table, m <= Len(r.path) PROVE Along(r, m)
    <3> DEFINE here == SubSeq(r.path, 1, k)
               next == SubSeq(r.path, 1, m)
    <3>1. r.path \in Seq(S) /\ k \in 0 .. Len(r.path) /\ k < Len(r.path) /\ m = k + 1
      BY <1>4, <2>1, <2>3, LenProperties
    <3>2. here \in Seq(S) /\ r.path[m] \in S /\ next = Append(here, r.path[m])
      BY <3>1, PathPrefixes
    <3>3. ASSUME NEW node \in V[k], next \in Child(tree, node, path[m]) PROVE node = here
      <4>1. node \in Seq(S)
        BY <1>3
      <4>2. path[m] \in S
        BY <1>1, <2>1
      <4>3. Extends(next, node, S)
        BY <1>4, <3>3, <4>1, <4>2, ChildNodes
      <4>4. Extends(next, here, S)
        BY <3>2 DEF Extends
      <4> HIDE DEF here, next
      <4> QED
        BY <3>2, <4>1, <4>3, <4>4, ExtendsOnce
    <3>4. next \in V[m] <=> here \in V[k] /\ next \in Child(tree, here, path[m])
      BY <2>2, <3>3
    <3>5. next \in Child(tree, here, path[m]) <=> Best(table, r, m, path)
      <4>1. path[m] # "*" /\ m <= Len(r.path) /\ m \in 1 .. Len(path) /\ k = m - 1
        BY <1>1, <2>1, <2>3
      <4> QED
        BY <4>1, StepIsBest DEF tree
    <3>6. here \in V[k] <=> \A j \in 1 .. k : Best(table, r, j, path)
      BY <1>6, <3>1
    <3>7. 1 .. m = (1 .. k) \cup {m}
      BY <2>1, <3>1
    <3> HIDE DEF here
    <3> QED
      BY <3>4, <3>5, <3>6, <3>7
  <2>4. m \in K
    BY <2>1, <2>3
  <2> QED
    BY <2>4 DEF m
<1>7. 0 .. Len(path) \subseteq K
  <2> HIDE DEF K
  <2> QED
    BY <1>1, <1>5, <1>6, SetInduction
<1> QED
  BY <1>7 DEF V, tree

\* Whatever routes a server has registered and whatever is requested, the walk finds
\* the route that matches and that no other one is preferred to at any part: it finds
\* none only if each that matches has lost to a more specific part on the way.
THEOREM WalkMostSpecific ==
  ASSUME NEW S, NEW table, IsTable(table, S), Accepted(table), NEW path \in Seq(S),
         \A k \in DOMAIN path : path[k] # "*"
  PROVE  Reached(table, Tree(table), path) =
           {r \in table : Matches(r, path) /\ MostSpecific(table, r, path)}
<1> DEFINE N == Len(path)
           V == Visited(Tree(table), path)
<1>1. N \in 0 .. N /\ DOMAIN path = 1 .. N
  BY LenProperties
<1>2. Reached(table, Tree(table), path) = {r \in table : r.path \in V[N]}
  BY DEF Reached, Walk
<1>3. ASSUME NEW r \in table
      PROVE  r.path \in V[N] <=> Matches(r, path) /\ MostSpecific(table, r, path)
  <2>1. r.path \in Seq(S) /\ SubSeq(r.path, 1, Len(r.path)) = r.path
    BY SubSeqFull DEF IsTable
  <2>2. r.path \in V[N] => Len(r.path) = N
    <3>1. Alphabet(S)
      BY DEF IsTable
    <3>2. \A k \in 0 .. Len(path) : AtDepth(V[k], k, S)
      BY <3>1, VisitedNodes
    <3> HIDE DEF V
    <3> QED
      BY <1>1, <3>2 DEF AtDepth
  <2>3. Len(r.path) = N => (r.path \in V[N] <=> \A j \in 1 .. N : Best(table, r, j, path))
    <3>1. ASSUME Len(r.path) = N
          PROVE  SubSeq(r.path, 1, N) \in V[N] <=> \A j \in 1 .. N : Best(table, r, j, path)
      BY <1>1, <3>1, VisitedBest
    <3> QED
      BY <2>1, <3>1
  <2>4. (\A j \in 1 .. N : Best(table, r, j, path)) <=>
          (\A j \in DOMAIN path : Fits(r, j, path)) /\ MostSpecific(table, r, path)
    BY <1>1 DEF Best, MostSpecific
  <2> HIDE DEF V, N
  <2> QED
    BY <2>2, <2>3, <2>4 DEF Matches, N
<1> QED
  BY <1>2, <1>3

-----------------------------------------------------------------------------
(* The walk reaches one node at most, and a method of a node has one handler *)

LEMMA OneChild ==
  ASSUME NEW S, NEW table, IsTable(table, S), Accepted(table), NEW node \in Seq(S),
         NEW part \in S, NEW a \in Child(Tree(table), node, part),
         NEW b \in Child(Tree(table), node, part)
  PROVE  a = b
<1> DEFINE F == Successors(table, node, S)
<1>1. Alphabet(S)
  BY DEF IsTable
<1>2. Extends(a, node, S) /\ Extends(b, node, S)
  BY <1>1, ChildNodes
<1>3. PICK x \in S : a = Append(node, x)
  BY <1>2 DEF Extends
<1>4. PICK y \in S : b = Append(node, y)
  BY <1>2 DEF Extends
<1>5. /\ x \in F
      /\ IF part \in F THEN x = part
         ELSE IF Parameters \cap F # {} THEN x \in Parameters ELSE x = "*"
  BY <1>3, ChildParts
<1>6. /\ y \in F
      /\ IF part \in F THEN y = part
         ELSE IF Parameters \cap F # {} THEN y \in Parameters ELSE y = "*"
  BY <1>4, ChildParts
<1>7. x \in Parameters /\ y \in Parameters => x = y
  BY <1>5, <1>6, OneParameter
<1> HIDE DEF F
<1> QED
  BY <1>3, <1>4, <1>5, <1>6, <1>7

LEMMA OneVisited ==
  ASSUME NEW S, NEW table, IsTable(table, S), Accepted(table), NEW path \in Seq(S)
  PROVE  \A a, b \in Walk(Tree(table), path) : a = b
<1> DEFINE tree == Tree(table)
           V == Visited(tree, path)
           K == {k \in 0 .. Len(path) : \A a, b \in V[k] : a = b}
<1>1. Len(path) \in Nat /\ \A k \in 1 .. Len(path) : path[k] \in S
  BY LenProperties, ElementOfSeq
<1>2. V[0] = {<<>>} /\ \A k \in 1 .. Len(path) : V[k] = Onward(tree, V[k - 1], path[k])
  BY <1>1, VisitedSteps
<1>3. \A k \in 0 .. Len(path) : AtDepth(V[k], k, S)
  BY VisitedNodes DEF IsTable
<1>4. \A node \in Seq(S), part \in S : \A a, b \in Child(tree, node, part) : a = b
  BY OneChild
<1> HIDE DEF V, tree
<1>5. 0 \in K
  BY <1>1, <1>2
<1>6. ASSUME NEW k \in 0 .. Len(path), k < Len(path), k \in K PROVE k + 1 \in K
  <2>1. k + 1 \in 1 .. Len(path) /\ k + 1 \in 0 .. Len(path) /\ (k + 1) - 1 = k
    BY <1>1, <1>6
  <2>2. V[k + 1] = UNION {Child(tree, node, path[k + 1]) : node \in V[k]}
    BY <1>2, <2>1 DEF Onward
  <2>3. ASSUME NEW a \in V[k + 1], NEW b \in V[k + 1] PROVE a = b
    <3>1. PICK node \in V[k] : a \in Child(tree, node, path[k + 1])
      BY <2>2
    <3>2. b \in Child(tree, node, path[k + 1])
      BY <1>6, <2>2
    <3>3. node \in Seq(S) /\ path[k + 1] \in S
      BY <1>1, <1>3, <2>1 DEF AtDepth
    <3> QED
      BY <1>4, <3>1, <3>2, <3>3
  <2> QED
    BY <2>1, <2>3
<1>7. 0 .. Len(path) \subseteq K
  <2> HIDE DEF K
  <2> QED
    BY <1>1, <1>5, <1>6, SetInduction
<1>8. Len(path) \in K
  BY <1>1, <1>7
<1> QED
  BY <1>8 DEF Walk, V, tree

\* A request that is given to a handler is given to one: no two routes that rest has
\* accepted are both selected, by whatever order they were registered in.
THEOREM OneHandler ==
  ASSUME NEW S, NEW table, IsTable(table, S), Accepted(table), NEW path \in Seq(S), NEW method
  PROVE  \A q, r \in Selected(Reached(table, Tree(table), path), method) : q = r
<1> SUFFICES ASSUME NEW q \in Selected(Reached(table, Tree(table), path), method),
                    NEW r \in Selected(Reached(table, Tree(table), path), method)
             PROVE  q = r
  OBVIOUS
<1>1. /\ q \in table /\ r \in table /\ q.method = r.method
      /\ q.path \in Walk(Tree(table), path) /\ r.path \in Walk(Tree(table), path)
  BY DEF Selected, Reached
<1>2. q.path = r.path
  BY <1>1, OneVisited
<1>3. Registered(table \ {r}, r)
  BY <1>1 DEF Accepted
<1> QED
  BY <1>1, <1>2, <1>3 DEF Registered

-----------------------------------------------------------------------------
(* Tables in which no constant part stands beside a parameter *)

Unmixed(table) ==
  \A q, r \in table : \A k \in (DOMAIN q.path) \cap DOMAIN r.path :
    SubSeq(q.path, 1, k - 1) = SubSeq(r.path, 1, k - 1) =>
      r.path[k] # "*" /\ (q.path[k] \in Parameters <=> r.path[k] \in Parameters)

\* In such a table every route that matches a request is the most specific one.
THEOREM UnmixedHidesNone ==
  ASSUME NEW S, NEW table, IsTable(table, S), Accepted(table), Unmixed(table),
         NEW path \in Seq(S), \A k \in DOMAIN path : path[k] # "*"
  PROVE  Reached(table, Tree(table), path) = {r \in table : Matches(r, path)}
<1>1. ASSUME NEW r \in table, Matches(r, path) PROVE MostSpecific(table, r, path)
  <2>1. r.path \in Seq(S) /\ Len(r.path) = Len(path) /\ \A k \in DOMAIN path : Fits(r, k, path)
    BY <1>1 DEF Matches, IsTable
  <2>2. DOMAIN r.path = DOMAIN path
    BY <2>1, LenProperties
  <2>3. ASSUME NEW k \in DOMAIN path, NEW q \in table, k \in DOMAIN q.path,
               SubSeq(q.path, 1, k - 1) = SubSeq(r.path, 1, k - 1), Fits(q, k, path)
        PROVE  Rank(r.path[k]) <= Rank(q.path[k])
    <3>1. /\ r.path[k] # "*" /\ q.path[k] # "*"
          /\ q.path[k] \in Parameters <=> r.path[k] \in Parameters
      BY <2>2, <2>3 DEF Unmixed
    <3>2. r.path[k] \in Parameters \cup {path[k]} /\ q.path[k] \in Parameters \cup {path[k]}
      BY <2>1, <2>3, <3>1 DEF Fits
    <3> QED
      BY <3>1, <3>2 DEF Rank
  <2> QED
    BY <2>3 DEF MostSpecific
<1> QED
  BY <1>1, WalkMostSpecific

-----------------------------------------------------------------------------
(* The routes of the two servers: a collection, one of its members by its id, or *)
(* what is done to a router                                                     *)

Tops == {"", "extensions", "networks", "ports", "subnets", "routers", "security-groups",
         "security-group-rules", "floatingips", "tech", "tokens", "tenants"}
Verbs == {"add_router_interface", "remove_router_interface"}
IdOf(top) ==
  CASE top = "extensions" -> "{alias}"
    [] top = "networks" -> "{network_id}"
    [] top = "ports" -> "{port_id}"
    [] top = "subnets" -> "{subnet_id}"
    [] top = "routers" -> "{router_id}"
    [] top = "security-groups" -> "{security_group_id}"
    [] OTHER -> "{security_group_rule_id}"

Whole(p) == \E top \in Tops : p = <<top>>
Member(p) == \E top \in Tops : p = <<top, IdOf(top)>>
Verbal(p) == \E verb \in Verbs : p = <<"routers", "{router_id}", verb>>

\* The handler of a route, by its method and path.
ListOf(top) ==
  CASE top = "" -> "get_default"
    [] top = "extensions" -> "get_extensions"
    [] top = "networks" -> "get_networks"
    [] top = "ports" -> "get_ports"
    [] top = "subnets" -> "get_subnets"
    [] top = "routers" -> "get_routers"
    [] top = "security-groups" -> "get_security_groups"
    [] top = "security-group-rules" -> "get_security_group_rules"
    [] top = "floatingips" -> "get_floating_ips"
    [] top = "tenants" -> "get_tenants"
    [] OTHER -> "get_debug"
AddTo(top) ==
  CASE top = "networks" -> "post_networks"
    [] top = "ports" -> "post_ports"
    [] top = "subnets" -> "post_subnets"
    [] top = "routers" -> "post_routers"
    [] top = "security-groups" -> "post_security_groups"
    [] top = "tokens" -> "post_tokens"
    [] OTHER -> "post_security_group_rule"
Show(top) ==
  CASE top = "extensions" -> "show_extension"
    [] top = "networks" -> "show_network"
    [] top = "ports" -> "show_port"
    [] top = "subnets" -> "show_subnet"
    [] top = "routers" -> "get_router"
    [] top = "security-groups" -> "show_security_group"
    [] OTHER -> "show_security_group_rule"
Update(top) ==
  CASE top = "networks" -> "put_network"
    [] top = "ports" -> "put_ports"
    [] top = "subnets" -> "put_subnets"
    [] top = "routers" -> "put_router"
    [] OTHER -> "put_security_group"
Drop(top) ==
  CASE top = "networks" -> "delete_network"
    [] top = "ports" -> "delete_port"
    [] top = "subnets" -> "delete_subnet"
    [] top = "routers" -> "delete_router"
    [] top = "security-groups" -> "delete_security_group"
    [] OTHER -> "delete_security_group_rule"
Act(verb) ==
  IF verb = "add_router_interface" THEN "put_add_router_inerface"
                                   ELSE "put_remove_router_interface"
HandlerOf(method, p) ==
  CASE Len(p) = 1 /\ method = "GET" -> ListOf(p[1])
    [] Len(p) = 1 /\ method # "GET" -> AddTo(p[1])
    [] Len(p) = 2 /\ method = "GET" -> Show(p[1])
    [] Len(p) = 2 /\ method = "PUT" -> Update(p[1])
    [] Len(p) = 2 /\ method \notin {"GET", "PUT"} -> Drop(p[1])
    [] OTHER -> Act(p[3])

Regular(r) ==
  /\ r = Route(r.method, r.path, HandlerOf(r.method, r.path))
  /\ Whole(r.path) \/ Member(r.path) \/ Verbal(r.path)

LEMMA RegularRoute ==
  ASSUME NEW m, NEW p, NEW h, h = HandlerOf(m, p), Whole(p) \/ Member(p) \/ Verbal(p)
  PROVE  Regular(Route(m, p, h))
<1>1. Route(m, p, h).method = m /\ Route(m, p, h).path = p
  BY DEF Route
<1> QED
  BY <1>1 DEF Regular

LEMMA Handlers ==
  /\ \A top : HandlerOf("GET", <<top>>) = ListOf(top) /\ HandlerOf("POST", <<top>>) = AddTo(top)
  /\ \A top, id : /\ HandlerOf("GET", <<top, id>>) = Show(top)
                  /\ HandlerOf("PUT", <<top, id>>) = Update(top)
                  /\ HandlerOf("DELETE", <<top, id>>) = Drop(top)
  /\ \A top, id, verb : HandlerOf("PUT", <<top, id, verb>>) = Act(verb)
<1>1. \A top : HandlerOf("GET", <<top>>) = ListOf(top) /\ HandlerOf("POST", <<top>>) = AddTo(top)
  BY DEF HandlerOf
<1>2. \A top, id : /\ HandlerOf("GET", <<top, id>>) = Show(top)
                   /\ HandlerOf("PUT", <<top, id>>) = Update(top)
                   /\ HandlerOf("DELETE", <<top, id>>) = Drop(top)
  BY DEF HandlerOf
<1>3. \A top, id, verb : HandlerOf("PUT", <<top, id, verb>>) = Act(verb)
  BY DEF HandlerOf
<1> QED
  BY <1>1, <1>2, <1>3

LEMMA Names ==
  /\ ListOf("") = "get_default" /\ ListOf("extensions") = "get_extensions"
  /\ ListOf("networks") = "get_networks" /\ ListOf("ports") = "get_ports"
  /\ ListOf("subnets") = "get_subnets" /\ ListOf("routers") = "get_routers"
  /\ ListOf("security-groups") = "get_security_groups"
  /\ ListOf("security-group-rules") = "get_security_group_rules"
  /\ ListOf("floatingips") = "get_floating_ips" /\ ListOf("tech") = "get_debug"
  /\ ListOf("tenants") = "get_tenants"
  /\ AddTo("networks") = "post_networks" /\ AddTo("ports") = "post_ports"
  /\ AddTo("subnets") = "post_subnets" /\ AddTo("routers") = "post_routers"
  /\ AddTo("security-groups") = "post_security_groups"
  /\ AddTo("security-group-rules") = "post_security_group_rule"
  /\ AddTo("tokens") = "post_tokens"
  /\ Show("extensions") = "show_extension" /\ Show("networks") = "show_network"
  /\ Show("ports") = "show_port" /\ Show("subnets") = "show_subnet"
  /\ Show("routers") = "get_router" /\ Show("security-groups") = "show_security_group"
  /\ Show("security-group-rules") = "show_security_group_rule"
  /\ Update("networks") = "put_network" /\ Update("ports") = "put_ports"
  /\ Update("subnets") = "put_subnets" /\ Update("routers") = "put_router"
  /\ Update("security-groups") = "put_security_group"
  /\ Drop("networks") = "delete_network" /\ Drop("ports") = "delete_port"
  /\ Drop("subnets") = "delete_subnet" /\ Drop("routers") = "delete_router"
  /\ Drop("security-groups") = "delete_security_group"
  /\ Drop("security-group-rules") = "delete_security_group_rule"
  /\ Act("add_router_interface") = "put_add_router_inerface"
  /\ Act("remove_router_interface") = "put_remove_router_interface"
BY DEF ListOf, AddTo, Show, Update, Drop, Act

LEMMA Shapes ==
  /\ \A top \in Tops : Whole(<<top>>) /\ Member(<<top, IdOf(top)>>)
  /\ \A verb \in Verbs : Verbal(<<"routers", "{router_id}", verb>>)
  /\ IdOf("extensions") = "{alias}" /\ IdOf("networks") = "{network_id}"
  /\ IdOf("ports") = "{port_id}" /\ IdOf("subnets") = "{subnet_id}"
  /\ IdOf("routers") = "{router_id}" /\ IdOf("security-groups") = "{security_group_id}"
  /\ IdOf("security-group-rules") = "{security_group_rule_id}"
  /\ "" \in Tops /\ "extensions" \in Tops /\ "networks" \in Tops /\ "ports" \in Tops
  /\ "subnets" \in Tops /\ "routers" \in Tops /\ "security-groups" \in Tops
  /\ "security-group-rules" \in Tops /\ "floatingips" \in Tops /\ "tech" \in Tops
  /\ "tokens" \in Tops /\ "tenants" \in Tops
  /\ "add_router_interface" \in Verbs /\ "remove_router_interface" \in Verbs
<1>1. /\ \A top \in Tops : Whole(<<top>>) /\ Member(<<top, IdOf(top)>>)
      /\ \A verb \in Verbs : Verbal(<<"routers", "{router_id}", verb>>)
  BY Zenon DEF Whole, Member, Verbal
<1>2. /\ IdOf("extensions") = "{alias}" /\ IdOf("networks") = "{network_id}"
      /\ IdOf("ports") = "{port_id}" /\ IdOf("subnets") = "{subnet_id}"
      /\ IdOf("routers") = "{router_id}" /\ IdOf("security-groups") = "{security_group_id}"
      /\ IdOf("security-group-rules") = "{security_group_rule_id}"
  BY DEF IdOf
<1> QED
  BY <1>1, <1>2, Zenon DEF Tops, Verbs

LEMMA RegularKinds ==
  /\ \A top \in Tops : /\ Regular(Route("GET", <<top>>, ListOf(top)))
                       /\ Regular(Route("POST", <<top>>, AddTo(top)))
                       /\ Regular(Route("GET", <<top, IdOf(top)>>, Show(top)))
                       /\ Regular(Route("PUT", <<top, IdOf(top)>>, Update(top)))
                       /\ Regular(Route("DELETE", <<top, IdOf(top)>>, Drop(top)))
  /\ \A verb \in Verbs : Regular(Route("PUT", <<"routers", "{router_id}", verb>>, Act(verb)))
BY RegularRoute, Handlers, Shapes, Zenon

LEMMA NeutronRegular ==
  ASSUME NEW r \in NeutronRoutes
  PROVE  Regular(r)
BY RegularKinds, Names, Shapes, ZenonT(100) DEF NeutronRoutes, InterfaceRoutes

LEMMA KeystoneRegular ==
  ASSUME NEW r \in KeystoneRoutes
  PROVE  Regular(r)
BY RegularKinds, Names, Shapes, ZenonT(100) DEF KeystoneRoutes

ServerParts == {"*"} \cup Parameters \cup Tops \cup Verbs

LEMMA PartsOfRoutes ==
  /\ \A top \in Tops : /\ top \notin Parameters /\ top # "*" /\ top \in ServerParts
                       /\ IdOf(top) \in Parameters /\ IdOf(top) # "*"
                       /\ IdOf(top) \in ServerParts
  /\ \A verb \in Verbs : verb \notin Parameters /\ verb # "*" /\ verb \in ServerParts
<1>1. \A top \in Tops : top \notin Parameters /\ top # "*" /\ top \in ServerParts
  BY RoutePartAssumption DEF Tops, ServerParts
<1>2. \A verb \in Verbs : verb \notin Parameters /\ verb # "*" /\ verb \in ServerParts
  BY RoutePartAssumption DEF Verbs, ServerParts
<1>3. \A top : IdOf(top) \in Parameters
  BY RoutePartAssumption DEF IdOf
<1>4. \A part \in Parameters : part # "*" /\ part \in ServerParts
  BY ParameterAssumption DEF ServerParts
<1> QED
  BY <1>1, <1>2, <1>3, <1>4

\* Every second part is a parameter and no other one is.
LEMMA RegularPath ==
  ASSUME NEW r, Regular(r)
  PROVE  /\ r.path \in Seq(ServerParts)
         /\ DOMAIN r.path = 1 .. Len(r.path) /\ Len(r.path) \in 1 .. 3
         /\ \A k \in DOMAIN r.path :
              r.path[k] # "*" /\ (r.path[k] \in Parameters <=> k = 2)
         /\ 2 \in DOMAIN r.path => r.path[2] = IdOf(r.path[1])
<1> DEFINE p == r.path
<1> HIDE DEF p
<1> USE PartsOfRoutes
<1>1. CASE Whole(p)
  <2>1. PICK top \in Tops : p = <<top>>
    BY <1>1 DEF Whole
  <2>2. Len(p) = 1 /\ DOMAIN p = 1 .. 1 /\ p[1] = top /\ p \in Seq(ServerParts)
    BY <2>1
  <2> QED
    BY <2>2 DEF p
<1>2. CASE Member(p)
  <2>1. PICK top \in Tops : p = <<top, IdOf(top)>>
    BY <1>2 DEF Member
  <2>2. /\ Len(p) = 2 /\ DOMAIN p = 1 .. 2 /\ p[1] = top /\ p[2] = IdOf(top)
        /\ p \in Seq(ServerParts)
    BY <2>1
  <2> QED
    BY <2>2 DEF p
<1>3. CASE Verbal(p)
  <2>1. PICK verb \in Verbs : p = <<"routers", "{router_id}", verb>>
    BY <1>3 DEF Verbal
  <2>2. PICK top \in Tops : top = "routers"
    BY Shapes
  <2>3. p = <<top, IdOf(top), verb>>
    BY <2>1, <2>2, Shapes, Zenon
  <2>4. Len(p) = 3 /\ DOMAIN p = 1 .. 3 /\ p[1] = top /\ p[2] = IdOf(top) /\ p[3] = verb
    BY <2>3
  <2>5. p \in Seq(ServerParts)
    BY <2>3
  <2>6. \A k \in 1 .. 3 : k = 1 \/ k = 2 \/ k = 3
    OBVIOUS
  <2>7. \A k \in 1 .. 3 : p[k] # "*" /\ (p[k] \in Parameters <=> k = 2)
    BY <2>4, <2>6
  <2> QED
    BY <2>4, <2>5, <2>7 DEF p
<1> QED
  BY <1>1, <1>2, <1>3 DEF Regular, p

LEMMA RegularTable ==
  ASSUME NEW table, \A r \in table : Regular(r)
  PROVE  IsTable(table, ServerParts) /\ Accepted(table) /\ Unmixed(table)
<1>1. IsTable(table, ServerParts)
  BY RegularPath DEF IsTable, Alphabet, ServerParts
<1>2. Unmixed(table)
  BY RegularPath DEF Unmixed
<1>3. ASSUME NEW r \in table PROVE Registered(table \ {r}, r)
  <2>1. ASSUME NEW j \in DOMAIN r.path, NEW k \in DOMAIN r.path,
               r.path[j] = r.path[k], r.path[j] \in Parameters
        PROVE  j = k
    BY <2>1, RegularPath
  <2>2. ASSUME NEW q \in table \ {r}, NEW k \in DOMAIN r.path, k \in DOMAIN q.path,
               SubSeq(q.path, 1, k - 1) = SubSeq(r.path, 1, k - 1),
               {q.path[k], r.path[k]} \subseteq Parameters
        PROVE  q.path[k] = r.path[k]
    <3>1. k = 2
      BY <2>2, RegularPath
    <3>2. /\ r.path \in Seq(ServerParts) /\ DOMAIN r.path = 1 .. Len(r.path)
          /\ r.path[2] = IdOf(r.path[1]) /\ Len(r.path) \in Nat
      BY <3>1, RegularPath
    <3>3. /\ q.path \in Seq(ServerParts) /\ DOMAIN q.path = 1 .. Len(q.path)
          /\ q.path[2] = IdOf(q.path[1]) /\ Len(q.path) \in Nat
      BY <2>2, <3>1, RegularPath
    <3>4. SubSeq(q.path, 1, 1) = SubSeq(r.path, 1, 1)
      BY <2>2, <3>1
    <3>5. SubSeq(q.path, 1, 1)[1] = q.path[1] /\ SubSeq(r.path, 1, 1)[1] = r.path[1]
      BY <2>2, <3>1, <3>2, <3>3
    <3> QED
      BY <3>1, <3>2, <3>3, <3>4, <3>5
  <2>3. ASSUME NEW q \in table \ {r} PROVE <<q.method, q.path>> # <<r.method, r.path>>
    BY DEF Regular
  <2> QED
    BY <2>1, <2>2, <2>3 DEF Registered
<1> QED
  BY <1>1, <1>2, <1>3 DEF Accepted

LEMMA LargerAlphabet ==
  ASSUME NEW S, NEW T, NEW table, IsTable(table, S), S \subseteq T
  PROVE  IsTable(table, T)
BY SeqMonotonic DEF IsTable, Alphabet

\* Neutron and Keystone give every request, however long its path, the one handler
\* of the route that matches its path and method, and refuse it when there is none.
THEOREM ServersHideNone ==
  ASSUME NEW table \in {NeutronRoutes, KeystoneRoutes}, NEW S, NEW path \in Seq(S),
         \A k \in DOMAIN path : path[k] # "*"
  PROVE  /\ Accepted(table)
         /\ Reached(table, Tree(table), path) = {r \in table : Matches(r, path)}
         /\ \A method : \A q, r \in Selected(Reached(table, Tree(table), path), method) : q = r
<1> DEFINE T == S \cup ServerParts
<1>1. IsTable(table, ServerParts) /\ Accepted(table) /\ Unmixed(table)
  BY NeutronRegular, KeystoneRegular, RegularTable
<1>2. IsTable(table, T) /\ path \in Seq(T)
  BY <1>1, LargerAlphabet, SeqMonotonic
<1> HIDE DEF T
<1>3. Reached(table, Tree(table), path) = {r \in table : Matches(r, path)}
  BY <1>1, <1>2, UnmixedHidesNone
<1>4. \A method : \A q, r \in Selected(Reached(table, Tree(table), path), method) : q = r
  BY <1>1, <1>2, OneHandler
<1> QED
  BY <1>1, <1>3, <1>4

-----------------------------------------------------------------------------
(* What the run checks *)

LEMMA PathsAreSequences ==
  ASSUME NEW parts, NEW length \in Nat, NEW path \in PathsOf(parts, length)
  PROVE  path \in Seq(parts) /\ \A k \in DOMAIN path : path[k] \in parts
<1>1. PICK n \in 1 .. length : path \in [1 .. n -> parts]
  BY DEF PathsOf
<1>2. n \in Nat
  BY <1>1
<1>3. path \in Seq(parts)
  BY <1>1, <1>2, SeqDef
<1> QED
  BY <1>1, <1>3

\* The walk finds the most specific route in every small table: an instance of
\* WalkMostSpecific.
THEOREM SmallTablesWalkWell == Spec => []WalkFindsMostSpecific
<1> DEFINE S == {"a", "b", "c", "{x}", "{y}", "*"} \cup Parameters
<1>1. ASSUME NEW table \in SmallTables, NEW path \in PathsOf({"a", "c"}, 2)
      PROVE  Reached(table, Tree(table), path) =
               {r \in table : Matches(r, path) /\ MostSpecific(table, r, path)}
  <2>1. Accepted(table) /\ table \subseteq SmallRoutes
    BY DEF SmallTables
  <2>2. ASSUME NEW r \in table PROVE r.path \in Seq(S)
    <3>1. PICK p \in PathsOf({"a", "b", "{x}", "{y}", "*"}, 2) : r = Route("GET", p, p)
      BY <2>1 DEF SmallRoutes
    <3>2. r.path = p
      BY <3>1 DEF Route
    <3>3. p \in Seq({"a", "b", "{x}", "{y}", "*"})
      BY PathsAreSequences
    <3>4. {"a", "b", "{x}", "{y}", "*"} \subseteq S
      OBVIOUS
    <3> HIDE DEF S
    <3> QED
      BY <3>2, <3>3, <3>4, SeqMonotonic
  <2>3. IsTable(table, S)
    BY <2>2 DEF IsTable, Alphabet
  <2>4. path \in Seq({"a", "c"}) /\ \A k \in DOMAIN path : path[k] \in {"a", "c"}
    BY PathsAreSequences
  <2>5. {"a", "c"} \subseteq S
    OBVIOUS
  <2> HIDE DEF S
  <2>6. path \in Seq(S)
    BY <2>4, <2>5, SeqMonotonic
  <2>7. \A k \in DOMAIN path : path[k] # "*"
    BY <2>4
  <2> QED
    BY <2>1, <2>3, <2>6, <2>7, WalkMostSpecific
<1>2. WalkFindsMostSpecific
  BY <1>1 DEF WalkFindsMostSpecific, WalksWell
<1> QED
  BY <1>2, PTL

LEMMA OneAtMost ==
  ASSUME NEW X, \A x, y \in X : x = y
  PROVE  Cardinality(X) <= 1
<1>1. CASE X = {}
  BY <1>1, FS_EmptySet
<1>2. ASSUME NEW x \in X PROVE X = {x} /\ Cardinality({x}) = 1
  BY FS_Singleton
<1> QED
  BY <1>1, <1>2

LEMMA ServerHidesNone ==
  ASSUME NEW table \in {NeutronRoutes, KeystoneRoutes}
  PROVE  HidesNone(table)
<1>1. ASSUME NEW part \in Parts PROVE part # "*"
  <2>1. CASE part = "id"
    BY <2>1
  <2>2. ASSUME NEW r \in NeutronRoutes \cup KeystoneRoutes, part \in Range(r.path)
        PROVE  part # "*"
    <3>1. Regular(r)
      BY NeutronRegular, KeystoneRegular
    <3> QED
      BY <2>2, <3>1, RegularPath DEF Range
  <2> QED
    BY <2>1, <2>2 DEF Parts
<1>2. ASSUME NEW path \in PathsOf(Parts, 3)
      PROVE  path \in Seq(Parts) /\ \A k \in DOMAIN path : path[k] # "*"
  BY <1>1, PathsAreSequences
<1>3. ASSUME NEW path \in PathsOf(Parts, 3)
      PROVE  LET rows == Reached(table, Tree(table), path)
             IN /\ rows = {r \in table : Matches(r, path)}
                /\ \A method \in Methods : Cardinality(Selected(rows, method)) <= 1
  BY <1>2, ServersHideNone, OneAtMost
<1>4. Accepted(table)
  BY NeutronRegular, KeystoneRegular, RegularTable
<1> QED
  BY <1>3, <1>4 DEF HidesNone

\* No route of Neutron or Keystone hides another: an instance of ServersHideNone.
THEOREM RoutesAreReached == Spec => []NoRouteHidden
<1>1. NoRouteHidden
  BY ServerHidesNone DEF NoRouteHidden, NeutronHidesNone, KeystoneHidesNone
<1> QED
  BY <1>1, PTL
=============================================================================

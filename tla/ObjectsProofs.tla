---------------------------- MODULE ObjectsProofs ----------------------------
(***************************************************************************)
(* PlacedOnce, WeightsAddUp and TypeOK, for any number of objects,         *)
(* characters and rooms: an object is in one place, where its pointer and  *)
(* a list lead to each other, nothing is within itself, and everything     *)
(* weighs what it is by itself and what is in it.  Each function of        *)
(* handler.c has a lemma that says what it needs of the objects it is      *)
(* given and what it leaves, one for the places and one for the weights;   *)
(* the actions are sequences of them.  What is in an object, to any depth, *)
(* is the least set closed under contents, what an object is in the least  *)
(* closed the other way, and a sum over a finite set goes up the set's     *)
(* subsets: facts about nesting are facts about closed sets, facts about   *)
(* sums come from a smallest subset that has none, and neither needs       *)
(* induction.                                                              *)
(***************************************************************************)
EXTENDS Objects, TLAPS, WellFoundedInduction, FiniteSetTheorems

Pointers ==
  [listed : SUBSET Objs, held : [Holders -> SUBSET Objs], worn : [Chars -> SUBSET Objs],
   in_room : [Objs -> Rooms \union {Null}], carried_by : [Objs -> Chars \union {Null}],
   worn_by : [Objs -> Chars \union {Null}], in_obj : [Objs -> Objs \union {Null}]]

Sound(at) ==
  at \in Pointers /\ LinksAgree(at) /\ OnePlace(at) /\ NoCycle(at) /\ OnlyListed(at)

\* Objects that are there and can be put somewhere.
Loose(at) == Nowhere(at) \intersect at.listed

\* Sound, with objects d that have no place, and nothing with anybody but of p;
\* nobody wears a corpse.
Fine(at, p, d) ==
  /\ Sound(at) /\ Loose(at) = d
  /\ \A o \in Objs : /\ at.carried_by[o] \in p \union {Null}
                     /\ at.worn_by[o] \in p \union {Null}
                     /\ Kind[o] = "corpse" => at.worn_by[o] = Null

ClosedUnderContents(at, S) == \A x \in S : at.held[x] \subseteq S

-----------------------------------------------------------------------------
\* Objects, characters and rooms are different things, and none of them is Null.
LEMMA Apart ==
  /\ Objs \intersect Chars = {} /\ Objs \intersect Rooms = {} /\ Chars \intersect Rooms = {}
  /\ Null \notin Objs \union Chars \union Rooms /\ Here \in Rooms
BY ObjectsAssumption

-----------------------------------------------------------------------------
(* Sums over finite sets *)

\* A set of natural numbers has a least element.
LEMMA MinElement ==
  ASSUME NEW S, S \subseteq Nat, S # {}
  PROVE  \E x \in S : \A y \in S : x <= y
<1> DEFINE R == {p \in Nat \X Nat : p[1] < p[2]}
<1>1. IsWellFoundedOn(R, Nat)
  BY NatLessThanWellFounded DEF OpToRel
<1>2. PICK x \in S : \A y \in S : ~(<<y, x>> \in R)
  BY <1>1, WFMin
<1>3. ASSUME NEW y \in S PROVE x <= y
  <2>1. x \in Nat /\ y \in Nat /\ <<y, x>> \notin R
    BY <1>2
  <2>2. ~(y < x)
    BY <2>1
  <2> QED
    BY <2>1, <2>2
<1> QED
  BY <1>3

\* Among finite sets there is one that holds no other of them: how induction over
\* finite sets is done here.
LEMMA MinimalSet ==
  ASSUME NEW S, IsFiniteSet(S), NEW F, F \subseteq SUBSET S, F # {}
  PROVE  \E s \in F : IsFiniteSet(s) /\ \A t \in SUBSET s : t # s => t \notin F
<1> DEFINE N == {Cardinality(s) : s \in F}
<1>1. \A s \in F : IsFiniteSet(s) /\ Cardinality(s) \in Nat
  BY FS_Subset, FS_CardinalityType
<1>2. N \subseteq Nat /\ N # {}
  BY <1>1
<1>3. PICK n \in N : \A m \in N : n <= m
  <2> HIDE DEF N
  <2> QED
    BY <1>2, MinElement
<1>4. PICK s \in F : n = Cardinality(s)
  BY <1>3
<1>5. ASSUME NEW t \in SUBSET s, t # s PROVE t \notin F
  <2>1. /\ Cardinality(t) \in Nat /\ n \in Nat /\ Cardinality(t) <= n
        /\ n = Cardinality(t) => s = t
    BY <1>1, <1>4, FS_Subset, FS_CardinalityType
  <2>2. ~(n <= Cardinality(t))
    BY <1>5, <2>1
  <2>3. Cardinality(t) \notin N
    BY <1>3, <2>2
  <2> QED
    BY <2>3
<1> QED
  BY <1>1, <1>4, <1>5

\* The sum of f over S, as MapThenSumSet takes it: g has the sums over all of S's subsets.
First(s) == CHOOSE x \in s : TRUE
Sums(f, S, g) ==
  g = [s \in SUBSET S |-> IF s = {} THEN 0 ELSE f[First(s)] + g[s \ {First(s)}]]
Table(f, S) == CHOOSE g : Sums(f, S, g)
Sum(f, S) == Table(f, S)[S]

\* The model's sums are these.
LEMMA WeightIsSum ==
  ASSUME NEW s, NEW O
  PROVE  Weight(s, O) = Sum(s.mass.weight, O)
BY DEF Weight, MapThenSumSet, MapThenFoldSet, Sum, Table, Sums, First

LEMMA FirstIs == ASSUME NEW s, s # {} PROVE First(s) \in s
BY DEF First

LEMMA SumsAre ==
  ASSUME NEW f, NEW S, NEW g, Sums(f, S, g), NEW s \in SUBSET S
  PROVE  g[s] = IF s = {} THEN 0 ELSE f[First(s)] + g[s \ {First(s)}]
BY DEF Sums

LEMMA TableAt ==
  ASSUME NEW f, NEW S, Sums(f, S, Table(f, S)), NEW s \in SUBSET S
  PROVE  Table(f, S)[s]
           = IF s = {} THEN 0 ELSE f[First(s)] + Table(f, S)[s \ {First(s)}]
<1> PICK g : g = Table(f, S)
  OBVIOUS
<1> QED
  BY SumsAre

\* There is one such function at most, whatever set it is made for.
LEMMA SumsAgree ==
  ASSUME NEW f, NEW S, NEW T, T \subseteq S, IsFiniteSet(S),
         NEW g, NEW h, Sums(f, S, g), Sums(f, T, h)
  PROVE  \A s \in SUBSET T : g[s] = h[s]
<1> DEFINE F == {s \in SUBSET T : g[s] # h[s]}
<1> SUFFICES ASSUME F # {} PROVE FALSE
  OBVIOUS
<1>1. F \subseteq SUBSET T
  OBVIOUS
<1>2. PICK s \in F : IsFiniteSet(s) /\ \A t \in SUBSET s : t # s => t \notin F
  <2> HIDE DEF F
  <2> QED
    BY <1>1, MinimalSet
<1>3. s # {} /\ First(s) \in s
  BY <1>2, SumsAre, FirstIs
<1>4. s \ {First(s)} \notin F /\ s \ {First(s)} \in SUBSET T
  BY <1>2, <1>3
<1>5. g[s \ {First(s)}] = h[s \ {First(s)}]
  BY <1>4
<1>6. s \in SUBSET S /\ s \in SUBSET T
  BY <1>2
<1> QED
  BY <1>2, <1>3, <1>5, <1>6, SumsAre

LEMMA TableIs ==
  ASSUME NEW f, NEW S, IsFiniteSet(S)
  PROVE  Sums(f, S, Table(f, S))
<1> DEFINE F == {s \in SUBSET S : ~\E g : Sums(f, s, g)}
<1> SUFFICES ASSUME F # {} PROVE FALSE
  <2>1. S \in SUBSET S
    OBVIOUS
  <2> QED
    BY <2>1 DEF Table
<1>1. F \subseteq SUBSET S
  OBVIOUS
<1>2. PICK t \in F : IsFiniteSet(t) /\ \A s \in SUBSET t : s # t => s \notin F
  <2> HIDE DEF F
  <2> QED
    BY <1>1, MinimalSet
<1>3. \A s \in SUBSET t : s # t => Sums(f, s, Table(f, s)) /\ IsFiniteSet(s)
  <2>1. \A s \in SUBSET t : s # t => s \in SUBSET S /\ s \notin F
    BY <1>2
  <2> QED
    BY <2>1, FS_Subset DEF Table
<1> DEFINE g == [s \in SUBSET t |-> IF s = {} THEN 0
                                   ELSE f[First(s)] + Sum(f, s \ {First(s)})]
<1>4. ASSUME NEW s \in SUBSET t, s # {}
      PROVE  g[s \ {First(s)}] = Sum(f, s \ {First(s)})
  <2> DEFINE v == s \ {First(s)}
             w == v \ {First(v)}
  <2>1. v \in SUBSET t /\ v # t /\ w \in SUBSET t /\ w # t /\ w \subseteq v
    BY <1>4, FirstIs
  <2>2. Sums(f, v, Table(f, v)) /\ Sums(f, w, Table(f, w)) /\ IsFiniteSet(v)
    BY <1>3, <2>1
  <2>3. Table(f, v)[w] = Table(f, w)[w]
    <3> HIDE DEF g, v, w
    <3>1. \A x \in SUBSET w : Table(f, v)[x] = Table(f, w)[x]
      BY <2>1, <2>2, SumsAgree
    <3> QED
      BY <3>1
  <2>4. Sum(f, v) = IF v = {} THEN 0 ELSE f[First(v)] + Table(f, v)[w]
    <3>1. v \in SUBSET v
      OBVIOUS
    <3>2. Table(f, v)[v] = IF v = {} THEN 0 ELSE f[First(v)] + Table(f, v)[v \ {First(v)}]
      <4> HIDE DEF v
      <4> QED
        BY <2>2, <3>1, TableAt
    <3> QED
      BY <3>2 DEF Sum
  <2>5. g[v] = IF v = {} THEN 0 ELSE f[First(v)] + Sum(f, w)
    BY <2>1
  <2> HIDE DEF g, v, w
  <2> QED
    BY <2>3, <2>4, <2>5 DEF Sum, v
<1>5. Sums(f, t, g)
  BY <1>4 DEF Sums
<1> QED
  BY <1>2, <1>5

LEMMA TablesAgree ==
  ASSUME NEW f, NEW S, IsFiniteSet(S), NEW T \in SUBSET S
  PROVE  Table(f, S)[T] = Sum(f, T)
<1>1. Sums(f, S, Table(f, S)) /\ Sums(f, T, Table(f, T))
  BY TableIs, FS_Subset
<1>2. \A s \in SUBSET T : Table(f, S)[s] = Table(f, T)[s]
  BY <1>1, SumsAgree
<1> QED
  BY <1>2 DEF Sum

LEMMA SumOfNone == ASSUME NEW f PROVE Sum(f, {}) = 0
<1>1. Sums(f, {}, Table(f, {}))
  BY TableIs, FS_EmptySet
<1> QED
  BY <1>1, SumsAre DEF Sum

LEMMA SumOfFirst ==
  ASSUME NEW f, NEW S, IsFiniteSet(S), S # {}
  PROVE  Sum(f, S) = f[First(S)] + Sum(f, S \ {First(S)})
<1> DEFINE T == S \ {First(S)}
<1>1. T \subseteq S /\ IsFiniteSet(T)
  BY FS_Subset
<1>2. Sums(f, S, Table(f, S)) /\ Sums(f, T, Table(f, T))
  BY <1>1, TableIs
<1>3. Table(f, S)[T] = Sum(f, T)
  BY <1>1, TablesAgree
<1>4. Table(f, S)[S] = f[First(S)] + Table(f, S)[T]
  BY <1>2, SumsAre
<1> QED
  BY <1>3, <1>4 DEF Sum

\* What a sum is, and when two are the same.
LEMMA SumIsInt ==
  ASSUME NEW f, NEW S, IsFiniteSet(S), \A x \in S : f[x] \in Int
  PROVE  Sum(f, S) \in Int
<1> DEFINE F == {s \in SUBSET S : Sum(f, s) \notin Int}
<1> SUFFICES ASSUME F # {} PROVE FALSE
  OBVIOUS
<1>1. F \subseteq SUBSET S
  OBVIOUS
<1>2. PICK s \in F : IsFiniteSet(s) /\ \A t \in SUBSET s : t # s => t \notin F
  <2> HIDE DEF F
  <2> QED
    BY <1>1, MinimalSet
<1>3. s # {} /\ First(s) \in s /\ IsFiniteSet(s)
  <2>1. Sum(f, {}) = 0
    BY SumOfNone
  <2>2. ASSUME s = {} PROVE FALSE
    <3>1. Sum(f, s) = 0
      BY <2>1, <2>2, Zenon
    <3>2. Sum(f, s) \notin Nat
      BY <1>2
    <3> QED
      BY <3>1, <3>2
  <2> QED
    BY <1>2, <2>2, FirstIs
<1>4. Sum(f, s \ {First(s)}) \in Int /\ f[First(s)] \in Int
  BY <1>2, <1>3
<1> QED
  BY <1>2, <1>3, <1>4, SumOfFirst

\* Any element can be summed first.
LEMMA SumOfOne ==
  ASSUME NEW f, NEW S, IsFiniteSet(S), \A x \in S : f[x] \in Int, NEW y \in S
  PROVE  Sum(f, S) = f[y] + Sum(f, S \ {y})
<1> DEFINE F == {s \in SUBSET S : \E x \in s : Sum(f, s) # f[x] + Sum(f, s \ {x})}
<1> SUFFICES ASSUME F # {} PROVE FALSE
  OBVIOUS
<1>1. F \subseteq SUBSET S
  OBVIOUS
<1>2. PICK s \in F : IsFiniteSet(s) /\ \A t \in SUBSET s : t # s => t \notin F
  <2> HIDE DEF F
  <2> QED
    BY <1>1, MinimalSet
<1>3. PICK x \in s : Sum(f, s) # f[x] + Sum(f, s \ {x})
  BY <1>2
<1> DEFINE c == First(s)
           r == s \ {c, x}
<1>4. IsFiniteSet(s) /\ c \in s /\ c \in S /\ x \in S
  BY <1>1, <1>2, <1>3, FirstIs
<1>5. Sum(f, s) = f[c] + Sum(f, s \ {c})
  BY <1>4, SumOfFirst
<1>6. c # x
  BY <1>3, <1>5
<1>7. \A t \in SUBSET s : t # s => /\ \A z \in t : Sum(f, t) = f[z] + Sum(f, t \ {z})
                                   /\ Sum(f, t) \in Int
  BY <1>2, SumIsInt, FS_Subset
<1>8. /\ s \ {c} \in SUBSET s /\ s \ {c} # s /\ x \in s \ {c} /\ (s \ {c}) \ {x} = r
      /\ s \ {x} \in SUBSET s /\ s \ {x} # s /\ c \in s \ {x} /\ (s \ {x}) \ {c} = r
      /\ r \in SUBSET s /\ r # s
  BY <1>4, <1>6
<1>9. /\ Sum(f, s \ {c}) = f[x] + Sum(f, r) /\ Sum(f, s \ {x}) = f[c] + Sum(f, r)
      /\ Sum(f, r) \in Int /\ f[c] \in Int /\ f[x] \in Int
  <2>1. Sum(f, s \ {c}) = f[x] + Sum(f, (s \ {c}) \ {x})
    BY <1>7, <1>8
  <2>2. Sum(f, s \ {x}) = f[c] + Sum(f, (s \ {x}) \ {c})
    BY <1>7, <1>8
  <2>3. Sum(f, r) \in Int
    BY <1>7, <1>8
  <2> QED
    BY <1>4, <1>8, <2>1, <2>2, <2>3
<1> QED
  BY <1>3, <1>5, <1>9

LEMMA SumOfSame ==
  ASSUME NEW f, NEW g, NEW S, IsFiniteSet(S), \A x \in S : f[x] = g[x]
  PROVE  Sum(f, S) = Sum(g, S)
<1> DEFINE F == {s \in SUBSET S : Sum(f, s) # Sum(g, s)}
<1> SUFFICES ASSUME F # {} PROVE FALSE
  OBVIOUS
<1>1. F \subseteq SUBSET S
  OBVIOUS
<1>2. PICK s \in F : IsFiniteSet(s) /\ \A t \in SUBSET s : t # s => t \notin F
  <2> HIDE DEF F
  <2> QED
    BY <1>1, MinimalSet
<1>3. s # {} /\ First(s) \in s /\ IsFiniteSet(s)
  <2>1. Sum(f, {}) = 0 /\ Sum(g, {}) = 0
    BY SumOfNone
  <2>2. ASSUME s = {} PROVE FALSE
    <3>1. Sum(f, s) = 0 /\ Sum(g, s) = 0
      BY <2>1, <2>2, Zenon
    <3>2. Sum(f, s) # Sum(g, s)
      BY <1>2
    <3> QED
      BY <3>1, <3>2
  <2> QED
    BY <1>2, <2>2, FirstIs
<1>4. Sum(f, s \ {First(s)}) = Sum(g, s \ {First(s)}) /\ f[First(s)] = g[First(s)]
  BY <1>2, <1>3
<1> QED
  BY <1>2, <1>3, <1>4, SumOfFirst

\* Two sets that have nothing in common.
LEMMA SumOfBoth ==
  ASSUME NEW f, NEW S, NEW T, IsFiniteSet(S), IsFiniteSet(T), S \intersect T = {},
         \A x \in S \union T : f[x] \in Int
  PROVE  Sum(f, S \union T) = Sum(f, S) + Sum(f, T)
<1> DEFINE F == {t \in SUBSET T : Sum(f, S \union t) # Sum(f, S) + Sum(f, t)}
<1> SUFFICES ASSUME F # {} PROVE FALSE
  OBVIOUS
<1>1. F \subseteq SUBSET T /\ \A t \in SUBSET T : IsFiniteSet(t) /\ IsFiniteSet(S \union t)
  BY FS_Subset, FS_Union
<1>2. PICK t \in F : IsFiniteSet(t) /\ \A u \in SUBSET t : u # t => u \notin F
  <2> HIDE DEF F
  <2> QED
    BY <1>1, MinimalSet
<1>3. Sum(f, S) \in Int /\ \A u \in SUBSET T : Sum(f, u) \in Int
  BY <1>1, SumIsInt
<1>4. t # {}
  <2>1. S \union {} = S
    OBVIOUS
  <2>2. Sum(f, {}) = 0
    BY SumOfNone
  <2> QED
    <3> SUFFICES ASSUME t = {} PROVE FALSE
      OBVIOUS
    <3>1. Sum(f, S \union t) = Sum(f, S) /\ Sum(f, t) = 0
      BY <2>1, <2>2, Zenon
    <3> QED
      BY <1>2, <1>3, <3>1
<1>5. PICK x : x \in t
  BY <1>4
<1>6. /\ t \ {x} \in SUBSET T /\ t \ {x} \notin F /\ t \in SUBSET T /\ x \in S \union t
      /\ (S \union t) \ {x} = S \union (t \ {x}) /\ f[x] \in Int
      /\ \A y \in S \union t : f[y] \in Int
  BY <1>2, <1>5
<1>7. Sum(f, S \union (t \ {x})) = Sum(f, S) + Sum(f, t \ {x})
  BY <1>6
<1>8. Sum(f, t) = f[x] + Sum(f, t \ {x})
  BY <1>1, <1>5, <1>6, SumOfOne
<1>9. Sum(f, S \union t) = f[x] + Sum(f, S \union (t \ {x}))
  BY <1>1, <1>6, SumOfOne
<1> QED
  BY <1>2, <1>3, <1>6, <1>7, <1>8, <1>9

LEMMA SumIsNat ==
  ASSUME NEW f, NEW S, IsFiniteSet(S), \A x \in S : f[x] \in Nat
  PROVE  Sum(f, S) \in Nat
<1> DEFINE F == {s \in SUBSET S : Sum(f, s) \notin Nat}
<1> SUFFICES ASSUME F # {} PROVE FALSE
  OBVIOUS
<1>1. F \subseteq SUBSET S
  OBVIOUS
<1>2. PICK s \in F : IsFiniteSet(s) /\ \A t \in SUBSET s : t # s => t \notin F
  <2> HIDE DEF F
  <2> QED
    BY <1>1, MinimalSet
<1>3. s # {} /\ First(s) \in s /\ IsFiniteSet(s)
  <2>1. Sum(f, {}) = 0
    BY SumOfNone
  <2>2. ASSUME s = {} PROVE FALSE
    <3>1. Sum(f, s) = 0
      BY <2>1, <2>2, Zenon
    <3>2. Sum(f, s) \notin Nat
      BY <1>2
    <3> QED
      BY <3>1, <3>2
  <2> QED
    BY <1>2, <2>2, FirstIs
<1>4. Sum(f, s \ {First(s)}) \in Nat /\ f[First(s)] \in Nat
  BY <1>2, <1>3
<1> QED
  BY <1>2, <1>3, <1>4, SumOfFirst

\* Without some of its elements.
LEMMA SumOfRest ==
  ASSUME NEW f, NEW S, IsFiniteSet(S), NEW T \in SUBSET S, \A x \in S : f[x] \in Int
  PROVE  Sum(f, S \ T) = Sum(f, S) - Sum(f, T)
<1>1. /\ IsFiniteSet(T) /\ IsFiniteSet(S \ T) /\ (S \ T) \intersect T = {}
      /\ (S \ T) \union T = S
  BY FS_Subset
<1>2. Sum(f, (S \ T) \union T) = Sum(f, S \ T) + Sum(f, T)
  BY <1>1, SumOfBoth
<1>3. Sum(f, S \ T) \in Int /\ Sum(f, T) \in Int
  BY <1>1, SumIsInt
<1>4. Sum(f, S) = Sum(f, S \ T) + Sum(f, T)
  BY <1>1, <1>2, Zenon
<1> QED
  BY <1>3, <1>4

\* With one element's share changed.
LEMMA SumShifted ==
  ASSUME NEW f, NEW g, NEW S, IsFiniteSet(S), \A x \in S : f[x] \in Int, NEW w \in Int,
         NEW y \in S, g[y] = f[y] + w, \A x \in S \ {y} : g[x] = f[x]
  PROVE  Sum(g, S) = Sum(f, S) + w
<1>1. IsFiniteSet(S \ {y}) /\ \A x \in S : g[x] \in Int
  BY FS_Subset
<1>2. Sum(g, S \ {y}) = Sum(f, S \ {y})
  BY <1>1, SumOfSame
<1>3. Sum(g, S) = g[y] + Sum(g, S \ {y})
  BY <1>1, SumOfOne
<1>4. Sum(f, S) = f[y] + Sum(f, S \ {y})
  BY SumOfOne
<1>5. Sum(f, S \ {y}) \in Int /\ f[y] \in Int
  BY <1>1, SumIsInt
<1> QED
  BY <1>2, <1>3, <1>4, <1>5

-----------------------------------------------------------------------------
(* What is in an object, to any depth *)

LEMMA WithinHolds ==
  ASSUME NEW at \in Pointers, NEW O \in SUBSET Objs
  PROVE  O \subseteq Within(at, O) /\ Within(at, O) \subseteq Objs
BY DEF Within

LEMMA WithinClosed ==
  ASSUME NEW at \in Pointers, NEW O \in SUBSET Objs
  PROVE  ClosedUnderContents(at, Within(at, O))
<1> SUFFICES ASSUME NEW x \in Within(at, O), NEW y \in at.held[x]
             PROVE  y \in Within(at, O)
  BY DEF ClosedUnderContents
<1>1. x \in Objs /\ y \in Objs
  BY DEF Within, Pointers, Holders
<1>2. ASSUME NEW S \in SUBSET Objs, O \subseteq S, \A z \in S : at.held[z] \subseteq S
      PROVE  y \in S
  <2>1. x \in S
    BY <1>2 DEF Within
  <2> QED
    BY <2>1, <1>2
<1> QED
  BY <1>1, <1>2 DEF Within

\* No closed set that O is in leaves out anything that is within O.
LEMMA WithinLeast ==
  ASSUME NEW at \in Pointers, NEW O \in SUBSET Objs,
         NEW S \in SUBSET Objs, O \subseteq S, ClosedUnderContents(at, S)
  PROVE  Within(at, O) \subseteq S
BY DEF Within, ClosedUnderContents

\* What is within O without being of O is in something that is within O.
LEMMA WithinSomething ==
  ASSUME NEW at \in Pointers, LinksAgree(at), NEW O \in SUBSET Objs,
         NEW x \in Within(at, O), x \notin O
  PROVE  at.in_obj[x] \in Within(at, O)
<1> DEFINE W == Within(at, O)
<1> SUFFICES ASSUME at.in_obj[x] \notin W
             PROVE  FALSE
  OBVIOUS
<1>1. W \in SUBSET Objs /\ O \subseteq W /\ ClosedUnderContents(at, W)
  BY WithinHolds, WithinClosed
<1>2. ClosedUnderContents(at, W \ {x})
  BY <1>1 DEF ClosedUnderContents, LinksAgree
<1>3. O \subseteq W \ {x} /\ W \ {x} \in SUBSET Objs
  BY <1>1
<1> QED
  BY <1>2, <1>3, WithinLeast

-----------------------------------------------------------------------------
(* What is around an object *)

LEMMA AroundHolds ==
  ASSUME NEW at \in Pointers, NEW b \in Objs
  PROVE  /\ b \in Around(at, b) /\ Around(at, b) \subseteq Objs
         /\ \A x \in Around(at, b) : at.in_obj[x] # Null => at.in_obj[x] \in Around(at, b)
<1>1. b \in Around(at, b) /\ Around(at, b) \subseteq Objs
  BY DEF Around
<1>2. ASSUME NEW x \in Around(at, b), at.in_obj[x] # Null PROVE at.in_obj[x] \in Around(at, b)
  <2>1. at.in_obj[x] \in Objs
    BY <1>1, <1>2 DEF Pointers
  <2>2. ASSUME NEW S \in SUBSET Objs, b \in S,
               \A y \in S : at.in_obj[y] # Null => at.in_obj[y] \in S
        PROVE  at.in_obj[x] \in S
    <3>1. x \in S
      BY <2>2 DEF Around
    <3> QED
      BY <1>2, <2>2, <3>1
  <2> QED
    BY <2>1, <2>2 DEF Around
<1> QED
  BY <1>1, <1>2

LEMMA AroundLeast ==
  ASSUME NEW at, NEW b, NEW S \in SUBSET Objs, b \in S,
         \A x \in S : at.in_obj[x] # Null => at.in_obj[x] \in S
  PROVE  Around(at, b) \subseteq S
BY DEF Around

\* What is around something that is around b is around b.
LEMMA AroundOf ==
  ASSUME NEW at \in Pointers, NEW b \in Objs, NEW v \in Around(at, b)
  PROVE  Around(at, v) \subseteq Around(at, b)
BY AroundHolds, AroundLeast

\* One step up.
LEMMA AroundStep ==
  ASSUME NEW at \in Pointers, NEW x \in Objs
  PROVE  Around(at, x) \subseteq {x} \union
           IF at.in_obj[x] = Null THEN {} ELSE Around(at, at.in_obj[x])
<1> PICK k : k = at.in_obj[x]
  OBVIOUS
<1>1. k \in Objs \union {Null}
  BY DEF Pointers
<1>2. CASE k = Null
  <2>1. /\ {x} \in SUBSET Objs /\ x \in {x}
        /\ \A y \in {x} : at.in_obj[y] # Null => at.in_obj[y] \in {x}
    BY <1>2
  <2>2. Around(at, x) \subseteq {x}
    BY <2>1, AroundLeast
  <2> QED
    BY <1>2, <2>2
<1>3. CASE k # Null
  <2> PICK A : A = Around(at, k)
    OBVIOUS
  <2>1. /\ k \in A /\ A \subseteq Objs
        /\ \A y \in A : at.in_obj[y] # Null => at.in_obj[y] \in A
    BY <1>1, <1>3, AroundHolds
  <2> PICK S : S = {x} \union A
    OBVIOUS
  <2>2. /\ S \in SUBSET Objs /\ x \in S
        /\ \A y \in S : at.in_obj[y] # Null => at.in_obj[y] \in S
    BY <2>1
  <2>3. Around(at, x) \subseteq S
    BY <2>2, AroundLeast
  <2> QED
    BY <1>3, <2>3
<1> QED
  BY <1>2, <1>3

\* Nothing is around what it is in.
LEMMA NoLoop ==
  ASSUME NEW at, Sound(at), NEW y \in Objs, NEW k \in Objs, at.in_obj[y] = k
  PROVE  y \notin Around(at, k)
<1> SUFFICES ASSUME y \in Around(at, k) PROVE FALSE
  OBVIOUS
<1> DEFINE S == {v \in Around(at, k) : y \in Around(at, v)}
<1>1. at \in Pointers /\ k # Null
  BY Apart DEF Sound
<1>2. k \in S /\ S \in SUBSET Objs
  BY <1>1, AroundHolds
<1>3. ASSUME NEW v \in S PROVE at.in_obj[v] \in S
  <2> PICK p : p = at.in_obj[v]
    OBVIOUS
  <2>1. v \in Objs /\ v \in Around(at, k) /\ y \in Around(at, v)
    BY <1>2
  <2>2. CASE v = y
    BY <1>2, <2>2
  <2>3. CASE v # y
    <3>1. p # Null /\ y \in Around(at, p)
      BY <1>1, <2>1, <2>3, AroundStep
    <3>2. p \in Around(at, k)
      BY <1>1, <2>1, <3>1, AroundHolds
    <3> QED
      BY <3>1, <3>2
  <2> QED
    BY <2>2, <2>3
<1> HIDE DEF S
<1> QED
  BY <1>2, <1>3 DEF Sound, NoCycle

\* Of two objects around a third one is around the other.
LEMMA AroundChain ==
  ASSUME NEW at \in Pointers, NEW b \in Objs,
         NEW x \in Around(at, b), NEW y \in Around(at, b)
  PROVE  x \in Around(at, y) \/ y \in Around(at, x)
<1> DEFINE S == {v \in Around(at, b) : x \in Around(at, v) \/ v \in Around(at, x)}
<1>1. b \in S /\ S \in SUBSET Objs
  BY AroundHolds
<1>2. ASSUME NEW v \in S, at.in_obj[v] # Null PROVE at.in_obj[v] \in S
  <2> PICK p : p = at.in_obj[v]
    OBVIOUS
  <2>1. v \in Objs /\ p # Null /\ p \in Around(at, b) /\ x \in Objs
    BY <1>1, <1>2, AroundHolds
  <2>2. CASE v \in Around(at, x)
    <3>1. p \in Around(at, x)
      BY <2>1, <2>2, AroundHolds
    <3> QED
      BY <2>1, <3>1
  <2>3. CASE x \in Around(at, v) /\ v # x
    <3>1. x \in Around(at, p)
      BY <2>1, <2>3, AroundStep
    <3> QED
      BY <2>1, <3>1
  <2>4. x \in Around(at, x)
    BY <2>1, AroundHolds
  <2> QED
    BY <2>2, <2>3, <2>4
<1> HIDE DEF S
<1>3. Around(at, b) \subseteq S
  BY <1>1, <1>2, AroundLeast
<1> QED
  BY <1>3 DEF S

\* Going up from b there is one way.
LEMMA OneChild ==
  ASSUME NEW at, Sound(at), NEW b \in Objs,
         NEW x \in Around(at, b), NEW y \in Around(at, b), at.in_obj[x] = at.in_obj[y]
  PROVE  x = y
<1>1. at \in Pointers /\ x \in Objs /\ y \in Objs
  BY AroundHolds DEF Sound
<1>2. ASSUME NEW u \in Objs, NEW v \in Objs, at.in_obj[u] = at.in_obj[v], u \in Around(at, v)
      PROVE  u = v
  <2>1. at.in_obj[v] = Null \/ (at.in_obj[v] \in Objs /\ u \notin Around(at, at.in_obj[v]))
    BY <1>1, <1>2, NoLoop DEF Pointers
  <2> QED
    BY <1>1, <1>2, <2>1, AroundStep
<1> QED
  BY <1>1, <1>2, AroundChain

\* and only b is come to from nowhere.
LEMMA ChildOf ==
  ASSUME NEW at \in Pointers, NEW b \in Objs, NEW k \in Around(at, b), k # b
  PROVE  \E x \in Around(at, b) : at.in_obj[x] = k
<1> SUFFICES ASSUME \A x \in Around(at, b) : at.in_obj[x] # k PROVE FALSE
  OBVIOUS
<1> PICK A : A = Around(at, b)
  OBVIOUS
<1>1. /\ b \in A /\ A \subseteq Objs
      /\ \A x \in A : at.in_obj[x] # Null => at.in_obj[x] \in A
  BY AroundHolds
<1>2. Around(at, b) \subseteq A \ {k}
  BY <1>1, AroundLeast
<1> QED
  BY <1>2

LEMMA AroundListed ==
  ASSUME NEW at, Sound(at), NEW b \in at.listed
  PROVE  Around(at, b) \subseteq at.listed
<1>1. at \in Pointers /\ at.listed \in SUBSET Objs
  BY DEF Sound, Pointers
<1>2. \A x \in at.listed : at.in_obj[x] # Null => at.in_obj[x] \in at.listed
  BY <1>1, Apart DEF Sound, LinksAgree, OnlyListed, Pointers
<1> QED
  BY <1>1, <1>2, AroundLeast

-----------------------------------------------------------------------------
(* handler.c: places *)

\* obj_to_char of objects that are nowhere.
LEMMA ToChar ==
  ASSUME NEW p, NEW d, NEW s, Fine(s.at, p, d), NEW c \in Chars, c \in p,
         NEW O, O \subseteq d, NEW b, b = ObjToChar(s, O, c).at
  PROVE  /\ Fine(b, p, d \ O)
         /\ b.listed = s.at.listed
         /\ b.in_room = s.at.in_room /\ b.worn_by = s.at.worn_by /\ b.in_obj = s.at.in_obj
         /\ b.carried_by = Pointing(s.at.carried_by, O, c)
<1> Sound(s.at) /\ Loose(s.at) = d
  BY DEF Fine
<1> DEFINE a == s.at
<1>1. a \in Pointers /\ O \subseteq Objs /\ c \in Holders
  BY DEF Sound, Loose, Nowhere, Holders
<1>2. \A o \in O : a.in_room[o] = Null
  BY DEF Loose, Nowhere
<1>3. b = [a EXCEPT !.held[c] = @ \union O, !.carried_by = Pointing(@, O, c),
                    !.in_room = Pointing(@, O, Null)]
  BY DEF ObjToChar
<1>4. /\ b.listed = a.listed /\ b.held = [a.held EXCEPT ![c] = @ \union O]
      /\ b.worn = a.worn /\ b.worn_by = a.worn_by /\ b.in_obj = a.in_obj
      /\ b.in_room = Pointing(a.in_room, O, Null)
      /\ b.carried_by = Pointing(a.carried_by, O, c)
  BY <1>1, <1>3 DEF Pointers
<1>5. b.in_room = a.in_room
  BY <1>1, <1>2, <1>4 DEF Pointing, Pointers
<1>6. b \in Pointers
  <2>1. b.held \in [Holders -> SUBSET Objs]
    BY <1>1, <1>4 DEF Pointers
  <2>2. b.carried_by \in [Objs -> Chars \union {Null}]
    BY <1>1, <1>4 DEF Pointers, Pointing
  <2> QED
    BY <1>1, <1>3, <1>4, <1>5, <2>1, <2>2 DEF Pointers
<1>7. LinksAgree(b)
  BY <1>1, <1>4, <1>5, Apart DEF Sound, LinksAgree, Pointing, Pointers, Holders, Loose, Nowhere
<1>8. OnePlace(b)
  BY <1>1, <1>4, <1>5, Apart DEF Sound, OnePlace, Pointing, Pointers, Loose, Nowhere
<1>9. NoCycle(b)
  BY <1>4 DEF Sound, NoCycle
<1>10. OnlyListed(b)
  BY <1>1, <1>4, <1>5, Apart DEF Sound, OnlyListed, Nowhere, Loose, Pointing, Pointers, Holders
<1>11. Loose(b) = Loose(a) \ O
  BY <1>1, <1>4, <1>5, Apart DEF Sound, Loose, Nowhere, Pointing, Pointers
<1>12. Sound(b) /\ Loose(b) = d \ O
  BY <1>4, <1>5, <1>6, <1>7, <1>8, <1>9, <1>10, <1>11 DEF Sound
<1>13. Fine(b, p, d \ O)
  BY <1>4, <1>5, <1>12 DEF Fine, Pointing
<1> QED
  BY <1>4, <1>5, <1>13

\* obj_from_char of objects that somebody has in hand.
LEMMA FromChar ==
  ASSUME NEW p, NEW d, NEW s, Fine(s.at, p, d), NEW c \in Chars,
         NEW O, O \subseteq s.at.held[c], NEW b, b = ObjFromChar(s, O, c).at
  PROVE  /\ Fine(b, p, d \union O)
         /\ b.listed = s.at.listed
         /\ b.in_room = s.at.in_room /\ b.worn_by = s.at.worn_by /\ b.in_obj = s.at.in_obj
         /\ b.carried_by = Pointing(s.at.carried_by, O, Null)
<1> Sound(s.at) /\ Loose(s.at) = d
  BY DEF Fine
<1> DEFINE a == s.at
<1>1. a \in Pointers /\ c \in Holders /\ O \subseteq Objs
  BY DEF Sound, Holders, Pointers
<1>2. \A o \in O : a.carried_by[o] = c
  BY <1>1 DEF Sound, LinksAgree
<1>3. b = [a EXCEPT !.held[c] = @ \ O, !.carried_by = Pointing(@, O, Null)]
  BY DEF ObjFromChar
<1>4. /\ b.listed = a.listed /\ b.held = [a.held EXCEPT ![c] = @ \ O]
      /\ b.worn = a.worn /\ b.worn_by = a.worn_by /\ b.in_obj = a.in_obj
      /\ b.in_room = a.in_room /\ b.carried_by = Pointing(a.carried_by, O, Null)
  BY <1>1, <1>3 DEF Pointers
<1>5. b \in Pointers
  <2>1. b.held \in [Holders -> SUBSET Objs]
    BY <1>1, <1>4 DEF Pointers
  <2>2. b.carried_by \in [Objs -> Chars \union {Null}]
    BY <1>1, <1>4 DEF Pointers, Pointing
  <2> QED
    BY <1>1, <1>3, <1>4, <2>1, <2>2 DEF Pointers
<1>6. LinksAgree(b)
  BY <1>1, <1>2, <1>4, Apart DEF Sound, LinksAgree, Pointing, Pointers, Holders
<1>7. OnePlace(b)
  BY <1>1, <1>4 DEF Sound, OnePlace, Pointing, Pointers
<1>8. NoCycle(b)
  BY <1>4 DEF Sound, NoCycle
<1>9. OnlyListed(b)
  BY <1>1, <1>4, Apart DEF Sound, OnlyListed, Nowhere, Pointing, Pointers, Holders
<1>10. Loose(b) = Loose(a) \union O
  BY <1>1, <1>2, <1>4, Apart DEF Sound, OnePlace, OnlyListed, Loose, Nowhere, Pointing, Pointers
<1>11. Sound(b) /\ Loose(b) = d \union O
  BY <1>4, <1>5, <1>6, <1>7, <1>8, <1>9, <1>10 DEF Sound
<1>12. Fine(b, p, d \union O)
  BY <1>4, <1>11 DEF Fine, Pointing
<1> QED
  BY <1>4, <1>12

\* obj_to_room of objects that are nowhere.
LEMMA ToRoom ==
  ASSUME NEW p, NEW d, NEW s, Fine(s.at, p, d), NEW r \in Rooms,
         NEW O, O \subseteq d, NEW b, b = ObjToRoom(s, O, r).at
  PROVE  /\ Fine(b, p, d \ O)
         /\ b.listed = s.at.listed
         /\ b.carried_by = s.at.carried_by /\ b.worn_by = s.at.worn_by /\ b.in_obj = s.at.in_obj
         /\ b.in_room = Pointing(s.at.in_room, O, r)
<1> Sound(s.at) /\ Loose(s.at) = d
  BY DEF Fine
<1> DEFINE a == s.at
<1>1. a \in Pointers /\ O \subseteq Objs /\ r \in Holders
  BY DEF Sound, Loose, Nowhere, Holders
<1>2. \A o \in O : a.carried_by[o] = Null
  BY DEF Loose, Nowhere
<1>3. b = [a EXCEPT !.held[r] = @ \union O, !.in_room = Pointing(@, O, r),
                    !.carried_by = Pointing(@, O, Null)]
  BY DEF ObjToRoom
<1>4. /\ b.listed = a.listed /\ b.held = [a.held EXCEPT ![r] = @ \union O]
      /\ b.worn = a.worn /\ b.worn_by = a.worn_by /\ b.in_obj = a.in_obj
      /\ b.carried_by = Pointing(a.carried_by, O, Null)
      /\ b.in_room = Pointing(a.in_room, O, r)
  BY <1>1, <1>3 DEF Pointers
<1>5. b.carried_by = a.carried_by
  BY <1>1, <1>2, <1>4 DEF Pointing, Pointers
<1>6. b \in Pointers
  <2>1. b.held \in [Holders -> SUBSET Objs]
    BY <1>1, <1>4 DEF Pointers
  <2>2. b.in_room \in [Objs -> Rooms \union {Null}]
    BY <1>1, <1>4 DEF Pointers, Pointing
  <2> QED
    BY <1>1, <1>3, <1>4, <1>5, <2>1, <2>2 DEF Pointers
<1>7. LinksAgree(b)
  BY <1>1, <1>4, <1>5, Apart DEF Sound, LinksAgree, Pointing, Pointers, Holders, Loose, Nowhere
<1>8. OnePlace(b)
  BY <1>1, <1>4, <1>5, Apart DEF Sound, OnePlace, Pointing, Pointers, Loose, Nowhere
<1>9. NoCycle(b)
  BY <1>4 DEF Sound, NoCycle
<1>10. OnlyListed(b)
  BY <1>1, <1>4, <1>5, Apart DEF Sound, OnlyListed, Nowhere, Loose, Pointing, Pointers, Holders
<1>11. Loose(b) = Loose(a) \ O
  BY <1>1, <1>4, <1>5, Apart DEF Sound, Loose, Nowhere, Pointing, Pointers
<1>12. Sound(b) /\ Loose(b) = d \ O
  BY <1>4, <1>5, <1>6, <1>7, <1>8, <1>9, <1>10, <1>11 DEF Sound
<1>13. Fine(b, p, d \ O)
  BY <1>4, <1>5, <1>12 DEF Fine, Pointing
<1> QED
  BY <1>4, <1>5, <1>13

\* obj_from_room of objects that lie there.
LEMMA FromRoom ==
  ASSUME NEW p, NEW d, NEW s, Fine(s.at, p, d), NEW r \in Rooms,
         NEW O, O \subseteq s.at.held[r], NEW b, b = ObjFromRoom(s, O, r).at
  PROVE  /\ Fine(b, p, d \union O)
         /\ b.listed = s.at.listed
         /\ b.carried_by = s.at.carried_by /\ b.worn_by = s.at.worn_by /\ b.in_obj = s.at.in_obj
         /\ b.in_room = Pointing(s.at.in_room, O, Null)
<1> Sound(s.at) /\ Loose(s.at) = d
  BY DEF Fine
<1> DEFINE a == s.at
<1>1. a \in Pointers /\ r \in Holders /\ O \subseteq Objs
  BY DEF Sound, Holders, Pointers
<1>2. \A o \in O : a.in_room[o] = r
  BY <1>1 DEF Sound, LinksAgree
<1>3. b = [a EXCEPT !.held[r] = @ \ O, !.in_room = Pointing(@, O, Null)]
  BY DEF ObjFromRoom
<1>4. /\ b.listed = a.listed /\ b.held = [a.held EXCEPT ![r] = @ \ O]
      /\ b.worn = a.worn /\ b.worn_by = a.worn_by /\ b.in_obj = a.in_obj
      /\ b.carried_by = a.carried_by /\ b.in_room = Pointing(a.in_room, O, Null)
  BY <1>1, <1>3 DEF Pointers
<1>5. b \in Pointers
  <2>1. b.held \in [Holders -> SUBSET Objs]
    BY <1>1, <1>4 DEF Pointers
  <2>2. b.in_room \in [Objs -> Rooms \union {Null}]
    BY <1>1, <1>4 DEF Pointers, Pointing
  <2> QED
    BY <1>1, <1>3, <1>4, <2>1, <2>2 DEF Pointers
<1>6. LinksAgree(b)
  BY <1>1, <1>2, <1>4, Apart DEF Sound, LinksAgree, Pointing, Pointers, Holders
<1>7. OnePlace(b)
  BY <1>1, <1>4 DEF Sound, OnePlace, Pointing, Pointers
<1>8. NoCycle(b)
  BY <1>4 DEF Sound, NoCycle
<1>9. OnlyListed(b)
  BY <1>1, <1>4, Apart DEF Sound, OnlyListed, Nowhere, Pointing, Pointers, Holders
<1>10. Loose(b) = Loose(a) \union O
  BY <1>1, <1>2, <1>4, Apart DEF Sound, OnePlace, OnlyListed, Loose, Nowhere, Pointing, Pointers
<1>11. Sound(b) /\ Loose(b) = d \union O
  BY <1>4, <1>5, <1>6, <1>7, <1>8, <1>9, <1>10 DEF Sound
<1>12. Fine(b, p, d \union O)
  BY <1>4, <1>11 DEF Fine, Pointing
<1> QED
  BY <1>4, <1>12

\* unequip_char of what somebody wears.
LEMMA Unequip ==
  ASSUME NEW p, NEW d, NEW s, Fine(s.at, p, d), NEW c \in Chars,
         NEW O, O \subseteq s.at.worn[c], NEW b, b = UnequipChar(s, O, c).at
  PROVE  /\ Fine(b, p, d \union O)
         /\ b.listed = s.at.listed
         /\ b.in_room = s.at.in_room /\ b.carried_by = s.at.carried_by /\ b.in_obj = s.at.in_obj
         /\ b.worn_by = Pointing(s.at.worn_by, O, Null)
<1> Sound(s.at) /\ Loose(s.at) = d
  BY DEF Fine
<1> DEFINE a == s.at
<1>1. a \in Pointers /\ O \subseteq Objs
  BY DEF Sound, Pointers
<1>2. \A o \in O : a.worn_by[o] = c
  BY <1>1 DEF Sound, LinksAgree
<1>3. b = [a EXCEPT !.worn[c] = @ \ O, !.worn_by = Pointing(@, O, Null)]
  BY DEF UnequipChar
<1>4. /\ b.listed = a.listed /\ b.worn = [a.worn EXCEPT ![c] = @ \ O]
      /\ b.held = a.held /\ b.in_room = a.in_room /\ b.in_obj = a.in_obj
      /\ b.carried_by = a.carried_by /\ b.worn_by = Pointing(a.worn_by, O, Null)
  BY <1>1, <1>3 DEF Pointers
<1>5. b \in Pointers
  <2>1. b.worn \in [Chars -> SUBSET Objs]
    BY <1>1, <1>4 DEF Pointers
  <2>2. b.worn_by \in [Objs -> Chars \union {Null}]
    BY <1>1, <1>4 DEF Pointers, Pointing
  <2> QED
    BY <1>1, <1>3, <1>4, <2>1, <2>2 DEF Pointers
<1>6. LinksAgree(b)
  BY <1>1, <1>2, <1>4, Apart DEF Sound, LinksAgree, Pointing, Pointers
<1>7. OnePlace(b)
  BY <1>1, <1>4 DEF Sound, OnePlace, Pointing, Pointers
<1>8. NoCycle(b)
  BY <1>4 DEF Sound, NoCycle
<1>9. OnlyListed(b)
  BY <1>1, <1>4 DEF Sound, OnlyListed, Nowhere, Pointing, Pointers
<1>10. Loose(b) = Loose(a) \union O
  BY <1>1, <1>2, <1>4, Apart DEF Sound, OnePlace, OnlyListed, Loose, Nowhere, Pointing, Pointers
<1>11. Sound(b) /\ Loose(b) = d \union O
  BY <1>4, <1>5, <1>6, <1>7, <1>8, <1>9, <1>10 DEF Sound
<1>12. Fine(b, p, d \union O)
  BY <1>4, <1>11 DEF Fine, Pointing
<1> QED
  BY <1>4, <1>12

\* equip_char, where it does put the object on.
LEMMA Equip ==
  ASSUME NEW p, NEW d, NEW s, Fine(s.at, p, d), NEW c \in Chars, c \in p,
         NEW o \in d, Kind[o] # "corpse", NEW b,
         b = [s.at EXCEPT !.worn[c] = @ \union {o}, !.worn_by = Pointing(@, {o}, c)]
  PROVE  /\ Fine(b, p, d \ {o})
         /\ b.listed = s.at.listed
         /\ b.in_room = s.at.in_room /\ b.carried_by = s.at.carried_by /\ b.in_obj = s.at.in_obj
         /\ b.worn_by = Pointing(s.at.worn_by, {o}, c)
<1> Sound(s.at) /\ Loose(s.at) = d
  BY DEF Fine
<1> DEFINE a == s.at
<1>1. a \in Pointers /\ o \in Objs
  BY DEF Sound, Loose, Nowhere
<1>3. /\ b.listed = a.listed /\ b.worn = [a.worn EXCEPT ![c] = @ \union {o}]
      /\ b.held = a.held /\ b.in_room = a.in_room /\ b.in_obj = a.in_obj
      /\ b.carried_by = a.carried_by /\ b.worn_by = Pointing(a.worn_by, {o}, c)
  BY <1>1 DEF Pointers
<1>4. b \in Pointers
  <2>1. b.worn \in [Chars -> SUBSET Objs]
    BY <1>1, <1>3 DEF Pointers
  <2>2. b.worn_by \in [Objs -> Chars \union {Null}]
    BY <1>1, <1>3 DEF Pointers, Pointing
  <2> QED
    BY <1>1, <1>3, <2>1, <2>2 DEF Pointers
<1>5. LinksAgree(b)
  BY <1>1, <1>3, Apart DEF Sound, LinksAgree, Pointing, Pointers, Loose, Nowhere
<1>6. OnePlace(b)
  BY <1>1, <1>3, Apart DEF Sound, OnePlace, Pointing, Pointers, Loose, Nowhere
<1>7. NoCycle(b)
  BY <1>3 DEF Sound, NoCycle
<1>8. OnlyListed(b)
  BY <1>1, <1>3 DEF Sound, OnlyListed, Nowhere, Loose, Pointing, Pointers
<1>9. Loose(b) = Loose(a) \ {o}
  BY <1>1, <1>3, Apart DEF Sound, Loose, Nowhere, Pointing, Pointers
<1>10. Sound(b) /\ Loose(b) = d \ {o}
  BY <1>3, <1>4, <1>5, <1>6, <1>7, <1>8, <1>9 DEF Sound
<1>11. Fine(b, p, d \ {o})
  <2>1. \A x \in Objs : b.worn_by[x] = IF x = o THEN c ELSE a.worn_by[x]
    BY <1>3 DEF Pointing
  <2> QED
    BY <1>3, <1>10, <2>1 DEF Fine
<1> QED
  BY <1>3, <1>11

\* obj_from_obj of objects that are in another.
LEMMA FromObj ==
  ASSUME NEW p, NEW d, NEW s, Fine(s.at, p, d), NEW k \in Objs,
         NEW O, O \subseteq s.at.held[k], NEW b, b = ObjFromObj(s, O, k).at
  PROVE  /\ Fine(b, p, d \union O)
         /\ b.listed = s.at.listed
         /\ b.in_room = s.at.in_room /\ b.carried_by = s.at.carried_by /\ b.worn_by = s.at.worn_by
         /\ b.in_obj = Pointing(s.at.in_obj, O, Null)
<1> Sound(s.at) /\ Loose(s.at) = d
  BY DEF Fine
<1> DEFINE a == s.at
<1>1. a \in Pointers /\ k \in Holders /\ O \subseteq Objs
  BY DEF Sound, Holders, Pointers
<1>2. \A o \in O : a.in_obj[o] = k
  BY <1>1 DEF Sound, LinksAgree
<1>3. b = [a EXCEPT !.held[k] = @ \ O, !.in_obj = Pointing(@, O, Null)]
  BY DEF ObjFromObj
<1>4. /\ b.listed = a.listed /\ b.held = [a.held EXCEPT ![k] = @ \ O]
      /\ b.worn = a.worn /\ b.worn_by = a.worn_by /\ b.in_room = a.in_room
      /\ b.carried_by = a.carried_by /\ b.in_obj = Pointing(a.in_obj, O, Null)
  BY <1>1, <1>3 DEF Pointers
<1>5. b \in Pointers
  <2>1. b.held \in [Holders -> SUBSET Objs]
    BY <1>1, <1>4 DEF Pointers
  <2>2. b.in_obj \in [Objs -> Objs \union {Null}]
    BY <1>1, <1>4 DEF Pointers, Pointing
  <2> QED
    BY <1>1, <1>3, <1>4, <2>1, <2>2 DEF Pointers
<1>6. LinksAgree(b)
  BY <1>1, <1>2, <1>4, Apart DEF Sound, LinksAgree, Pointing, Pointers, Holders
<1>7. OnePlace(b)
  BY <1>1, <1>4 DEF Sound, OnePlace, Pointing, Pointers
<1>8. NoCycle(b)
  <2> SUFFICES ASSUME NEW S \in SUBSET Objs, \A o \in S : b.in_obj[o] \in S
               PROVE  S = {}
    BY DEF NoCycle
  <2>1. \A o \in S : a.in_obj[o] \in S
    BY <1>4, Apart DEF Pointing
  <2> QED
    BY <2>1 DEF Sound, NoCycle
<1>9. OnlyListed(b)
  BY <1>1, <1>4, Apart DEF Sound, OnlyListed, Nowhere, Pointing, Pointers, Holders
<1>10. Loose(b) = Loose(a) \union O
  BY <1>1, <1>2, <1>4, Apart DEF Sound, OnePlace, OnlyListed, Loose, Nowhere, Pointing, Pointers
<1>11. Sound(b) /\ Loose(b) = d \union O
  BY <1>4, <1>5, <1>6, <1>7, <1>8, <1>9, <1>10 DEF Sound
<1>12. Fine(b, p, d \union O)
  BY <1>4, <1>11 DEF Fine, Pointing
<1> QED
  BY <1>4, <1>12

\* obj_to_obj of objects that are nowhere, into one that is not within them.
LEMMA ToObj ==
  ASSUME NEW p, NEW d, NEW s, Fine(s.at, p, d), NEW k \in s.at.listed,
         NEW O, O \subseteq d, k \notin Within(s.at, O),
         NEW b, b = ObjToObj(s, O, k).at
  PROVE  /\ Fine(b, p, d \ O)
         /\ b.listed = s.at.listed
         /\ b.in_room = s.at.in_room /\ b.carried_by = s.at.carried_by /\ b.worn_by = s.at.worn_by
         /\ b.in_obj = Pointing(s.at.in_obj, O, k)
<1> Sound(s.at) /\ Loose(s.at) = d
  BY DEF Fine
<1> DEFINE a == s.at
           W == Within(a, O)
<1>1. a \in Pointers /\ O \in SUBSET Objs /\ k \in Objs /\ k \in Holders
  BY DEF Sound, Loose, Nowhere, Holders, Pointers
<1>2. O \subseteq W /\ ClosedUnderContents(a, W)
  BY <1>1, WithinHolds, WithinClosed
<1>3. b = [a EXCEPT !.held[k] = @ \union O, !.in_obj = Pointing(@, O, k)]
  BY <1>2 DEF ObjToObj
<1>4. /\ b.listed = a.listed /\ b.held = [a.held EXCEPT ![k] = @ \union O]
      /\ b.worn = a.worn /\ b.worn_by = a.worn_by /\ b.in_room = a.in_room
      /\ b.carried_by = a.carried_by /\ b.in_obj = Pointing(a.in_obj, O, k)
  BY <1>1, <1>3 DEF Pointers
<1>5. b \in Pointers
  <2>1. b.held \in [Holders -> SUBSET Objs]
    BY <1>1, <1>4 DEF Pointers
  <2>2. b.in_obj \in [Objs -> Objs \union {Null}]
    BY <1>1, <1>4 DEF Pointers, Pointing
  <2> QED
    BY <1>1, <1>3, <1>4, <2>1, <2>2 DEF Pointers
<1>6. LinksAgree(b)
  BY <1>1, <1>4, Apart DEF Sound, LinksAgree, Pointing, Pointers, Holders, Loose, Nowhere
<1>7. OnePlace(b)
  BY <1>1, <1>4, Apart DEF Sound, OnePlace, Pointing, Pointers, Loose, Nowhere
<1>8. NoCycle(b)
  <2> SUFFICES ASSUME NEW S \in SUBSET Objs, \A o \in S : b.in_obj[o] \in S
               PROVE  S = {}
    BY DEF NoCycle
  <2>1. \A o \in S \ W : a.in_obj[o] \in S \ W
    <3> SUFFICES ASSUME NEW o \in S \ W
                 PROVE  a.in_obj[o] \in S \ W
      OBVIOUS
    <3>1. a.in_obj[o] \in S
      BY <1>2, <1>4 DEF Pointing
    <3>2. o \in a.held[a.in_obj[o]]
      BY <3>1 DEF Sound, LinksAgree
    <3> QED
      BY <1>2, <3>1, <3>2 DEF ClosedUnderContents
  <2>2. S \subseteq W
    BY <2>1 DEF Sound, NoCycle
  <2>3. \A o \in S : a.in_obj[o] \in S
    BY <1>4, <2>2 DEF Pointing
  <2> QED
    BY <2>3 DEF Sound, NoCycle
<1>9. OnlyListed(b)
  BY <1>1, <1>4, Apart DEF Sound, OnlyListed, Nowhere, Loose, Pointing, Pointers, Holders
<1>10. Loose(b) = Loose(a) \ O
  BY <1>1, <1>4, Apart DEF Sound, Loose, Nowhere, Pointing, Pointers
<1>11. Sound(b) /\ Loose(b) = d \ O
  BY <1>4, <1>5, <1>6, <1>7, <1>8, <1>9, <1>10 DEF Sound
<1>12. Fine(b, p, d \ O)
  BY <1>4, <1>11 DEF Fine, Pointing
<1> QED
  BY <1>4, <1>12

\* What is in no object is within none.
LEMMA TopOutside ==
  ASSUME NEW at, Sound(at), NEW k \in Objs, at.in_obj[k] = Null,
         NEW O \in SUBSET Objs, k \notin O
  PROVE  k \notin Within(at, O)
<1>1. at \in Pointers
  BY DEF Sound
<1>2. ClosedUnderContents(at, Objs \ {k})
  BY <1>1, Apart DEF ClosedUnderContents, Sound, LinksAgree, Pointers, Holders
<1> QED
  BY <1>1, <1>2, WithinLeast

\* Nothing is within what has no contents.
LEMMA EmptyAlone ==
  ASSUME NEW at \in Pointers, NEW o \in Objs, at.held[o] = {}
  PROVE  Within(at, {o}) = {o}
<1>1. ClosedUnderContents(at, {o})
  BY DEF ClosedUnderContents
<1> QED
  BY <1>1, WithinLeast, WithinHolds

\* read_object and create_obj: the new object is nowhere and has nothing in it.
LEMMA New ==
  ASSUME NEW p, NEW d, NEW s, Fine(s.at, p, d), NEW o \in Objs \ s.at.listed,
         NEW w, NEW b, b = Created(s, o, w).at
  PROVE  /\ Fine(b, p, d \union {o})
         /\ b.listed = s.at.listed \union {o}
         /\ b.in_room = s.at.in_room /\ b.carried_by = s.at.carried_by
         /\ b.worn_by = s.at.worn_by /\ b.in_obj = s.at.in_obj
         /\ b.held[o] = {}
<1> Sound(s.at) /\ Loose(s.at) = d
  BY DEF Fine
<1> DEFINE a == s.at
<1>1. a \in Pointers /\ o \in Nowhere(a) /\ a.held[o] = {}
  BY DEF Sound, OnlyListed
<1>2. b = [a EXCEPT !.listed = @ \union {o}]
  BY DEF Created
<1>3. /\ b.listed = a.listed \union {o} /\ b.held = a.held
      /\ b.worn = a.worn /\ b.worn_by = a.worn_by /\ b.in_room = a.in_room
      /\ b.carried_by = a.carried_by /\ b.in_obj = a.in_obj
  BY <1>1, <1>2 DEF Pointers
<1>4. b \in Pointers
  BY <1>1, <1>2, <1>3 DEF Pointers
<1>5. LinksAgree(b) /\ OnePlace(b) /\ NoCycle(b)
  BY <1>3 DEF Sound, LinksAgree, OnePlace, NoCycle
<1>6. OnlyListed(b) /\ Loose(b) = Loose(a) \union {o}
  BY <1>1, <1>3 DEF Sound, OnlyListed, Loose, Nowhere
<1>7. Sound(b) /\ Loose(b) = d \union {o}
  BY <1>1, <1>3, <1>4, <1>5, <1>6 DEF Sound
<1>8. Fine(b, p, d \union {o})
  BY <1>3, <1>1, <1>7 DEF Fine, Pointing
<1> QED
  BY <1>3, <1>1, <1>8

\* Nothing of W is in a room or is anybody's.
Unplaced(a, W) ==
  \A x \in W : a.in_room[x] = Null /\ a.carried_by[x] = Null /\ a.worn_by[x] = Null

\* b is a without W.
Without(a, W, b) ==
  /\ b.listed = a.listed \ W /\ b.worn = a.worn
  /\ b.in_room = a.in_room /\ b.carried_by = a.carried_by /\ b.worn_by = a.worn_by
  /\ \A h \in Holders : b.held[h] = IF h \in W THEN {} ELSE a.held[h]
  /\ \A x \in Objs : b.in_obj[x] = IF x \in W THEN Null ELSE a.in_obj[x]

\* What Freed does to each list and pointer.
LEMMA FreedFields ==
  ASSUME NEW s, NEW a \in Pointers, a = s.at, NEW W \in SUBSET Objs, Unplaced(a, W)
  PROVE  Freed(s, W).at \in Pointers /\ Without(a, W, Freed(s, W).at)
<1> DEFINE held == [h \in Holders |-> IF h \in W THEN {} ELSE a.held[h]]
           in_obj == Pointing(a.in_obj, W, Null)
           b == [listed |-> a.listed \ W, held |-> held, worn |-> a.worn,
                 in_room |-> a.in_room, carried_by |-> a.carried_by,
                 worn_by |-> a.worn_by, in_obj |-> in_obj]
<1>1. held \in [Holders -> SUBSET Objs] /\ a.listed \ W \in SUBSET Objs
  BY DEF Pointers
<1>2. in_obj \in [Objs -> Objs \union {Null}]
  BY DEF Pointers, Pointing
<1>3. Pointing(a.in_room, W, Null) = a.in_room
  BY DEF Pointing, Pointers, Unplaced
<1>4. Pointing(a.carried_by, W, Null) = a.carried_by
  BY DEF Pointing, Pointers, Unplaced
<1>5. Pointing(a.worn_by, W, Null) = a.worn_by
  BY DEF Pointing, Pointers, Unplaced
<1>6. Freed(s, W).at = b
  BY <1>3, <1>4, <1>5 DEF Freed
<1>7. \A x \in Objs : in_obj[x] = IF x \in W THEN Null ELSE a.in_obj[x]
  BY DEF Pointing
<1>8. \A h \in Holders : held[h] = IF h \in W THEN {} ELSE a.held[h]
  OBVIOUS
<1> HIDE DEF held, in_obj
<1>9. b \in Pointers
  BY <1>1, <1>2 DEF Pointers
<1>10. Without(a, W, b)
  BY <1>7, <1>8 DEF Without
<1> HIDE DEF b
<1> QED
  BY <1>6, <1>9, <1>10

\* What is left is sound, if W has all that is in it and is in nothing else.
LEMMA WithoutSound ==
  ASSUME NEW a, Sound(a), NEW W \in SUBSET Objs, ClosedUnderContents(a, W), Unplaced(a, W),
         \A x \in W : a.in_obj[x] # Null => a.in_obj[x] \in W,
         NEW b \in Pointers, Without(a, W, b)
  PROVE  Sound(b)
<1>1. LinksAgree(b)
  <2>1. ASSUME NEW x \in Objs, NEW h \in Objs
        PROVE  x \in b.held[h] <=> b.in_obj[x] = h
    <3>1. x \in a.held[h] <=> a.in_obj[x] = h
      BY DEF Sound, LinksAgree
    <3>2. x \in W /\ a.in_obj[x] = h => h \in W
      BY Apart
    <3>3. h \in W /\ x \in a.held[h] => x \in W
      BY DEF ClosedUnderContents
    <3> QED
      BY <3>1, <3>2, <3>3, Apart DEF Holders, Without
  <2>2. \A h \in Rooms \union Chars : b.held[h] = a.held[h]
    BY Apart DEF Holders, Without
  <2> QED
    BY <2>1, <2>2 DEF Sound, LinksAgree, Without
<1>2. OnePlace(b)
  BY DEF Sound, OnePlace, Without
<1>3. NoCycle(b)
  <2> SUFFICES ASSUME NEW S \in SUBSET Objs, \A x \in S : b.in_obj[x] \in S
               PROVE  S = {}
    BY DEF NoCycle
  <2>1. \A x \in S : a.in_obj[x] \in S
    BY Apart DEF Without
  <2> QED
    BY <2>1 DEF Sound, NoCycle
<1>4. OnlyListed(b)
  BY DEF Sound, OnlyListed, Nowhere, Holders, Without, Unplaced
<1> QED
  BY <1>1, <1>2, <1>3, <1>4 DEF Sound

\* What is freed with an object that is nowhere is in no other object and in no list.
LEMMA FreedIsApart ==
  ASSUME NEW a, Sound(a), NEW o \in Loose(a)
  PROVE  /\ o \in Within(a, {o}) /\ Within(a, {o}) \in SUBSET Objs
         /\ ClosedUnderContents(a, Within(a, {o})) /\ Unplaced(a, Within(a, {o}))
         /\ \A x \in Within(a, {o}) : a.in_obj[x] # Null => a.in_obj[x] \in Within(a, {o})
         /\ \A x \in Within(a, {o}) : x # o => a.in_obj[x] \in Within(a, {o})
<1> PICK W : W = Within(a, {o})
  OBVIOUS
<1>1. a \in Pointers /\ o \in Objs /\ o \in a.listed /\ o \in Nowhere(a)
  BY DEF Sound, Loose, Nowhere
<1>2. o \in W /\ W \in SUBSET Objs /\ ClosedUnderContents(a, W)
  BY <1>1, WithinHolds, WithinClosed
<1>3. \A x \in W : x # o => a.in_obj[x] \in W
  BY <1>1, WithinSomething DEF Sound
<1>4. \A x \in W : a.in_obj[x] # Null => a.in_obj[x] \in W
  BY <1>1, <1>3 DEF Nowhere
<1>5. Unplaced(a, W)
  BY <1>1, <1>2, <1>3, Apart DEF Sound, OnePlace, Nowhere, Unplaced
<1> QED
  BY <1>2, <1>3, <1>4, <1>5

\* What is freed with an object is the object, if it is nowhere, and what is in it.
LEMMA Free ==
  ASSUME NEW p, NEW d, NEW s, Fine(s.at, p, d), NEW o \in d
  PROVE  Fine(Freed(s, Within(s.at, {o})).at, p, d \ {o})
<1> PICK a, W, b : a = s.at /\ W = Within(a, {o}) /\ b = Freed(s, W).at
  OBVIOUS
<1>1. Sound(a) /\ Loose(a) = d /\ a \in Pointers
  BY DEF Fine, Sound
<1>2. /\ o \in W /\ W \in SUBSET Objs /\ ClosedUnderContents(a, W) /\ Unplaced(a, W)
      /\ \A x \in W : a.in_obj[x] # Null => a.in_obj[x] \in W
      /\ \A x \in W : x # o => a.in_obj[x] \in W
  BY <1>1, FreedIsApart
<1>3. b \in Pointers /\ Without(a, W, b)
  BY <1>1, <1>2, FreedFields
<1>4. Sound(b)
  BY <1>1, <1>2, <1>3, WithoutSound
<1>5. Loose(b) = d \ {o}
  <2> SUFFICES ASSUME NEW x \in Objs
               PROVE  x \in Loose(b) <=> x \in Loose(a) /\ x # o
    BY <1>1 DEF Loose, Nowhere
  <2>1. CASE x \in W
    <3>1. x \notin Loose(b)
      BY <1>3, <2>1 DEF Loose, Without
    <3>2. x # o => a.in_obj[x] # Null
      BY <1>2, <2>1, Apart
    <3> QED
      BY <3>1, <3>2 DEF Loose, Nowhere
  <2>2. CASE x \notin W
    <3>1. /\ b.in_room[x] = a.in_room[x] /\ b.carried_by[x] = a.carried_by[x]
          /\ b.worn_by[x] = a.worn_by[x] /\ b.in_obj[x] = a.in_obj[x]
          /\ x \in b.listed <=> x \in a.listed
      BY <1>3, <2>2 DEF Without
    <3> QED
      BY <1>2, <2>2, <3>1 DEF Loose, Nowhere
  <2> QED
    BY <2>1, <2>2
<1>6. ASSUME NEW x \in Objs
      PROVE  /\ b.carried_by[x] \in p \union {Null} /\ b.worn_by[x] \in p \union {Null}
             /\ Kind[x] = "corpse" => b.worn_by[x] = Null
  <2>1. \/ b.carried_by[x] = Null /\ b.worn_by[x] = Null
        \/ b.carried_by[x] = a.carried_by[x] /\ b.worn_by[x] = a.worn_by[x]
    BY <1>3 DEF Without
  <2> QED
    BY <2>1 DEF Fine
<1> QED
  BY <1>4, <1>5, <1>6 DEF Fine

\* make_corpse's inventory goes into a new corpse as it is.
LEMMA HandOver ==
  ASSUME NEW p, NEW d, NEW s, Fine(s.at, p, d), NEW c \in Chars,
         NEW k \in d, s.at.held[k] = {}, NEW b, b = HandedOver(s, c, k).at
  PROVE  /\ Fine(b, p, d)
         /\ b.listed = s.at.listed
         /\ b.in_room = s.at.in_room /\ b.worn_by = s.at.worn_by
         /\ b.carried_by = Pointing(s.at.carried_by, s.at.held[c], Null)
         /\ b.in_obj = Pointing(s.at.in_obj, s.at.held[c], k)
<1> Sound(s.at) /\ Loose(s.at) = d
  BY DEF Fine
<1> DEFINE a == s.at
           O == a.held[c]
           W == Within(a, O)
<1>1. a \in Pointers /\ c \in Holders /\ k \in Holders /\ k \in Objs /\ k # c /\ k \in Nowhere(a)
  BY Apart DEF Sound, Loose, Nowhere, Holders
<1>2. O \in SUBSET Objs /\ \A o \in O : a.carried_by[o] = c
  BY <1>1 DEF Pointers, Sound, LinksAgree
<1>3. O \subseteq W /\ W \subseteq Objs /\ \A x \in W \ O : a.in_obj[x] \in Objs
  BY <1>1, <1>2, WithinHolds, WithinSomething DEF Sound
<1>4. b = [a EXCEPT !.held[k] = O, !.held[c] = {}, !.in_obj = Pointing(@, O, k),
                    !.carried_by = Pointing(@, W, Null)]
  BY DEF HandedOver
<1> HIDE DEF W
<1>5. /\ b.listed = a.listed /\ b.held = [a.held EXCEPT ![k] = O, ![c] = {}]
      /\ b.worn = a.worn /\ b.worn_by = a.worn_by /\ b.in_room = a.in_room
      /\ b.carried_by = Pointing(a.carried_by, W, Null) /\ b.in_obj = Pointing(a.in_obj, O, k)
  BY <1>1, <1>4 DEF Pointers
<1>6. b.carried_by = Pointing(a.carried_by, O, Null)
  <2>1. \A x \in W \ O : a.carried_by[x] = Null
    BY <1>3, Apart DEF Sound, OnePlace
  <2> QED
    BY <1>3, <1>5, <2>1 DEF Pointing
<1>7. b \in Pointers
  <2>1. b.held \in [Holders -> SUBSET Objs]
    BY <1>1, <1>2, <1>5 DEF Pointers
  <2>2. /\ b.in_obj \in [Objs -> Objs \union {Null}]
        /\ b.carried_by \in [Objs -> Chars \union {Null}]
    BY <1>1, <1>5, <1>6 DEF Pointers, Pointing
  <2> QED
    BY <1>1, <1>4, <1>5, <2>1, <2>2 DEF Pointers
<1>8. LinksAgree(b)
  <2>1. \A h \in Holders : b.held[h] = IF h = c THEN {} ELSE IF h = k THEN O ELSE a.held[h]
    BY <1>1, <1>5 DEF Pointers
  <2>2. \A o \in Objs, r \in Rooms : o \in b.held[r] <=> b.in_room[o] = r
    BY <1>1, <1>5, <2>1, Apart DEF Sound, LinksAgree, Holders
  <2>3. \A o \in Objs, v \in Chars : /\ o \in b.held[v] <=> b.carried_by[o] = v
                                     /\ o \in b.worn[v] <=> b.worn_by[o] = v
    BY <1>1, <1>2, <1>5, <1>6, <2>1, Apart DEF Sound, LinksAgree, Holders, Pointing
  <2>4. \A o \in Objs, h \in Objs : o \in b.held[h] <=> b.in_obj[o] = h
    <3>1. \A o \in Objs : a.in_obj[o] # k
      BY <1>1 DEF Sound, LinksAgree
    <3>2. \A o \in O : a.in_obj[o] = Null
      BY <1>2, Apart DEF Sound, OnePlace
    <3>3. \A o \in Objs : b.in_obj[o] = IF o \in O THEN k ELSE a.in_obj[o]
      BY <1>5 DEF Pointing
    <3>4. c \notin Objs
      BY Apart
    <3> QED
      BY <1>2, <2>1, <3>1, <3>2, <3>3, <3>4, Apart DEF Sound, LinksAgree, Holders
  <2> QED
    BY <2>2, <2>3, <2>4 DEF LinksAgree
<1>9. OnePlace(b)
  BY <1>1, <1>2, <1>5, <1>6, Apart DEF Sound, OnePlace, Pointing
<1>10. NoCycle(b)
  <2> SUFFICES ASSUME NEW S \in SUBSET Objs, \A o \in S : b.in_obj[o] \in S
               PROVE  S = {}
    BY DEF NoCycle
  <2>1. k \notin O /\ a.in_obj[k] = Null
    BY <1>1, <1>2, Apart DEF Nowhere
  <2>2. k \notin S
    BY <1>1, <1>5, <2>1, Apart DEF Pointing
  <2>3. \A o \in S : a.in_obj[o] \in S
    BY <1>5, <2>2 DEF Pointing
  <2> QED
    BY <2>3 DEF Sound, NoCycle
<1>11. OnlyListed(b)
  BY <1>1, <1>2, <1>5, <1>6, Apart
  DEF Sound, OnlyListed, Nowhere, Loose, Pointing, Pointers, Holders
<1>12. Loose(b) = Loose(a)
  BY <1>1, <1>2, <1>5, <1>6, Apart DEF Sound, Loose, Nowhere, Pointing, Pointers
<1>13. Sound(b) /\ Loose(b) = d
  BY <1>5, <1>6, <1>7, <1>8, <1>9, <1>10, <1>11, <1>12 DEF Sound
<1>14. Fine(b, p, d)
  BY <1>5, <1>6, <1>13 DEF Fine, Pointing
<1> QED
  BY <1>5, <1>6, <1>14

-----------------------------------------------------------------------------
(* handler.c: weights *)

Masses == [weight : [Objs -> Int], load : [Chars -> Int], items : [Chars -> Int]]

\* WeightsAddUp of any state of things, l being the liquids.
Weighs(at, m, l) ==
  /\ m \in Masses /\ l \in [Objs -> Int] /\ IsFiniteSet(at.listed)
  /\ \A o \in Objs :
       m.weight[o] = IF o \in at.listed
                     THEN EmptyWeight[o] + l[o] + Sum(m.weight, at.held[o]) ELSE 0
  /\ \A c \in Chars : /\ m.load[c] = Sum(m.weight, at.held[c])
                      /\ m.items[c] = Cardinality(at.held[c])

LEMMA HeldIs ==
  ASSUME NEW at, Sound(at), NEW h \in Holders
  PROVE  at.held[h] \subseteq at.listed /\ at.held[h] \subseteq Objs
BY Apart DEF Sound, Pointers, OnlyListed, Nowhere, LinksAgree, Holders

LEMMA SumsOfHeld ==
  ASSUME NEW at, Sound(at), NEW m, NEW l, Weighs(at, m, l), NEW O, O \subseteq at.listed
  PROVE  /\ IsFiniteSet(O) /\ O \subseteq Objs /\ \A x \in O : m.weight[x] \in Int
         /\ Sum(m.weight, O) \in Int /\ Cardinality(O) \in Int
<1>1. IsFiniteSet(at.listed) /\ O \subseteq Objs /\ m.weight \in [Objs -> Int]
  BY DEF Weighs, Masses, Sound, Pointers
<1>2. IsFiniteSet(O) /\ Cardinality(O) \in Int
  BY <1>1, FS_Subset, FS_CardinalityType
<1> QED
  BY <1>1, <1>2, SumIsInt

\* What is only moved between rooms and bodies weighs nothing more or less anywhere.
LEMMA SameWeighs ==
  ASSUME NEW a, NEW m, NEW l, Weighs(a, m, l), NEW b, b.listed = a.listed,
         \A h \in Objs \union Chars : b.held[h] = a.held[h]
  PROVE  Weighs(b, m, l)
BY DEF Weighs

LEMMA ToRoomWeighs ==
  ASSUME NEW s, Sound(s.at), NEW l, Weighs(s.at, s.mass, l), NEW O, NEW r \in Rooms,
         NEW t, t = ObjToRoom(s, O, r)
  PROVE  Weighs(t.at, t.mass, l)
<1>1. /\ t.mass = s.mass /\ t.at.listed = s.at.listed
      /\ \A h \in Objs \union Chars : t.at.held[h] = s.at.held[h]
  BY Apart DEF ObjToRoom, Sound, Pointers, Holders
<1> QED
  BY <1>1, SameWeighs

LEMMA FromRoomWeighs ==
  ASSUME NEW s, Sound(s.at), NEW l, Weighs(s.at, s.mass, l), NEW O, NEW r \in Rooms,
         NEW t, t = ObjFromRoom(s, O, r)
  PROVE  Weighs(t.at, t.mass, l)
<1>1. /\ t.mass = s.mass /\ t.at.listed = s.at.listed
      /\ \A h \in Objs \union Chars : t.at.held[h] = s.at.held[h]
  BY Apart DEF ObjFromRoom, Sound, Pointers, Holders
<1> QED
  BY <1>1, SameWeighs

LEMMA UnequipWeighs ==
  ASSUME NEW s, Sound(s.at), NEW l, Weighs(s.at, s.mass, l), NEW O, NEW c \in Chars,
         NEW t, t = UnequipChar(s, O, c)
  PROVE  Weighs(t.at, t.mass, l)
<1>1. /\ t.mass = s.mass /\ t.at.listed = s.at.listed
      /\ \A h \in Objs \union Chars : t.at.held[h] = s.at.held[h]
  BY DEF UnequipChar, Sound, Pointers
<1> QED
  BY <1>1, SameWeighs

LEMMA FromCharWeighs ==
  ASSUME NEW s, Sound(s.at), NEW l, Weighs(s.at, s.mass, l), NEW c \in Chars,
         NEW O, O \subseteq s.at.held[c], NEW t, t = ObjFromChar(s, O, c)
  PROVE  Weighs(t.at, t.mass, l)
<1> PICK f, load, items, held, H :
      /\ f = s.mass.weight /\ load = s.mass.load /\ items = s.mass.items
      /\ held = s.at.held /\ H = held[c]
  OBVIOUS
<1>1. /\ f \in [Objs -> Int] /\ load \in [Chars -> Int] /\ items \in [Chars -> Int]
      /\ s.mass \in Masses
      /\ held \in [Holders -> SUBSET Objs] /\ c \in Holders /\ s.at \in Pointers
  BY DEF Weighs, Masses, Sound, Pointers, Holders
<1>2. /\ t.at.listed = s.at.listed /\ t.at.held = [held EXCEPT ![c] = @ \ O]
      /\ t.mass.weight = f
      /\ t.mass.load = [load EXCEPT ![c] = @ - Sum(f, O)]
      /\ t.mass.items = [items EXCEPT ![c] = @ - Cardinality(O)]
  BY <1>1, WeightIsSum DEF ObjFromChar, Masses, Pointers
<1>3. t.mass \in Masses
  <2>1. Sum(f, O) \in Int /\ Cardinality(O) \in Int
    BY <1>1, HeldIs, SumsOfHeld
  <2>2. t.mass = [s.mass EXCEPT !.load[c] = @ - Sum(f, O), !.items[c] = @ - Cardinality(O)]
    BY WeightIsSum DEF ObjFromChar
  <2>3. t.mass.load \in [Chars -> Int] /\ t.mass.items \in [Chars -> Int]
    BY <1>1, <1>2, <2>1
  <2> QED
    BY <1>1, <1>2, <2>2, <2>3 DEF Masses
<1>4. \A h \in Holders \ {c} : t.at.held[h] = held[h]
  BY <1>1, <1>2
<1>5. t.at.held[c] = H \ O
  BY <1>1, <1>2
<1>6. H \subseteq s.at.listed /\ O \subseteq H
  BY <1>1, HeldIs
<1>7. /\ IsFiniteSet(H) /\ \A x \in H : f[x] \in Int
      /\ Cardinality(H) \in Int /\ Sum(f, H) \in Int
  BY <1>6, SumsOfHeld
<1>8. Sum(f, H \ O) = Sum(f, H) - Sum(f, O)
  BY <1>6, <1>7, SumOfRest
<1>9. Cardinality(H \ O) = Cardinality(H) - Cardinality(O)
  <2>1. H \intersect O = O
    BY <1>6
  <2>2. Cardinality(H \ O) = Cardinality(H) - Cardinality(H \intersect O)
    BY <1>7, FS_Difference
  <2> QED
    BY <2>1, <2>2
<1>10. \A o \in Objs : t.at.held[o] = held[o]
  BY <1>4, Apart DEF Holders
<1>11. \A x \in Chars : /\ t.mass.load[x] = Sum(f, t.at.held[x])
                        /\ t.mass.items[x] = Cardinality(t.at.held[x])
  <2>1. ASSUME NEW x \in Chars, x # c
        PROVE  /\ t.mass.load[x] = Sum(f, t.at.held[x])
               /\ t.mass.items[x] = Cardinality(t.at.held[x])
    BY <1>1, <1>2, <1>4, <2>1 DEF Weighs, Holders
  <2>2. t.mass.load[c] = Sum(f, t.at.held[c]) /\ t.mass.items[c] = Cardinality(t.at.held[c])
    <3>1. load[c] = Sum(f, H) /\ items[c] = Cardinality(H)
      BY DEF Weighs
    <3> QED
      BY <1>1, <1>2, <1>5, <1>8, <1>9, <3>1
  <2> QED
    BY <2>1, <2>2
<1>12. \A o \in Objs :
        f[o] = IF o \in t.at.listed THEN EmptyWeight[o] + l[o] + Sum(f, t.at.held[o]) ELSE 0
  BY <1>2, <1>10 DEF Weighs
<1>13. t.mass.weight = f /\ l \in [Objs -> Int] /\ IsFiniteSet(t.at.listed)
  BY <1>2 DEF Weighs
<1> QED
  BY <1>3, <1>11, <1>12, <1>13 DEF Weighs

LEMMA ToCharWeighs ==
  ASSUME NEW s, Sound(s.at), NEW l, Weighs(s.at, s.mass, l), NEW c \in Chars,
         NEW O, O \subseteq Loose(s.at), NEW t, t = ObjToChar(s, O, c)
  PROVE  Weighs(t.at, t.mass, l)
<1> PICK f, load, items, held, H :
      /\ f = s.mass.weight /\ load = s.mass.load /\ items = s.mass.items
      /\ held = s.at.held /\ H = held[c]
  OBVIOUS
<1>1. /\ f \in [Objs -> Int] /\ load \in [Chars -> Int] /\ items \in [Chars -> Int]
      /\ s.mass \in Masses
      /\ held \in [Holders -> SUBSET Objs] /\ c \in Holders /\ s.at \in Pointers
  BY DEF Weighs, Masses, Sound, Pointers, Holders
<1>2. /\ t.at.listed = s.at.listed /\ t.at.held = [held EXCEPT ![c] = @ \union O]
      /\ t.mass.weight = f
      /\ t.mass.load = [load EXCEPT ![c] = @ + Sum(f, O)]
      /\ t.mass.items = [items EXCEPT ![c] = @ + Cardinality(O)]
  BY <1>1, WeightIsSum DEF ObjToChar, Masses, Pointers
<1>3. O \subseteq s.at.listed /\ H \subseteq s.at.listed /\ H \intersect O = {}
  BY <1>1, HeldIs, Apart DEF Loose, Nowhere, Sound, LinksAgree
<1>4. /\ IsFiniteSet(H) /\ \A x \in H : f[x] \in Int
      /\ Cardinality(H) \in Int /\ Sum(f, H) \in Int
  BY <1>3, SumsOfHeld
<1>5. /\ IsFiniteSet(O) /\ \A x \in O : f[x] \in Int
      /\ Cardinality(O) \in Int /\ Sum(f, O) \in Int
  BY <1>3, SumsOfHeld
<1>6. t.mass \in Masses
  <2>1. t.mass = [s.mass EXCEPT !.load[c] = @ + Sum(f, O), !.items[c] = @ + Cardinality(O)]
    BY WeightIsSum DEF ObjToChar
  <2>2. t.mass.load \in [Chars -> Int] /\ t.mass.items \in [Chars -> Int]
    BY <1>1, <1>2, <1>5
  <2> QED
    BY <1>1, <1>2, <2>1, <2>2 DEF Masses
<1>7. \A h \in Holders \ {c} : t.at.held[h] = held[h]
  BY <1>1, <1>2
<1>8. t.at.held[c] = H \union O
  BY <1>1, <1>2
<1>9. Sum(f, H \union O) = Sum(f, H) + Sum(f, O)
  BY <1>3, <1>4, <1>5, SumOfBoth
<1>10. Cardinality(H \union O) = Cardinality(H) + Cardinality(O)
  BY <1>3, <1>4, <1>5, FS_Union, FS_EmptySet
<1>11. \A o \in Objs : t.at.held[o] = held[o]
  BY <1>7, Apart DEF Holders
<1>12. \A x \in Chars : /\ t.mass.load[x] = Sum(f, t.at.held[x])
                        /\ t.mass.items[x] = Cardinality(t.at.held[x])
  <2>1. ASSUME NEW x \in Chars, x # c
        PROVE  /\ t.mass.load[x] = Sum(f, t.at.held[x])
               /\ t.mass.items[x] = Cardinality(t.at.held[x])
    BY <1>1, <1>2, <1>7, <2>1 DEF Weighs, Holders
  <2>2. t.mass.load[c] = Sum(f, t.at.held[c]) /\ t.mass.items[c] = Cardinality(t.at.held[c])
    <3>1. load[c] = Sum(f, H) /\ items[c] = Cardinality(H)
      BY DEF Weighs
    <3> QED
      BY <1>1, <1>2, <1>8, <1>9, <1>10, <3>1
  <2> QED
    BY <2>1, <2>2
<1>13. \A o \in Objs :
        f[o] = IF o \in t.at.listed THEN EmptyWeight[o] + l[o] + Sum(f, t.at.held[o]) ELSE 0
  BY <1>2, <1>11 DEF Weighs
<1>14. t.mass.weight = f /\ l \in [Objs -> Int] /\ IsFiniteSet(t.at.listed)
  BY <1>2 DEF Weighs
<1> QED
  BY <1>6, <1>12, <1>13, <1>14 DEF Weighs

\* m is what things weigh in a once everything around b has w more to bear: of what a list
\* has, only what is around b is heavier, and that is one object at most.
Borne(a, n, b, w, m) ==
  /\ m \in Masses /\ m.items = n.items
  /\ \A o \in Objs : m.weight[o] = n.weight[o] + IF o \in Around(a, b) THEN w ELSE 0
  /\ \A O \in SUBSET a.listed :
       O \intersect Around(a, b) = {} => Sum(m.weight, O) = Sum(n.weight, O)
  /\ a.held[b] \intersect Around(a, b) = {} /\ b \in Around(a, b)
  /\ Around(a, b) \subseteq a.listed
  /\ \A o \in Objs : o # b =>
       Sum(m.weight, a.held[o]) =
         Sum(n.weight, a.held[o]) + IF o \in Around(a, b) THEN w ELSE 0
  /\ \A c \in Chars : m.load[c] = Sum(m.weight, a.held[c])

\* Burdened changes what a list's contents weigh by w, if one of them is around b,
\* and then changes the weight of the container, or the load of who has them, by w.
LEMMA BurdenedIs ==
  ASSUME NEW s, Sound(s.at), NEW l, Weighs(s.at, s.mass, l), NEW b \in s.at.listed,
         NEW w \in Int
  PROVE  Borne(s.at, s.mass, b, w, Burdened(s, b, w))
<1> PICK m, f, A : m = Burdened(s, b, w) /\ f = s.mass.weight /\ A = Around(s.at, b)
  OBVIOUS
<1> PICK a, load, g, bearer :
      /\ a = s.at /\ load = s.mass.load /\ g = m.weight
      /\ bearer = {a.carried_by[k] : k \in A}
  OBVIOUS
<1>1. /\ f \in [Objs -> Int] /\ load \in [Chars -> Int] /\ s.mass \in Masses
      /\ a \in Pointers /\ b \in Objs /\ a.held \in [Holders -> SUBSET Objs]
  BY DEF Weighs, Masses, Sound, Pointers
<1>2. A \subseteq a.listed /\ b \in A /\ A \subseteq Objs
  BY <1>1, AroundListed, AroundHolds
<1>3. m = [s.mass EXCEPT !.weight = [o \in Objs |-> @[o] + IF o \in A THEN w ELSE 0],
                         !.load = [c \in Chars |-> @[c] + IF c \in bearer THEN w ELSE 0]]
  BY DEF Burdened
<1>4. /\ g = [o \in Objs |-> f[o] + IF o \in A THEN w ELSE 0]
      /\ m.load = [c \in Chars |-> load[c] + IF c \in bearer THEN w ELSE 0]
      /\ m.items = s.mass.items
  BY <1>1, <1>3 DEF Masses
<1>5. g \in [Objs -> Int] /\ m.load \in [Chars -> Int]
  BY <1>1, <1>4
<1>6. m \in Masses
  BY <1>1, <1>3, <1>4, <1>5 DEF Masses
<1>7. ASSUME NEW O \in SUBSET a.listed, O \intersect A = {}
      PROVE  Sum(g, O) = Sum(f, O)
  <2>1. IsFiniteSet(O) /\ O \subseteq Objs
    BY <1>7, SumsOfHeld
  <2>2. \A x \in O : g[x] = f[x]
    BY <1>1, <1>4, <1>7, <2>1
  <2> QED
    BY <2>1, <2>2, SumOfSame
<1>8. ASSUME NEW O \in SUBSET a.listed, NEW y \in A, O \intersect A = {y}
      PROVE  Sum(g, O) = Sum(f, O) + w
  <2>1. IsFiniteSet(O) /\ O \subseteq Objs /\ \A x \in O : f[x] \in Int
    BY <1>8, SumsOfHeld
  <2>2. y \in O /\ g[y] = f[y] + w /\ \A x \in O \ {y} : g[x] = f[x]
    BY <1>1, <1>4, <1>8, <2>1
  <2> QED
    BY <2>1, <2>2, SumShifted
<1>9. \A h \in Holders : a.held[h] \in SUBSET a.listed
  BY HeldIs
<1>10. \A x \in Objs, o \in Objs : x \in a.held[o] <=> a.in_obj[x] = o
  BY DEF Sound, LinksAgree
<1>11. \A x \in A : a.in_obj[x] # Null => a.in_obj[x] \in A
  BY <1>1, AroundHolds
<1>12. a.held[b] \intersect A = {}
  BY <1>1, <1>2, <1>10, NoLoop
<1>13. ASSUME NEW o \in Objs, o # b
       PROVE  Sum(g, a.held[o]) = Sum(f, a.held[o]) + IF o \in A THEN w ELSE 0
  <2>1. a.held[o] \in SUBSET a.listed /\ Sum(f, a.held[o]) \in Int
    BY <1>9, SumsOfHeld DEF Holders
  <2>2. CASE o \in A
    <3>1. PICK x \in A : a.in_obj[x] = o
      BY <1>1, <1>13, <2>2, ChildOf
    <3>2. a.held[o] \intersect A = {x}
      BY <1>1, <1>2, <1>10, <3>1, OneChild
    <3> QED
      BY <1>8, <2>1, <2>2, <3>2
  <2>3. CASE o \notin A
    <3>1. a.held[o] \intersect A = {}
      BY <1>2, <1>10, <1>11, <2>3, Apart
    <3> QED
      BY <1>7, <2>1, <2>3, <3>1
  <2> QED
    BY <2>2, <2>3
<1>14. ASSUME NEW c \in Chars
       PROVE  m.load[c] = Sum(g, a.held[c])
  <2>1. /\ a.held[c] \in SUBSET a.listed /\ Sum(f, a.held[c]) \in Int
        /\ load[c] = Sum(f, a.held[c])
    BY <1>9, SumsOfHeld DEF Holders, Weighs
  <2>2. \A x \in Objs : x \in a.held[c] <=> a.carried_by[x] = c
    BY DEF Sound, LinksAgree
  <2>3. CASE c \in bearer
    <3>1. PICK x \in A : a.carried_by[x] = c
      BY <2>3
    <3>2. \A y \in Objs : a.carried_by[y] = c => a.in_obj[y] = Null
      BY Apart DEF Sound, OnePlace
    <3>3. \A y \in A : a.carried_by[y] = c => y = x
      BY <1>1, <1>2, <3>1, <3>2, OneChild
    <3>4. a.held[c] \intersect A = {x}
      BY <1>2, <2>2, <3>1, <3>3
    <3> QED
      BY <1>4, <1>8, <2>1, <2>3, <3>4
  <2>4. CASE c \notin bearer
    <3>1. a.held[c] \intersect A = {}
      BY <1>2, <2>2, <2>4
    <3> QED
      BY <1>1, <1>4, <1>7, <2>1, <2>4, <3>1
  <2> QED
    BY <2>3, <2>4
<1>15. \A o \in Objs : g[o] = f[o] + IF o \in A THEN w ELSE 0
  BY <1>4
<1> QED
  BY <1>2, <1>4, <1>6, <1>7, <1>12, <1>13, <1>14, <1>15 DEF Borne

LEMMA FromObjWeighs ==
  ASSUME NEW s, Sound(s.at), NEW l, Weighs(s.at, s.mass, l), NEW b \in s.at.listed,
         NEW O, O \subseteq s.at.held[b], NEW t, t = ObjFromObj(s, O, b)
  PROVE  Weighs(t.at, t.mass, l)
<1> PICK a, f, m, A, H, w :
      /\ a = s.at /\ f = s.mass.weight /\ m = t.mass /\ A = Around(s.at, b) /\ H = a.held[b]
      /\ w = Sum(f, O)
  OBVIOUS
<1>1. a \in Pointers /\ b \in Objs /\ b \in Holders /\ a.held \in [Holders -> SUBSET Objs]
  BY DEF Sound, Pointers, Holders
<1>2. H \in SUBSET a.listed /\ O \in SUBSET a.listed /\ O \in SUBSET H
  BY <1>1, HeldIs
<1>3. /\ IsFiniteSet(H) /\ \A x \in H : f[x] \in Int
      /\ w \in Int /\ -w \in Int /\ Sum(f, H) \in Int
  <2>1. IsFiniteSet(H) /\ (\A x \in H : f[x] \in Int) /\ Sum(f, H) \in Int
    <3>1. H \subseteq s.at.listed
      BY <1>2
    <3>2. IsFiniteSet(H)
      BY <3>1, SumsOfHeld
    <3>3. \A x \in H : s.mass.weight[x] \in Int
      BY <3>1, SumsOfHeld
    <3>4. Sum(s.mass.weight, H) \in Int
      BY <3>1, SumsOfHeld
    <3> QED
      BY <3>2, <3>3, <3>4
  <2>2. w \in Int
    <3>1. O \subseteq s.at.listed
      BY <1>2
    <3>2. Sum(s.mass.weight, O) \in Int
      BY <3>1, SumsOfHeld
    <3> QED
      BY <3>2
  <2> QED
    BY <2>1, <2>2
<1>4. m = Burdened(s, b, -w)
  BY WeightIsSum DEF ObjFromObj
<1>5. /\ t.at.listed = a.listed /\ t.at.held = [a.held EXCEPT ![b] = @ \ O]
  BY <1>1 DEF ObjFromObj, Pointers
<1>6. /\ m \in Masses /\ m.items = s.mass.items
      /\ \A o \in Objs : m.weight[o] = f[o] + IF o \in A THEN -w ELSE 0
      /\ \A S \in SUBSET a.listed : S \intersect A = {} => Sum(m.weight, S) = Sum(f, S)
      /\ H \intersect A = {} /\ b \in A /\ A \subseteq a.listed
      /\ \A o \in Objs : o # b =>
           Sum(m.weight, a.held[o]) = Sum(f, a.held[o]) + IF o \in A THEN -w ELSE 0
      /\ \A c \in Chars : m.load[c] = Sum(m.weight, a.held[c])
  <2>1. Borne(s.at, s.mass, b, -w, Burdened(s, b, -w))
    BY <1>3, BurdenedIs
  <2> QED
    BY <2>1, <1>4 DEF Borne
<1>7. t.at.held[b] = H \ O /\ \A h \in Holders \ {b} : t.at.held[h] = a.held[h]
  BY <1>1, <1>5
<1>8. Sum(m.weight, H \ O) = Sum(f, H) - w
  <2>1. Sum(f, H \ O) = Sum(f, H) - w
    BY <1>2, <1>3, SumOfRest
  <2>2. H \ O \in SUBSET a.listed /\ (H \ O) \intersect A = {}
    BY <1>2, <1>6
  <2> QED
    BY <1>6, <2>1, <2>2
<1>9. ASSUME NEW o \in Objs
      PROVE  m.weight[o] = IF o \in a.listed
                           THEN EmptyWeight[o] + l[o] + Sum(m.weight, t.at.held[o]) ELSE 0
  <2>1. f[o] = IF o \in a.listed THEN EmptyWeight[o] + l[o] + Sum(f, a.held[o]) ELSE 0
    BY DEF Weighs
  <2>2. EmptyWeight[o] \in Int /\ l[o] \in Int /\ Sum(f, a.held[o]) \in Int
    <3>1. a.held[o] \subseteq a.listed
      BY HeldIs DEF Holders
    <3>2. Sum(s.mass.weight, a.held[o]) \in Int
      BY <3>1, SumsOfHeld
    <3> QED
      BY <3>2, ObjectsAssumption DEF Weighs
  <2>3. CASE o = b
    <3>1. f[b] = EmptyWeight[b] + l[b] + Sum(f, H)
      BY <2>1, <2>3
    <3> QED
      BY <1>3, <1>6, <1>7, <1>8, <2>2, <2>3, <3>1
  <2>4. CASE o # b
    <3>1. t.at.held[o] = a.held[o]
      BY <1>7, <2>4 DEF Holders
    <3>2. CASE o \in A
      BY <1>3, <1>6, <2>1, <2>2, <2>4, <3>1, <3>2
    <3>3. CASE o \notin A
      BY <1>3, <1>6, <2>1, <2>2, <2>4, <3>1, <3>3
    <3> QED
      BY <3>2, <3>3
  <2> QED
    BY <2>3, <2>4
<1>10. \A c \in Chars : /\ m.load[c] = Sum(m.weight, t.at.held[c])
                        /\ m.items[c] = Cardinality(t.at.held[c])
  <2>1. \A c \in Chars : t.at.held[c] = a.held[c]
    BY <1>1, <1>7, Apart DEF Holders
  <2> QED
    BY <1>6, <2>1 DEF Weighs
<1> QED
  BY <1>5, <1>6, <1>9, <1>10 DEF Weighs

LEMMA ToObjWeighs ==
  ASSUME NEW s, Sound(s.at), NEW l, Weighs(s.at, s.mass, l), NEW b \in s.at.listed,
         NEW O, O \subseteq Loose(s.at), b \notin Within(s.at, O), NEW t, t = ObjToObj(s, O, b)
  PROVE  Weighs(t.at, t.mass, l)
<1> PICK a, f, m, A, H, w :
      /\ a = s.at /\ f = s.mass.weight /\ m = t.mass /\ A = Around(s.at, b) /\ H = a.held[b]
      /\ w = Sum(f, O)
  OBVIOUS
<1>1. a \in Pointers /\ b \in Objs /\ b \in Holders /\ a.held \in [Holders -> SUBSET Objs]
  BY DEF Sound, Pointers, Holders
<1>2. /\ H \in SUBSET a.listed /\ O \in SUBSET a.listed /\ O \in SUBSET Objs
      /\ H \intersect O = {}
  BY <1>1, HeldIs, Apart DEF Loose, Nowhere, Sound, LinksAgree
<1>3. /\ IsFiniteSet(H) /\ \A x \in H : f[x] \in Int
      /\ Sum(f, H) \in Int
  BY <1>2, SumsOfHeld
<1>4. /\ IsFiniteSet(O) /\ \A x \in O : f[x] \in Int
      /\ w \in Int
  BY <1>2, SumsOfHeld
<1>5. O \subseteq Within(a, O) /\ ClosedUnderContents(a, Within(a, O))
      /\ Within(a, O) \in SUBSET Objs
  BY <1>1, <1>2, WithinHolds, WithinClosed
<1>6. m = Burdened(s, b, w) /\ t.at = [a EXCEPT !.held[b] = @ \union O,
                                                !.in_obj = Pointing(@, O, b)]
  BY <1>5, WeightIsSum DEF ObjToObj
<1>7. /\ t.at.listed = a.listed /\ t.at.held = [a.held EXCEPT ![b] = @ \union O]
  BY <1>1, <1>6 DEF Pointers
<1>8. /\ m \in Masses /\ m.items = s.mass.items
      /\ \A o \in Objs : m.weight[o] = f[o] + IF o \in A THEN w ELSE 0
      /\ \A S \in SUBSET a.listed : S \intersect A = {} => Sum(m.weight, S) = Sum(f, S)
      /\ H \intersect A = {} /\ b \in A /\ A \subseteq a.listed
      /\ \A o \in Objs : o # b =>
           Sum(m.weight, a.held[o]) = Sum(f, a.held[o]) + IF o \in A THEN w ELSE 0
      /\ \A c \in Chars : m.load[c] = Sum(m.weight, a.held[c])
  <2>1. Borne(s.at, s.mass, b, w, Burdened(s, b, w))
    BY <1>4, BurdenedIs
  <2> QED
    BY <2>1, <1>6 DEF Borne
<1>9. t.at.held[b] = H \union O /\ \A h \in Holders \ {b} : t.at.held[h] = a.held[h]
  BY <1>1, <1>7
<1>10. O \intersect A = {}
  <2> DEFINE S == Objs \ Within(a, O)
  <2>1. \A x \in S : a.in_obj[x] # Null => a.in_obj[x] \in S
    BY <1>1, <1>5 DEF Sound, LinksAgree, ClosedUnderContents, Pointers
  <2>2. b \in S /\ S \in SUBSET Objs
    BY <1>1
  <2>3. A \subseteq S
    <3> HIDE DEF S
    <3> QED
      BY <2>1, <2>2, AroundLeast
  <2> QED
    BY <1>5, <2>3
<1>11. Sum(m.weight, H \union O) = Sum(f, H) + w
  <2>1. Sum(f, H \union O) = Sum(f, H) + w
    BY <1>2, <1>3, <1>4, SumOfBoth
  <2>2. H \union O \in SUBSET a.listed /\ (H \union O) \intersect A = {}
    BY <1>2, <1>8, <1>10
  <2> QED
    BY <1>8, <2>1, <2>2
<1>12. ASSUME NEW o \in Objs
       PROVE  m.weight[o] = IF o \in a.listed
                            THEN EmptyWeight[o] + l[o] + Sum(m.weight, t.at.held[o]) ELSE 0
  <2>1. f[o] = IF o \in a.listed THEN EmptyWeight[o] + l[o] + Sum(f, a.held[o]) ELSE 0
    BY DEF Weighs
  <2>2. EmptyWeight[o] \in Int /\ l[o] \in Int /\ Sum(f, a.held[o]) \in Int
    <3>1. a.held[o] \subseteq a.listed
      BY HeldIs DEF Holders
    <3>2. Sum(s.mass.weight, a.held[o]) \in Int
      BY <3>1, SumsOfHeld
    <3> QED
      BY <3>2, ObjectsAssumption DEF Weighs
  <2>3. CASE o = b
    <3>1. f[b] = EmptyWeight[b] + l[b] + Sum(f, H)
      BY <2>1, <2>3
    <3> QED
      BY <1>3, <1>4, <1>8, <1>9, <1>11, <2>2, <2>3, <3>1
  <2>4. CASE o # b
    <3>1. t.at.held[o] = a.held[o]
      BY <1>9, <2>4 DEF Holders
    <3>2. CASE o \in A
      BY <1>4, <1>8, <2>1, <2>2, <2>4, <3>1, <3>2
    <3>3. CASE o \notin A
      BY <1>4, <1>8, <2>1, <2>2, <2>4, <3>1, <3>3
    <3> QED
      BY <3>2, <3>3
  <2> QED
    BY <2>3, <2>4
<1>13. \A c \in Chars : /\ m.load[c] = Sum(m.weight, t.at.held[c])
                        /\ m.items[c] = Cardinality(t.at.held[c])
  <2>1. \A c \in Chars : t.at.held[c] = a.held[c]
    BY <1>1, <1>9, Apart DEF Holders
  <2> QED
    BY <1>8, <2>1 DEF Weighs
<1> QED
  BY <1>7, <1>8, <1>12, <1>13 DEF Weighs

LEMMA SameHeld ==
  ASSUME NEW at, Sound(at), NEW m, NEW l, Weighs(at, m, l), NEW S, S \subseteq at.listed,
         NEW g, \A x \in S : g[x] = m.weight[x]
  PROVE  Sum(g, S) = Sum(m.weight, S)
<1>1. IsFiniteSet(S)
  BY SumsOfHeld
<1> QED
  BY <1>1, SumOfSame

\* A new object weighs what it is by itself and the liquid it comes with.
LEMMA NewWeighs ==
  ASSUME NEW s, Sound(s.at), NEW l, Weighs(s.at, s.mass, l), NEW o \in Objs \ s.at.listed,
         NEW h \in [Objs -> Int], \A x \in s.at.listed : h[x] = l[x],
         NEW w, w = EmptyWeight[o] + h[o], NEW t, t = Created(s, o, w)
  PROVE  Weighs(t.at, t.mass, h)
<1> PICK a, f, g, m : a = s.at /\ f = s.mass.weight /\ m = t.mass /\ g = m.weight
  OBVIOUS
<1>1. /\ f \in [Objs -> Int] /\ s.mass \in Masses /\ a \in Pointers /\ w \in Int
      /\ IsFiniteSet(a.listed)
  BY ObjectsAssumption DEF Weighs, Masses, Sound
<1>2. /\ t.at.listed = a.listed \union {o} /\ t.at.held = a.held
      /\ m = [s.mass EXCEPT !.weight[o] = w] /\ g = [f EXCEPT ![o] = w]
      /\ m.load = s.mass.load /\ m.items = s.mass.items
  BY <1>1 DEF Created, Pointers, Masses
<1>3. g \in [Objs -> Int]
  BY <1>1, <1>2
<1>4. m \in Masses
  BY <1>1, <1>2, <1>3 DEF Masses
<1>5. IsFiniteSet(t.at.listed)
  BY <1>1, <1>2, FS_AddElement
<1>6. ASSUME NEW k \in Holders
      PROVE  Sum(g, a.held[k]) = Sum(f, a.held[k])
  <2>1. a.held[k] \subseteq a.listed /\ IsFiniteSet(a.held[k]) /\ a.held[k] \subseteq Objs
    BY HeldIs, SumsOfHeld
  <2>2. \A x \in a.held[k] : g[x] = f[x]
    BY <1>1, <1>2, <2>1
  <2> QED
    BY <2>1, <2>2, SumOfSame
<1>7. Sum(g, a.held[o]) = 0
  BY SumOfNone DEF Sound, OnlyListed
<1>8. \A x \in Objs : g[x] = IF x \in t.at.listed
                             THEN EmptyWeight[x] + h[x] + Sum(g, t.at.held[x]) ELSE 0
  <2>1. ASSUME NEW x \in Objs, x # o
        PROVE  g[x] = IF x \in t.at.listed
                      THEN EmptyWeight[x] + h[x] + Sum(g, t.at.held[x]) ELSE 0
    <3>1. g[x] = f[x] /\ Sum(g, a.held[x]) = Sum(f, a.held[x])
      BY <1>1, <1>2, <1>6, <2>1 DEF Holders
    <3> QED
      BY <1>2, <2>1, <3>1 DEF Weighs
  <2>2. g[o] = EmptyWeight[o] + h[o] + Sum(g, t.at.held[o])
    BY <1>1, <1>2, <1>7, ObjectsAssumption
  <2> QED
    BY <1>2, <2>1, <2>2
<1>9. \A c \in Chars : /\ m.load[c] = Sum(g, t.at.held[c])
                       /\ m.items[c] = Cardinality(t.at.held[c])
  BY <1>2, <1>6 DEF Weighs, Holders
<1> QED
  BY <1>4, <1>5, <1>8, <1>9 DEF Weighs

\* An object that is in no list of contents or in hand can become lighter or heavier by what
\* it has more or less of its liquid.
LEMMA HeavierWeighs ==
  ASSUME NEW at, Sound(at), NEW m, NEW l, Weighs(at, m, l), NEW o \in at.listed,
         \A k \in Objs \union Chars : o \notin at.held[k], NEW w \in Int,
         NEW h \in [Objs -> Int], h[o] = l[o] + w, \A x \in Objs : x # o => h[x] = l[x]
  PROVE  Weighs(at, [m EXCEPT !.weight[o] = @ + w], h)
<1>0. PICK n : n = [m EXCEPT !.weight[o] = @ + w]
  OBVIOUS
<1> PICK f, g : f = m.weight /\ g = n.weight
  OBVIOUS
<1>1. /\ f \in [Objs -> Int] /\ m \in Masses /\ at \in Pointers /\ o \in Objs
      /\ l \in [Objs -> Int]
  BY DEF Weighs, Masses, Sound, Pointers
<1>2. g = [f EXCEPT ![o] = @ + w] /\ n.load = m.load /\ n.items = m.items
  BY <1>0, <1>1 DEF Masses
<1>3. g \in [Objs -> Int]
  BY <1>1, <1>2
<1>4. n \in Masses
  BY <1>0, <1>1, <1>2, <1>3 DEF Masses
<1>5. ASSUME NEW k \in Objs \union Chars
      PROVE  Sum(g, at.held[k]) = Sum(f, at.held[k]) /\ Sum(f, at.held[k]) \in Int
  <2>1. at.held[k] \subseteq at.listed /\ at.held[k] \subseteq Objs
    BY HeldIs DEF Holders
  <2>2. \A x \in at.held[k] : g[x] = m.weight[x]
    BY <1>1, <1>2, <2>1
  <2>3. Sum(g, at.held[k]) = Sum(m.weight, at.held[k])
    BY <2>1, <2>2, SameHeld
  <2>4. Sum(m.weight, at.held[k]) \in Int
    BY <2>1, SumsOfHeld
  <2> QED
    BY <2>3, <2>4
<1>6. ASSUME NEW x \in Objs
      PROVE  g[x] = IF x \in at.listed
                    THEN EmptyWeight[x] + h[x] + Sum(g, at.held[x]) ELSE 0
  <2>1. f[x] = IF x \in at.listed THEN EmptyWeight[x] + l[x] + Sum(f, at.held[x]) ELSE 0
    BY DEF Weighs
  <2>2. /\ Sum(g, at.held[x]) = Sum(f, at.held[x]) /\ Sum(f, at.held[x]) \in Int
        /\ EmptyWeight[x] \in Int /\ l[x] \in Int /\ f[x] \in Int
    BY <1>1, <1>5, ObjectsAssumption
  <2>3. CASE x = o
    <3>1. g[o] = f[o] + w /\ o \in at.listed
      BY <1>1, <1>2
    <3> QED
      BY <2>1, <2>2, <2>3, <3>1
  <2>4. CASE x # o
    <3>1. g[x] = f[x] /\ h[x] = l[x]
      BY <1>1, <1>2, <2>4
    <3> QED
      BY <2>1, <2>2, <3>1
  <2> QED
    BY <2>3, <2>4
<1>7. \A c \in Chars : /\ n.load[c] = Sum(g, at.held[c])
                       /\ n.items[c] = Cardinality(at.held[c])
  BY <1>2, <1>5 DEF Weighs
<1> QED
  BY <1>0, <1>4, <1>6, <1>7 DEF Weighs

\* What is left when things are freed with all that is in them, and are nowhere, weighs what
\* it did.
LEMMA FreedWeighs ==
  ASSUME NEW s, Sound(s.at), NEW l, Weighs(s.at, s.mass, l), NEW W \in SUBSET Objs,
         ClosedUnderContents(s.at, W), Unplaced(s.at, W),
         \A x \in W : s.at.in_obj[x] # Null => s.at.in_obj[x] \in W,
         NEW t, t = Freed(s, W)
  PROVE  Weighs(t.at, t.mass, l)
<1> PICK a, f, g, m : a = s.at /\ f = s.mass.weight /\ m = t.mass /\ g = m.weight
  OBVIOUS
<1>1. /\ f \in [Objs -> Int] /\ s.mass \in Masses /\ a \in Pointers
      /\ IsFiniteSet(a.listed)
  BY DEF Weighs, Masses, Sound
<1>2. /\ t.at.listed = a.listed \ W
      /\ \A h \in Holders : t.at.held[h] = IF h \in W THEN {} ELSE a.held[h]
      /\ m = [s.mass EXCEPT !.weight = Pointing(@, W, 0)] /\ g = Pointing(f, W, 0)
      /\ m.load = s.mass.load /\ m.items = s.mass.items
  BY <1>1 DEF Freed, Masses
<1>3. g \in [Objs -> Int] /\ \A x \in Objs : g[x] = IF x \in W THEN 0 ELSE f[x]
  BY <1>1, <1>2 DEF Pointing
<1>4. m \in Masses
  BY <1>1, <1>2, <1>3 DEF Masses
<1>5. IsFiniteSet(t.at.listed)
  BY <1>1, <1>2, FS_Subset
<1>6. ASSUME NEW k \in (Objs \ W) \union Chars
      PROVE  Sum(g, t.at.held[k]) = Sum(f, a.held[k]) /\ t.at.held[k] = a.held[k]
  <2>1. k \in Holders /\ k \notin W
    BY Apart DEF Holders
  <2>2. a.held[k] \subseteq a.listed /\ IsFiniteSet(a.held[k]) /\ a.held[k] \subseteq Objs
    BY <2>1, HeldIs, SumsOfHeld
  <2>3. \A x \in a.held[k] : x \notin W
    BY <2>1, <2>2, Apart DEF Sound, LinksAgree, Unplaced
  <2>4. \A x \in a.held[k] : g[x] = f[x]
    BY <1>3, <2>2, <2>3
  <2>5. t.at.held[k] = a.held[k]
    BY <1>2, <2>1
  <2>6. Sum(g, a.held[k]) = Sum(f, a.held[k])
    BY <2>2, <2>4, SumOfSame
  <2> QED
    BY <2>5, <2>6
<1>7. \A x \in Objs : g[x] = IF x \in t.at.listed
                             THEN EmptyWeight[x] + l[x] + Sum(g, t.at.held[x]) ELSE 0
  BY <1>2, <1>3, <1>6 DEF Weighs
<1>8. \A c \in Chars : /\ m.load[c] = Sum(g, t.at.held[c])
                       /\ m.items[c] = Cardinality(t.at.held[c])
  BY <1>2, <1>6 DEF Weighs
<1> QED
  BY <1>4, <1>5, <1>7, <1>8 DEF Weighs

\* make_corpse: the new corpse weighs what its owner bore, and has what its owner had.
LEMMA HandOverWeighs ==
  ASSUME NEW s, Sound(s.at), NEW l, Weighs(s.at, s.mass, l), NEW c \in Chars,
         NEW k \in Objs \ s.at.listed, l[k] = 0,
         NEW t, t = HandedOver(Created(s, k, EmptyWeight[k] + s.mass.load[c]), c, k)
  PROVE  Weighs(t.at, t.mass, l)
<1> PICK a, f, g, m, w, n, O :
      /\ a = s.at /\ f = s.mass.weight /\ m = t.mass /\ g = m.weight /\ O = a.held[c]
      /\ w = EmptyWeight[k] + s.mass.load[c] /\ n = Created(s, k, w)
  OBVIOUS
<1>1. /\ f \in [Objs -> Int] /\ s.mass \in Masses /\ a \in Pointers
      /\ IsFiniteSet(a.listed) /\ s.mass.load \in [Chars -> Int]
      /\ s.mass.items \in [Chars -> Int] /\ w \in Int /\ EmptyWeight[k] \in Int
      /\ c \in Holders /\ k \in Holders /\ k # c /\ a.held \in [Holders -> SUBSET Objs]
  BY ObjectsAssumption DEF Weighs, Masses, Sound, Pointers, Holders
<1>2. /\ n.at.listed = a.listed \union {k} /\ n.at.held = a.held
      /\ n.at = [a EXCEPT !.listed = @ \union {k}]
      /\ n.mass = [s.mass EXCEPT !.weight[k] = w] /\ n.mass.weight = [f EXCEPT ![k] = w]
      /\ n.mass.load = s.mass.load /\ n.mass.items = s.mass.items
  BY <1>1 DEF Created, Pointers, Masses
<1>3. n.mass.weight \in [Objs -> Int]
  BY <1>1, <1>2
<1>4. n.at \in Pointers /\ n.mass \in Masses
  BY <1>1, <1>2, <1>3 DEF Pointers, Masses
<1>5. /\ t.at.listed = a.listed \union {k}
      /\ t.at.held = [a.held EXCEPT ![k] = O, ![c] = {}]
      /\ m = [n.mass EXCEPT !.load[c] = 0, !.items[c] = 0]
      /\ m.load = [s.mass.load EXCEPT ![c] = 0] /\ m.items = [s.mass.items EXCEPT ![c] = 0]
      /\ g = [f EXCEPT ![k] = w]
  BY <1>2, <1>4 DEF HandedOver, Pointers, Masses
<1>6. /\ g \in [Objs -> Int] /\ m.load \in [Chars -> Int] /\ m.items \in [Chars -> Int]
  <2>1. g \in [Objs -> Int]
    <3>1. g = [f EXCEPT ![k] = w]
      BY <1>5
    <3> QED
      BY <1>1, <3>1
  <2>2. m.load \in [Chars -> Int]
    <3>1. m.load = [s.mass.load EXCEPT ![c] = 0]
      BY <1>5
    <3> QED
      BY <1>1, <3>1
  <2>3. m.items \in [Chars -> Int]
    <3>1. m.items = [s.mass.items EXCEPT ![c] = 0]
      BY <1>5
    <3> QED
      BY <1>1, <3>1
  <2> QED
    BY <2>1, <2>2, <2>3
<1>7. m \in Masses
  BY <1>4, <1>5, <1>6 DEF Masses
<1>8. IsFiniteSet(t.at.listed)
  <2>1. IsFiniteSet(a.listed) /\ t.at.listed = a.listed \union {k}
    BY <1>1, <1>5
  <2> QED
    BY <2>1, FS_AddElement
<1>9. t.at.held[k] = O /\ t.at.held[c] = {}
      /\ \A x \in Holders : x \notin {k, c} => t.at.held[x] = a.held[x]
  BY <1>1, <1>5
<1>10. ASSUME NEW x \in Holders
       PROVE  Sum(g, a.held[x]) = Sum(f, a.held[x])
  <2>1. a.held[x] \subseteq a.listed /\ IsFiniteSet(a.held[x]) /\ a.held[x] \subseteq Objs
    BY HeldIs, SumsOfHeld
  <2>2. g = [f EXCEPT ![k] = w] /\ k \notin a.listed
    BY <1>5
  <2>3. \A y \in a.held[x] : g[y] = f[y]
    BY <1>1, <2>1, <2>2
  <2> QED
    BY <2>1, <2>3, SumOfSame
<1>11. ASSUME NEW x \in Objs
       PROVE  g[x] = IF x \in t.at.listed
                     THEN EmptyWeight[x] + l[x] + Sum(g, t.at.held[x]) ELSE 0
  <2>1. CASE x = k
    <3>1. g[k] = w /\ s.mass.load[c] = Sum(f, O) /\ s.mass.load[c] \in Int
      BY <1>1, <1>5 DEF Weighs
    <3>2. Sum(g, O) = Sum(f, O)
      BY <1>1, <1>10
    <3>3. g[k] = EmptyWeight[k] + l[k] + Sum(g, t.at.held[k])
      <4>1. Sum(g, t.at.held[k]) = s.mass.load[c]
        BY <1>9, <3>1, <3>2
      <4>2. g[k] = EmptyWeight[k] + s.mass.load[c]
        BY <3>1
      <4>3. EmptyWeight[k] \in Int /\ s.mass.load[c] \in Int /\ l[k] = 0
        BY <1>1, <3>1
      <4> QED
        BY <4>1, <4>2, <4>3
    <3>4. k \in t.at.listed
      BY <1>5
    <3> QED
      BY <2>1, <3>3, <3>4
  <2>2. CASE x # k
    <3>1. x \in Holders /\ x # c
      BY Apart DEF Holders
    <3>2. g[x] = f[x]
      BY <1>1, <1>5, <2>2
    <3>3. t.at.held[x] = a.held[x]
      BY <1>9, <2>2, <3>1
    <3>4. Sum(g, a.held[x]) = Sum(f, a.held[x])
      BY <1>10, <3>1
    <3>5. x \in t.at.listed <=> x \in a.listed
      BY <1>5, <2>2
    <3>6. f[x] = IF x \in a.listed THEN EmptyWeight[x] + l[x] + Sum(f, a.held[x]) ELSE 0
      BY DEF Weighs
    <3> QED
      BY <3>2, <3>3, <3>4, <3>5, <3>6
  <2> QED
    BY <2>1, <2>2
<1>12. ASSUME NEW x \in Chars
       PROVE  m.load[x] = Sum(g, t.at.held[x]) /\ m.items[x] = Cardinality(t.at.held[x])
  <2>1. CASE x = c
    <3>1. m.load[c] = 0 /\ m.items[c] = 0
      BY <1>1, <1>5
    <3>2. Sum(g, {}) = 0 /\ Cardinality({}) = 0
      BY SumOfNone, FS_EmptySet
    <3>3. Sum(g, t.at.held[c]) = 0 /\ Cardinality(t.at.held[c]) = 0
      BY <1>9, <3>2, Zenon
    <3> QED
      BY <2>1, <3>1, <3>3
  <2>2. CASE x # c
    <3>1. /\ t.at.held[x] = a.held[x] /\ Sum(g, a.held[x]) = Sum(f, a.held[x])
          /\ m.load[x] = s.mass.load[x] /\ m.items[x] = s.mass.items[x]
      <4>1. x \in Holders /\ x # k
        BY Apart DEF Holders
      <4>2. t.at.held[x] = a.held[x]
        BY <1>9, <2>2, <4>1
      <4>3. Sum(g, a.held[x]) = Sum(f, a.held[x])
        BY <1>10, <4>1
      <4>4. m.load[x] = s.mass.load[x]
        BY <1>1, <1>5, <2>2
      <4>5. m.items[x] = s.mass.items[x]
        BY <1>1, <1>5, <2>2
      <4> QED
        BY <4>2, <4>3, <4>4, <4>5
    <3> QED
      BY <3>1 DEF Weighs
  <2> QED
    BY <2>1, <2>2
<1> QED
  BY <1>7, <1>8, <1>11, <1>12 DEF Weighs

\* Among some objects there is one that has none of them in it: if each had one, there would
\* be as many in as there are, and each would be in another.
LEMMA Innermost ==
  ASSUME NEW at, Sound(at), NEW S \in SUBSET Objs, IsFiniteSet(S), S # {}
  PROVE  \E x \in S : at.held[x] \intersect S = {}
<1> SUFFICES ASSUME \A x \in S : at.held[x] \intersect S # {} PROVE FALSE
  OBVIOUS
<1> DEFINE f == [x \in S |-> CHOOSE y \in at.held[x] : y \in S]
<1>1. \A x \in S : f[x] \in S /\ at.in_obj[f[x]] = x
  BY DEF Sound, LinksAgree
<1>2. f \in [S -> S]
  BY <1>1
<1> HIDE DEF f
<1>3. f \in Injection(S, S)
  BY <1>1, <1>2 DEF Injection, IsInjective
<1>4. f \in Surjection(S, S)
  BY <1>3, FS_Injection
<1>5. \A y \in S : \E x \in S : f[x] = y
  BY <1>4 DEF Surjection
<1>6. \A y \in S : at.in_obj[y] \in S
  BY <1>1, <1>5
<1> QED
  BY <1>6 DEF Sound, NoCycle

\* Nothing weighs less than nothing, where there is not less than nothing to drink.
LEMMA NothingBelow ==
  ASSUME NEW at, Sound(at), NEW m, NEW l \in [Objs -> Nat], Weighs(at, m, l)
  PROVE  m.weight \in [Objs -> Nat]
<1> PICK f : f = m.weight
  OBVIOUS
<1>1. /\ f \in [Objs -> Int] /\ IsFiniteSet(at.listed) /\ at.listed \in SUBSET Objs
  BY DEF Weighs, Masses, Sound, Pointers
<1>2. ASSUME NEW o \in at.listed, \A x \in at.held[o] : f[x] \in Nat
      PROVE  f[o] \in Nat
  <2>1. at.held[o] \subseteq at.listed /\ IsFiniteSet(at.held[o])
    BY <1>1, HeldIs, SumsOfHeld DEF Holders
  <2>2. Sum(f, at.held[o]) \in Nat
    BY <1>2, <2>1, SumIsNat
  <2>3. EmptyWeight[o] \in Nat /\ l[o] \in Nat
    BY <1>1, ObjectsAssumption
  <2>4. f[o] = EmptyWeight[o] + l[o] + Sum(f, at.held[o])
    BY <1>1 DEF Weighs
  <2> QED
    BY <2>2, <2>3, <2>4
<1> DEFINE S == {x \in at.listed : f[x] \notin Nat}
<1>3. S \in SUBSET Objs /\ S \subseteq at.listed /\ IsFiniteSet(S)
  BY <1>1, FS_Subset
<1>4. S = {}
  <2> SUFFICES ASSUME S # {} PROVE FALSE
    OBVIOUS
  <2>1. PICK o \in S : at.held[o] \intersect S = {}
    <3> HIDE DEF S
    <3> QED
      BY <1>3, Innermost
  <2>2. at.held[o] \subseteq at.listed
    BY <1>1, <1>3, HeldIs DEF Holders
  <2>3. \A x \in at.held[o] : f[x] \in Nat
    BY <2>1, <2>2
  <2>4. f[o] \in Nat
    BY <1>2, <1>3, <2>3
  <2> QED
    BY <2>1, <2>4
<1>5. \A x \in Objs : f[x] \in Nat
  BY <1>4 DEF Weighs
<1> QED
  BY <1>1, <1>5

-----------------------------------------------------------------------------
(* handler.c: places and weights *)

\* What is in a list is there, and has its place.
LEMMA HeldIsPlaced ==
  ASSUME NEW p, NEW d, NEW a, Fine(a, p, d), NEW h \in Holders, NEW o \in a.held[h]
  PROVE  o \in Objs /\ o \in a.listed /\ o \notin d
<1>1. o \in Objs
  BY DEF Fine, Sound, Pointers
<1>2. o \notin Nowhere(a)
  BY <1>1, Apart DEF Fine, Sound, LinksAgree, Holders, Nowhere
<1> QED
  BY <1>1, <1>2 DEF Fine, Sound, OnlyListed, Loose

LEMMA WornIsPlaced ==
  ASSUME NEW p, NEW d, NEW a, Fine(a, p, d), NEW c \in Chars, NEW o \in a.worn[c]
  PROVE  o \in Objs /\ o \in a.listed /\ o \notin d
<1>1. o \in Objs
  BY DEF Fine, Sound, Pointers
<1>2. o \notin Nowhere(a)
  BY <1>1, Apart DEF Fine, Sound, LinksAgree, Nowhere
<1> QED
  BY <1>1, <1>2 DEF Fine, Sound, OnlyListed, Loose

\* What lies in a room or is in somebody's hands is in no object.
LEMMA HeldIsTop ==
  ASSUME NEW p, NEW d, NEW a, Fine(a, p, d), NEW h \in Rooms \union Chars, NEW o \in a.held[h]
  PROVE  a.in_obj[o] = Null
<1>1. o \in Objs
  BY HeldIsPlaced DEF Holders
<1> QED
  BY <1>1, Apart DEF Fine, Sound, LinksAgree, OnePlace

\* Weighs, where no prototype was edited under what was made from it.
Weighed(s, l) == "edit" \notin May => Weighs(s.at, s.mass, l)

Right(s, p, d, l) == Fine(s.at, p, d) /\ Weighed(s, l)

\* What each function leaves, of places and weights together.
LEMMA RightFromChar ==
  ASSUME NEW p, NEW d, NEW l, NEW s, Right(s, p, d, l), NEW c \in Chars,
         NEW O, O \subseteq s.at.held[c], NEW t, t = ObjFromChar(s, O, c)
  PROVE  Right(t, p, d \union O, l)
<1>1. Fine(s.at, p, d) /\ Sound(s.at) /\ Weighed(s, l)
  BY DEF Right, Fine
<1>2. Fine(t.at, p, d \union O)
  <2> PICK b : b = ObjFromChar(s, O, c).at
    OBVIOUS
  <2> QED
    BY <1>1, FromChar
<1>3. Weighed(t, l)
  BY <1>1, FromCharWeighs DEF Weighed
<1> QED
  BY <1>2, <1>3 DEF Right

LEMMA RightToChar ==
  ASSUME NEW p, NEW d, NEW l, NEW s, Right(s, p, d, l), NEW c \in Chars, c \in p,
         NEW O, O \subseteq d, NEW t, t = ObjToChar(s, O, c)
  PROVE  Right(t, p, d \ O, l)
<1>1. Fine(s.at, p, d) /\ Sound(s.at) /\ Weighed(s, l) /\ O \subseteq Loose(s.at)
  BY DEF Right, Fine
<1>2. Fine(t.at, p, d \ O)
  <2> PICK b : b = ObjToChar(s, O, c).at
    OBVIOUS
  <2> QED
    BY <1>1, ToChar
<1>3. Weighed(t, l)
  BY <1>1, ToCharWeighs DEF Weighed
<1> QED
  BY <1>2, <1>3 DEF Right

LEMMA RightFromRoom ==
  ASSUME NEW p, NEW d, NEW l, NEW s, Right(s, p, d, l), NEW r \in Rooms,
         NEW O, O \subseteq s.at.held[r], NEW t, t = ObjFromRoom(s, O, r)
  PROVE  Right(t, p, d \union O, l)
<1>1. Fine(s.at, p, d) /\ Sound(s.at) /\ Weighed(s, l)
  BY DEF Right, Fine
<1>2. Fine(t.at, p, d \union O)
  <2> PICK b : b = ObjFromRoom(s, O, r).at
    OBVIOUS
  <2> QED
    BY <1>1, FromRoom
<1>3. Weighed(t, l)
  BY <1>1, FromRoomWeighs DEF Weighed
<1> QED
  BY <1>2, <1>3 DEF Right

LEMMA RightToRoom ==
  ASSUME NEW p, NEW d, NEW l, NEW s, Right(s, p, d, l), NEW r \in Rooms,
         NEW O, O \subseteq d, NEW t, t = ObjToRoom(s, O, r)
  PROVE  Right(t, p, d \ O, l)
<1>1. Fine(s.at, p, d) /\ Sound(s.at) /\ Weighed(s, l)
  BY DEF Right, Fine
<1>2. Fine(t.at, p, d \ O)
  <2> PICK b : b = ObjToRoom(s, O, r).at
    OBVIOUS
  <2> QED
    BY <1>1, ToRoom
<1>3. Weighed(t, l)
  BY <1>1, ToRoomWeighs DEF Weighed
<1> QED
  BY <1>2, <1>3 DEF Right

LEMMA RightUnequip ==
  ASSUME NEW p, NEW d, NEW l, NEW s, Right(s, p, d, l), NEW c \in Chars,
         NEW O, O \subseteq s.at.worn[c], NEW t, t = UnequipChar(s, O, c)
  PROVE  Right(t, p, d \union O, l)
<1>1. Fine(s.at, p, d) /\ Sound(s.at) /\ Weighed(s, l)
  BY DEF Right, Fine
<1>2. Fine(t.at, p, d \union O)
  <2> PICK b : b = UnequipChar(s, O, c).at
    OBVIOUS
  <2> QED
    BY <1>1, Unequip
<1>3. Weighed(t, l)
  BY <1>1, UnequipWeighs DEF Weighed
<1> QED
  BY <1>2, <1>3 DEF Right

LEMMA RightFromObj ==
  ASSUME NEW p, NEW d, NEW l, NEW s, Right(s, p, d, l), NEW k \in s.at.listed,
         NEW O, O \subseteq s.at.held[k], NEW t, t = ObjFromObj(s, O, k)
  PROVE  Right(t, p, d \union O, l)
<1>1. Fine(s.at, p, d) /\ Sound(s.at) /\ Weighed(s, l) /\ k \in Objs
  BY DEF Right, Fine, Sound, Pointers
<1>2. Fine(t.at, p, d \union O)
  <2> PICK b : b = ObjFromObj(s, O, k).at
    OBVIOUS
  <2> QED
    BY <1>1, FromObj
<1>3. Weighed(t, l)
  BY <1>1, FromObjWeighs DEF Weighed
<1> QED
  BY <1>2, <1>3 DEF Right

LEMMA RightToObj ==
  ASSUME NEW p, NEW d, NEW l, NEW s, Right(s, p, d, l), NEW k \in s.at.listed,
         NEW O, O \subseteq d, k \notin Within(s.at, O), NEW t, t = ObjToObj(s, O, k)
  PROVE  Right(t, p, d \ O, l)
<1>1. Fine(s.at, p, d) /\ Sound(s.at) /\ Weighed(s, l) /\ O \subseteq Loose(s.at)
  BY DEF Right, Fine
<1>2. Fine(t.at, p, d \ O)
  <2> PICK b : b = ObjToObj(s, O, k).at
    OBVIOUS
  <2> QED
    BY <1>1, ToObj
<1>3. Weighed(t, l)
  BY <1>1, ToObjWeighs DEF Weighed
<1> QED
  BY <1>2, <1>3 DEF Right

LEMMA RightEquip ==
  ASSUME NEW p, NEW d, NEW l, NEW s, Right(s, p, d, l), NEW c \in Chars, c \in p,
         NEW o \in d, Kind[o] # "corpse", NEW t, t = EquipChar(s, o, c, FALSE)
  PROVE  Right(t, p, d \ {o}, l)
<1>1. Fine(s.at, p, d) /\ s.at \in Pointers /\ Weighed(s, l)
  BY DEF Right, Fine, Sound
<1>2. PICK b : b = [s.at EXCEPT !.worn[c] = @ \union {o}, !.worn_by = Pointing(@, {o}, c)]
  OBVIOUS
<1>3. t.at = b /\ t.mass = s.mass
  BY <1>2 DEF EquipChar
<1>4. Fine(b, p, d \ {o})
  BY <1>1, <1>2, Equip
<1>5. b.listed = s.at.listed /\ b.held = s.at.held
  BY <1>1, <1>2 DEF Pointers
<1>6. Weighed(t, l)
  BY <1>1, <1>3, <1>5, SameWeighs DEF Weighed
<1> QED
  BY <1>3, <1>4, <1>6 DEF Right

\* A new object that is told apart from those there are by h, the liquids with its own.
LEMMA RightNew ==
  ASSUME NEW p, NEW d, NEW l, NEW s, Right(s, p, d, l), NEW o \in Objs \ s.at.listed,
         NEW h \in [Objs -> Int], \A x \in s.at.listed : h[x] = l[x],
         NEW w, w = EmptyWeight[o] + h[o], NEW t, t = Created(s, o, w)
  PROVE  Right(t, p, d \union {o}, h)
<1>1. Fine(s.at, p, d) /\ Sound(s.at) /\ Weighed(s, l)
  BY DEF Right, Fine
<1>2. Fine(t.at, p, d \union {o})
  <2> PICK b : b = Created(s, o, w).at
    OBVIOUS
  <2> QED
    BY <1>1, New
<1>3. Weighed(t, h)
  BY <1>1, NewWeighs DEF Weighed
<1> QED
  BY <1>2, <1>3 DEF Right

LEMMA RightDetached ==
  ASSUME NEW p, NEW d, NEW l, NEW s, Right(s, p, d, l), NEW o \in s.at.listed
  PROVE  Right(Detached(s, o), p, d \union {o}, l)
<1> PICK a, O : a = s.at /\ O = {o}
  OBVIOUS
<1>1. a \in Pointers /\ o \in Objs /\ Sound(a) /\ LinksAgree(a) /\ OnePlace(a)
  BY DEF Right, Fine, Sound, Pointers
<1>2. CASE a.worn_by[o] # Null
  <2> PICK c, t : c = a.worn_by[o] /\ t = UnequipChar(s, O, c)
    OBVIOUS
  <2>1. a.in_room[o] = Null /\ a.carried_by[o] = Null /\ a.in_obj[o] = Null
    BY <1>1, <1>2 DEF OnePlace
  <2>2. Detached(s, o) = t
    BY <1>2, <2>1, Zenon DEF Detached
  <2>3. c \in Chars /\ O \subseteq a.worn[c]
    BY <1>1, <1>2 DEF Pointers, LinksAgree
  <2>4. Right(t, p, d \union O, l)
    BY <2>3, RightUnequip
  <2> QED
    BY <2>2, <2>4
<1>3. CASE a.worn_by[o] = Null /\ a.in_room[o] # Null
  <2> PICK r, t : r = a.in_room[o] /\ t = ObjFromRoom(s, O, r)
    OBVIOUS
  <2>1. a.carried_by[o] = Null /\ a.in_obj[o] = Null
    BY <1>1, <1>3 DEF OnePlace
  <2>2. Detached(s, o) = t
    BY <1>3, <2>1, Zenon DEF Detached
  <2>3. r \in Rooms /\ O \subseteq a.held[r]
    BY <1>1, <1>3 DEF Pointers, LinksAgree
  <2>4. Right(t, p, d \union O, l)
    BY <2>3, RightFromRoom
  <2> QED
    BY <2>2, <2>4
<1>4. CASE a.worn_by[o] = Null /\ a.in_room[o] = Null /\ a.carried_by[o] # Null
  <2> PICK c, t : c = a.carried_by[o] /\ t = ObjFromChar(s, O, c)
    OBVIOUS
  <2>1. a.in_obj[o] = Null
    BY <1>1, <1>4 DEF OnePlace
  <2>2. Detached(s, o) = t
    BY <1>4, <2>1, Zenon DEF Detached
  <2>3. c \in Chars /\ O \subseteq a.held[c]
    BY <1>1, <1>4 DEF Pointers, LinksAgree
  <2>4. Right(t, p, d \union O, l)
    BY <2>3, RightFromChar
  <2> QED
    BY <2>2, <2>4
<1>5. CASE /\ a.worn_by[o] = Null /\ a.in_room[o] = Null /\ a.carried_by[o] = Null
           /\ a.in_obj[o] # Null
  <2> PICK k, t : k = a.in_obj[o] /\ t = ObjFromObj(s, O, k)
    OBVIOUS
  <2>1. Detached(s, o) = t
    BY <1>5, Zenon DEF Detached
  <2>2. k \in Objs /\ O \subseteq a.held[k]
    BY <1>1, <1>5 DEF Pointers, LinksAgree
  <2>3. k \in a.listed
    BY <1>1, <2>2 DEF Sound, OnlyListed
  <2>4. Right(t, p, d \union O, l)
    BY <2>2, <2>3, RightFromObj
  <2> QED
    BY <2>1, <2>4
<1>6. CASE /\ a.worn_by[o] = Null /\ a.in_room[o] = Null /\ a.carried_by[o] = Null
           /\ a.in_obj[o] = Null
  <2>1. Detached(s, o) = s
    BY <1>6, Zenon DEF Detached
  <2>2. o \in d
    BY <1>1, <1>6 DEF Loose, Nowhere, Fine, Right
  <2>3. d \union {o} = d
    BY <2>2
  <2> QED
    BY <2>1, <2>3
<1> QED
  BY <1>2, <1>3, <1>4, <1>5, <1>6

LEMMA RightFreed ==
  ASSUME NEW p, NEW d, NEW l, NEW s, Right(s, p, d, l), NEW o \in d
  PROVE  Right(Freed(s, Within(s.at, {o})), p, d \ {o}, l)
<1> PICK W : W = Within(s.at, {o})
  OBVIOUS
<1> PICK t : t = Freed(s, W)
  OBVIOUS
<1>1. Fine(s.at, p, d) /\ Sound(s.at) /\ Weighed(s, l) /\ o \in Loose(s.at)
  BY DEF Right, Fine
<1>2. Fine(t.at, p, d \ {o})
  BY <1>1, Free
<1>3. /\ W \in SUBSET Objs /\ ClosedUnderContents(s.at, W) /\ Unplaced(s.at, W)
      /\ \A x \in W : s.at.in_obj[x] # Null => s.at.in_obj[x] \in W
  BY <1>1, FreedIsApart
<1>4. Weighed(t, l)
  BY <1>1, <1>3, FreedWeighs DEF Weighed
<1> QED
  BY <1>2, <1>4 DEF Right

\* extract_obj, wherever the object is.
LEMMA RightExtract ==
  ASSUME NEW p, NEW d, NEW l, NEW s, Right(s, p, d, l), NEW o \in s.at.listed
  PROVE  Right(ExtractObj(s, o), p, d \ {o}, l)
<1> PICK t : t = Detached(s, o)
  OBVIOUS
<1>1. Right(t, p, d \union {o}, l) /\ o \in d \union {o}
  BY RightDetached
<1>2. ExtractObj(s, o) = Freed(t, Within(t.at, {o}))
  BY DEF ExtractObj
<1>3. (d \union {o}) \ {o} = d \ {o}
  OBVIOUS
<1> QED
  BY <1>1, <1>2, <1>3, RightFreed

-----------------------------------------------------------------------------
(* One object at a time *)

LEMMA OneFromChar ==
  ASSUME NEW p, NEW d, NEW l, NEW s, Right(s, p, d, l), NEW c \in Chars, NEW o \in s.at.held[c]
  PROVE  /\ Right(ObjFromChar(s, {o}, c), p, d \union {o}, l)
         /\ ObjFromChar(s, {o}, c).at.listed = s.at.listed
         /\ ObjFromChar(s, {o}, c).at.in_obj = s.at.in_obj
<1> PICK O, t : O = {o} /\ t = ObjFromChar(s, O, c)
  OBVIOUS
<1>1. Right(t, p, d \union O, l)
  BY RightFromChar
<1>2. t.at.listed = s.at.listed /\ t.at.in_obj = s.at.in_obj
  BY DEF ObjFromChar, Right, Fine, Sound, Pointers
<1> QED
  BY <1>1, <1>2

LEMMA OneFromRoom ==
  ASSUME NEW p, NEW d, NEW l, NEW s, Right(s, p, d, l), NEW r \in Rooms, NEW o \in s.at.held[r]
  PROVE  /\ Right(ObjFromRoom(s, {o}, r), p, d \union {o}, l)
         /\ ObjFromRoom(s, {o}, r).at.listed = s.at.listed
<1> PICK O, t : O = {o} /\ t = ObjFromRoom(s, O, r)
  OBVIOUS
<1>1. Right(t, p, d \union O, l)
  BY RightFromRoom
<1>2. t.at.listed = s.at.listed
  BY DEF ObjFromRoom, Right, Fine, Sound, Pointers
<1> QED
  BY <1>1, <1>2

LEMMA OneFromObj ==
  ASSUME NEW p, NEW d, NEW l, NEW s, Right(s, p, d, l), NEW k \in s.at.listed,
         NEW o \in s.at.held[k]
  PROVE  /\ Right(ObjFromObj(s, {o}, k), p, d \union {o}, l)
         /\ ObjFromObj(s, {o}, k).at.listed = s.at.listed
<1> PICK O, t : O = {o} /\ t = ObjFromObj(s, O, k)
  OBVIOUS
<1>1. Right(t, p, d \union O, l)
  BY RightFromObj
<1>2. t.at.listed = s.at.listed
  BY DEF ObjFromObj, Right, Fine, Sound, Pointers
<1> QED
  BY <1>1, <1>2

LEMMA OneUnequip ==
  ASSUME NEW p, NEW d, NEW l, NEW s, Right(s, p, d, l), NEW c \in Chars, NEW o \in s.at.worn[c]
  PROVE  Right(UnequipChar(s, {o}, c), p, d \union {o}, l)
<1> PICK O, t : O = {o} /\ t = UnequipChar(s, O, c)
  OBVIOUS
<1>1. Right(t, p, d \union O, l)
  BY RightUnequip
<1> QED
  BY <1>1

LEMMA OneToChar ==
  ASSUME NEW p, NEW d, NEW l, NEW s, NEW o, o \notin d, Right(s, p, d \union {o}, l),
         NEW c \in Chars, c \in p
  PROVE  /\ Right(ObjToChar(s, {o}, c), p, d, l)
         /\ ObjToChar(s, {o}, c).at.listed = s.at.listed
         /\ ObjToChar(s, {o}, c).at.in_obj = s.at.in_obj
<1> PICK O, t : O = {o} /\ t = ObjToChar(s, O, c)
  OBVIOUS
<1>1. (d \union {o}) \ O = d /\ O \subseteq d \union {o}
  OBVIOUS
<1>2. Right(t, p, (d \union {o}) \ O, l)
  BY <1>1, RightToChar
<1>3. t.at.listed = s.at.listed /\ t.at.in_obj = s.at.in_obj
  BY DEF ObjToChar, Right, Fine, Sound, Pointers
<1> QED
  BY <1>1, <1>2, <1>3

LEMMA OneToRoom ==
  ASSUME NEW p, NEW d, NEW l, NEW s, NEW o, o \notin d, Right(s, p, d \union {o}, l),
         NEW r \in Rooms
  PROVE  Right(ObjToRoom(s, {o}, r), p, d, l)
<1> PICK O, t : O = {o} /\ t = ObjToRoom(s, O, r)
  OBVIOUS
<1>1. (d \union {o}) \ O = d /\ O \subseteq d \union {o}
  OBVIOUS
<1>2. Right(t, p, (d \union {o}) \ O, l)
  BY <1>1, RightToRoom
<1> QED
  BY <1>1, <1>2

LEMMA OneToObj ==
  ASSUME NEW p, NEW d, NEW l, NEW s, NEW o, o \notin d, Right(s, p, d \union {o}, l),
         NEW k \in s.at.listed, k \notin Within(s.at, {o})
  PROVE  Right(ObjToObj(s, {o}, k), p, d, l)
<1> PICK O, t : O = {o} /\ t = ObjToObj(s, O, k)
  OBVIOUS
<1>1. (d \union {o}) \ O = d /\ O \subseteq d \union {o}
  OBVIOUS
<1>2. Right(t, p, (d \union {o}) \ O, l)
  BY <1>1, RightToObj
<1> QED
  BY <1>1, <1>2

LEMMA OneEquip ==
  ASSUME NEW p, NEW d, NEW l, NEW s, NEW o, o \notin d, Right(s, p, d \union {o}, l),
         NEW c \in Chars, c \in p, Kind[o] # "corpse", NEW zapped \in BOOLEAN
  PROVE  Right(EquipChar(s, o, c, zapped), p, d, l)
<1>1. CASE zapped
  <2>1. EquipChar(s, o, c, zapped) = ObjToChar(s, {o}, c)
    BY <1>1, Zenon DEF EquipChar
  <2>2. Right(ObjToChar(s, {o}, c), p, d, l)
    BY OneToChar
  <2> QED
    BY <2>1, <2>2, Zenon
<1>2. CASE ~zapped
  <2>1. PICK t : t = EquipChar(s, o, c, FALSE)
    OBVIOUS
  <2>2. EquipChar(s, o, c, zapped) = t
    BY <1>2, <2>1, Zenon DEF EquipChar
  <2>3. Right(t, p, (d \union {o}) \ {o}, l)
    BY <2>1, RightEquip
  <2>4. (d \union {o}) \ {o} = d
    OBVIOUS
  <2> QED
    BY <2>2, <2>3, <2>4, Zenon
<1> QED
  BY <1>1, <1>2

\* extract_obj of an object that has a place.
LEMMA OneExtract ==
  ASSUME NEW p, NEW d, NEW l, NEW s, Right(s, p, d, l), NEW o \in s.at.listed, o \notin d
  PROVE  Right(ExtractObj(s, o), p, d, l)
<1>1. d \ {o} = d
  OBVIOUS
<1> QED
  BY <1>1, RightExtract

LEMMA MoneyRight ==
  ASSUME NEW p, NEW d, NEW l, NEW s, Right(s, p, d, l), NEW o \in s.at.listed, o \notin d
  PROVE  Right(CheckedMoney(s, o), p, d, l)
BY OneExtract DEF CheckedMoney

\* h is l with w more of o's liquid.
Refilled(l, o, w, h) ==
  /\ w \in Int /\ h \in [Objs -> Int]
  /\ h[o] = l[o] + w /\ \A x \in Objs : x # o => h[x] = l[x]

\* An object that is in nobody's hands and in nothing.
LEMMA RightHeavier ==
  ASSUME NEW p, NEW d, NEW l, NEW s, Right(s, p, d, l), NEW o \in s.at.listed,
         s.at.in_obj[o] = Null, s.at.carried_by[o] = Null,
         NEW w, NEW h, "edit" \notin May => Refilled(l, o, w, h)
  PROVE  Right(Heavier(s, o, w), p, d, h)
<1> PICK t : t = Heavier(s, o, w)
  OBVIOUS
<1>1. Fine(s.at, p, d) /\ Sound(s.at) /\ Weighed(s, l) /\ o \in Objs
  BY DEF Right, Fine, Sound, Pointers
<1>2. t.at = s.at /\ t.mass = [s.mass EXCEPT !.weight[o] = @ + w]
  BY DEF Heavier
<1>3. \A k \in Objs \union Chars : o \notin s.at.held[k]
  BY <1>1, Apart DEF Sound, LinksAgree
<1>4. Weighed(t, h)
  <2> SUFFICES ASSUME "edit" \notin May PROVE Weighs(t.at, t.mass, h)
    BY DEF Weighed
  <2>1. Weighs(s.at, s.mass, l)
    BY <1>1 DEF Weighed
  <2>2. Weighs(s.at, [s.mass EXCEPT !.weight[o] = @ + w], h)
    BY <1>1, <1>3, <2>1, HeavierWeighs DEF Refilled
  <2> QED
    BY <1>2, <2>2
<1> QED
  BY <1>1, <1>2, <1>4 DEF Right

\* weight_change_object of what lies in a room or is in somebody's hands: an object is taken
\* out of hands and put back.
LEMMA WeightRight ==
  ASSUME NEW p \in SUBSET Chars, NEW d, NEW l, NEW s, Right(s, p, d, l), NEW o \in s.at.listed,
         s.at.in_room[o] # Null \/ s.at.carried_by[o] # Null,
         NEW w, NEW h, "edit" \notin May => Refilled(l, o, w, h)
  PROVE  /\ Right(WeightChanged(s, o, w), p, d, h)
         /\ WeightChanged(s, o, w).at.listed = s.at.listed
<1> PICK a : a = s.at
  OBVIOUS
<1>0. a \in Pointers /\ LinksAgree(a) /\ OnePlace(a) /\ Fine(a, p, d) /\ o \in Objs
  BY DEF Right, Fine, Sound, Pointers
<1>1. CASE a.in_room[o] # Null
  <2> PICK t : t = Heavier(s, o, w)
    OBVIOUS
  <2>1. a.carried_by[o] = Null /\ a.in_obj[o] = Null
    BY <1>0, <1>1 DEF OnePlace
  <2>2. WeightChanged(s, o, w) = t
    BY <1>1, <2>1, Zenon DEF WeightChanged
  <2>3. Right(t, p, d, h)
    BY <2>1, RightHeavier
  <2>4. t.at = s.at
    BY DEF Heavier
  <2> QED
    BY <2>2, <2>3, <2>4
<1>2. CASE a.in_room[o] = Null /\ a.carried_by[o] # Null
  <2> PICK c : c = a.carried_by[o]
    OBVIOUS
  <2> PICK t, u, v : /\ t = ObjFromChar(s, {o}, c) /\ u = Heavier(t, o, w)
                     /\ v = ObjToChar(u, {o}, c)
    OBVIOUS
  <2>1. WeightChanged(s, o, w) = v
    <3>1. a.in_obj[o] = Null
      BY <1>0, <1>2 DEF OnePlace
    <3> QED
      BY <1>2, <3>1, Zenon DEF WeightChanged
  <2>2. c \in Chars /\ c \in p /\ o \in a.held[c]
    BY <1>0, <1>2 DEF Fine, LinksAgree, Pointers
  <2>3. o \notin d
    BY <1>0, <2>2, HeldIsPlaced DEF Holders
  <2>4. Right(t, p, d \union {o}, l)
    BY <2>2, OneFromChar
  <2>5. t.at.listed = a.listed
    BY <1>0 DEF ObjFromChar, Pointers
  <2>6. t.at \in Pointers /\ o \in Nowhere(t.at)
    BY <2>4 DEF Right, Fine, Sound, Loose
  <2>7. Right(u, p, d \union {o}, h)
    BY <2>4, <2>5, <2>6, RightHeavier DEF Nowhere
  <2>8. u.at = t.at
    BY DEF Heavier
  <2>9. Right(v, p, d, h)
    BY <2>2, <2>3, <2>7, OneToChar
  <2>10. v.at.listed = u.at.listed
    BY <2>6, <2>8 DEF ObjToChar, Pointers
  <2>11. v.at.listed = s.at.listed
    BY <2>5, <2>8, <2>10
  <2> QED
    BY <2>1, <2>9, <2>11
<1> QED
  BY <1>1, <1>2

-----------------------------------------------------------------------------
(* The invariant and the actions *)

\* Places and weights are right; a corpse always has a place; only what holds a liquid has
\* any, and no more than it can hold.
Inv ==
  /\ Right(things, present, adrift, liquid) /\ present \subseteq Chars
  /\ \A o \in adrift : Kind[o] # "corpse"
  /\ liquid \in [Objs -> 0..Full]
  /\ \A o \in Objs : Kind[o] \notin {"flask", "fountain"} => liquid[o] = 0

LEMMA InvMeans ==
  ASSUME Inv
  PROVE  /\ Right(things, present, adrift, liquid) /\ Fine(At, present, adrift)
         /\ present \in SUBSET Chars /\ liquid \in [Objs -> Int]
BY DEF Inv, Right, At

LEMMA Kept ==
  ASSUME Inv, Only, NEW s, things' = s, Right(s, present, adrift, liquid)
  PROVE  Inv'
BY DEF Inv, Only, At

LEMMA GetKeeps ==
  ASSUME Inv, NEW c \in Chars, NEW o \in Objs, NEW mobile \in BOOLEAN, Get(c, o, mobile)
  PROVE  Inv'
<1> PICK s, t : s = ObjFromRoom(things, {o}, Here) /\ t = ObjToChar(s, {o}, c)
  OBVIOUS
<1>1. /\ Right(things, present, adrift, liquid) /\ Fine(At, present, adrift)
      /\ c \in present /\ o \in At.held[Here] /\ Only
  BY InvMeans, Zenon DEF Get
<1>2. things' = t \/ things' = CheckedMoney(t, o)
  BY Zenon DEF Get
<1>3. o \in At.listed /\ o \notin adrift
  BY <1>1, HeldIsPlaced, Apart DEF Holders
<1>4. Right(s, present, adrift \union {o}, liquid) /\ s.at.listed = At.listed
  <2>1. Right(s, present, adrift \union {o}, liquid)
    BY <1>1, OneFromRoom, Apart DEF At
  <2>2. s.at.listed = At.listed
    BY <1>1 DEF ObjFromRoom, Right, Fine, Sound, Pointers, At
  <2> QED
    BY <2>1, <2>2
<1>5. Right(t, present, adrift, liquid) /\ t.at.listed = At.listed
  <2>1. Right(t, present, adrift, liquid)
    BY <1>1, <1>3, <1>4, OneToChar
  <2>2. t.at.listed = At.listed
    BY <1>4 DEF ObjToChar, Right, Fine, Sound, Pointers, At
  <2> QED
    BY <2>1, <2>2
<1>6. Right(CheckedMoney(t, o), present, adrift, liquid)
  BY <1>3, <1>5, MoneyRight
<1> QED
  BY <1>1, <1>2, <1>5, <1>6, Kept

LEMMA GetFromKeeps ==
  ASSUME Inv, NEW c \in Chars, NEW o \in Objs, NEW b \in Objs, GetFrom(c, o, b)
  PROVE  Inv'
<1> PICK s, t : s = ObjFromObj(things, {o}, b) /\ t = ObjToChar(s, {o}, c)
  OBVIOUS
<1>1. /\ Right(things, present, adrift, liquid) /\ Fine(At, present, adrift)
      /\ c \in present /\ o \in At.held[b] /\ Only
  BY InvMeans, Zenon DEF GetFrom, Carries
<1>2. things' = CheckedMoney(t, o)
  BY Zenon DEF GetFrom
<1>3. o \in At.listed /\ o \notin adrift /\ b \in At.listed
  <2>1. o \in At.listed /\ o \notin adrift
    BY <1>1, HeldIsPlaced DEF Holders
  <2>2. b \in At.listed
    BY <1>1 DEF Fine, Sound, OnlyListed
  <2> QED
    BY <2>1, <2>2
<1>4. Right(s, present, adrift \union {o}, liquid) /\ s.at.listed = At.listed
  <2>1. Right(s, present, adrift \union {o}, liquid)
    BY <1>1, <1>3, OneFromObj DEF At
  <2>2. s.at.listed = At.listed
    BY <1>1 DEF ObjFromObj, Right, Fine, Sound, Pointers, At
  <2> QED
    BY <2>1, <2>2
<1>5. Right(t, present, adrift, liquid) /\ t.at.listed = At.listed
  <2>1. Right(t, present, adrift, liquid)
    BY <1>1, <1>3, <1>4, OneToChar
  <2>2. t.at.listed = At.listed
    BY <1>4 DEF ObjToChar, Right, Fine, Sound, Pointers, At
  <2> QED
    BY <2>1, <2>2
<1>6. Right(CheckedMoney(t, o), present, adrift, liquid)
  BY <1>3, <1>5, MoneyRight
<1> QED
  BY <1>1, <1>2, <1>6, Kept

\* What is put into a container comes out of hands; a container that is in hands or in a
\* room is in nothing, so that it is not within what is put into it.
LEMMA PutKeeps ==
  ASSUME Inv, NEW c \in Chars, NEW o \in Objs, NEW b \in Objs, Put(c, o, b), "fold" \notin May
  PROVE  Inv'
<1> PICK s, t : s = ObjFromChar(things, {o}, c) /\ t = ObjToObj(s, {o}, b)
  OBVIOUS
<1>1. /\ Right(things, present, adrift, liquid) /\ Fine(At, present, adrift)
      /\ o \in At.held[c] /\ Only /\ o # b
      /\ b \in At.held[c] \/ b \in At.held[Here]
  BY InvMeans DEF Put, Carries
<1>2. things' = t
  BY Zenon DEF Put
<1>3. o \notin adrift
  BY <1>1, HeldIsPlaced DEF Holders
<1>4. b \in At.listed /\ At.in_obj[b] = Null
  BY <1>1, HeldIsPlaced, HeldIsTop, Apart DEF Holders
<1>5. /\ Right(s, present, adrift \union {o}, liquid)
      /\ s.at.listed = At.listed /\ s.at.in_obj = At.in_obj
  <2>1. Right(s, present, adrift \union {o}, liquid)
    BY <1>1, OneFromChar DEF At
  <2>2. s.at.listed = At.listed /\ s.at.in_obj = At.in_obj
    BY <1>1 DEF ObjFromChar, Right, Fine, Sound, Pointers, At
  <2> QED
    BY <2>1, <2>2
<1>6. b \notin Within(s.at, {o})
  BY <1>1, <1>4, <1>5, TopOutside DEF Right, Fine
<1>7. Right(t, present, adrift, liquid)
  BY <1>3, <1>4, <1>5, <1>6, OneToObj
<1> QED
  BY <1>1, <1>2, <1>7, Kept

LEMMA DropKeeps ==
  ASSUME Inv, NEW c \in Chars, NEW o \in Objs, NEW r \in Rooms, Drop(c, o, r)
  PROVE  Inv'
<1> PICK s, t : s = ObjFromChar(things, {o}, c) /\ t = ObjToRoom(s, {o}, r)
  OBVIOUS
<1>1. /\ Right(things, present, adrift, liquid) /\ Fine(At, present, adrift)
      /\ o \in At.held[c] /\ Only
  BY InvMeans, Zenon DEF Drop, Carries
<1>2. things' = t
  BY Zenon DEF Drop
<1>3. o \notin adrift
  BY <1>1, HeldIsPlaced DEF Holders
<1>4. Right(s, present, adrift \union {o}, liquid)
  BY <1>1, OneFromChar DEF At
<1>5. Right(t, present, adrift, liquid)
  BY <1>3, <1>4, OneToRoom
<1> QED
  BY <1>1, <1>2, <1>5, Kept

LEMMA UseUpKeeps ==
  ASSUME Inv, NEW c \in Chars, NEW o \in Objs, UseUp(c, o)
  PROVE  Inv'
<1> PICK s, t : s = ObjFromChar(things, {o}, c) /\ t = ExtractObj(s, o)
  OBVIOUS
<1>1. /\ Right(things, present, adrift, liquid) /\ Fine(At, present, adrift)
      /\ o \in At.held[c] /\ Only
  BY InvMeans, Zenon DEF UseUp, Carries
<1>2. things' = t
  BY Zenon DEF UseUp
<1>3. o \in At.listed /\ o \notin adrift
  BY <1>1, HeldIsPlaced DEF Holders
<1>4. Right(s, present, adrift \union {o}, liquid) /\ s.at.listed = At.listed
  <2>1. Right(s, present, adrift \union {o}, liquid)
    BY <1>1, OneFromChar DEF At
  <2>2. s.at.listed = At.listed
    BY <1>1 DEF ObjFromChar, Right, Fine, Sound, Pointers, At
  <2> QED
    BY <2>1, <2>2
<1>5. (adrift \union {o}) \ {o} = adrift
  BY <1>3
<1>6. Right(t, present, (adrift \union {o}) \ {o}, liquid)
  BY <1>3, <1>4, RightExtract
<1> QED
  BY <1>1, <1>2, <1>5, <1>6, Kept

LEMMA DropGoldKeeps ==
  ASSUME Inv, NEW c \in Chars, NEW o \in Objs, DropGold(c, o)
  PROVE  Inv'
<1> PICK s, t : s = Created(things, o, EmptyWeight[o]) /\ t = ObjToRoom(s, {o}, Here)
  OBVIOUS
<1>1. /\ Right(things, present, adrift, liquid) /\ Fine(At, present, adrift)
      /\ o \notin At.listed /\ Kind[o] = "coins" /\ Only
  BY InvMeans, Zenon DEF DropGold
<1>2. things' = t
  BY Zenon DEF DropGold
<1>3. o \notin adrift
  BY <1>1 DEF Fine, Loose
<1>4. Right(s, present, adrift \union {o}, liquid)
  <2> PICK w : w = EmptyWeight[o]
    OBVIOUS
  <2>1. liquid \in [Objs -> Int] /\ liquid[o] = 0
    BY <1>1, InvMeans DEF Inv
  <2>2. w = EmptyWeight[o] + liquid[o]
    BY <2>1, ObjectsAssumption
  <2> QED
    BY <1>1, <2>1, <2>2, RightNew DEF At
<1>5. Right(t, present, adrift, liquid)
  BY <1>3, <1>4, OneToRoom, Apart
<1> QED
  BY <1>1, <1>2, <1>5, Kept

LEMMA GiveKeeps ==
  ASSUME Inv, NEW c \in Chars, NEW o \in Objs, NEW v \in Chars, Give(c, o, v)
  PROVE  Inv'
<1> PICK s, t : s = ObjFromChar(things, {o}, c) /\ t = ObjToChar(s, {o}, v)
  OBVIOUS
<1>1. /\ Right(things, present, adrift, liquid) /\ Fine(At, present, adrift)
      /\ o \in At.held[c] /\ v \in present /\ Only
  BY InvMeans DEF Give, Carries
<1>2. things' = t
  BY Zenon DEF Give
<1>3. o \notin adrift
  BY <1>1, HeldIsPlaced DEF Holders
<1>4. Right(s, present, adrift \union {o}, liquid)
  BY <1>1, OneFromChar DEF At
<1>5. Right(t, present, adrift, liquid)
  BY <1>1, <1>3, <1>4, OneToChar
<1> QED
  BY <1>1, <1>2, <1>5, Kept

LEMMA StealWornKeeps ==
  ASSUME Inv, NEW c \in Chars, NEW o \in Objs, NEW v \in Chars, StealWorn(c, o, v)
  PROVE  Inv'
<1> PICK s, t : s = UnequipChar(things, {o}, v) /\ t = ObjToChar(s, {o}, c)
  OBVIOUS
<1>1. /\ Right(things, present, adrift, liquid) /\ Fine(At, present, adrift)
      /\ o \in At.worn[v] /\ c \in present /\ Only
  BY InvMeans, Zenon DEF StealWorn
<1>2. things' = t
  BY Zenon DEF StealWorn
<1>3. o \notin adrift
  BY <1>1, WornIsPlaced
<1>4. Right(s, present, adrift \union {o}, liquid)
  BY <1>1, OneUnequip DEF At
<1>5. Right(t, present, adrift, liquid)
  BY <1>1, <1>3, <1>4, OneToChar
<1> QED
  BY <1>1, <1>2, <1>5, Kept

LEMMA WearKeeps ==
  ASSUME Inv, NEW c \in Chars, NEW o \in Objs, Wear(c, o)
  PROVE  Inv'
<1> PICK s : s = ObjFromChar(things, {o}, c)
  OBVIOUS
<1>1. /\ Right(things, present, adrift, liquid) /\ Fine(At, present, adrift)
      /\ o \in At.held[c] /\ c \in present /\ CanWear(o) /\ Only
  BY InvMeans, Zenon DEF Wear, Carries
<1>2. PICK zapped \in BOOLEAN : things' = EquipChar(s, o, c, zapped)
  BY Zenon DEF Wear
<1>3. o \notin adrift /\ Kind[o] # "corpse"
  BY <1>1, HeldIsPlaced DEF Holders, CanWear
<1>4. Right(s, present, adrift \union {o}, liquid)
  BY <1>1, OneFromChar DEF At
<1>5. Right(EquipChar(s, o, c, zapped), present, adrift, liquid)
  BY <1>1, <1>3, <1>4, OneEquip
<1> QED
  BY <1>1, <1>2, <1>5, Kept

LEMMA RemoveKeeps ==
  ASSUME Inv, NEW c \in Chars, NEW o \in Objs, Remove(c, o)
  PROVE  Inv'
<1> PICK s, t : s = UnequipChar(things, {o}, c) /\ t = ObjToChar(s, {o}, c)
  OBVIOUS
<1>1. /\ Right(things, present, adrift, liquid) /\ Fine(At, present, adrift)
      /\ o \in At.worn[c] /\ c \in present /\ Only
  BY InvMeans, Zenon DEF Remove
<1>2. things' = t
  BY Zenon DEF Remove
<1>3. o \notin adrift
  BY <1>1, WornIsPlaced
<1>4. Right(s, present, adrift \union {o}, liquid)
  BY <1>1, OneUnequip DEF At
<1>5. Right(t, present, adrift, liquid)
  BY <1>1, <1>3, <1>4, OneToChar
<1> QED
  BY <1>1, <1>2, <1>5, Kept

\* What is at hand is in hands or in a room, so that it is put back where it was taken from.
LEMMA AtHandIsTop ==
  ASSUME Inv, NEW c \in Chars, NEW o \in Objs, AtHand(c, o)
  PROVE  /\ o \in At.listed /\ (At.in_room[o] # Null \/ At.carried_by[o] # Null)
         /\ Kind[o] \in {"flask", "fountain"}
<1>1. /\ Fine(At, present, adrift) /\ (o \in At.held[c] \/ o \in At.held[Here])
      /\ Kind[o] \in {"flask", "fountain"}
  BY InvMeans DEF AtHand, Carries
<1>2. o \in At.listed
  BY <1>1, HeldIsPlaced, Apart DEF Holders
<1>3. At.in_room[o] # Null \/ At.carried_by[o] # Null
  BY <1>1, Apart DEF Fine, Sound, LinksAgree
<1> QED
  BY <1>1, <1>2, <1>3

\* What there is to drink is part of what an object weighs, where nothing weighs less than
\* nothing.
LEMMA LiquidWeighs ==
  ASSUME Inv, "edit" \notin May, NEW o \in At.listed
  PROVE  Mass.weight[o] \in Int /\ liquid[o] <= Mass.weight[o]
<1>1. /\ Sound(At) /\ Weighs(At, Mass, liquid) /\ liquid \in [Objs -> Nat] /\ o \in Objs
  <2>1. Right(things, present, adrift, liquid) /\ liquid \in [Objs -> Nat]
    BY ObjectsAssumption DEF Inv
  <2>2. Sound(At) /\ Weighs(At, Mass, liquid)
    BY <2>1 DEF Right, Weighed, Fine, At, Mass
  <2> QED
    BY <2>1, <2>2 DEF Sound, Pointers
<1>2. Mass.weight \in [Objs -> Nat]
  BY <1>1, NothingBelow
<1>3. IsFiniteSet(At.held[o]) /\ At.held[o] \subseteq Objs
  <2>1. At.held[o] \subseteq At.listed
    BY <1>1, HeldIs DEF Holders
  <2> QED
    BY <1>1, <2>1, SumsOfHeld
<1>4. Sum(Mass.weight, At.held[o]) \in Nat
  BY <1>2, <1>3, SumIsNat
<1>5. Mass.weight[o] = EmptyWeight[o] + liquid[o] + Sum(Mass.weight, At.held[o])
  BY <1>1 DEF Weighs
<1>6. EmptyWeight[o] \in Nat /\ liquid[o] \in Nat
  BY <1>1, ObjectsAssumption
<1> QED
  BY <1>4, <1>5, <1>6

LEMMA DrinkKeeps ==
  ASSUME Inv, NEW c \in Chars, NEW o \in Objs, NEW n, Drink(c, o, n)
  PROVE  Inv'
<1> PICK h, w : /\ h = [liquid EXCEPT ![o] = @ - n]
                /\ w = -(IF n < Mass.weight[o] THEN n ELSE Mass.weight[o])
  OBVIOUS
<1> PICK t : t = WeightChanged(things, o, w)
  OBVIOUS
<1>1. /\ AtHand(c, o) /\ n \in 1..liquid[o] /\ things' = t /\ liquid' = h
      /\ present' = present /\ adrift' = adrift
  BY Zenon DEF Drink
<1>2. /\ liquid \in [Objs -> 0..Full] /\ present \in SUBSET Chars /\ Full \in Nat
      /\ n \in Nat /\ n <= liquid[o] /\ liquid[o] \in Nat
  BY <1>1, ObjectsAssumption DEF Inv
<1>3. h \in [Objs -> 0..Full]
  BY <1>2
<1>4. h \in [Objs -> Int] /\ h[o] = liquid[o] + (-n) /\ \A x \in Objs : x # o => h[x] = liquid[x]
  BY <1>2, <1>3
<1>5. /\ o \in things.at.listed /\ Kind[o] \in {"flask", "fountain"}
      /\ things.at.in_room[o] # Null \/ things.at.carried_by[o] # Null
  BY <1>1, AtHandIsTop DEF At
<1>6. Right(t, present, adrift, h)
  <2>1. Right(things, present, adrift, liquid)
    BY InvMeans
  <2>2. "edit" \notin May => Refilled(liquid, o, w, h)
    <3> SUFFICES ASSUME "edit" \notin May PROVE w = -n
      BY <1>2, <1>4 DEF Refilled
    <3>1. Mass.weight[o] \in Int /\ liquid[o] <= Mass.weight[o]
      BY <1>5, LiquidWeighs DEF At
    <3> QED
      BY <1>2, <3>1
  <2> QED
    BY <1>2, <1>5, <2>1, <2>2, WeightRight
<1>7. \A x \in Objs : Kind[x] \notin {"flask", "fountain"} => h[x] = 0
  BY <1>4, <1>5 DEF Inv
<1> QED
  BY <1>1, <1>3, <1>6, <1>7 DEF Inv

\* Who else holds what is not changed by an object's weight.
LEMMA HeldWhereItWas ==
  ASSUME NEW s, s.at \in Pointers, OnePlace(s.at), NEW o \in Objs,
         s.at.in_room[o] # Null \/ s.at.carried_by[o] # Null,
         NEW w, NEW x \in Objs, x # o
  PROVE  WeightChanged(s, o, w).at.carried_by[x] = s.at.carried_by[x]
<1>1. CASE s.at.in_room[o] # Null
  <2>1. s.at.carried_by[o] = Null /\ s.at.in_obj[o] = Null
    BY <1>1 DEF OnePlace
  <2>2. WeightChanged(s, o, w) = Heavier(s, o, w)
    BY <1>1, <2>1, Zenon DEF WeightChanged
  <2> QED
    BY <2>2 DEF Heavier
<1>2. CASE s.at.in_room[o] = Null /\ s.at.carried_by[o] # Null
  <2> PICK c : c = s.at.carried_by[o]
    OBVIOUS
  <2> PICK t, u, v : /\ t = ObjFromChar(s, {o}, c) /\ u = Heavier(t, o, w)
                     /\ v = ObjToChar(u, {o}, c)
    OBVIOUS
  <2>1. WeightChanged(s, o, w) = v
    <3>1. s.at.in_obj[o] = Null
      BY <1>2 DEF OnePlace
    <3> QED
      BY <1>2, <3>1, Zenon DEF WeightChanged
  <2>2. t.at \in Pointers /\ t.at.carried_by[x] = s.at.carried_by[x]
    <3>1. c \in Chars
      BY <1>2 DEF Pointers
    <3> QED
      BY <3>1, ObjectsAssumption DEF ObjFromChar, Pointers, Pointing, Holders
  <2>3. u.at = t.at
    BY DEF Heavier
  <2>4. v.at.carried_by[x] = u.at.carried_by[x]
    BY <2>2, <2>3 DEF ObjToChar, Pointers, Pointing
  <2> QED
    BY <2>1, <2>2, <2>3, <2>4
<1> QED
  BY <1>1, <1>2

LEMMA PourKeeps ==
  ASSUME Inv, NEW c \in Chars, NEW o \in Objs, NEW into \in Objs, Pour(c, o, into)
  PROVE  Inv'
<1> PICK room : room = Full - liquid[into]
  OBVIOUS
<1> PICK n : n = IF liquid[o] < room THEN liquid[o] ELSE room
  OBVIOUS
<1> PICK m : m = -n
  OBVIOUS
<1>0. PICK g : g = [liquid EXCEPT ![o] = @ - n]
  OBVIOUS
<1>a. PICK h : h = [g EXCEPT ![into] = @ + n]
  OBVIOUS
<1>b. PICK t : t = WeightChanged(things, o, m)
  OBVIOUS
<1>c. PICK u : u = WeightChanged(t, into, n)
  OBVIOUS
<1>1. /\ AtHand(c, o) /\ Carries(c, into) /\ Kind[into] = "flask" /\ o # into
      /\ liquid[o] > 0 /\ liquid[into] < Full
      /\ things' = u /\ liquid' = [liquid EXCEPT ![o] = @ - n, ![into] = @ + n]
      /\ present' = present /\ adrift' = adrift
  <2>1. /\ things' = WeightChanged(WeightChanged(things, o, -n), into, n)
        /\ liquid' = [liquid EXCEPT ![o] = @ - n, ![into] = @ + n]
    BY Zenon DEF Pour
  <2> QED
    BY <1>b, <1>c, <2>1, Zenon DEF Pour
<1>2. /\ liquid \in [Objs -> 0..Full] /\ present \in SUBSET Chars /\ Full \in Nat
  BY ObjectsAssumption DEF Inv
<1>3. /\ liquid[o] \in Nat /\ liquid[into] \in Nat /\ liquid[o] <= Full
      /\ n \in Nat /\ n <= liquid[o] /\ liquid[into] + n <= Full
  <2>1. /\ liquid[o] \in Nat /\ liquid[into] \in Nat /\ liquid[o] <= Full
        /\ liquid[into] <= Full
    BY <1>2
  <2> QED
    BY <1>2, <2>1
<1>4. g \in [Objs -> 0..Full]
  <2>1. liquid[o] - n \in 0..Full
    BY <1>2, <1>3
  <2> QED
    BY <1>0, <1>2, <2>1
<1>5. g[into] = liquid[into] /\ h \in [Objs -> 0..Full]
  <2>1. g[into] = liquid[into]
    BY <1>0, <1>1, <1>2
  <2>2. g[into] + n \in 0..Full
    BY <1>2, <1>3, <2>1
  <2> QED
    BY <1>a, <1>4, <2>1, <2>2
<1>6. h = liquid'
  BY <1>0, <1>a, <1>1, <1>2
<1>7. Refilled(liquid, o, m, g)
  <2>1. g[o] = liquid[o] - n /\ \A x \in Objs : x # o => g[x] = liquid[x]
    BY <1>0, <1>2
  <2>2. g \in [Objs -> Int] /\ m \in Int /\ liquid[o] - n = liquid[o] + m
    BY <1>2, <1>3, <1>4
  <2> QED
    BY <2>1, <2>2 DEF Refilled
<1>8. Refilled(g, into, n, h)
  <2>1. h[into] = g[into] + n /\ \A x \in Objs : x # into => h[x] = g[x]
    BY <1>a, <1>4
  <2>2. h \in [Objs -> Int] /\ n \in Int
    BY <1>2, <1>3, <1>5
  <2> QED
    BY <2>1, <2>2 DEF Refilled
<1>9. /\ o \in things.at.listed /\ Kind[o] \in {"flask", "fountain"}
      /\ things.at.in_room[o] # Null \/ things.at.carried_by[o] # Null
  BY <1>1, AtHandIsTop DEF At
<1>10. into \in things.at.listed /\ things.at.carried_by[into] # Null
  <2>1. Fine(At, present, adrift) /\ into \in At.held[c]
    BY <1>1, InvMeans DEF Carries
  <2>2. into \in At.listed
    BY <2>1, HeldIsPlaced DEF Holders
  <2>3. At.carried_by[into] # Null
    BY <2>1, Apart DEF Fine, Sound, LinksAgree
  <2> QED
    BY <2>2, <2>3 DEF At
<1>11. /\ Right(t, present, adrift, g) /\ t.at.listed = things.at.listed
       /\ t.at.carried_by[into] = things.at.carried_by[into]
  <2>1. Right(things, present, adrift, liquid)
    BY InvMeans
  <2>2. Right(t, present, adrift, g) /\ t.at.listed = things.at.listed
    BY <1>b, <1>2, <1>7, <1>9, <2>1, WeightRight
  <2>3. things.at \in Pointers /\ OnePlace(things.at) /\ o \in Objs
    BY <1>9, <2>1 DEF Right, Fine, Sound, Pointers
  <2>4. t.at.carried_by[into] = things.at.carried_by[into]
    BY <1>b, <1>1, <1>9, <2>3, HeldWhereItWas
  <2> QED
    BY <2>2, <2>4
<1>12. Right(u, present, adrift, h)
  BY <1>c, <1>2, <1>8, <1>10, <1>11, WeightRight
<1>13. \A x \in Objs : Kind[x] \notin {"flask", "fountain"} => h[x] = 0
  <2>1. \A x \in Objs : Kind[x] \notin {"flask", "fountain"} => x # o /\ x # into /\ liquid[x] = 0
    BY <1>1, <1>9 DEF Inv
  <2> QED
    BY <1>7, <1>8, <2>1 DEF Refilled
<1> QED
  BY <1>1, <1>5, <1>6, <1>12, <1>13 DEF Inv

LEMMA Widen ==
  ASSUME NEW p, NEW d, NEW q, NEW l, NEW s, Right(s, p, d, l)
  PROVE  Right(s, p \union q, d, l)
BY DEF Right, Fine

LEMMA EnterKeeps ==
  ASSUME Inv, NEW c \in Chars, Enter(c)
  PROVE  Inv'
<1>1. Right(things, present \union {c}, adrift, liquid)
  BY Widen DEF Inv
<1> QED
  BY <1>1 DEF Inv, Enter

\* What the two lists' functions leave of who has what.
LEMMA CarriedAndWorn ==
  ASSUME NEW s, s.at \in Pointers, NEW O, NEW c \in Chars, NEW r \in Rooms
  PROVE  /\ ObjFromChar(s, O, c).at.carried_by = Pointing(s.at.carried_by, O, Null)
         /\ ObjFromChar(s, O, c).at.worn = s.at.worn
         /\ ObjToRoom(s, O, r).at.carried_by = Pointing(s.at.carried_by, O, Null)
         /\ ObjToRoom(s, O, r).at.worn = s.at.worn
         /\ ObjToRoom(s, O, r).at.worn_by = s.at.worn_by
         /\ UnequipChar(s, O, c).at.carried_by = s.at.carried_by
         /\ UnequipChar(s, O, c).at.worn_by = Pointing(s.at.worn_by, O, Null)
BY DEF ObjFromChar, ObjToRoom, UnequipChar, Pointers

\* Somebody who leaves has nothing left: both lists are emptied into the room.
LEMMA LeaveKeeps ==
  ASSUME Inv, NEW c \in Chars, Leave(c)
  PROVE  Inv'
<1> PICK O, W : O = At.held[c] /\ W = At.worn[c]
  OBVIOUS
<1> PICK s, t, u, v :
      /\ s = ObjFromChar(things, O, c) /\ t = ObjToRoom(s, O, Here)
      /\ u = UnequipChar(t, W, c) /\ v = ObjToRoom(u, W, Here)
  OBVIOUS
<1>1. /\ Right(things, present, adrift, liquid) /\ Fine(At, present, adrift)
      /\ present \subseteq Chars
      /\ present' = present \ {c} /\ adrift' = adrift /\ things' = v
  BY InvMeans, Zenon DEF Leave
<1>2. (adrift \union O) \ O = adrift /\ (adrift \union W) \ W = adrift
  BY <1>1, HeldIsPlaced, WornIsPlaced DEF Holders
<1>3. /\ Right(s, present, adrift \union O, liquid)
      /\ s.at.carried_by = Pointing(At.carried_by, O, Null) /\ s.at.worn = At.worn
  <2>1. O \subseteq things.at.held[c]
    BY DEF At
  <2>2. Right(s, present, adrift \union O, liquid)
    BY <1>1, <2>1, RightFromChar
  <2>3. At \in Pointers
    BY <1>1 DEF Fine, Sound
  <2> QED
    BY <2>2, <2>3, CarriedAndWorn, Apart DEF At
<1>4. /\ Right(t, present, adrift, liquid)
      /\ t.at.carried_by = Pointing(s.at.carried_by, O, Null) /\ t.at.worn = At.worn
  <2>1. Right(t, present, (adrift \union O) \ O, liquid)
    BY <1>3, RightToRoom, Apart
  <2>2. s.at \in Pointers
    BY <1>3 DEF Right, Fine, Sound
  <2>3. Right(t, present, adrift, liquid)
    BY <1>2, <2>1
  <2>4. t.at.carried_by = Pointing(s.at.carried_by, O, Null) /\ t.at.worn = s.at.worn
    BY <2>2 DEF ObjToRoom, Pointers
  <2> QED
    BY <1>3, <2>3, <2>4
<1>5. /\ Right(u, present, adrift \union W, liquid)
      /\ u.at.carried_by = t.at.carried_by /\ u.at.worn_by = Pointing(t.at.worn_by, W, Null)
  <2>1. Right(u, present, adrift \union W, liquid)
    BY <1>4, RightUnequip
  <2>2. t.at \in Pointers
    BY <1>4 DEF Right, Fine, Sound
  <2> QED
    BY <1>4, <2>1, <2>2, CarriedAndWorn, Apart
<1>6. /\ Right(v, present, adrift, liquid)
      /\ v.at.carried_by = Pointing(u.at.carried_by, W, Null) /\ v.at.worn_by = u.at.worn_by
  <2>1. Right(v, present, (adrift \union W) \ W, liquid)
    BY <1>5, RightToRoom, Apart
  <2>2. u.at \in Pointers
    BY <1>5 DEF Right, Fine, Sound
  <2>3. Right(v, present, adrift, liquid)
    BY <1>2, <2>1
  <2>4. /\ v = ObjToRoom(u, W, Here) /\ u.at \in Pointers
        /\ v.at.carried_by = Pointing(u.at.carried_by, W, Null) /\ v.at.worn_by = u.at.worn_by
    <3>1. v = ObjToRoom(u, W, Here)
      OBVIOUS
    <3>2. \A x, Y : x.at \in Pointers =>
            /\ ObjToRoom(x, Y, Here).at.carried_by = Pointing(x.at.carried_by, Y, Null)
            /\ ObjToRoom(x, Y, Here).at.worn_by = x.at.worn_by
      BY DEF ObjToRoom, Pointers
    <3> QED
      BY <2>2, <3>1, <3>2
  <2> QED
    BY <2>3, <2>4
<1>7. \A o \in Objs : v.at.carried_by[o] # c
  <2>1. \A o \in Objs \ O : At.carried_by[o] # c
    BY <1>1 DEF Fine, Sound, LinksAgree
  <2> c # Null
    BY Apart
  <2>2. \A o \in Objs : s.at.carried_by[o] # c
    BY <1>3, <2>1 DEF Pointing
  <2>3. \A o \in Objs : t.at.carried_by[o] # c
    <3>1. t.at.carried_by = Pointing(s.at.carried_by, O, Null)
      BY <1>4
    <3> QED
      BY <2>2, <3>1 DEF Pointing
  <2>4. \A o \in Objs : u.at.carried_by[o] # c
    BY <1>5, <2>3
  <2> QED
    BY <1>6, <2>4 DEF Pointing
<1>8. \A o \in Objs : v.at.worn_by[o] # c
  <2>1. \A o \in Objs \ W : t.at.worn_by[o] # c
    BY <1>4 DEF Right, Fine, Sound, LinksAgree
  <2> c # Null
    BY Apart
  <2>2. u.at.worn_by = Pointing(t.at.worn_by, W, Null)
    BY <1>5
  <2>3. \A o \in Objs : u.at.worn_by[o] # c
    BY <2>1, <2>2 DEF Pointing
  <2> QED
    BY <1>6, <2>3
<1>9. Right(v, present \ {c}, adrift, liquid)
  BY <1>6, <1>7, <1>8 DEF Right, Fine
<1>10. liquid' = liquid
  BY DEF Leave
<1> QED
  BY <1>1, <1>9, <1>10 DEF Inv, At

\* A new object comes with what its prototype holds.
LEMMA Reads ==
  ASSUME Inv, NEW o \in Objs, Prototyped(o), NEW h, h = [liquid EXCEPT ![o] = Contents(o)]
  PROVE  /\ Right(Read(things, o), present, adrift \union {o}, h) /\ h \in [Objs -> 0..Full]
         /\ \A x \in Objs : Kind[x] \notin {"flask", "fountain"} => h[x] = 0
         /\ Read(things, o).at.listed = At.listed \union {o}
         /\ Read(things, o).at.held[o] = {} /\ o \notin adrift
<1> PICK w : w = EmptyWeight[o] + Contents(o)
  OBVIOUS
<1> PICK s : s = Created(things, o, w)
  OBVIOUS
<1>1. /\ Right(things, present, adrift, liquid) /\ Fine(At, present, adrift)
      /\ liquid \in [Objs -> 0..Full] /\ o \notin At.listed /\ Full \in Nat
  BY InvMeans, ObjectsAssumption DEF Inv, Prototyped
<1>2. Contents(o) \in 0..Full
  BY <1>1 DEF Contents
<1>3. h \in [Objs -> 0..Full] /\ h[o] = Contents(o) /\ \A x \in Objs : x # o => h[x] = liquid[x]
  BY <1>1, <1>2
<1>4. h \in [Objs -> Int] /\ w = EmptyWeight[o] + h[o] /\ \A x \in At.listed : h[x] = liquid[x]
  BY <1>1, <1>3 DEF Fine, Sound, Pointers
<1>5. Right(s, present, adrift \union {o}, h)
  BY <1>1, <1>4, RightNew DEF At
<1>6. \A x \in Objs : Kind[x] \notin {"flask", "fountain"} => h[x] = 0
  BY <1>3 DEF Inv, Contents
<1>7. s.at.listed = At.listed \union {o} /\ s.at.held[o] = {}
  <2>1. s.at.listed = At.listed \union {o} /\ s.at.held = At.held
    BY <1>1 DEF Created, Fine, Sound, Pointers, At
  <2> QED
    BY <1>1, <2>1 DEF Fine, Sound, OnlyListed
<1>8. o \notin adrift
  BY <1>1 DEF Fine, Loose
<1> QED
  BY <1>3, <1>5, <1>6, <1>7, <1>8 DEF Read

\* and is put somewhere, or nowhere.
LEMMA LoadKept ==
  ASSUME Inv, NEW o \in Objs, Prototyped(o), Filled(o), NEW s, things' = s,
         \/ Right(s, present, adrift, liquid') /\ adrift' = adrift
         \/ Right(s, present, adrift \union {o}, liquid') /\ adrift' = adrift \union {o}
  PROVE  Inv'
<1> PICK h : h = [liquid EXCEPT ![o] = Contents(o)]
  OBVIOUS
<1>1. liquid' = h /\ present' = present /\ Kind[o] # "corpse"
  BY DEF Filled, Prototyped
<1>2. /\ h \in [Objs -> 0..Full]
      /\ \A x \in Objs : Kind[x] \notin {"flask", "fountain"} => h[x] = 0
  BY Reads
<1> QED
  BY <1>1, <1>2 DEF Inv

LEMMA LoadToRoomKeeps ==
  ASSUME Inv, NEW o \in Objs, NEW r \in Rooms \union {Null}, LoadToRoom(o, r)
  PROVE  Inv'
<1> PICK s, h : s = Read(things, o) /\ h = [liquid EXCEPT ![o] = Contents(o)]
  OBVIOUS
<1>1. Prototyped(o) /\ Filled(o) /\ liquid' = h
  BY DEF LoadToRoom, Filled
<1>2. Right(s, present, adrift \union {o}, h) /\ o \notin adrift
  BY <1>1, Reads
<1>3. CASE r = Null
  <2>1. things' = s /\ adrift' = adrift \union {o}
    BY <1>3, Zenon DEF LoadToRoom
  <2> QED
    BY <1>1, <1>2, <2>1, LoadKept
<1>4. CASE r # Null
  <2> PICK t : t = ObjToRoom(s, {o}, r)
    OBVIOUS
  <2>1. things' = t /\ adrift' = adrift
    BY <1>4, Zenon DEF LoadToRoom
  <2>2. Right(t, present, adrift, h)
    BY <1>2, <1>4, OneToRoom
  <2> QED
    BY <1>1, <2>1, <2>2, LoadKept
<1> QED
  BY <1>3, <1>4

LEMMA LoadIntoKeeps ==
  ASSUME Inv, NEW o \in Objs, NEW k \in Objs \union {Null}, LoadInto(o, k)
  PROVE  Inv'
<1> PICK s, h : s = Read(things, o) /\ h = [liquid EXCEPT ![o] = Contents(o)]
  OBVIOUS
<1>1. Prototyped(o) /\ Filled(o) /\ liquid' = h /\ k \in At.listed \union {o, Null}
  BY DEF LoadInto, Filled
<1>2. /\ Right(s, present, adrift \union {o}, h) /\ o \notin adrift
      /\ s.at.listed = At.listed \union {o} /\ s.at.held[o] = {}
  BY <1>1, Reads
<1>3. CASE k \in {o, Null}
  <2>1. things' = s /\ adrift' = adrift \union {o}
    BY <1>3, Zenon DEF LoadInto
  <2> QED
    BY <1>1, <1>2, <2>1, LoadKept
<1>4. CASE k \notin {o, Null}
  <2> PICK t : t = ObjToObj(s, {o}, k)
    OBVIOUS
  <2>1. things' = t /\ adrift' = adrift
    BY <1>4, Zenon DEF LoadInto
  <2>2. k \in s.at.listed /\ k \notin {o}
    BY <1>1, <1>2, <1>4
  <2>3. Within(s.at, {o}) = {o}
    BY <1>2, EmptyAlone DEF Right, Fine, Sound
  <2>4. Right(t, present, adrift, h)
    BY <1>2, <2>2, <2>3, OneToObj
  <2> QED
    BY <1>1, <2>1, <2>4, LoadKept
<1> QED
  BY <1>3, <1>4

LEMMA LoadToCharKeeps ==
  ASSUME Inv, NEW o \in Objs, NEW c \in Chars, LoadToChar(o, c)
  PROVE  Inv'
<1> PICK s, h : s = Read(things, o) /\ h = [liquid EXCEPT ![o] = Contents(o)]
  OBVIOUS
<1> PICK t : t = ObjToChar(s, {o}, c)
  OBVIOUS
<1>1. Prototyped(o) /\ Filled(o) /\ liquid' = h /\ c \in present /\ adrift' = adrift
  BY DEF LoadToChar, Filled
<1>2. things' = t
  BY Zenon DEF LoadToChar
<1>3. Right(s, present, adrift \union {o}, h) /\ o \notin adrift
  BY <1>1, Reads
<1>4. Right(t, present, adrift, h)
  BY <1>1, <1>3, OneToChar
<1> QED
  BY <1>1, <1>2, <1>4, LoadKept

LEMMA LoadWornKeeps ==
  ASSUME Inv, NEW o \in Objs, NEW c \in Chars, LoadWorn(o, c)
  PROVE  Inv'
<1> PICK s, h : s = Read(things, o) /\ h = [liquid EXCEPT ![o] = Contents(o)]
  OBVIOUS
<1>1. Prototyped(o) /\ Filled(o) /\ liquid' = h /\ c \in present /\ Kind[o] # "corpse"
  BY DEF LoadWorn, Filled, Prototyped
<1>2. Right(s, present, adrift \union {o}, h) /\ o \notin adrift
  BY <1>1, Reads
<1>3. CASE things' = s /\ adrift' = adrift \union {o}
  BY <1>1, <1>2, <1>3, LoadKept
<1>4. ASSUME NEW zapped \in BOOLEAN, things' = EquipChar(s, o, c, zapped), adrift' = adrift
      PROVE  Inv'
  <2>1. Right(EquipChar(s, o, c, zapped), present, adrift, h)
    BY <1>1, <1>2, OneEquip
  <2> QED
    BY <1>1, <1>4, <2>1, LoadKept
<1> QED
  BY <1>3, <1>4, Zenon DEF LoadWorn

LEMMA DestroyKeeps ==
  ASSUME Inv, NEW o \in Objs, Destroy(o)
  PROVE  Inv'
<1> PICK t : t = ExtractObj(things, o)
  OBVIOUS
<1>1. /\ Right(things, present, adrift, liquid) /\ Fine(At, present, adrift)
      /\ Only /\ things' = t
  BY InvMeans, Zenon DEF Destroy
<1>2. PICK r \in Rooms : o \in At.held[r]
  BY DEF Destroy
<1>3. o \in At.listed /\ o \notin adrift
  BY <1>1, <1>2, HeldIsPlaced DEF Holders
<1>4. Right(t, present, adrift, liquid)
  BY <1>1, <1>3, OneExtract DEF At
<1> QED
  BY <1>1, <1>4, Kept

\* The prototype's weight is right for what lies in a room and has nothing in it.
LEMMA EditKeeps ==
  ASSUME Inv, NEW o \in Objs, Edit(o)
  PROVE  Inv'
<1> PICK h, w, v : /\ h = [liquid EXCEPT ![o] = Contents(o)] /\ w = Contents(o) - liquid[o]
                   /\ v = EmptyWeight[o] + Contents(o)
  OBVIOUS
<1>1. /\ liquid' = h /\ present' = present /\ adrift' = adrift /\ o \in At.listed
      /\ (At.in_room[o] # Null /\ At.held[o] = {}) \/ "edit" \in May
      /\ things' = [at |-> At, mass |-> [Mass EXCEPT !.weight[o] = v]]
  BY DEF Edit, Filled
<1>2. /\ Fine(At, present, adrift) /\ liquid \in [Objs -> 0..Full] /\ Full \in Nat
      /\ EmptyWeight[o] \in Nat
  BY InvMeans, ObjectsAssumption DEF Inv
<1>3. Contents(o) \in 0..Full
  BY <1>2 DEF Contents
<1>4. h \in [Objs -> 0..Full] /\ h[o] = Contents(o) /\ \A x \in Objs : x # o => h[x] = liquid[x]
  BY <1>2, <1>3
<1>5. \A x \in Objs : Kind[x] \notin {"flask", "fountain"} => h[x] = 0
  BY <1>4 DEF Inv, Contents
<1>6. ASSUME "edit" \notin May
      PROVE  Weighs(At, [Mass EXCEPT !.weight[o] = v], h)
  <2> PICK a, m : a = At /\ m = Mass
    OBVIOUS
  <2>1. Sound(a) /\ Weighs(a, m, liquid)
    <3>1. Right(things, present, adrift, liquid)
      BY InvMeans
    <3> QED
      BY <1>6, <3>1 DEF Right, Weighed, Fine, At, Mass
  <2>2. \A k \in Objs \union Chars : o \notin a.held[k]
    BY <1>1, <1>6, <2>1, Apart DEF Sound, LinksAgree, OnePlace
  <2>3. /\ w \in Int /\ h \in [Objs -> Int] /\ h[o] = liquid[o] + w
    BY <1>2, <1>3, <1>4
  <2>4. Weighs(a, [m EXCEPT !.weight[o] = @ + w], h)
    BY <1>1, <1>4, <2>1, <2>2, <2>3, HeavierWeighs
  <2>5. m.weight[o] = EmptyWeight[o] + liquid[o]
    <3>1. m.weight[o] = EmptyWeight[o] + liquid[o] + Sum(m.weight, a.held[o])
      BY <1>1, <2>1 DEF Weighs
    <3>2. Sum(m.weight, {}) = 0
      BY SumOfNone
    <3>3. Sum(m.weight, a.held[o]) = 0
      BY <1>1, <1>6, <3>2, Zenon
    <3> QED
      BY <1>2, <3>1, <3>3
  <2>6. m.weight[o] + w = v
    BY <1>2, <1>3, <2>5
  <2>7. [m EXCEPT !.weight[o] = @ + w] = [m EXCEPT !.weight[o] = v]
    BY <2>6
  <2> QED
    BY <2>4, <2>7
<1>7. Right(things', present, adrift, h)
  BY <1>1, <1>2, <1>6 DEF Right, Weighed
<1> QED
  BY <1>1, <1>4, <1>5, <1>7 DEF Inv

\* A new mobile has what was in the corpse, and then the corpse goes.
LEMMA AnimateKeeps ==
  ASSUME Inv, NEW k \in Objs, NEW mob \in Chars, Animate(k, mob)
  PROVE  Inv'
<1> PICK O, p : O = At.held[k] /\ p = present \union {mob}
  OBVIOUS
<1> PICK s, t, u : /\ s = ObjFromObj(things, O, k) /\ t = ObjToChar(s, O, mob)
                   /\ u = ExtractObj(t, k)
  OBVIOUS
<1>1. /\ Right(things, present, adrift, liquid) /\ Fine(At, present, adrift)
      /\ k \in At.held[Here] /\ mob \in p
      /\ present' = p /\ adrift' = adrift /\ things' = u
  BY InvMeans, Zenon DEF Animate
<1>2. k \in At.listed /\ k \notin adrift
  BY <1>1, HeldIsPlaced, Apart DEF Holders
<1>3. (adrift \union O) \ O = adrift
  BY <1>1, HeldIsPlaced DEF Holders
<1>4. Right(things, p, adrift, liquid)
  BY <1>1, Widen
<1>5. Right(s, p, adrift \union O, liquid) /\ s.at.listed = At.listed
  <2>1. O \subseteq things.at.held[k]
    BY DEF At
  <2>2. Right(s, p, adrift \union O, liquid)
    BY <1>2, <1>4, <2>1, RightFromObj DEF At
  <2>3. s.at.listed = At.listed
    BY <1>1 DEF ObjFromObj, Right, Fine, Sound, Pointers, At
  <2> QED
    BY <2>2, <2>3
<1>6. Right(t, p, adrift, liquid) /\ t.at.listed = At.listed
  <2>1. O \subseteq adrift \union O
    OBVIOUS
  <2>2. Right(t, p, (adrift \union O) \ O, liquid)
    BY <1>1, <1>5, <2>1, RightToChar
  <2>3. t.at.listed = s.at.listed
    BY <1>5 DEF ObjToChar, Right, Fine, Sound, Pointers
  <2> QED
    BY <1>3, <1>5, <2>2, <2>3
<1>7. Right(u, p, adrift, liquid)
  BY <1>2, <1>6, OneExtract
<1> QED
  BY <1>1, <1>7 DEF Inv, Animate

\* What contains a corpse is not within what falls out of it: the things that are would all
\* be in one another.
LEMMA AroundOutside ==
  ASSUME NEW at, Sound(at), NEW k \in Objs, at.in_obj[k] \in Objs, NEW t, t \in Pointers,
         LinksAgree(t), t.held = [at.held EXCEPT ![k] = {}],
         t.in_obj = Pointing(at.in_obj, at.held[k], Null)
  PROVE  at.in_obj[k] \notin Within(t, at.held[k])
<1> PICK O, W, b : O = at.held[k] /\ W = Within(t, O) /\ b = at.in_obj[k]
  OBVIOUS
<1> SUFFICES ASSUME b \in W
             PROVE  FALSE
  OBVIOUS
<1>1. at \in Pointers /\ O \in SUBSET Objs
  BY DEF Sound, Pointers, Holders
<1>2. W \in SUBSET Objs /\ ClosedUnderContents(t, W)
  BY <1>1, WithinHolds, WithinClosed
<1>3. b # k
  <2>1. (\A x \in {k} : at.in_obj[x] \in {k}) => {k} = {}
    BY <1>1 DEF Sound, NoCycle
  <2> QED
    BY <2>1
<1>4. k \in t.held[b]
  <2>1. k \in at.held[b]
    BY <1>1 DEF Sound, LinksAgree
  <2> QED
    BY <1>1, <1>3, <2>1 DEF Pointers, Holders
<1>5. k \in W
  BY <1>2, <1>4 DEF ClosedUnderContents
<1>6. \A x \in W : at.in_obj[x] \in W
  <2> SUFFICES ASSUME NEW x \in W
               PROVE  at.in_obj[x] \in W
    OBVIOUS
  <2>1. x \in Objs
    BY <1>2
  <2>2. CASE x \in O
    BY <1>1, <1>5, <2>1, <2>2 DEF Sound, LinksAgree
  <2>3. CASE x \notin O
    <3>1. t.in_obj[x] \in W
      BY <1>1, <2>3, WithinSomething
    <3> QED
      BY <2>1, <2>3, <3>1 DEF Pointing
  <2> QED
    BY <2>2, <2>3
<1>7. W = {}
  BY <1>2, <1>6 DEF Sound, NoCycle
<1> QED
  BY <1>5, <1>7

\* What fell out of a corpse has the corpse's place, and the corpse goes alone.
LEMMA DecayKeeps ==
  ASSUME Inv, NEW k \in Objs, Decay(k)
  PROVE  Inv'
<1> PICK O, a, t : O = At.held[k] /\ a = At /\ t = ObjFromObj(things, O, k)
  OBVIOUS
<1>0. PICK u : u = CASE At.in_obj[k] # Null -> ObjToObj(t, O, At.in_obj[k])
                     [] At.carried_by[k] # Null -> ObjToRoom(t, O, Here)
                     [] At.in_room[k] # Null -> ObjToRoom(t, O, At.in_room[k])
                     [] OTHER -> t
  BY Zenon
<1>1. /\ Right(things, present, adrift, liquid) /\ Fine(a, present, adrift)
      /\ k \in a.listed /\ Kind[k] = "corpse" /\ Only /\ things' = ExtractObj(u, k)
  BY <1>0, InvMeans, Zenon DEF Decay
<1>2. a \in Pointers /\ Sound(a) /\ O \in SUBSET Objs
  BY <1>1 DEF Fine, Sound, Pointers, Holders
<1>3. k \notin adrift /\ a.worn_by[k] = Null
  BY <1>1 DEF Inv, Fine
<1>4. (adrift \union O) \ O = adrift /\ O \subseteq adrift \union O
  BY <1>1, HeldIsPlaced DEF Holders
<1>5. Right(t, present, adrift \union O, liquid)
  <2>1. O \subseteq things.at.held[k]
    BY DEF At
  <2> QED
    BY <1>1, <2>1, RightFromObj DEF At
<1>6. /\ t.at.listed = a.listed /\ t.at.held = [a.held EXCEPT ![k] = {}]
      /\ t.at.in_obj = Pointing(a.in_obj, O, Null)
  <2>1. a.held[k] \ O = {}
    BY DEF At
  <2> QED
    BY <1>2, <2>1 DEF ObjFromObj, Pointers, Holders, At
<1>7. ASSUME NEW r \in Rooms, u = ObjToRoom(t, O, r)
      PROVE  Right(u, present, adrift, liquid) /\ u.at.listed = a.listed
  <2>1. Right(u, present, (adrift \union O) \ O, liquid)
    BY <1>4, <1>5, <1>7, RightToRoom
  <2>2. u.at.listed = t.at.listed
    BY <1>5, <1>7 DEF ObjToRoom, Right, Fine, Sound, Pointers
  <2> QED
    BY <1>4, <1>6, <2>1, <2>2
<1>8. CASE a.in_obj[k] # Null
  <2> PICK c : c = a.in_obj[k]
    OBVIOUS
  <2>1. u = ObjToObj(t, O, c)
    <3>1. At.in_obj[k] # Null /\ At.carried_by[k] = Null /\ At.in_room[k] = Null
      BY <1>2, <1>8 DEF Sound, OnePlace
    <3>2. u = ObjToObj(t, O, At.in_obj[k])
      BY <1>0, <3>1, Zenon
    <3> QED
      BY <3>2
  <2>2. c \in Objs /\ c \in a.listed
    <3>1. c \in Objs
      BY <1>2, <1>8 DEF Pointers
    <3>2. k \in a.held[c]
      BY <1>2, <3>1 DEF Sound, LinksAgree
    <3> QED
      BY <1>2, <3>1, <3>2 DEF Sound, OnlyListed
  <2>3. c \notin Within(t.at, O)
    <3>1. t.at \in Pointers /\ LinksAgree(t.at)
      BY <1>5 DEF Right, Fine, Sound
    <3>2. a.in_obj[k] \notin Within(t.at, a.held[k])
      BY <1>2, <1>6, <2>2, <3>1, AroundOutside
    <3> QED
      BY <3>2
  <2>4. c \notin O
    BY <1>5, <2>3, WithinHolds, <1>2 DEF Right, Fine, Sound
  <2>5. Right(u, present, adrift, liquid)
    <3>1. c \in t.at.listed
      BY <1>6, <2>2
    <3>2. Right(u, present, (adrift \union O) \ O, liquid)
      BY <1>4, <1>5, <2>1, <2>3, <3>1, RightToObj
    <3> QED
      BY <1>4, <3>2
  <2>6. u.at.listed = a.listed
    BY <1>5, <1>6, <2>1, <2>4 DEF ObjToObj, Right, Fine, Sound, Pointers
  <2> QED
    BY <1>1, <1>3, <2>5, <2>6, OneExtract, Kept
<1>9. CASE a.in_obj[k] = Null
  <2>1. PICK r \in Rooms : u = ObjToRoom(t, O, r)
    <3>1. CASE a.carried_by[k] # Null
      <4>1. At.in_obj[k] = Null /\ At.carried_by[k] # Null /\ At.in_room[k] = Null
        BY <1>2, <1>9, <3>1 DEF Sound, OnePlace
      <4>2. u = ObjToRoom(t, O, Here)
        BY <1>0, <4>1, Zenon
      <4> QED
        BY <4>2, Apart
    <3>2. CASE a.carried_by[k] = Null
      <4>1. a.in_room[k] # Null
        BY <1>1, <1>3, <1>9, <3>2 DEF Fine, Loose, Nowhere
      <4>2. At.in_obj[k] = Null /\ At.carried_by[k] = Null /\ At.in_room[k] # Null
        BY <1>9, <3>2, <4>1
      <4>3. u = ObjToRoom(t, O, At.in_room[k])
        BY <1>0, <4>2, Zenon
      <4> QED
        BY <1>2, <4>1, <4>3 DEF Pointers
    <3> QED
      BY <3>1, <3>2
  <2>2. Right(u, present, adrift, liquid) /\ u.at.listed = a.listed
    BY <1>7, <2>1
  <2> QED
    BY <1>1, <1>3, <2>2, OneExtract, Kept
<1> QED
  BY <1>8, <1>9

\* A corpse is made of nothing, is given what its owner had, and only then is put down.
LEMMA DieKeeps ==
  ASSUME Inv, NEW c \in Chars, NEW k \in Objs, Die(c, k)
  PROVE  Inv'
<1> PICK a, W, d, w : /\ a = At /\ W = At.worn[c] /\ d = adrift \union {k}
                      /\ w = EmptyWeight[k] + Mass.load[c]
  OBVIOUS
<1> PICK s, m, u, full : /\ s = Created(things, k, w) /\ m = HandedOver(s, c, k)
                         /\ u = UnequipChar(m, W, c) /\ full = ObjToObj(u, W, k)
  OBVIOUS
<1>1. /\ Right(things, present, adrift, liquid) /\ Fine(a, present, adrift) /\ k \notin a.listed
      /\ Kind[k] = "corpse" /\ Only
      /\ \/ things' = ObjToRoom(full, {k}, Here)
         \/ \E gold \in {o \in Objs \ a.listed : Kind[o] = "coins"} :
              things' = ObjToRoom(ObjToObj(Created(full, gold, EmptyWeight[gold]), {gold}, k),
                                  {k}, Here)
  BY InvMeans, Zenon DEF Die
<1>2. /\ a \in Pointers /\ k \notin adrift /\ a.in_obj[k] = Null /\ a.held[k] = {}
      /\ W \subseteq Objs /\ k \notin W /\ k \notin a.held[c] /\ k \in d
  <2>1. k \in Nowhere(a) /\ a.held[k] = {}
    BY <1>1 DEF Fine, Sound, OnlyListed
  <2>2. k \notin W /\ k \notin a.held[c]
    BY <1>1, WornIsPlaced, HeldIsPlaced DEF Holders
  <2>3. a \in Pointers
    BY <1>1 DEF Fine, Sound
  <2> QED
    BY <1>1, <2>1, <2>2, <2>3 DEF Fine, Pointers, Loose, Nowhere
<1>3. (d \union W) \ W = d /\ W \subseteq d \union W
  BY <1>1, <1>2, WornIsPlaced
<1>4. Fine(s.at, present, d)
  <2> PICK b : b = Created(things, k, w).at
    OBVIOUS
  <2> QED
    BY <1>1, New DEF At
<1>5. /\ s.at.listed = a.listed \union {k} /\ s.at.held = a.held /\ s.at.worn = a.worn
      /\ s.at.in_obj = a.in_obj
  BY <1>2 DEF Created, Pointers, At
<1>6. Right(m, present, d, liquid)
  <2>1. Fine(m.at, present, d)
    <3> PICK b : b = m.at
      OBVIOUS
    <3>1. s.at.held[k] = {}
      BY <1>2, <1>5
    <3> QED
      BY <1>2, <1>4, <3>1, HandOver
  <2>2. liquid[k] = 0
    BY <1>1 DEF Inv
  <2>3. Sound(things.at) /\ k \notin things.at.listed
    BY <1>1 DEF Fine, At
  <2>4. Weighed(m, liquid)
    <3> SUFFICES ASSUME "edit" \notin May PROVE Weighs(m.at, m.mass, liquid)
      BY DEF Weighed
    <3>1. Weighs(things.at, things.mass, liquid)
      BY <1>1 DEF Right, Weighed
    <3>2. m = HandedOver(Created(things, k, EmptyWeight[k] + things.mass.load[c]), c, k)
      BY DEF Mass
    <3> QED
      BY <2>2, <2>3, <3>1, <3>2, HandOverWeighs
  <2> QED
    BY <2>1, <2>4 DEF Right
<1>7. /\ m.at.listed = a.listed \union {k} /\ m.at.worn = a.worn
      /\ m.at.in_obj = Pointing(a.in_obj, a.held[c], k)
  <2>1. s.at \in Pointers
    BY <1>4 DEF Fine, Sound
  <2> QED
    BY <1>5, <2>1 DEF HandedOver, Pointers
<1>8. Right(u, present, d \union W, liquid)
  <2>1. W \subseteq m.at.worn[c]
    BY <1>7
  <2> QED
    BY <1>6, <2>1, RightUnequip
<1>9. u.at.listed = a.listed \union {k} /\ u.at.in_obj[k] = Null
  <2>1. m.at \in Pointers
    BY <1>6 DEF Right, Fine, Sound
  <2>2. u.at.listed = m.at.listed /\ u.at.in_obj = m.at.in_obj
    BY <2>1 DEF UnequipChar, Pointers
  <2>3. m.at.in_obj[k] = Null
    BY <1>2, <1>7 DEF Pointing
  <2> QED
    BY <1>7, <2>2, <2>3
<1>10. Right(full, present, d, liquid)
  <2>1. k \notin Within(u.at, W)
    BY <1>2, <1>8, <1>9, TopOutside DEF Right, Fine
  <2>2. k \in u.at.listed
    BY <1>9
  <2>3. Right(full, present, (d \union W) \ W, liquid)
    BY <1>3, <1>8, <2>1, <2>2, RightToObj
  <2> QED
    BY <1>3, <2>3
<1>11. full.at.listed = a.listed \union {k} /\ full.at.in_obj[k] = Null
  <2>1. u.at \in Pointers
    BY <1>8 DEF Right, Fine, Sound
  <2>2. full.at.listed = u.at.listed /\ full.at.in_obj = Pointing(u.at.in_obj, W, k)
    BY <1>2, <2>1 DEF ObjToObj, Pointers
  <2>3. full.at.in_obj[k] = u.at.in_obj[k]
    <3>1. k \in Objs /\ k \notin W
      BY <1>2
    <3>2. Pointing(u.at.in_obj, W, k)[k] = u.at.in_obj[k]
      BY <3>1 DEF Pointing
    <3>3. full.at.in_obj = Pointing(u.at.in_obj, W, k)
      BY <2>2
    <3> QED
      BY <3>2, <3>3
  <2> QED
    BY <1>9, <2>2, <2>3
<1>12. ASSUME things' = ObjToRoom(full, {k}, Here)
       PROVE  Inv'
  <2> PICK v : v = ObjToRoom(full, {k}, Here)
    OBVIOUS
  <2>1. Right(v, present, adrift, liquid)
    BY <1>2, <1>10, OneToRoom, Apart
  <2> QED
    BY <1>1, <1>12, <2>1, Kept
<1>13. ASSUME NEW gold \in Objs, gold \notin a.listed, Kind[gold] = "coins",
              things' = ObjToRoom(ObjToObj(Created(full, gold, EmptyWeight[gold]), {gold}, k),
                                  {k}, Here)
       PROVE  Inv'
  <2> PICK x, y, v : /\ x = Created(full, gold, EmptyWeight[gold])
                     /\ y = ObjToObj(x, {gold}, k) /\ v = ObjToRoom(y, {k}, Here)
    OBVIOUS
  <2>1. gold # k /\ gold \notin full.at.listed /\ gold \notin d
    BY <1>1, <1>11, <1>13 DEF Fine, Loose
  <2>2. Right(x, present, d \union {gold}, liquid)
    <3> PICK g : g = EmptyWeight[gold]
      OBVIOUS
    <3>1. liquid \in [Objs -> Int] /\ liquid[gold] = 0
      BY <1>13, InvMeans DEF Inv
    <3>2. g = EmptyWeight[gold] + liquid[gold]
      BY <3>1, ObjectsAssumption
    <3> QED
      BY <1>10, <2>1, <3>1, <3>2, RightNew
  <2>3. x.at.listed = full.at.listed \union {gold} /\ x.at.in_obj = full.at.in_obj
    BY <1>10 DEF Created, Right, Fine, Sound, Pointers
  <2>4. k \notin Within(x.at, {gold}) /\ k \in x.at.listed
    <3>1. Sound(x.at)
      BY <2>2 DEF Right, Fine
    <3>2. x.at.in_obj[k] = Null /\ k \in x.at.listed /\ k \notin {gold}
      BY <1>11, <2>1, <2>3
    <3> QED
      BY <3>1, <3>2, TopOutside
  <2>5. Right(y, present, d, liquid)
    BY <2>1, <2>2, <2>4, OneToObj
  <2>6. Right(v, present, adrift, liquid)
    BY <1>2, <2>5, OneToRoom, Apart
  <2> QED
    BY <1>1, <1>13, <2>6, Kept
<1> QED
  BY <1>1, <1>12, <1>13

-----------------------------------------------------------------------------
(* The theorems *)

LEMMA Start ==
  ASSUME Init
  PROVE  Inv
<1> PICK a : a = At
  OBVIOUS
<1>1. /\ a.listed = {} /\ a.held = [h \in Holders |-> {}] /\ a.worn = [c \in Chars |-> {}]
      /\ a.in_room = [o \in Objs |-> Null] /\ a.carried_by = [o \in Objs |-> Null]
      /\ a.worn_by = [o \in Objs |-> Null] /\ a.in_obj = [o \in Objs |-> Null]
  BY DEF Init, At
<1>2. a \in Pointers
  BY DEF Init, At, Pointers
<1>3. LinksAgree(a)
  BY <1>1, Apart DEF LinksAgree, Holders
<1>4. OnePlace(a)
  BY <1>1 DEF OnePlace
<1>5. NoCycle(a)
  BY <1>1, Apart DEF NoCycle
<1>6. OnlyListed(a)
  BY <1>1 DEF OnlyListed, Nowhere, Holders
<1>7. Fine(a, present, adrift)
  BY <1>1, <1>2, <1>3, <1>4, <1>5, <1>6, Apart DEF Fine, Sound, Loose, Init
<1>8. Weighs(a, Mass, liquid)
  <2> PICK m : m = Mass
    OBVIOUS
  <2>1. /\ m.weight = [o \in Objs |-> 0] /\ m.load = [c \in Chars |-> 0]
        /\ m.items = [c \in Chars |-> 0] /\ m \in Masses
    BY DEF Init, Mass, Masses
  <2>2. Sum(m.weight, {}) = 0 /\ Cardinality({}) = 0 /\ IsFiniteSet({})
    BY SumOfNone, FS_EmptySet
  <2>3. \A c \in Chars : Sum(m.weight, a.held[c]) = 0 /\ Cardinality(a.held[c]) = 0
    <3>1. \A c \in Chars : a.held[c] = {}
      BY <1>1 DEF Holders
    <3> QED
      BY <2>2, <3>1, Zenon
  <2>4. liquid \in [Objs -> Int]
    BY DEF Init
  <2>5. IsFiniteSet(a.listed)
    BY <1>1, <2>2, Zenon
  <2> QED
    BY <1>1, <2>1, <2>3, <2>4, <2>5 DEF Weighs
<1>9. Right(things, present, adrift, liquid)
  BY <1>7, <1>8 DEF Right, Weighed, At, Mass
<1> QED
  BY <1>9, ObjectsAssumption DEF Inv, Init

\* One lemma above for each action.
LEMMA StepKeeps ==
  ASSUME Inv, [Next]_vars, "fold" \notin May
  PROVE  Inv'
<1>1. CASE UNCHANGED vars
  BY <1>1 DEF Inv, vars
<1>2. ASSUME NEW c \in Chars, Enter(c) \/ Leave(c)
      PROVE  Inv'
  BY <1>2, EnterKeeps, LeaveKeeps
<1>3. ASSUME NEW c \in Chars, NEW o \in Objs,
             Get(c, o, TRUE) \/ Get(c, o, FALSE)
      PROVE  Inv'
  BY <1>3, GetKeeps, Zenon
<1>4. ASSUME NEW c \in Chars, NEW o \in Objs,
             \/ UseUp(c, o) \/ DropGold(c, o) \/ Wear(c, o) \/ Remove(c, o)
             \/ Die(c, o) \/ Animate(o, c) \/ LoadToChar(o, c) \/ LoadWorn(o, c)
             \/ \E r \in Rooms : Drop(c, o, r)
             \/ \E n \in 1..Full : Drink(c, o, n)
      PROVE  Inv'
  BY <1>4, UseUpKeeps, DropGoldKeeps, WearKeeps, RemoveKeeps, DieKeeps, AnimateKeeps,
     LoadToCharKeeps, LoadWornKeeps, DropKeeps, DrinkKeeps
<1>5. ASSUME NEW c \in Chars, NEW o \in Objs, NEW v \in Chars,
             Give(c, o, v) \/ StealWorn(c, o, v)
      PROVE  Inv'
  BY <1>5, GiveKeeps, StealWornKeeps
<1>6. ASSUME NEW c \in Chars, NEW o \in Objs, NEW b \in Objs,
             GetFrom(c, o, b) \/ Put(c, o, b) \/ Pour(c, o, b)
      PROVE  Inv'
  BY <1>6, GetFromKeeps, PutKeeps, PourKeeps
<1>7. ASSUME NEW o \in Objs,
             \/ Decay(o) \/ Destroy(o) \/ Edit(o)
             \/ \E r \in Rooms \union {Null} : LoadToRoom(o, r)
             \/ \E b \in Objs \union {Null} : LoadInto(o, b)
      PROVE  Inv'
  BY <1>7, DecayKeeps, DestroyKeeps, EditKeeps, LoadToRoomKeeps, LoadIntoKeeps
<1> QED
  BY <1>1, <1>2, <1>3, <1>4, <1>5, <1>6, <1>7, Zenon DEF Next

LEMMA InvSuffices ==
  ASSUME Inv
  PROVE  PlacedOnce
<1>1. /\ At \in Pointers /\ LinksAgree(At) /\ OnePlace(At) /\ NoCycle(At) /\ OnlyListed(At)
      /\ Nowhere(At) \intersect At.listed = adrift
  BY InvMeans DEF Fine, Sound, Loose
<1>2. \A c \in Chars \ present : At.held[c] = {} /\ At.worn[c] = {}
  <2> SUFFICES ASSUME NEW c \in Chars \ present
               PROVE  At.held[c] = {} /\ At.worn[c] = {}
    OBVIOUS
  <2>1. \A o \in Objs : At.carried_by[o] # c /\ At.worn_by[o] # c
    BY InvMeans, Apart DEF Fine
  <2> QED
    BY <1>1, <2>1 DEF LinksAgree, Pointers, Holders
<1> QED
  BY <1>1, <1>2 DEF PlacedOnce

\* Where no container is ever asked to hold itself, every object there is lies in one place,
\* with its list and its pointer leading to each other, or was left without one by a zone's
\* reset; nothing is within itself; and who has left has nothing: for any number of objects,
\* characters and rooms, through every move, death, decay and reset.
THEOREM ObjectsArePlacedOnce ==
  ASSUME "fold" \notin May
  PROVE  Spec => []PlacedOnce
<1>1. Init => Inv
  BY Start
<1>2. Inv /\ [Next]_vars => Inv'
  BY StepKeeps
<1>3. Inv => PlacedOnce
  BY InvSuffices
<1> QED
  BY <1>1, <1>2, <1>3, PTL DEF Spec

\* Where moreover nothing is edited but what lies in a room and is empty, what things weigh
\* always adds up.
LEMMA WeightsFollow ==
  ASSUME Inv, "edit" \notin May
  PROVE  WeightsAddUp
<1>1. Weighs(At, Mass, liquid)
  BY DEF Inv, Right, Weighed, At, Mass
<1>2. \A O : Weight(things, O) = Sum(Mass.weight, O)
  BY WeightIsSum DEF Mass
<1>3. At.listed \subseteq Objs
  BY InvMeans DEF Fine, Sound, Pointers
<1> QED
  BY <1>1, <1>2, <1>3 DEF Weighs, WeightsAddUp

LEMMA TypesFollow ==
  ASSUME Inv, "edit" \notin May
  PROVE  TypeOK
<1>1. /\ Weighs(At, Mass, liquid) /\ Sound(At) /\ liquid \in [Objs -> 0..Full]
      /\ present \subseteq Chars /\ adrift \subseteq Objs
  BY InvMeans DEF Inv, Right, Weighed, Fine, Loose, Nowhere, At, Mass
<1>2. Mass.weight \in [Objs -> Nat]
  <2>1. liquid \in [Objs -> Nat]
    BY <1>1, ObjectsAssumption
  <2> QED
    BY <1>1, <2>1, NothingBelow
<1>3. ASSUME NEW c \in Chars
      PROVE  Mass.load[c] \in Nat /\ Mass.items[c] \in Nat
  <2>1. At.held[c] \subseteq At.listed
    BY <1>1, HeldIs DEF Holders
  <2>2. IsFiniteSet(At.held[c]) /\ At.held[c] \subseteq Objs
    BY <1>1, <2>1, SumsOfHeld
  <2>3. Sum(Mass.weight, At.held[c]) \in Nat
    BY <1>2, <2>2, SumIsNat
  <2>4. Cardinality(At.held[c]) \in Nat
    BY <2>2, FS_CardinalityType
  <2> QED
    BY <1>1, <2>3, <2>4 DEF Weighs
<1>4. Mass \in [weight : [Objs -> Nat], load : [Chars -> Nat], items : [Chars -> Nat]]
  <2> PICK m : m = Mass
    OBVIOUS
  <2>1. m \in Masses
    BY <1>1 DEF Weighs
  <2>2. m.load \in [Chars -> Nat] /\ m.items \in [Chars -> Nat]
    BY <1>3, <2>1 DEF Masses
  <2> QED
    BY <1>2, <2>1, <2>2 DEF Masses
<1> QED
  BY <1>1, <1>4 DEF TypeOK, Sound, Pointers

\* Where no container is asked to hold itself and nothing is edited but what lies in a room
\* and is empty, an object weighs what it is by itself, its liquid and what is in it, to any
\* depth, and whoever has things in hand bears just their weight and their number: every
\* handler that moves things, alone or with all they contain, leaves each sum right.
THEOREM ObjectsWeighWhatTheyAre ==
  ASSUME "fold" \notin May, "edit" \notin May
  PROVE  Spec => []WeightsAddUp
<1>1. Init => Inv
  BY Start
<1>2. Inv /\ [Next]_vars => Inv'
  BY StepKeeps
<1>3. Inv => WeightsAddUp
  BY WeightsFollow
<1> QED
  BY <1>1, <1>2, <1>3, PTL DEF Spec

\* In the same circumstances every variable keeps its range: no object ever weighs less than
\* nothing, however much is drunk, poured or taken out, and nobody bears less than nothing.
THEOREM ObjectsTypes ==
  ASSUME "fold" \notin May, "edit" \notin May
  PROVE  Spec => []TypeOK
<1>1. Init => Inv
  BY Start
<1>2. Inv /\ [Next]_vars => Inv'
  BY StepKeeps
<1>3. Inv => TypeOK
  BY TypesFollow
<1> QED
  BY <1>1, <1>2, <1>3, PTL DEF Spec
=============================================================================

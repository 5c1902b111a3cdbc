---------------------------- MODULE CombatProofs ----------------------------
(***************************************************************************)
(* Following, for any set of characters, finite or not: the links agree,   *)
(* nobody goes round in circles, nobody who has gone is pointed at, and    *)
(* whoever is charmed has a master.  What circle_follow walks over is the  *)
(* least set that holds its start and is closed under masters, so facts    *)
(* about it are facts about closed sets and need no induction.             *)
(*                                                                         *)
(* Combat implements Following: whatever a command, a blow, a round or an  *)
(* extraction does to who follows whom is a step of Following, or nothing. *)
(* So what is proved of Following holds in the midst of fights too.  And   *)
(* what fights are promised themselves, for any number of characters.      *)
(***************************************************************************)
EXTENDS Combat, ListFacts, FiniteSetTheorems, TLAPS

-----------------------------------------------------------------------------
(* Following *)

Masters == [Chars -> Chars \union {NoChar}]

ClosedUnder(m, S) == \A x \in S : m[x] # NoChar => m[x] \in S

Acyclic(m) == \A c \in Chars : m[c] # NoChar => c \notin Up(m, m[c])

FollowingInv ==
  /\ FollowingTypeOK
  /\ LinksAgree
  /\ NobodyGone
  /\ CharmedHasMaster
  /\ Acyclic(master)

-----------------------------------------------------------------------------
(* The walk of circle_follow *)

\* Who is above somebody is among the characters, and starts with themselves.
LEMMA UpHolds ==
  ASSUME NEW m, NEW v \in Chars
  PROVE  Up(m, v) \subseteq Chars /\ v \in Up(m, v)
BY DEF Up

\* The walk goes on from everybody it comes to.
LEMMA UpClosed ==
  ASSUME NEW m \in Masters, NEW v \in Chars
  PROVE  ClosedUnder(m, Up(m, v))
<1> SUFFICES ASSUME NEW x \in Up(m, v), m[x] # NoChar
             PROVE  m[x] \in Up(m, v)
  BY DEF ClosedUnder
<1>1. x \in Chars /\ m[x] \in Chars
  BY DEF Masters, Up
<1>2. ASSUME NEW S \in SUBSET Chars, v \in S, ClosedUnder(m, S)
      PROVE  m[x] \in S
  <2>1. x \in S
    BY <1>2 DEF Up, ClosedUnder
  <2> QED
    BY <2>1, <1>2 DEF ClosedUnder
<1> QED
  BY <1>1, <1>2 DEF Up, ClosedUnder

\* The walk stays in every set it starts in and cannot leave.
LEMMA UpLeast ==
  ASSUME NEW m, NEW S \in SUBSET Chars, NEW v \in S, ClosedUnder(m, S)
  PROVE  Up(m, v) \subseteq S
BY DEF Up, ClosedUnder

\* stop_follower only shortens walks: what was without a circle is so still.
LEMMA LeavingMakesNoCircle ==
  ASSUME NEW m \in Masters, NEW n \in Masters, Acyclic(m),
         \A c \in Chars : n[c] \in {m[c], NoChar}
  PROVE  Acyclic(n)
<1> SUFFICES ASSUME NEW c \in Chars, n[c] # NoChar
             PROVE  c \notin Up(n, n[c])
  BY DEF Acyclic
<1>1. n[c] = m[c] /\ m[c] \in Chars
  BY DEF Masters
<1>2. /\ ClosedUnder(m, Up(m, m[c]))
      /\ m[c] \in Up(m, m[c]) /\ Up(m, m[c]) \in SUBSET Chars
  BY <1>1, UpClosed, UpHolds
<1>3. ClosedUnder(n, Up(m, m[c]))
  BY <1>2 DEF ClosedUnder
<1>4. Up(n, m[c]) \subseteq Up(m, m[c])
  BY <1>2, <1>3, UpLeast
<1> QED
  BY <1>1, <1>4 DEF Acyclic

\* add_follower after circle_follow: somebody who is not above their new master is
\* above nobody who is above them.
LEMMA FollowingMakesNoCircle ==
  ASSUME NEW m \in Masters, Acyclic(m),
         NEW ch \in Chars, NEW leader \in Chars, ch \notin Up(m, leader)
  PROVE  Acyclic([m EXCEPT ![ch] = leader])
<1> DEFINE n == [m EXCEPT ![ch] = leader]
           L == Up(m, leader)
<1>1. n[ch] = leader /\ \A x \in Chars \ {ch} : n[x] = m[x]
  BY DEF Masters
<1>2. L \in SUBSET Chars /\ leader \in L /\ ClosedUnder(m, L)
  BY UpHolds, UpClosed
<1> HIDE DEF n, L
<1>3. ASSUME NEW c \in Chars, n[c] # NoChar, c \in Up(n, n[c])
      PROVE  FALSE
  <2>1. CASE c = ch
    <3>1. ClosedUnder(n, L)
      BY <1>1, <1>2 DEF ClosedUnder, L
    <3>2. Up(n, leader) \subseteq L
      BY <1>2, <3>1, UpLeast
    <3> QED
      BY <1>1, <1>3, <2>1, <3>2 DEF L
  <2>2. CASE c # ch
    <3> DEFINE p == m[c]
               P == Up(m, p)
    <3>1. p = n[c] /\ p \in Chars
      BY <1>1, <1>3, <2>2 DEF Masters
    <3>2. P \in SUBSET Chars /\ p \in P /\ ClosedUnder(m, P)
      BY <3>1, UpHolds, UpClosed
    <3>3. c \notin P
      BY <3>1, <1>3 DEF Acyclic
    <3>4. c \in Up(n, p)
      BY <3>1, <1>3
    <3> HIDE DEF p, P
    <3>5. ch \in P
      <4> SUFFICES ASSUME ch \notin P PROVE FALSE
        OBVIOUS
      <4>1. ClosedUnder(n, P)
        BY <1>1, <3>2 DEF ClosedUnder
      <4> QED
        BY <4>1, <3>2, <3>3, <3>4, UpLeast
    <3>6. c \in L
      <4>1. ClosedUnder(n, P \union L)
        BY <1>1, <1>2, <3>2 DEF ClosedUnder
      <4>2. Up(n, p) \subseteq P \union L
        BY <4>1, <3>2, <1>2, UpLeast
      <4> QED
        BY <4>2, <3>3, <3>4
    <3>7. p \in L
      BY <3>1, <3>6, <1>2, FollowingAssumption DEF ClosedUnder, p
    <3>8. P \subseteq L
      BY <3>7, <1>2, UpLeast DEF P
    <3> QED
      BY <3>5, <3>8 DEF L
  <2> QED
    BY <2>1, <2>2
<1> QED
  BY <1>3 DEF Acyclic, n

-----------------------------------------------------------------------------
(* The steps *)

\* stop_follower, for any number of followers, keeps everything but the list.
LEMMA StoppingKeepsLinks ==
  ASSUME FollowingInv, NEW leavers \in SUBSET Chars, StopFollowers(leavers)
  PROVE  /\ master' \in Masters /\ followers' \in [Chars -> SUBSET Chars]
         /\ charmed' \subseteq Chars
         /\ LinksAgree' /\ CharmedHasMaster' /\ Acyclic(master')
<1> USE FollowingAssumption DEF FollowingInv, FollowingTypeOK
<1>1. /\ master' \in Masters
      /\ \A c \in Chars : master'[c] = IF c \in leavers THEN NoChar ELSE master[c]
  BY DEF StopFollowers, Stopped, Masters
<1>2. /\ followers' \in [Chars -> SUBSET Chars]
      /\ \A m \in Chars : followers'[m] = followers[m] \ leavers
  BY DEF StopFollowers, Without
<1>3. charmed' = charmed \ leavers
  BY DEF StopFollowers
<1>4. LinksAgree'
  BY <1>1, <1>2 DEF LinksAgree
<1>5. CharmedHasMaster'
  BY <1>1, <1>3 DEF CharmedHasMaster
<1>6. Acyclic(master')
  BY <1>1, LeavingMakesNoCircle DEF Masters
<1> QED
  BY <1>1, <1>2, <1>3, <1>4, <1>5, <1>6

\* add_follower after circle_follow keeps the links and makes no circle.
LEMMA StartingKeepsLinks ==
  ASSUME FollowingInv, NEW ch \in Chars, NEW leader \in Chars,
         ch \notin Up(master, leader), StartFollowing(ch, leader)
  PROVE  /\ master' \in Masters /\ followers' \in [Chars -> SUBSET Chars]
         /\ master'[ch] = leader /\ \A x \in Chars \ {ch} : master'[x] = master[x]
         /\ LinksAgree' /\ Acyclic(master')
<1> USE FollowingAssumption DEF FollowingInv, FollowingTypeOK
<1>1. /\ master' \in Masters
      /\ master'[ch] = leader /\ \A x \in Chars \ {ch} : master'[x] = master[x]
  BY DEF StartFollowing, Masters
<1>2. /\ followers' \in [Chars -> SUBSET Chars]
      /\ followers'[leader] = (followers[leader] \ {ch}) \union {ch}
      /\ \A m \in Chars \ {leader} : followers'[m] = followers[m] \ {ch}
  BY DEF StartFollowing, Without
<1>3. LinksAgree'
  BY <1>1, <1>2 DEF LinksAgree
<1>4. Acyclic(master')
  BY FollowingMakesNoCircle DEF StartFollowing, Masters
<1> QED
  BY <1>1, <1>2, <1>3, <1>4

\* A character that is on nobody's list and follows nobody is above nobody but itself.
LEMMA NewcomerIsAboveNobody ==
  ASSUME FollowingInv, NEW mob \in Chars \ listed, NEW ch \in listed
  PROVE  mob \notin Up(master, ch)
<1>1. listed \in SUBSET Chars
  BY DEF FollowingInv, FollowingTypeOK
<1>2. ClosedUnder(master, listed)
  BY <1>1 DEF FollowingInv, NobodyGone, ClosedUnder
<1> QED
  BY <1>1, <1>2, UpLeast

\* FollowingInv is true at first.
LEMMA FollowingInitInv == FollowingInit => FollowingInv
BY FollowingAssumption DEF FollowingInit, FollowingInv, FollowingTypeOK, LinksAgree,
   NobodyGone, CharmedHasMaster, Acyclic

\* Every step keeps FollowingInv.
LEMMA FollowingNextInv == FollowingInv /\ [FollowingNext]_bonds => FollowingInv'
<1> SUFFICES ASSUME FollowingInv, [FollowingNext]_bonds
             PROVE  FollowingInv'
  OBVIOUS
<1> USE FollowingAssumption
<1>0. /\ listed \subseteq Chars /\ charmed \subseteq Chars
      /\ master \in Masters /\ followers \in [Chars -> SUBSET Chars]
  BY DEF FollowingInv, FollowingTypeOK, Masters
<1>1. ASSUME NEW c \in Chars, Enter(c)
      PROVE  FollowingInv'
  BY <1>1 DEF Enter, FollowingInv, FollowingTypeOK, LinksAgree, NobodyGone,
     CharmedHasMaster
<1>2. ASSUME NEW c \in Chars, CharmFades(c)
      PROVE  FollowingInv'
  BY <1>2 DEF CharmFades, FollowingInv, FollowingTypeOK, LinksAgree, NobodyGone,
     CharmedHasMaster
<1>3. ASSUME NEW leavers \in SUBSET Chars, StopFollowers(leavers), listed' = listed
      PROVE  FollowingInv'
  <2>1. NobodyGone'
    BY <1>0, <1>3 DEF FollowingInv, NobodyGone, StopFollowers, Stopped
  <2> QED
    BY <2>1, <1>0, <1>3, StoppingKeepsLinks DEF FollowingInv, FollowingTypeOK, Masters
<1>4. ASSUME NEW c \in Chars, Ungroup(c)
      PROVE  FollowingInv'
  <2>1. PICK leavers \in SUBSET (followers[c] \ charmed) : StopFollowers(leavers)
    BY <1>4 DEF Ungroup
  <2>2. leavers \in SUBSET Chars /\ listed' = listed
    BY <1>0, <1>4 DEF Ungroup
  <2> QED
    BY <2>1, <2>2, <1>3
<1>5. ASSUME NEW c \in Chars, Part(c)
      PROVE  FollowingInv'
  BY <1>5, <1>3 DEF Part
<1>6. ASSUME NEW c \in Chars, Extract(c)
      PROVE  FollowingInv'
  <2> DEFINE leavers == followers[c] \union {x \in {c} : master[x] # NoChar}
  <2>1. /\ leavers \in SUBSET Chars /\ StopFollowers(leavers)
        /\ listed' = listed \ {c}
    BY <1>0, <1>6 DEF Extract
  <2>2. NobodyGone'
    <3> SUFFICES ASSUME NEW x \in Chars, master'[x] # NoChar
                 PROVE  {x, master'[x]} \subseteq listed'
      BY DEF NobodyGone
    <3>1. x \notin leavers /\ master'[x] = master[x]
      BY <1>0, <2>1 DEF StopFollowers, Stopped
    <3>2. x # c /\ {x, master[x]} \subseteq listed
      BY <3>1 DEF FollowingInv, NobodyGone
    <3>3. master[x] # c
      BY <3>1 DEF FollowingInv, LinksAgree
    <3> QED
      BY <2>1, <3>1, <3>2, <3>3
  <2> HIDE DEF leavers
  <2> QED
    BY <2>1, <2>2, <1>0, StoppingKeepsLinks DEF FollowingInv, FollowingTypeOK, Masters
<1>7. ASSUME NEW c \in Chars, NEW d \in Chars, Follow(c, d)
      PROVE  FollowingInv'
  <2>1. CASE d = c
    BY <2>1, <1>3, <1>7 DEF Follow
  <2>2. CASE d # c
    <3>1. /\ {c, d} \subseteq listed /\ listed' = listed
          /\ c \notin Up(master, d) /\ StartFollowing(c, d)
          /\ charmed' \subseteq charmed
      BY <2>2, <1>7 DEF Follow, CircleFollow
    <3>2. /\ master' \in Masters /\ followers' \in [Chars -> SUBSET Chars]
          /\ master'[c] = d /\ \A x \in Chars \ {c} : master'[x] = master[x]
          /\ LinksAgree' /\ Acyclic(master')
      BY <3>1, StartingKeepsLinks
    <3>3. NobodyGone'
      BY <3>1, <3>2 DEF FollowingInv, NobodyGone
    <3>4. CharmedHasMaster'
      BY <1>0, <3>1, <3>2 DEF FollowingInv, CharmedHasMaster
    <3> QED
      BY <1>0, <3>1, <3>2, <3>3, <3>4 DEF FollowingInv, FollowingTypeOK, Masters
  <2> QED
    BY <2>1, <2>2
<1>8. ASSUME NEW c \in Chars, NEW d \in Chars, Charm(c, d) \/ Summon(d, c)
      PROVE  FollowingInv'
  <2>1. /\ c \in listed /\ listed' = listed \union {d}
        /\ StartFollowing(d, c) /\ charmed' = charmed \union {d}
    BY <1>8 DEF Charm, Summon
  <2>2. d \notin Up(master, c)
    BY <1>8, NewcomerIsAboveNobody DEF Charm, Summon, CircleFollow
  <2>3. /\ master' \in Masters /\ followers' \in [Chars -> SUBSET Chars]
        /\ master'[d] = c /\ \A x \in Chars \ {d} : master'[x] = master[x]
        /\ LinksAgree' /\ Acyclic(master')
    BY <2>1, <2>2, StartingKeepsLinks
  <2>4. NobodyGone'
    BY <2>1, <2>3 DEF FollowingInv, NobodyGone
  <2>5. CharmedHasMaster'
    BY <1>0, <2>1, <2>3 DEF FollowingInv, CharmedHasMaster
  <2> QED
    BY <1>0, <2>1, <2>3, <2>4, <2>5 DEF FollowingInv, FollowingTypeOK, Masters
<1>9. CASE UNCHANGED bonds
  BY <1>9 DEF bonds, FollowingInv, FollowingTypeOK, LinksAgree, NobodyGone,
     CharmedHasMaster
<1> QED
  BY <1>1, <1>2, <1>4, <1>5, <1>6, <1>7, <1>8, <1>9 DEF FollowingNext

-----------------------------------------------------------------------------
(* What is proved of Following *)

\* The conjunction of the invariants below is an invariant: it is inductive as it stands.
THEOREM FollowingInvariance == FollowingSpec => []FollowingInv
BY FollowingInitInv, FollowingNextInv, PTL DEF FollowingSpec

\* The variables keep their types.
THEOREM FollowingTypes == FollowingSpec => []FollowingTypeOK
<1>1. FollowingInv => FollowingTypeOK
  BY DEF FollowingInv
<1> QED
  BY <1>1, FollowingInvariance, PTL

\* The links agree, nobody goes round in circles, nobody who has gone is pointed at,
\* and whoever is charmed has a master.
THEOREM FollowingKeepsBonds == FollowingSpec => []BondsSound
<1>1. FollowingInv => BondsSound
  BY DEF FollowingInv, Acyclic, NoCircle, BondsSound
<1> QED
  BY <1>1, FollowingInvariance, PTL

-----------------------------------------------------------------------------
(* Combat implements Following *)

\* damage leaves the links alone, but for the pet one attacks and the charm of the dead.
LEMMA StrikeIsFollowing ==
  ASSUME NEW s, NEW c, NEW v \in Chars, NEW bash, Strike(s, c, v, bash)
  PROVE  [FollowingNext]_bonds
BY DEF Strike, FollowingNext

\* Every step of Combat is one of Following, or leaves the links alone.
LEMMA CombatStepIsFollowing == [Next]_vars => [FollowingNext]_bonds
<1> SUFFICES ASSUME [Next]_vars
             PROVE  [FollowingNext]_bonds
  OBVIOUS
<1>1. CASE BeginRound \/ EndRound \/ EndPulse
  BY <1>1 DEF BeginRound, EndRound, EndPulse
<1>2. CASE Turn
  <2>1. CASE UNCHANGED bonds
    BY <2>1
  <2>2. ASSUME NEW s, NEW c, NEW v \in Chars, Strike(s, c, v, FALSE)
        PROVE  [FollowingNext]_bonds
    BY <2>2, StrikeIsFollowing
  <2> QED
    BY <1>2, <2>1, <2>2 DEF Turn
<1>3. ASSUME NEW c \in Chars, Leave(c) \/ Recover(c) \/ Idle(c)
      PROVE  UNCHANGED bonds
  BY <1>3 DEF Leave, Recover, Idle
<1>4. ASSUME NEW c \in Chars, Suffer(c)
      PROVE  [FollowingNext]_bonds
  BY <1>4, StrikeIsFollowing DEF Suffer
<1>5. ASSUME NEW c \in Chars, Slay(c) \/ Arrive(c) \/ Relate(c) \/ Rebel(c) \/ ExtractFinal(c)
      PROVE  [FollowingNext]_bonds
  <2>1. UNCHANGED bonds \/ CharmFades(c) \/ Enter(c) \/ Part(c) \/ Extract(c) \/ Ungroup(c)
        \/ \E d \in Chars : Summon(c, d) \/ Follow(c, d) \/ Charm(c, d)
    BY <1>5 DEF Slay, Arrive, Relate, Rebel, ExtractFinal
  <2> QED
    BY <2>1 DEF FollowingNext
<1>6. ASSUME NEW c \in Chars, NEW v \in Chars, Attack(c, v)
      PROVE  [FollowingNext]_bonds
  BY <1>6, StrikeIsFollowing DEF Attack
<1>7. ASSUME NEW c \in Chars, NEW v \in Chars, NEW foe \in Chars, Rescue(c, v, foe)
      PROVE  UNCHANGED bonds
  BY <1>7 DEF Rescue
<1>8. CASE UNCHANGED vars
  BY <1>8 DEF vars
<1> QED
  BY <1>1, <1>2, <1>3, <1>4, <1>5, <1>6, <1>7, <1>8 DEF Next

\* Combat implements Following.
THEOREM CombatImplementsFollowing == Spec => FollowingSpec
<1>1. Init => FollowingInit
  BY DEF Init
<1> QED
  BY <1>1, CombatStepIsFollowing, PTL DEF Spec, FollowingSpec

\* In fights too the links agree, nobody follows themselves by way of others, nobody
\* points at a character that has been freed, and the charmed have masters.
THEOREM CombatKeepsBonds == Spec => []BondsSound
BY CombatImplementsFollowing, FollowingKeepsBonds, PTL

-----------------------------------------------------------------------------
(* The inductive invariant *)

Somebody == Chars \union {NoChar}

Fights ==
  [on : [Chars -> Somebody], list : Seq(Chars), next : Somebody, turn : Somebody,
   due : SUBSET Chars, dumped : BOOLEAN,
   pos : [Chars -> {"dead", "down", "up"}],
   hit : [Chars -> {"dead", "down", "well"}]]

\* The positions somebody of that health can be in: a bash gets up who is down.
Postures(health) ==
  IF health = "well" THEN {"up"} ELSE IF health = "down" THEN {"down", "up"} ELSE {"dead"}

\* Fights, as stop_fighting and set_fighting keep them, whoever is hurt.
Sound(s) ==
  /\ s \in Fights
  /\ \A c \in Chars : s.pos[c] \in Postures(s.hit[c])
  /\ ToSet(s.list) = {c \in Chars : s.on[c] # NoChar}
  /\ IsInjective(s.list)
  /\ IF s.next = NoChar THEN s.due = {}
     ELSE s.next \in ToSet(s.list) /\ s.due = From(s.list, s.next)
  /\ ~s.dumped

\* Who fights is alive, and on the list of characters, and so is whom they fight.
Fit(s, c, present) ==
  s.on[c] # NoChar => s.hit[c] # "dead" /\ {c, s.on[c]} \subseteq present

FightInv(s) ==
  /\ Sound(s)
  /\ \A c \in Chars : Fit(s, c, listed)
  /\ \A c \in Chars : s.hit[c] = "dead" => c \in pending

Rooms == room \in [Chars -> 0..2] /\ \A c \in Chars : c \in listed <=> room[c] # 0

Marked ==
  /\ pending \subseteq listed /\ IsFiniteSet(pending)
  /\ marks \in 0..MaxMarks /\ Cardinality(pending) <= marks

CombatInv ==
  /\ FightInv(fight) /\ Rooms /\ Marked
  /\ phase \in {"commands", "round", "extract"}
  /\ phase # "round" => fight.next = NoChar

-----------------------------------------------------------------------------
(* Functions of fight.c *)

\* update_pos changes no more than the position.
LEMMA UpdatePosIs ==
  ASSUME NEW s \in Fights, NEW c \in Chars
  PROVE  LET t == UpdatePos(s, c)
         IN /\ t \in Fights
            /\ t.on = s.on /\ t.list = s.list /\ t.next = s.next /\ t.turn = s.turn
            /\ t.due = s.due /\ t.dumped = s.dumped /\ t.hit = s.hit
            /\ \A x \in Chars \ {c} : t.pos[x] = s.pos[x]
            /\ t.pos[c] \in Postures(s.hit[c])
<1> DEFINE new == IF s.hit[c] = "well" THEN "up" ELSE s.hit[c]
<1>1. s.hit[c] \in {"dead", "down", "well"}
  BY DEF Fights
<1>2. new \in Postures(s.hit[c]) /\ new \in {"dead", "down", "up"}
  BY <1>1 DEF Postures
<1>3. UpdatePos(s, c) = [s EXCEPT !.pos = [@ EXCEPT ![c] = new]]
  BY DEF UpdatePos
<1> HIDE DEF new
<1> QED
  BY <1>2, <1>3 DEF Fights

LEMMA SuccessorIs ==
  ASSUME NEW s \in Seq(Chars), IsInjective(s), NEW i \in 1..Len(s)
  PROVE  Successor(s, s[i]) = IF i = Len(s) THEN NoChar ELSE s[i + 1]
<1>1. Len(s) \in Nat /\ DOMAIN s = 1..Len(s)
  OBVIOUS
<1>2. \A j \in 1..Len(s) - 1 : s[j] = s[i] => j = i
  BY <1>1 DEF IsInjective
<1>3. i \in Nat /\ 1 <= i /\ i <= Len(s) /\ Len(s) \in Nat
  BY <1>1
<1>4. CASE i = Len(s)
  <2>1. i \notin 1..Len(s) - 1
    BY <1>3, <1>4
  <2>2. ~ \E j \in 1..Len(s) - 1 : s[j] = s[i]
    BY <1>2, <2>1
  <2> QED
    BY <1>4, <2>2 DEF Successor
<1>5. CASE i # Len(s)
  <2>1. i \in 1..Len(s) - 1
    BY <1>3, <1>5
  <2>2. (CHOOSE j \in 1..Len(s) - 1 : s[j] = s[i]) = i
    BY <1>2, <2>1
  <2>3. 1 + i = i + 1
    BY <2>1
  <2> QED
    BY <1>5, <2>1, <2>2, <2>3 DEF Successor
<1> QED
  BY <1>4, <1>5

\* Who is after x on the list: what is left from there is what was left without x.
LEMMA SuccessorLeft ==
  ASSUME NEW s \in Seq(Chars), IsInjective(s), NEW x \in ToSet(s)
  PROVE  LET y == Successor(s, x)
         IN IF y = NoChar THEN From(s, x) = {x}
            ELSE y \in ToSet(s) \ {x} /\ From(s, y) = From(s, x) \ {x}
<1>0. Len(s) \in Nat /\ DOMAIN s = 1..Len(s) /\ \A j \in 1..Len(s) : s[j] \in Chars
  OBVIOUS
<1>1. PICK i \in 1..Len(s) : s[i] = x
  BY <1>0 DEF ToSet
<1>2. CASE i = Len(s)
  BY <1>1, <1>2, SuccessorIs, FromPosition
<1>3. CASE i # Len(s)
  <2>1. i + 1 \in 1..Len(s) /\ i # i + 1
    <3>1. i \in Nat /\ 1 <= i /\ i <= Len(s) /\ Len(s) \in Nat
      BY <1>0
    <3> QED
      BY <1>3, <3>1
  <2>2. Successor(s, x) = s[i + 1]
    BY <1>1, <1>3, SuccessorIs
  <2>3. s[i + 1] \in ToSet(s) /\ s[i + 1] # x /\ s[i + 1] # NoChar
    BY <1>0, <1>1, <2>1, FollowingAssumption DEF ToSet, IsInjective
  <2>4. From(s, s[i + 1]) = From(s, x) \ {x}
    BY <1>1, <1>3, FromPosition
  <2> QED
    BY <2>2, <2>3, <2>4
<1> QED
  BY <1>2, <1>3

\* stop_fighting takes somebody off the list, and out of what is left of the round.
LEMMA StopFightingSound ==
  ASSUME NEW s, Sound(s), NEW c \in Chars
  PROVE  LET t == StopFighting(s, c)
         IN /\ Sound(t)
            /\ t.on = [s.on EXCEPT ![c] = NoChar] /\ t.hit = s.hit
            /\ s.next = NoChar => t.next = NoChar
<1> USE FollowingAssumption
<1> DEFINE next == IF s.next = c THEN Successor(s.list, c) ELSE s.next
           list == RemoveFirst(s.list, c)
           u == [s EXCEPT !.next = next, !.list = list, !.on[c] = NoChar, !.pos[c] = "up",
                          !.due = @ \ {c}]
           t == StopFighting(s, c)
<1>0. s \in Fights /\ s.list \in Seq(Chars) /\ IsInjective(s.list)
  BY DEF Sound, Fights
<1>1. /\ list \in Seq(Chars) /\ ToSet(list) = ToSet(s.list) \ {c} /\ IsInjective(list)
      /\ \A x \in ToSet(s.list) \ {c} : From(list, x) = From(s.list, x) \ {c}
  BY <1>0, RemovingOne
<1>2. IF next = NoChar THEN s.due \ {c} = {}
      ELSE next \in ToSet(list) /\ s.due \ {c} = From(list, next)
  <2>1. CASE s.next = NoChar
    BY <2>1 DEF Sound
  <2>2. CASE s.next # NoChar /\ s.next # c
    BY <1>1, <2>2 DEF Sound
  <2>3. CASE s.next # NoChar /\ s.next = c
    <3>1. c \in ToSet(s.list) /\ s.due = From(s.list, c)
      BY <2>3 DEF Sound
    <3>2. IF next = NoChar THEN From(s.list, c) = {c}
          ELSE next \in ToSet(s.list) \ {c} /\ From(s.list, next) = From(s.list, c) \ {c}
      BY <1>0, <2>3, <3>1, SuccessorLeft
    <3> HIDE DEF next, list
    <3> QED
      BY <1>1, <3>1, <3>2
  <2> QED
    BY <2>1, <2>2, <2>3
<1>3. next \in Somebody /\ (s.next = NoChar => next = NoChar)
  <2>1. ToSet(list) \subseteq Chars
    BY <1>1 DEF ToSet
  <2> HIDE DEF list
  <2> QED
    BY <1>2, <2>1 DEF Somebody
<1>4. t = UpdatePos(u, c)
  BY DEF StopFighting
<1> HIDE DEF next, list
<1>5. /\ u \in Fights
      /\ u.on = [s.on EXCEPT ![c] = NoChar] /\ u.list = list /\ u.next = next
      /\ u.due = s.due \ {c} /\ u.dumped = s.dumped /\ u.hit = s.hit
      /\ \A x \in Chars \ {c} : u.pos[x] = s.pos[x]
  BY <1>0, <1>1, <1>3 DEF Fights, Somebody
<1> HIDE DEF u, t
<1>6. /\ t \in Fights
      /\ t.on = [s.on EXCEPT ![c] = NoChar] /\ t.list = list /\ t.next = next
      /\ t.due = s.due \ {c} /\ t.dumped = s.dumped /\ t.hit = s.hit
      /\ \A x \in Chars \ {c} : t.pos[x] = s.pos[x]
      /\ t.pos[c] \in Postures(s.hit[c])
  BY <1>4, <1>5, UpdatePosIs
<1>7. \A x \in Chars : t.pos[x] \in Postures(t.hit[x])
  BY <1>6 DEF Sound
<1>8. ToSet(t.list) = {x \in Chars : t.on[x] # NoChar}
  <2>1. \A x \in Chars : t.on[x] = IF x = c THEN NoChar ELSE s.on[x]
    BY <1>0, <1>6 DEF Fights
  <2>2. ToSet(s.list) = {x \in Chars : s.on[x] # NoChar}
    BY DEF Sound
  <2> QED
    BY <1>1, <1>6, <2>1, <2>2
<1>9. IF t.next = NoChar THEN t.due = {}
      ELSE t.next \in ToSet(t.list) /\ t.due = From(t.list, t.next)
  BY <1>2, <1>6
<1>10. Sound(t)
  BY <1>1, <1>6, <1>7, <1>8, <1>9 DEF Sound
<1> QED
  BY <1>3, <1>6, <1>10 DEF t

\* set_fighting, for somebody who is able to and does not fight yet.
LEMMA SetFightingSound ==
  ASSUME NEW s, Sound(s), NEW c \in Chars, NEW v \in Chars,
         s.on[c] = NoChar, s.hit[c] # "dead"
  PROVE  LET t == SetFighting(s, c, v)
         IN /\ Sound(t)
            /\ t.on = IF c = v THEN s.on ELSE [s.on EXCEPT ![c] = v]
            /\ t.hit = s.hit /\ t.next = s.next
<1> USE FollowingAssumption
<1> DEFINE t == SetFighting(s, c, v)
           list == <<c>> \o s.list
<1>0. /\ s \in Fights /\ s.list \in Seq(Chars) /\ IsInjective(s.list)
      /\ c \notin ToSet(s.list)
  BY DEF Sound, Fights
<1>1. CASE c = v
  BY <1>1 DEF SetFighting
<1>2. CASE c # v
  <2>1. /\ list \in Seq(Chars) /\ ToSet(list) = ToSet(s.list) \union {c} /\ IsInjective(list)
        /\ \A x \in ToSet(s.list) : From(list, x) = From(s.list, x)
    BY <1>0, PuttingFirst
  <2>2. t = [s EXCEPT !.list = list, !.on[c] = v, !.pos[c] = "up"]
    BY <1>2 DEF SetFighting
  <2> HIDE DEF list, t
  <2>3. /\ t \in Fights
        /\ t.on = [s.on EXCEPT ![c] = v] /\ t.list = list /\ t.next = s.next
        /\ t.due = s.due /\ t.dumped = s.dumped /\ t.hit = s.hit
        /\ \A x \in Chars \ {c} : t.pos[x] = s.pos[x]
        /\ t.pos[c] = "up"
    BY <1>0, <2>1, <2>2 DEF Fights, Somebody
  <2>4. \A x \in Chars : t.pos[x] \in Postures(t.hit[x])
    <3>1. s.hit[c] \in {"down", "well"}
      BY <1>0 DEF Fights
    <3> QED
      BY <2>3, <3>1 DEF Sound, Postures
  <2>5. ToSet(t.list) = {x \in Chars : t.on[x] # NoChar}
    <3>1. \A x \in Chars : t.on[x] = IF x = c THEN v ELSE s.on[x]
      BY <1>0, <2>3, ZenonT(30) DEF Fights
    <3>2. ToSet(s.list) = {x \in Chars : s.on[x] # NoChar}
      BY DEF Sound
    <3> QED
      BY <2>1, <2>3, <3>1, <3>2
  <2>6. IF t.next = NoChar THEN t.due = {}
        ELSE t.next \in ToSet(t.list) /\ t.due = From(t.list, t.next)
    BY <2>1, <2>3 DEF Sound
  <2>7. Sound(t)
    BY <2>1, <2>3, <2>4, <2>5, <2>6 DEF Sound
  <2> QED
    BY <1>2, <2>3, <2>7 DEF t
<1> QED
  BY <1>1, <1>2

\* t is s, with c's fight over if it had one, or as it was.
Stops(s, c, t) ==
  /\ Sound(t) /\ t.hit = s.hit
  /\ s.next = NoChar => t.next = NoChar
  /\ \A x \in Chars \ {c} : t.on[x] = s.on[x]
  /\ t.on[c] \in {s.on[c], NoChar}

\* stop_fighting, asked for or not, leaves everybody else's fights as they were.
LEMMA StoppingSound ==
  ASSUME NEW s, Sound(s), NEW c \in Chars
  PROVE  /\ Stops(s, c, s)
         /\ Stops(s, c, StopFighting(s, c))
         /\ StopFighting(s, c).on[c] = NoChar
         /\ Stops(s, c, StopIfFighting(s, c))
         /\ StopIfFighting(s, c).on[c] = NoChar
<1> DEFINE t == StopFighting(s, c)
<1>1. s.on \in [Chars -> Somebody]
  BY DEF Sound, Fights
<1>2. Stops(s, c, s)
  BY DEF Stops
<1>3. /\ Sound(t) /\ t.on = [s.on EXCEPT ![c] = NoChar] /\ t.hit = s.hit
      /\ s.next = NoChar => t.next = NoChar
  BY StopFightingSound
<1> HIDE DEF t
<1>4. Stops(s, c, t) /\ t.on[c] = NoChar
  BY <1>1, <1>3 DEF Stops
<1> QED
  BY <1>2, <1>4 DEF StopIfFighting, t

\* extract_char_final leaves nobody fighting who is extracted, and the others alone.
LEMMA StopFoesSound ==
  ASSUME NEW s, Sound(s), NEW c \in Chars
  PROVE  LET t == StopFoes(s, c)
         IN /\ Sound(t) /\ t.hit = s.hit
            /\ s.next = NoChar => t.next = NoChar
            /\ \A x \in Chars : t.on[x] = IF s.on[x] = c THEN NoChar ELSE s.on[x]
<1> DEFINE N == Len(s.list)
           Step(f, i) == IF i = 0 THEN s
                         ELSE IF f[i - 1].on[s.list[i]] = c
                         THEN StopFighting(f[i - 1], s.list[i]) ELSE f[i - 1]
           Walk(f, n) == f = [i \in 0..n |-> Step(f, i)]
           T == {n \in 0..N : \E f : Walk(f, n)}
           After[i \in 0..N] == Step(After, i)
<1>0. /\ N \in Nat /\ \A i \in 1..N : s.list[i] \in Chars
      /\ s.on \in [Chars -> Somebody]
      /\ \A x \in Chars : s.on[x] # NoChar => \E i \in 1..N : s.list[i] = x
      /\ \A i, j \in 1..N : s.list[i] = s.list[j] => i = j
  <2>1. /\ s.list \in Seq(Chars) /\ s.on \in [Chars -> Somebody] /\ IsInjective(s.list)
        /\ ToSet(s.list) = {x \in Chars : s.on[x] # NoChar}
    BY DEF Sound, Fights
  <2>2. DOMAIN s.list = 1..N
    BY <2>1
  <2> QED
    BY <2>1, <2>2 DEF ToSet, IsInjective
<1> HIDE DEF N
<1>1. 0 \in T
  <2> DEFINE f == [i \in 0..0 |-> s]
  <2>1. \A i \in 0..0 : f[i] = Step(f, i)
    OBVIOUS
  <2>2. f = [i \in 0..0 |-> Step(f, i)]
    BY <2>1
  <2> HIDE DEF f
  <2> QED
    BY <1>0, <2>2
<1>2. ASSUME NEW n \in 0..N, n # 0, n - 1 \in T PROVE n \in T
  <2>1. PICK f : Walk(f, n - 1)
    BY <1>2
  <2>2. \A i \in 0..n - 1 : f[i] = Step(f, i)
    BY <2>1
  <2> DEFINE g == [i \in 0..n |-> IF i = n THEN Step(f, n) ELSE f[i]]
  <2>3. \A i \in 0..n : i # 0 => i - 1 \in 0..n - 1 /\ g[i - 1] = f[i - 1]
    BY <1>0, <1>2
  <2>4. ASSUME NEW i \in 0..n PROVE g[i] = Step(g, i)
    <3>1. Step(g, i) = Step(f, i)
      <4>1. CASE i = 0
        BY <4>1
      <4>2. CASE i # 0
        <5>1. g[i - 1] = f[i - 1]
          BY <2>3, <4>2
        <5> HIDE DEF g
        <5> QED
          BY <4>2, <5>1
      <4> QED
        BY <4>1, <4>2
    <3>2. CASE i = n
      <4> HIDE DEF Step
      <4>1. g[i] = Step(f, i)
        BY <3>2
      <4> HIDE DEF g
      <4> QED
        BY <3>1, <4>1
    <3>3. CASE i # n
      <4>1. i \in 0..n - 1
        BY <1>0, <1>2, <3>3
      <4> QED
        BY <2>2, <3>1, <3>3, <4>1
    <3> QED
      BY <3>2, <3>3
  <2>5. Walk(g, n)
    BY <2>4
  <2> HIDE DEF g, Walk
  <2> QED
    BY <2>5
<1>3. N \in T
  <2> HIDE DEF T
  <2>1. 0..N \subseteq T
    BY <1>0, <1>1, <1>2, UpTo
  <2> QED
    BY <1>0, <2>1
<1>4. PICK f : Walk(f, N)
  BY <1>3
<1>5. After = [i \in 0..N |-> Step(After, i)]
  BY <1>4
<1>6. StopFoes(s, c) = After[N]
  BY DEF StopFoes, N
<1> HIDE DEF After
<1>7. \A i \in 0..N : After[i] = Step(After, i)
  BY <1>5
<1> DEFINE Reached(i) == {s.list[j] : j \in 1..i}
           Good(i) ==
             /\ Sound(After[i]) /\ After[i].hit = s.hit
             /\ s.next = NoChar => After[i].next = NoChar
             /\ \A x \in Chars : After[i].on[x] =
                  IF s.on[x] = c /\ x \in Reached(i) THEN NoChar ELSE s.on[x]
           U == {i \in 0..N : Good(i)}
<1>8. 0 \in U
  <2>1. After[0] = s /\ Reached(0) = {}
    BY <1>0, <1>7
  <2> HIDE DEF Reached
  <2> QED
    BY <1>0, <2>1
<1>9. ASSUME NEW i \in 0..N, i # 0, i - 1 \in U PROVE i \in U
  <2> DEFINE r == After[i - 1]
             k == s.list[i]
  <2>1. Good(i - 1) /\ k \in Chars
    BY <1>0, <1>9
  <2>2. After[i] = IF r.on[k] = c THEN StopFighting(r, k) ELSE r
    BY <1>7, <1>9
  <2>3. Reached(i) = Reached(i - 1) \union {k} /\ k \notin Reached(i - 1)
    <3>1. /\ \A j : j \in 1..i <=> j \in 1..i - 1 \/ j = i
          /\ i \in 1..N /\ \A j \in 1..i - 1 : j \in 1..N /\ j # i
      BY <1>0, <1>9
    <3> QED
      BY <1>0, <3>1
  <2>4. r.on[k] = s.on[k]
    BY <2>1, <2>3
  <2> HIDE DEF r, k, Reached
  <2>5. CASE s.on[k] = c
    <3>1. Stops(r, k, After[i]) /\ After[i].on[k] = NoChar
      BY <2>1, <2>2, <2>4, <2>5, StoppingSound DEF r
    <3> QED
      BY <2>1, <2>3, <2>5, <3>1 DEF Stops, r
  <2>6. CASE s.on[k] # c
    <3>1. After[i] = After[i - 1]
      BY <2>2, <2>4, <2>6 DEF r
    <3> QED
      BY <2>1, <2>3, <2>6, <3>1
  <2> QED
    BY <2>5, <2>6
<1>10. N \in U
  <2> HIDE DEF U
  <2>1. 0..N \subseteq U
    BY <1>0, <1>8, <1>9, UpTo
  <2> QED
    BY <1>0, <2>1
<1>11. \A x \in Chars : s.on[x] = c => x \in Reached(N)
  <2>1. c # NoChar
    BY FollowingAssumption
  <2> QED
    BY <1>0, <2>1
<1> HIDE DEF Reached
<1> QED
  BY <1>6, <1>10, <1>11

LEMMA AwakeIsAlive ==
  ASSUME NEW s, Sound(s), NEW c \in Chars, Awake(s, c)
  PROVE  s.hit[c] # "dead"
<1>1. s.pos[c] \in Postures(s.hit[c])
  BY DEF Sound
<1> QED
  BY <1>1 DEF Postures, Awake

LEMMA DeadIsDead ==
  ASSUME NEW s, Sound(s), NEW c \in Chars
  PROVE  s.pos[c] = "dead" <=> s.hit[c] = "dead"
<1>1. s.pos[c] \in Postures(s.hit[c]) /\ s.hit[c] \in {"dead", "down", "well"}
  BY DEF Sound, Fights
<1> QED
  BY <1>1 DEF Postures

\* The tests of damage before set_fighting: no blow gets somebody listed twice.
LEMMA EngageSound ==
  ASSUME NEW s, Sound(s), NEW present, NEW c \in present, NEW v \in present,
         present \subseteq Chars, \A x \in Chars : Fit(s, x, present)
  PROVE  LET t == Engage(s, c, v)
         IN /\ Sound(t) /\ t.hit = s.hit /\ t.next = s.next
            /\ \A x \in Chars : Fit(t, x, present)
<1> DEFINE r == IF Awake(s, c) /\ s.on[c] = NoChar THEN SetFighting(s, c, v) ELSE s
           t == IF c # v /\ Awake(r, v) /\ r.on[v] = NoChar THEN SetFighting(r, v, c) ELSE r
<1>1. Sound(r) /\ r.hit = s.hit /\ r.next = s.next /\ \A x \in Chars : Fit(r, x, present)
  <2>1. CASE Awake(s, c) /\ s.on[c] = NoChar
    <3>1. s.hit[c] # "dead" /\ s.on \in [Chars -> Somebody]
      BY <2>1, AwakeIsAlive DEF Sound, Fights
    <3>2. /\ Sound(r)
          /\ r.on = IF c = v THEN s.on ELSE [s.on EXCEPT ![c] = v]
          /\ r.hit = s.hit /\ r.next = s.next
      BY <2>1, <3>1, SetFightingSound
    <3>3. ASSUME NEW x \in Chars PROVE Fit(r, x, present)
      <4>1. r.on[x] \in {s.on[x], v} /\ (r.on[x] # s.on[x] => x = c)
        BY <3>1, <3>2
      <4> QED
        BY <3>1, <3>2, <4>1 DEF Fit
    <3> QED
      BY <3>2, <3>3
  <2>2. CASE ~(Awake(s, c) /\ s.on[c] = NoChar)
    BY <2>2
  <2> QED
    BY <2>1, <2>2
<1>2. t = Engage(s, c, v)
  BY DEF Engage
<1> HIDE DEF r
<1>3. CASE c # v /\ Awake(r, v) /\ r.on[v] = NoChar
  <2>1. r.hit[v] # "dead" /\ r.on \in [Chars -> Somebody]
    BY <1>1, <1>3, AwakeIsAlive DEF Sound, Fights
  <2>2. Sound(t) /\ t.on = [r.on EXCEPT ![v] = c] /\ t.hit = r.hit /\ t.next = r.next
    BY <1>1, <1>3, <2>1, SetFightingSound
  <2>3. ASSUME NEW x \in Chars PROVE Fit(t, x, present)
    <3>1. t.on[x] \in {r.on[x], c} /\ (t.on[x] # r.on[x] => x = v)
      BY <2>1, <2>2
    <3> QED
      BY <1>1, <2>1, <2>2, <3>1 DEF Fit
  <2> QED
    BY <1>1, <1>2, <2>2, <2>3
<1>4. CASE ~(c # v /\ Awake(r, v) /\ r.on[v] = NoChar)
  BY <1>1, <1>2, <1>4
<1> QED
  BY <1>3, <1>4

-----------------------------------------------------------------------------
(* Blows *)

\* Who is not dead can be got up, whatever their hit points.
LEMMA GetUpSound ==
  ASSUME NEW s, Sound(s), NEW c \in Chars, s.hit[c] # "dead"
  PROVE  LET t == GetUp(s, c)
         IN Sound(t) /\ t.hit = s.hit /\ t.on = s.on /\ t.next = s.next
<1> DEFINE t == GetUp(s, c)
<1>1. s \in Fights /\ s.hit[c] \in {"down", "well"}
  BY DEF Sound, Fights
<1>2. t = [s EXCEPT !.pos[c] = "up"]
  BY DEF GetUp
<1> HIDE DEF t
<1>3. /\ t \in Fights
      /\ t.on = s.on /\ t.list = s.list /\ t.next = s.next /\ t.due = s.due
      /\ t.dumped = s.dumped /\ t.hit = s.hit
      /\ t.pos[c] = "up" /\ \A x \in Chars \ {c} : t.pos[x] = s.pos[x]
  BY <1>1, <1>2 DEF Fights
<1>4. \A x \in Chars : t.pos[x] \in Postures(t.hit[x])
  BY <1>1, <1>3 DEF Sound, Postures
<1>5. Sound(t)
  BY <1>3, <1>4 DEF Sound
<1> QED
  BY <1>3, <1>5 DEF t

LEMMA ExtractCharMarks ==
  ASSUME Marked, NEW v \in listed, ExtractChar(v), listed' = listed
  PROVE  Marked'
<1>1. /\ IsFiniteSet(pending \union {v})
      /\ Cardinality(pending \union {v}) =
           IF v \in pending THEN Cardinality(pending) ELSE Cardinality(pending) + 1
      /\ Cardinality(pending) \in Nat
  BY FS_AddElement, FS_CardinalityType DEF Marked
<1>2. /\ pending' = pending \union {v} /\ marks' = marks + 1 /\ marks < MaxMarks
      /\ marks \in Nat /\ Cardinality(pending) <= marks
  BY DEF ExtractChar, Marked
<1> QED
  BY <1>1, <1>2, CombatAssumption DEF Marked

\* What damage leaves of a fight, in whatever state of the round it falls.
LEMMA StruckSound ==
  ASSUME NEW s, FightInv(s), Rooms, Marked, listed \subseteq Chars,
         NEW c \in listed, NEW v \in listed, NEW blow \in Blows(s, c, v),
         NEW bash, Struck(s, c, v, blow, bash), listed' = listed
  PROVE  /\ FightInv(fight)' /\ Rooms' /\ Marked'
         /\ s.next = NoChar => fight'.next = NoChar
<1> DEFINE e == Engage(s, c, v)
           u == [e EXCEPT !.hit[v] = IF blow \in {"none", "flee"} THEN @ ELSE blow]
           t == UpdatePos(u, v)
<1>0. c \in Chars /\ v \in Chars /\ Sound(s) /\ s.hit \in [Chars -> {"dead", "down", "well"}]
  BY DEF FightInv, Sound, Fights
<1>1. CASE s.pos[v] = "dead"
  <2>1. fight' = s /\ UNCHANGED <<room, pending, marks>>
    BY <1>1 DEF Struck
  <2> QED
    BY <2>1 DEF FightInv, Rooms, Marked
<1>2. CASE s.pos[v] # "dead"
  <2>1. Sound(e) /\ e.hit = s.hit /\ e.next = s.next /\ \A x \in Chars : Fit(e, x, listed)
    <3>1. \A x \in Chars : Fit(s, x, listed)
      BY DEF FightInv
    <3> QED
      BY <1>0, <3>1, EngageSound
  <2> DEFINE health == IF blow \in {"none", "flee"} THEN s.hit[v] ELSE blow
  <2>2. health \in {"dead", "down", "well"}
    BY <1>0 DEF Blows
  <2>3. s.hit[v] # "dead"
    BY <1>0, <1>2, DeadIsDead
  <2> HIDE DEF e
  <2>4. /\ u \in Fights
        /\ u.on = e.on /\ u.list = e.list /\ u.next = e.next
        /\ u.due = e.due /\ u.dumped = e.dumped /\ u.pos = e.pos
        /\ u.hit = [s.hit EXCEPT ![v] = health]
    <3>1. u = [e EXCEPT !.hit[v] = health] /\ e \in Fights
      BY <2>1 DEF Sound
    <3> HIDE DEF u, health
    <3> QED
      BY <2>1, <2>2, <3>1 DEF Fights
  <2> HIDE DEF u
  <2>5. /\ t \in Fights
        /\ t.on = e.on /\ t.list = e.list /\ t.next = s.next
        /\ t.due = e.due /\ t.dumped = e.dumped
        /\ \A x \in Chars \ {v} : t.pos[x] = e.pos[x] /\ t.hit[x] = s.hit[x]
        /\ t.pos[v] \in Postures(health) /\ t.hit[v] = health
    <3>1. /\ t \in Fights
          /\ t.on = u.on /\ t.list = u.list /\ t.next = u.next /\ t.turn = u.turn
          /\ t.due = u.due /\ t.dumped = u.dumped /\ t.hit = u.hit
          /\ \A x \in Chars \ {v} : t.pos[x] = u.pos[x]
          /\ t.pos[v] \in Postures(u.hit[v])
      BY <1>0, <2>4, UpdatePosIs
    <3>2. /\ \A x \in Chars \ {v} : u.hit[x] = s.hit[x]
          /\ u.hit[v] = health
      BY <1>0, <2>4
    <3> HIDE DEF t, health
    <3> QED
      BY <2>1, <2>4, <3>1, <3>2
  <2> HIDE DEF t
  <2>6. Sound(t)
    <3>1. \A x \in Chars : t.pos[x] \in Postures(t.hit[x])
      BY <2>1, <2>5 DEF Sound
    <3> QED
      BY <2>1, <2>5, <3>1 DEF Sound
  <2>7. \A x \in Chars \ {v} : Fit(t, x, listed)
    BY <2>1, <2>5 DEF Fit
  <2>8. \A x \in Chars \ {v} : t.hit[x] = "dead" => x \in pending
    BY <2>5 DEF FightInv
  <2> DEFINE flees == blow = "flee" /\ Awake(t, v)
             dies == t.pos[v] = "dead"
             after == IF flees \/ ~Awake(t, v) THEN StopIfFighting(t, v) ELSE t
  <2>9. /\ fight' = IF bash /\ ~flees /\ ~dies THEN GetUp(after, v) ELSE after
        /\ room' = IF flees THEN [room EXCEPT ![v] = 3 - @] ELSE room
        /\ IF dies THEN ExtractChar(v) ELSE UNCHANGED <<pending, marks>>
    BY <1>2 DEF Struck, t, u, e
  <2>10. dies <=> t.hit[v] = "dead"
    BY <1>0, <2>6, DeadIsDead
  <2>11. /\ Sound(fight') /\ fight'.hit = t.hit
         /\ s.next = NoChar => fight'.next = NoChar
         /\ \A x \in Chars : fight'.on[x] \in {t.on[x], NoChar}
         /\ ~Awake(t, v) => fight'.on[v] = NoChar
    <3>1. Stops(t, v, after) /\ (~Awake(t, v) => after.on[v] = NoChar)
      BY <1>0, <2>6, StoppingSound
    <3> HIDE DEF after, flees
    <3>2. CASE bash /\ ~flees /\ ~dies
      <4>1. after.hit[v] # "dead" /\ Sound(after)
        BY <2>10, <3>1, <3>2 DEF Stops
      <4>2. Sound(fight') /\ fight'.hit = after.hit /\ fight'.on = after.on
            /\ fight'.next = after.next
        BY <1>0, <2>9, <3>2, <4>1, GetUpSound
      <4> QED
        BY <1>0, <2>5, <3>1, <4>2 DEF Stops
    <3>3. CASE ~(bash /\ ~flees /\ ~dies)
      <4>1. fight' = after
        BY <2>9, <3>3
      <4> QED
        BY <1>0, <2>5, <3>1, <4>1 DEF Stops
    <3> QED
      BY <3>2, <3>3
  <2>12. \A x \in Chars : Fit(fight', x, listed)
    <3>1. \A x \in Chars \ {v} : Fit(fight', x, listed)
      BY <2>7, <2>11 DEF Fit
    <3>2. CASE Awake(t, v)
      <4>1. t.hit[v] # "dead"
        BY <1>0, <2>6, <3>2, AwakeIsAlive
      <4>2. {v, t.on[v]} \subseteq listed \/ t.on[v] = NoChar
        BY <1>0, <2>1, <2>5 DEF Fit
      <4> QED
        BY <1>0, <2>11, <3>1, <4>1, <4>2 DEF Fit
    <3>3. CASE ~Awake(t, v)
      <4>1. fight'.on[v] = NoChar
        BY <2>11, <3>3
      <4> QED
        BY <3>1, <4>1 DEF Fit
    <3> QED
      BY <3>2, <3>3
  <2> HIDE DEF after
  <2>13. Marked' /\ pending \subseteq pending' /\ (dies => v \in pending')
    <3>1. CASE dies
      BY <2>9, <3>1, ExtractCharMarks DEF ExtractChar
    <3>2. CASE ~dies
      BY <2>9, <3>2 DEF Marked
    <3> QED
      BY <3>1, <3>2
  <2>14. FightInv(fight)'
    <3>1. \A x \in Chars : fight'.hit[x] = "dead" => x \in pending'
      BY <2>8, <2>10, <2>11, <2>13
    <3>2. (\A x \in Chars : Fit(fight, x, listed))'
      BY <2>12
    <3> QED
      BY <2>11, <3>1, <3>2 DEF FightInv
  <2>15. Rooms'
    <3>1. room[v] \in 1..2 /\ room \in [Chars -> 0..2]
      BY <1>0 DEF Rooms
    <3>2. 3 - room[v] \in 1..2
      BY <3>1
    <3> HIDE DEF flees, after
    <3> QED
      BY <1>0, <2>9, <3>1, <3>2 DEF Rooms
  <2> QED
    BY <2>11, <2>13, <2>14, <2>15
<1> QED
  BY <1>1, <1>2

-----------------------------------------------------------------------------
(* The actions *)

\* Who acts is there, and alive.
LEMMA ActorIsFit ==
  ASSUME FightInv(fight), NEW c \in Chars, Acts(c)
  PROVE  c \in listed /\ fight.hit[c] # "dead"
BY AwakeIsAlive DEF Acts, FightInv

\* All that a blow does.
LEMMA StrikeSound ==
  ASSUME NEW s, FightInv(s), Rooms, Marked, listed \subseteq Chars,
         NEW c \in listed, NEW v \in listed, NEW bash, Strike(s, c, v, bash)
  PROVE  /\ FightInv(fight)' /\ Rooms' /\ Marked'
         /\ s.next = NoChar => fight'.next = NoChar
<1>1. PICK blow \in Blows(s, c, v) : Struck(s, c, v, blow, bash)
  BY DEF Strike
<1>2. listed' = listed
  BY DEF Strike, Part, CharmFades, bonds
<1> QED
  BY <1>1, <1>2, StruckSound

\* More people listed are no danger to anybody's fight.
LEMMA FightInvGrows ==
  ASSUME FightInv(fight), listed \subseteq listed', fight' = fight, pending' = pending
  PROVE  FightInv(fight)'
BY DEF FightInv, Fit

LEMMA MovingKeepsRooms ==
  ASSUME Rooms, listed' = listed, NEW party \in SUBSET listed, listed \subseteq Chars,
         room' = [x \in Chars |-> IF x \in party THEN 3 - room[x] ELSE room[x]]
  PROVE  Rooms'
<1>1. ASSUME NEW x \in Chars
      PROVE  room'[x] \in 0..2 /\ (x \in listed <=> room'[x] # 0)
  <2>1. room[x] \in 0..2 /\ (x \in listed <=> room[x] # 0)
    BY DEF Rooms
  <2>2. CASE x \in party
    <3>1. room[x] \in {1, 2} /\ room'[x] = 3 - room[x]
      BY <2>1, <2>2
    <3> QED
      BY <2>1, <3>1
  <2>3. CASE x \notin party
    BY <2>1, <2>3
  <2> QED
    BY <2>2, <2>3
<1> QED
  BY <1>1 DEF Rooms

LEMMA TurnSound ==
  ASSUME CombatInv, FollowingInv, Turn
  PROVE  CombatInv'
<1> USE FollowingAssumption
<1> DEFINE c == fight.next
           s == [fight EXCEPT !.next = Successor(fight.list, c), !.turn = c,
                              !.due = @ \ {c}]
<1>1. /\ FightInv(fight) /\ Sound(fight) /\ Rooms /\ Marked /\ listed \subseteq Chars
      /\ phase' = "round"
  BY DEF CombatInv, FightInv, FollowingInv, FollowingTypeOK, Turn
<1>2. /\ c # NoChar /\ c \in ToSet(fight.list) /\ fight.due = From(fight.list, c)
      /\ fight \in Fights /\ c \in Chars /\ fight.list \in Seq(Chars)
      /\ IsInjective(fight.list) /\ fight.on[c] \in Chars
      /\ ToSet(fight.list) \subseteq Chars
  <2>1. /\ fight \in Fights /\ c # NoChar /\ c \in ToSet(fight.list)
        /\ fight.due = From(fight.list, c) /\ IsInjective(fight.list)
        /\ ToSet(fight.list) = {x \in Chars : fight.on[x] # NoChar}
    BY <1>1 DEF Sound, Turn
  <2> QED
    BY <2>1 DEF Fights, Somebody
<1> DEFINE y == Successor(fight.list, c)
<1>3. IF y = NoChar THEN fight.due \ {c} = {}
      ELSE y \in ToSet(fight.list) /\ fight.due \ {c} = From(fight.list, y)
  BY <1>2, SuccessorLeft
<1>4. y \in Somebody
  BY <1>2, <1>3 DEF Somebody
<1>5. s = [fight EXCEPT !.next = y, !.turn = c, !.due = @ \ {c}]
  OBVIOUS
<1> HIDE DEF y, s, c
<1>6. /\ s \in Fights /\ s.on = fight.on /\ s.list = fight.list /\ s.next = y
      /\ s.due = fight.due \ {c} /\ s.dumped = fight.dumped
      /\ s.pos = fight.pos /\ s.hit = fight.hit
  BY <1>2, <1>4, <1>5 DEF Fights, Somebody
<1>7. Sound(s)
  BY <1>1, <1>3, <1>6 DEF Sound
<1>8. FightInv(s)
  BY <1>1, <1>6, <1>7 DEF FightInv, Fit
<1>9. CASE fight' = StopFighting(s, c) /\ UNCHANGED <<bonds, room, pending, marks>>
  <2>1. Stops(s, c, fight') /\ fight'.on[c] = NoChar
    BY <1>2, <1>7, <1>9, StoppingSound
  <2>2. FightInv(fight)'
    BY <1>8, <1>9, <2>1 DEF FightInv, Fit, Stops, bonds
  <2> QED
    BY <1>1, <1>9, <2>2 DEF CombatInv, Rooms, Marked, bonds
<1>10. CASE fight' = s /\ UNCHANGED <<bonds, room, pending, marks>>
  <2>1. FightInv(fight)'
    BY <1>8, <1>10 DEF FightInv, Fit, bonds
  <2> QED
    BY <1>1, <1>10, <2>1 DEF CombatInv, Rooms, Marked, bonds
<1>11. CASE \E v \in Chars : v = fight.on[c] /\ Strike(GetUp(s, c), c, v, FALSE)
  <2> DEFINE u == GetUp(s, c)
  <2>1. PICK v \in Chars : v = fight.on[c] /\ Strike(u, c, v, FALSE)
    BY <1>11
  <2>2. c \in listed /\ v \in listed /\ s.hit[c] # "dead"
    BY <1>1, <1>2, <1>6, <2>1 DEF FightInv, Fit
  <2>3. Sound(u) /\ u.hit = s.hit /\ u.on = s.on
    BY <1>2, <1>7, <2>2, GetUpSound
  <2> HIDE DEF u
  <2>4. FightInv(u)
    BY <1>8, <2>3 DEF FightInv, Fit
  <2>5. FightInv(fight)' /\ Rooms' /\ Marked'
    BY <1>1, <2>1, <2>2, <2>4, StrikeSound
  <2> QED
    BY <1>1, <2>5 DEF CombatInv
<1> QED
  BY <1>9, <1>10, <1>11 DEF Turn, s, c

LEMMA HeartbeatSound ==
  ASSUME CombatInv, BeginRound \/ EndRound \/ EndPulse
  PROVE  CombatInv'
<1> USE FollowingAssumption
<1>1. /\ Sound(fight) /\ fight \in Fights /\ fight.list \in Seq(Chars)
      /\ IsInjective(fight.list) /\ FightInv(fight)
  BY DEF CombatInv, FightInv, Sound, Fights
<1>2. ASSUME UNCHANGED <<bonds, room, pending>>, fight'.on = fight.on,
             fight'.hit = fight.hit, Sound(fight')
      PROVE  FightInv(fight)' /\ Rooms'
  BY <1>1, <1>2 DEF CombatInv, FightInv, Fit, Rooms, bonds
<1>3. CASE BeginRound
  <2> DEFINE first == IF fight.list = <<>> THEN NoChar ELSE Head(fight.list)
  <2>1. /\ fight' = [fight EXCEPT !.next = first, !.due = ToSet(fight.list)]
        /\ phase' = "round" /\ UNCHANGED <<bonds, room, pending, marks>>
    BY <1>3 DEF BeginRound
  <2>2. IF first = NoChar THEN ToSet(fight.list) = {}
        ELSE first \in ToSet(fight.list) /\ ToSet(fight.list) = From(fight.list, first)
    <3>1. CASE fight.list = <<>>
      BY <3>1 DEF ToSet
    <3>2. CASE fight.list # <<>>
      <4>1. /\ Len(fight.list) \in Nat /\ 1 \in 1..Len(fight.list)
            /\ DOMAIN fight.list = 1..Len(fight.list)
            /\ first = fight.list[1] /\ first \in Chars
        BY <1>1, <3>2
      <4>2. From(fight.list, fight.list[1]) = ToSet(fight.list)
        BY <1>1, <4>1, FromPosition
      <4> QED
        BY <4>1, <4>2 DEF ToSet
    <3> QED
      BY <3>1, <3>2
  <2>3. first \in Somebody /\ ToSet(fight.list) \subseteq Chars
    <3>1. ToSet(fight.list) \subseteq Chars
      BY <1>1 DEF ToSet
    <3> HIDE DEF first
    <3> QED
      BY <2>2, <3>1 DEF Somebody
  <2> HIDE DEF first
  <2>4. /\ fight' \in Fights /\ fight'.on = fight.on /\ fight'.list = fight.list
        /\ fight'.next = first /\ fight'.due = ToSet(fight.list)
        /\ fight'.dumped = fight.dumped /\ fight'.pos = fight.pos /\ fight'.hit = fight.hit
    BY <1>1, <2>1, <2>3 DEF Fights, Somebody
  <2>5. Sound(fight')
    BY <1>1, <2>2, <2>4 DEF Sound
  <2> QED
    BY <1>2, <2>1, <2>4, <2>5 DEF CombatInv, Marked, bonds
<1>4. CASE EndRound
  <2>1. /\ fight' = [fight EXCEPT !.turn = NoChar] /\ fight.next = NoChar
        /\ phase' = "extract" /\ UNCHANGED <<bonds, room, pending, marks>>
    BY <1>4 DEF EndRound, CombatInv
  <2>2. /\ fight' \in Fights /\ fight'.on = fight.on /\ fight'.list = fight.list
        /\ fight'.next = NoChar /\ fight'.due = fight.due
        /\ fight'.dumped = fight.dumped /\ fight'.pos = fight.pos /\ fight'.hit = fight.hit
    BY <1>1, <2>1 DEF Fights, Somebody
  <2>3. Sound(fight')
    BY <1>1, <2>1, <2>2 DEF Sound
  <2> QED
    BY <1>2, <2>1, <2>2, <2>3 DEF CombatInv, Marked, bonds
<1>5. CASE EndPulse
  <2>1. /\ fight' = fight /\ phase' = "commands" /\ marks' = 0
        /\ UNCHANGED <<bonds, room, pending>> /\ phase = "extract"
        /\ pending = {} \/ marks = 0
    BY <1>5 DEF EndPulse
  <2>2. FightInv(fight)' /\ Rooms'
    BY <1>1, <1>2, <2>1
  <2>3. Marked'
    <3>1. Cardinality(pending) <= 0 /\ 0 \in 0..MaxMarks
      BY <2>1, FS_EmptySet, FS_CardinalityType, CombatAssumption DEF CombatInv, Marked
    <3> QED
      BY <2>1, <3>1 DEF CombatInv, Marked, bonds
  <2> QED
    BY <2>1, <2>2, <2>3 DEF CombatInv
<1> QED
  BY <1>3, <1>4, <1>5

\* Commands that hurt, and what hurts by itself.
LEMMA BlowsSound ==
  ASSUME CombatInv, FollowingInv, NEW c \in Chars, NEW v \in Chars,
         Attack(c, v) \/ Suffer(c)
  PROVE  CombatInv'
<1>1. FightInv(fight) /\ Rooms /\ Marked /\ listed \subseteq Chars /\ phase' = phase
  BY DEF CombatInv, FollowingInv, FollowingTypeOK, Attack, Suffer
<1>2. \E x \in listed, y \in listed, bash \in BOOLEAN : Strike(fight, x, y, bash)
  BY <1>1, ActorIsFit DEF Attack, Suffer
<1>3. FightInv(fight)' /\ Rooms' /\ Marked' /\ (fight.next = NoChar => fight'.next = NoChar)
  BY <1>1, <1>2, StrikeSound
<1> QED
  BY <1>1, <1>3 DEF CombatInv

LEMMA RebelSound ==
  ASSUME CombatInv, FollowingInv, NEW c \in Chars, Rebel(c)
  PROVE  CombatInv'
<1>1. FightInv(fight) /\ Rooms /\ Marked /\ listed \subseteq Chars /\ phase' = phase
  BY DEF CombatInv, FollowingInv, FollowingTypeOK, Rebel
<1>2. c \in listed /\ master[c] \in listed /\ listed' = listed
  BY DEF FollowingInv, NobodyGone, CharmedHasMaster, Rebel, Part
<1>3. CASE UNCHANGED <<room, pending, marks, fight>>
  BY <1>1, <1>2, <1>3 DEF CombatInv, FightInv, Fit, Rooms, Marked
<1>4. CASE \E blow \in Blows(fight, c, master[c]) : Struck(fight, c, master[c], blow, FALSE)
  <2> DEFINE m == master[c]
  <2>1. PICK blow \in Blows(fight, c, m) : Struck(fight, c, m, blow, FALSE)
    BY <1>4
  <2> HIDE DEF m
  <2>2. FightInv(fight)' /\ Rooms' /\ Marked' /\ (fight.next = NoChar => fight'.next = NoChar)
    <3>1. m \in listed
      BY <1>2 DEF m
    <3>2. PICK bash \in BOOLEAN : Struck(fight, c, m, blow, bash)
      BY <2>1
    <3> QED
      BY <1>1, <1>2, <3>1, <3>2, StruckSound
  <2> QED
    BY <1>1, <2>2 DEF CombatInv
<1> QED
  BY <1>3, <1>4 DEF Rebel

\* One whose own fight, and perhaps another's, ends by a change of place.
LEMMA PartingSound ==
  ASSUME CombatInv, FollowingInv, NEW c \in Chars, Leave(c) \/ Idle(c)
  PROVE  CombatInv'
<1> USE FollowingAssumption
<1>1. /\ FightInv(fight) /\ Sound(fight) /\ Rooms /\ Marked /\ listed \subseteq Chars
      /\ UNCHANGED <<phase, bonds, pending, marks>> /\ c \in listed /\ listed' = listed
  BY DEF CombatInv, FightInv, FollowingInv, FollowingTypeOK, Leave, Idle, Acts, bonds
<1>2. ASSUME Sound(fight'), fight'.hit = fight.hit,
             \A x \in Chars : fight'.on[x] \in {fight.on[x], NoChar}
      PROVE  FightInv(fight)'
  BY <1>1, <1>2 DEF FightInv, Fit
<1>3. CASE Leave(c)
  <2>1. Stops(fight, c, fight')
    BY <1>1, <1>3, StoppingSound DEF Leave
  <2>2. FightInv(fight)' /\ (fight.next = NoChar => fight'.next = NoChar)
    BY <1>2, <2>1 DEF Stops
  <2>3. PICK party \in SUBSET {x \in listed : room[x] = room[c]} :
          room' = [x \in Chars |-> IF x \in party THEN 3 - room[x] ELSE room[x]]
    BY <1>3 DEF Leave
  <2>4. Rooms'
    <3>1. party \in SUBSET listed
      BY <2>3
    <3> QED
      BY <1>1, <2>3, <3>1, MovingKeepsRooms
  <2> QED
    BY <1>1, <2>2, <2>4 DEF CombatInv, Marked
<1>4. CASE Idle(c)
  <2> DEFINE s == StopFighting(fight, fight.on[c])
  <2>1. fight.on[c] \in Chars /\ fight' = StopFighting(s, c) /\ room' = [room EXCEPT ![c] = 2]
    <3>1. fight.on \in [Chars -> Somebody]
      BY <1>1 DEF Sound, Fights
    <3> QED
      BY <1>4, <3>1 DEF Idle, Somebody
  <2>2. Stops(fight, fight.on[c], s)
    BY <1>1, <2>1, StoppingSound
  <2> HIDE DEF s
  <2>3. Stops(s, c, fight')
    <3>1. Sound(s)
      BY <2>2 DEF Stops
    <3> QED
      BY <2>1, <3>1, StoppingSound
  <2>4. /\ Sound(fight') /\ fight'.hit = fight.hit
        /\ fight.next = NoChar => fight'.next = NoChar
        /\ \A x \in Chars : fight'.on[x] \in {fight.on[x], NoChar}
    <3>1. \A x \in Chars : s.on[x] \in {fight.on[x], NoChar}
      BY <2>1, <2>2 DEF Stops
    <3> QED
      BY <2>2, <2>3, <3>1 DEF Stops
  <2>5. Rooms'
    BY <1>1, <2>1 DEF Rooms
  <2> QED
    BY <1>1, <1>2, <2>4, <2>5 DEF CombatInv, Marked
<1> QED
  BY <1>3, <1>4

\* Who rescues has no fight when they take on the foe, nor has the foe.
LEMMA RescueSound ==
  ASSUME CombatInv, FollowingInv, NEW c \in Chars, NEW v \in Chars, NEW foe \in Chars,
         Rescue(c, v, foe)
  PROVE  CombatInv'
<1> USE FollowingAssumption
<1>1. /\ FightInv(fight) /\ Sound(fight) /\ Rooms /\ Marked /\ listed \subseteq Chars
      /\ UNCHANGED <<phase, bonds, room, pending, marks>> /\ listed' = listed
      /\ {c, v, foe} \subseteq listed /\ fight.on[foe] = v /\ fight.on[c] # v
      /\ fight.on \in [Chars -> Somebody]
  BY DEF CombatInv, FightInv, Sound, Fights, FollowingInv, FollowingTypeOK, Rescue, Acts, bonds
<1>2. c # foe /\ fight.hit[c] # "dead" /\ fight.hit[foe] # "dead"
  <2>1. fight.hit[c] # "dead"
    BY <1>1, ActorIsFit DEF Rescue
  <2> QED
    BY <1>1, <2>1 DEF FightInv, Fit
<1>3. PICK s \in {fight, IF fight.on[v] = foe THEN StopFighting(fight, v) ELSE fight} :
        LET t == StopIfFighting(StopIfFighting(s, foe), c)
        IN fight' = SetFighting(SetFighting(t, c, foe), foe, c)
  BY DEF Rescue
<1>4. Stops(fight, v, s)
  BY <1>1, <1>3, StoppingSound
<1> DEFINE q == StopIfFighting(s, foe)
           t == StopIfFighting(q, c)
           r == SetFighting(t, c, foe)
<1>5. Stops(s, foe, q) /\ q.on[foe] = NoChar
  BY <1>4, StoppingSound DEF Stops
<1>6. Stops(q, c, t) /\ t.on[c] = NoChar
  BY <1>5, StoppingSound DEF Stops
<1>7. fight' = SetFighting(r, foe, c)
  BY <1>3
<1> HIDE DEF q, t
<1>8. /\ Sound(t) /\ t.hit = fight.hit /\ (fight.next = NoChar => t.next = NoChar)
      /\ \A x \in Chars : t.on[x] \in {fight.on[x], NoChar}
      /\ t.on[c] = NoChar /\ t.on[foe] = NoChar
      /\ t.on \in [Chars -> Somebody]
  <2>1. \A x \in Chars : s.on[x] \in {fight.on[x], NoChar}
    BY <1>4 DEF Stops
  <2>2. \A x \in Chars : q.on[x] \in {s.on[x], NoChar}
    BY <1>5 DEF Stops
  <2>3. \A x \in Chars : t.on[x] \in {q.on[x], NoChar}
    BY <1>6 DEF Stops
  <2>4. \A x \in Chars : t.on[x] \in {fight.on[x], NoChar}
    BY <2>1, <2>2, <2>3
  <2>5. t.on[foe] = NoChar
    BY <1>5, <2>3
  <2>6. Sound(t) /\ t.hit = fight.hit /\ (fight.next = NoChar => t.next = NoChar)
    BY <1>4, <1>5, <1>6 DEF Stops
  <2>7. t.on \in [Chars -> Somebody]
    BY <2>6 DEF Sound, Fights
  <2> QED
    BY <1>6, <2>4, <2>5, <2>6, <2>7
<1>9. Sound(r) /\ r.on = [t.on EXCEPT ![c] = foe] /\ r.hit = t.hit /\ r.next = t.next
  BY <1>2, <1>8, SetFightingSound
<1> HIDE DEF r
<1>10. r.on[foe] = NoChar /\ r.on \in [Chars -> Somebody]
  BY <1>2, <1>8, <1>9 DEF Somebody
<1>11. /\ Sound(fight') /\ fight'.on = [r.on EXCEPT ![foe] = c]
       /\ fight'.hit = r.hit /\ fight'.next = r.next
  BY <1>2, <1>7, <1>8, <1>9, <1>10, SetFightingSound, SMTT(20)
<1>12. \A x \in Chars : \/ x = c /\ fight'.on[x] = foe
                        \/ x = foe /\ fight'.on[x] = c
                        \/ fight'.on[x] \in {fight.on[x], NoChar}
  BY <1>8, <1>9, <1>10, <1>11
<1>13. FightInv(fight)'
  BY <1>1, <1>2, <1>8, <1>9, <1>11, <1>12 DEF FightInv, Fit
<1> QED
  BY <1>1, <1>8, <1>9, <1>11, <1>13 DEF CombatInv, Rooms, Marked

\* Getting up, and deaths that nobody's blow dealt.
LEMMA RecoverSound ==
  ASSUME CombatInv, NEW c \in Chars, Recover(c)
  PROVE  CombatInv'
<1>0. PICK health \in {"down", "well"} :
        fight' = UpdatePos([fight EXCEPT !.hit[c] = health], c)
  BY DEF Recover
<1> DEFINE u == [fight EXCEPT !.hit[c] = health]
<1>1. /\ FightInv(fight) /\ Sound(fight) /\ fight \in Fights
      /\ fight' = UpdatePos(u, c) /\ UNCHANGED <<phase, bonds, room, pending, marks>>
      /\ listed' = listed
  BY <1>0 DEF CombatInv, FightInv, Sound, Recover, bonds
<1>2. /\ u \in Fights
      /\ u.on = fight.on /\ u.list = fight.list /\ u.next = fight.next
      /\ u.due = fight.due /\ u.dumped = fight.dumped /\ u.pos = fight.pos
      /\ u.hit = [fight.hit EXCEPT ![c] = health]
  BY <1>1 DEF Fights
<1>3. /\ fight' \in Fights
      /\ fight'.on = u.on /\ fight'.list = u.list /\ fight'.next = u.next
      /\ fight'.due = u.due /\ fight'.dumped = u.dumped /\ fight'.hit = u.hit
      /\ \A x \in Chars \ {c} : fight'.pos[x] = u.pos[x]
      /\ fight'.pos[c] \in Postures(u.hit[c])
  BY <1>1, <1>2, UpdatePosIs
<1> HIDE DEF u
<1>4. fight'.hit[c] # "dead" /\ \A x \in Chars \ {c} : fight'.hit[x] = fight.hit[x]
  BY <1>1, <1>2, <1>3 DEF Fights
<1>5. \A x \in Chars : fight'.pos[x] \in Postures(fight'.hit[x])
  BY <1>1, <1>2, <1>3, <1>4 DEF Sound
<1>6. Sound(fight')
  BY <1>1, <1>2, <1>3, <1>5 DEF Sound
<1>7. FightInv(fight)'
  BY <1>1, <1>2, <1>3, <1>4, <1>6 DEF FightInv, Fit
<1> QED
  BY <1>1, <1>2, <1>3, <1>7 DEF CombatInv, Rooms, Marked

LEMMA SlaySound ==
  ASSUME CombatInv, NEW c \in Chars, Slay(c)
  PROVE  CombatInv'
<1>1. /\ FightInv(fight) /\ Sound(fight) /\ Marked /\ Rooms /\ c \in listed
      /\ ExtractChar(c) /\ phase' = phase /\ room' = room
      /\ fight' \in {fight, StopIfFighting(fight, c)} /\ listed' = listed
  BY DEF CombatInv, FightInv, Slay, CharmFades, bonds
<1>2. Stops(fight, c, fight')
  BY <1>1, StoppingSound
<1>3. Marked' /\ pending \subseteq pending'
  BY <1>1, ExtractCharMarks DEF ExtractChar
<1>4. FightInv(fight)'
  BY <1>1, <1>2, <1>3 DEF FightInv, Fit, Stops
<1> QED
  BY <1>1, <1>2, <1>3, <1>4 DEF CombatInv, Rooms, Stops

\* Arrivals, and what is done to masters and followers only.
LEMMA ArriveSound ==
  ASSUME CombatInv, NEW c \in Chars, Arrive(c)
  PROVE  CombatInv'
<1>1. /\ FightInv(fight) /\ Marked /\ Rooms
      /\ UNCHANGED <<phase, pending, marks, fight>>
      /\ listed' = listed \union {c} /\ \E r \in {1, 2} : room' = [room EXCEPT ![c] = r]
  BY DEF CombatInv, Arrive, Enter, Summon
<1>2. FightInv(fight)'
  BY <1>1, FightInvGrows
<1>3. Rooms'
  BY <1>1 DEF Rooms
<1> QED
  BY <1>1, <1>2, <1>3 DEF CombatInv, Marked

LEMMA RelateSound ==
  ASSUME CombatInv, NEW c \in Chars, Relate(c)
  PROVE  CombatInv'
<1>1. /\ FightInv(fight) /\ Marked /\ Rooms
      /\ UNCHANGED <<phase, room, pending, marks, fight>> /\ listed' = listed
  BY DEF CombatInv, Relate, CharmFades, Ungroup, Follow, Charm
<1>2. FightInv(fight)'
  BY <1>1, FightInvGrows
<1> QED
  BY <1>1, <1>2 DEF CombatInv, Marked, Rooms

\* Nobody is left fighting who is extracted.
LEMMA ExtractFinalSound ==
  ASSUME CombatInv, NEW c \in Chars, ExtractFinal(c)
  PROVE  CombatInv'
<1> USE FollowingAssumption
<1> DEFINE s == StopIfFighting(fight, c)
           t == StopFoes(s, c)
<1>1. /\ FightInv(fight) /\ Sound(fight) /\ Marked /\ Rooms /\ phase' = phase
      /\ c \in pending /\ pending' = pending \ {c} /\ marks > 0 /\ marks' = marks - 1
      /\ listed' = listed \ {c} /\ room' = [room EXCEPT ![c] = 0]
      /\ fight' = [t EXCEPT !.pos[c] = "up", !.hit[c] = "well"]
  BY DEF CombatInv, FightInv, ExtractFinal, Extract, Unmarked
<1>2. Stops(fight, c, s) /\ s.on[c] = NoChar
  BY <1>1, StoppingSound
<1> HIDE DEF s
<1>3. /\ Sound(t) /\ t.hit = s.hit
      /\ s.next = NoChar => t.next = NoChar
      /\ \A x \in Chars : t.on[x] = IF s.on[x] = c THEN NoChar ELSE s.on[x]
  BY <1>2, StopFoesSound DEF Stops
<1> HIDE DEF t
<1>4. /\ fight' \in Fights
      /\ fight'.on = t.on /\ fight'.list = t.list /\ fight'.next = t.next
      /\ fight'.due = t.due /\ fight'.dumped = t.dumped
      /\ \A x \in Chars \ {c} : fight'.pos[x] = t.pos[x] /\ fight'.hit[x] = t.hit[x]
      /\ fight'.pos[c] = "up" /\ fight'.hit[c] = "well"
  <2>1. t \in Fights
    BY <1>3 DEF Sound
  <2> QED
    BY <1>1, <2>1 DEF Fights
<1>5. \A x \in Chars : fight'.pos[x] \in Postures(fight'.hit[x])
  BY <1>3, <1>4 DEF Sound, Postures
<1>6. Sound(fight')
  BY <1>3, <1>4, <1>5 DEF Sound
<1>7. \A x \in Chars : /\ fight'.on[x] \in {fight.on[x], NoChar} \ {c}
                       /\ x = c => fight'.on[x] = NoChar
  BY <1>2, <1>3, <1>4 DEF Stops
<1>8. \A x \in Chars \ {c} : fight'.hit[x] = fight.hit[x]
  BY <1>2, <1>3, <1>4 DEF Stops
<1>9. FightInv(fight)'
  BY <1>1, <1>4, <1>6, <1>7, <1>8 DEF FightInv, Fit
<1>10. Marked'
  <2>1. /\ IsFiniteSet(pending \ {c}) /\ Cardinality(pending) \in Nat
        /\ Cardinality(pending \ {c}) = Cardinality(pending) - 1
    BY <1>1, FS_RemoveElement, FS_CardinalityType DEF Marked
  <2>2. marks \in 0..MaxMarks /\ Cardinality(pending) <= marks
    BY <1>1 DEF Marked
  <2>3. marks - 1 \in 0..MaxMarks
    BY <1>1, <2>2, CombatAssumption
  <2> QED
    BY <1>1, <2>1, <2>2, <2>3 DEF Marked
<1>11. Rooms'
  BY <1>1 DEF Rooms
<1> QED
  BY <1>1, <1>2, <1>3, <1>4, <1>9, <1>10, <1>11 DEF CombatInv, Stops

-----------------------------------------------------------------------------
(* The theorems *)

LEMMA CombatInitInv == Init => CombatInv
<1> SUFFICES ASSUME Init
             PROVE  CombatInv
  OBVIOUS
<1> USE FollowingAssumption
<1>1. /\ fight \in Fights /\ fight.next = NoChar /\ fight.due = {} /\ ~fight.dumped
      /\ fight.list = <<>>
      /\ \A c \in Chars : fight.on[c] = NoChar /\ fight.pos[c] = "up" /\ fight.hit[c] = "well"
  BY DEF Init, Fights, Somebody
<1>2. ToSet(fight.list) = {} /\ IsInjective(fight.list)
  BY <1>1 DEF ToSet, IsInjective
<1>3. Sound(fight)
  BY <1>1, <1>2 DEF Sound, Postures
<1>4. FightInv(fight)
  BY <1>1, <1>3 DEF FightInv, Fit
<1>5. Rooms /\ Marked
  BY FS_EmptySet, CombatAssumption DEF Init, FollowingInit, Rooms, Marked
<1> QED
  BY <1>1, <1>4, <1>5 DEF CombatInv, Init

LEMMA CombatNextInv == CombatInv /\ FollowingInv /\ [Next]_vars => CombatInv'
<1> SUFFICES ASSUME CombatInv, FollowingInv, [Next]_vars
             PROVE  CombatInv'
  OBVIOUS
<1>1. CASE BeginRound \/ EndRound \/ EndPulse
  BY <1>1, HeartbeatSound
<1>2. CASE Turn
  BY <1>2, TurnSound
<1>3. ASSUME NEW c \in Chars, Leave(c) \/ Idle(c)
      PROVE  CombatInv'
  BY <1>3, PartingSound
<1>4. ASSUME NEW c \in Chars, Suffer(c)
      PROVE  CombatInv'
  BY <1>4, BlowsSound
<1>5. ASSUME NEW c \in Chars,
             Recover(c) \/ Slay(c) \/ Arrive(c) \/ Relate(c) \/ Rebel(c) \/ ExtractFinal(c)
      PROVE  CombatInv'
  BY <1>5, RecoverSound, SlaySound, ArriveSound, RelateSound, RebelSound, ExtractFinalSound
<1>6. ASSUME NEW c \in Chars, NEW v \in Chars, Attack(c, v)
      PROVE  CombatInv'
  BY <1>6, BlowsSound
<1>7. ASSUME NEW c \in Chars, NEW v \in Chars, NEW foe \in Chars, Rescue(c, v, foe)
      PROVE  CombatInv'
  BY <1>7, RescueSound
<1>8. CASE UNCHANGED vars
  BY <1>8 DEF vars, bonds, CombatInv, FightInv, Fit, Rooms, Marked
<1> QED
  BY <1>1, <1>2, <1>3, <1>4, <1>5, <1>6, <1>7, <1>8 DEF Next

LEMMA CombatInvHolds == Spec => []CombatInv
<1>1. Spec => []FollowingInv
  BY CombatImplementsFollowing, FollowingInvariance, PTL
<1> QED
  BY <1>1, CombatInitInv, CombatNextInv, PTL DEF Spec

\* Every variable keeps its type: rooms, marks, and the records of fights.
THEOREM CombatTypes == Spec => []TypeOK
<1>1. CombatInv => TypeOK
  BY DEF CombatInv, FightInv, Sound, Fights, Somebody, Rooms, Marked, TypeOK
<1> QED
  BY <1>1, CombatInvHolds, PTL

\* Among any number of fighters, set_fighting is never called for somebody who fights
\* already, and combat_list holds whoever fights, each once and none of
\* them dead.
THEOREM FightersAreListed == Spec => []CombatListed
<1>1. CombatInv => CombatListed
  <2> SUFFICES ASSUME CombatInv
               PROVE  CombatListed
    OBVIOUS
  <2>1. /\ Sound(fight) /\ ToSet(fight.list) = {c \in Chars : fight.on[c] # NoChar}
        /\ IsInjective(fight.list) /\ ~fight.dumped
        /\ \A c \in Chars : Fit(fight, c, listed)
    BY DEF CombatInv, FightInv, Sound
  <2>2. ASSUME NEW c \in ToSet(fight.list)
        PROVE  fight.pos[c] # "dead" /\ {c, fight.on[c]} \subseteq listed
    BY <2>1, DeadIsDead DEF Fit
  <2> QED
    BY <2>1, <2>2 DEF CombatListed
<1> QED
  BY <1>1, CombatInvHolds, PTL

\* Whatever a blow takes off the list, or puts on it, perform_violence comes to whoever
\* is due in the round, and to nobody twice.
THEOREM RoundsAreFair == Spec => []RoundFair
<1>1. CombatInv => RoundFair
  BY DEF CombatInv, FightInv, Sound, RoundFair, From
<1> QED
  BY <1>1, CombatInvHolds, PTL

\* Whoever lies dead waits for extraction, and extractions_pending is never short of
\* those who do.
THEOREM TheDeadArePending == Spec => []DeadArePending
<1>1. CombatInv => DeadArePending
  BY DeadIsDead DEF CombatInv, FightInv, Marked, DeadArePending
<1> QED
  BY <1>1, CombatInvHolds, PTL
=============================================================================

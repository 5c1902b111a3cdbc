------------------------------ MODULE Following ------------------------------
(***************************************************************************)
(* Who follows whom among the C server's characters (utils.c and the       *)
(* commands and spells that call it).  A character has a master, and a     *)
(* list of followers; the two have to agree, and nobody may follow         *)
(* themselves by way of others, since circle_follow walks along the        *)
(* masters until there is none.                                            *)
(*                                                                         *)
(* The order of a list of followers decides nothing and is left out; so    *)
(* are the group flags, which no link depends on: who of a group does not  *)
(* stay when it is disbanded may be any of the leader's followers.         *)
(***************************************************************************)
EXTENDS Naturals

CONSTANTS
  Chars,        \* the characters there can be
  NoChar        \* NULL

ASSUME FollowingAssumption == NoChar \notin Chars

VARIABLES
  listed,       \* those on character_list
  master,       \* ch->master
  followers,    \* ch->followers
  charmed       \* those with AFF_CHARM

bonds == <<listed, master, followers, charmed>>

\* circle_follow's walk: v, its master, its master's master, and so on.
Up(m, v) ==
  {k \in Chars : \A S \in SUBSET Chars :
     v \in S /\ (\A x \in S : m[x] # NoChar => m[x] \in S) => k \in S}

\* Mutant of CircleFollow: only the next master is looked at.
CircleFollowShort(ch, v) == v = ch \/ master[v] = ch

CircleFollow(ch, v) == ch \in Up(master, v)

\* stop_follower, for each of `leavers'.
Stopped(leavers) == [c \in Chars |-> IF c \in leavers THEN NoChar ELSE master[c]]
Without(leavers) == [m \in Chars |-> followers[m] \ leavers]

StopFollowers(leavers) ==
  /\ master' = Stopped(leavers)
  /\ followers' = Without(leavers)
  /\ charmed' = charmed \ leavers

\* stop_follower where there is a master, then add_follower.
StartFollowing(ch, leader) ==
  /\ master' = [master EXCEPT ![ch] = leader]
  /\ followers' = [Without({ch}) EXCEPT ![leader] = @ \union {ch}]

-----------------------------------------------------------------------------

\* A character is put on the list, by a login or a zone reset.
Enter(ch) ==
  /\ ch \notin listed
  /\ listed' = listed \union {ch}
  /\ UNCHANGED <<master, followers, charmed>>

\* do_follow
Follow(ch, leader) ==
  /\ {ch, leader} \subseteq listed
  /\ master[ch] # leader
  /\ ch \notin charmed \/ master[ch] = NoChar
  /\ IF leader = ch
     THEN master[ch] # NoChar /\ StopFollowers({ch})
     ELSE /\ ~CircleFollow(ch, leader)
          /\ StartFollowing(ch, leader)
          /\ charmed' = charmed \ {x \in {ch} : master[x] # NoChar}
  /\ UNCHANGED listed

\* spell_charm
Charm(ch, victim) ==
  /\ {ch, victim} \subseteq listed /\ ch # victim
  /\ ch \notin charmed /\ victim \notin charmed
  /\ ~CircleFollow(victim, ch)
  /\ StartFollowing(victim, ch)
  /\ charmed' = charmed \union {victim}
  /\ UNCHANGED listed

\* The spell wears off, or its victim dies (affect_remove): the link stays.
CharmFades(ch) ==
  /\ ch \in charmed
  /\ charmed' = charmed \ {ch}
  /\ UNCHANGED <<listed, master, followers>>

\* mag_summons, and a pet shop, which serves the charmed too: a new mobile, charmed
\* from the start.
Summon(mob, ch) ==
  /\ mob \notin listed /\ ch \in listed
  /\ listed' = listed \union {mob}
  /\ StartFollowing(mob, ch)
  /\ charmed' = charmed \union {mob}

\* do_ungroup: of those in the group only the charmed stay.
Ungroup(ch) ==
  /\ ch \in listed
  /\ \E leavers \in SUBSET (followers[ch] \ charmed) : StopFollowers(leavers)
  /\ UNCHANGED listed

\* A pet its master attacks (damage), and one that rebels (mobile_activity).
Part(ch) ==
  /\ master[ch] # NoChar
  /\ StopFollowers({ch})
  /\ UNCHANGED listed

\* extract_char_final's part in this: die_follower.
Extract(ch) ==
  /\ ch \in listed
  /\ listed' = listed \ {ch}
  /\ StopFollowers(followers[ch] \union {x \in {ch} : master[x] # NoChar})

FollowingInit ==
  /\ listed = {}
  /\ master = [c \in Chars |-> NoChar]
  /\ followers = [c \in Chars |-> {}]
  /\ charmed = {}

FollowingNext ==
  \E c \in Chars :
    \/ Enter(c) \/ CharmFades(c) \/ Ungroup(c) \/ Part(c) \/ Extract(c)
    \/ \E d \in Chars : Follow(c, d) \/ Charm(c, d) \/ Summon(c, d)

FollowingSpec == FollowingInit /\ [][FollowingNext]_bonds

-----------------------------------------------------------------------------
(* Properties *)

\* The range of every variable.
FollowingTypeOK ==
  /\ listed \subseteq Chars
  /\ master \in [Chars -> Chars \union {NoChar}]
  /\ followers \in [Chars -> SUBSET Chars]
  /\ charmed \subseteq Chars

\* A master's list and its followers' pointers agree: stop_follower finds whom it
\* looks for, and frees nobody else's entry.
LinksAgree == \A c, m \in Chars : master[c] = m <=> c \in followers[m]

\* Nobody follows themselves, directly or by way of others: circle_follow, called
\* for anybody, comes to an end.
NoCircle == \A c \in Chars : master[c] # NoChar => c \notin Up(master, master[c])

\* Nobody follows, or is followed by, a character that has been freed.
NobodyGone == \A c \in Chars : master[c] # NoChar => {c, master[c]} \subseteq listed

\* A charmed character has a master, which do_hit reads without asking.
CharmedHasMaster == \A c \in charmed : master[c] # NoChar

\* All of it, through joining, parting, charms, deaths and new arrivals.
BondsSound == LinksAgree /\ NoCircle /\ NobodyGone /\ CharmedHasMaster
=============================================================================

------------------------------- MODULE Combat -------------------------------
(***************************************************************************)
(* Fights of the C server (fight.c), with what they do to followers and to *)
(* the list of characters (handler.c).  Everybody who fights is on         *)
(* combat_list, newest first; perform_violence goes along it once a round  *)
(* and leaves in next_combat_list whom it will come to next, because a     *)
(* blow can take anybody off the list, and put others on it.  Who dies is  *)
(* marked and stays where they are until the end of the pulse.             *)
(*                                                                         *)
(* Hit points matter only as to whether somebody is well (above 0), down   *)
(* (0 to -10) or dead (-11 and below), and of positions which of dead,     *)
(* stunned or worse (down) and better than that (up) it is: who sleeps,    *)
(* rests or sits, or sits in a fight, is up and misses a turn.  There are  *)
(* two rooms.  A special procedure acts in its mobile's turn as a command  *)
(* would.                                                                  *)
(*                                                                         *)
(* Position and hit points do not always agree.  Whoever is bashed while   *)
(* down sits up, hit points or not, and may fight; the next thing that     *)
(* looks at their hit points, a blow or a small heal, has them down again, *)
(* and only the blow ends their fight.                                     *)
(***************************************************************************)
EXTENDS Following, Sequences, FiniteSets, SequencesExt

CONSTANTS
  MaxMarks,     \* bound: extractions asked for in one pulse
  MaxRisen      \* bound: those Risen, and the extractions asked for beside them

ASSUME CombatAssumption == MaxMarks \in Nat /\ MaxRisen \in Nat

VARIABLES
  phase,        \* "commands", "round" (perform_violence) or "extract"
  room,         \* IN_ROOM(ch): 1, 2 or 0, NOWHERE
  pending,      \* those with MOB_NOTDEADYET or PLR_NOTDEADYET
  marks,        \* extractions_pending
  fight         \* FIGHTING(ch), combat_list, next_combat_list, GET_POS, GET_HIT,
                \* whose turn it is in perform_violence, whether set_fighting has
                \* dumped core and, as history, who is still due in this round

vars == <<bonds, phase, room, pending, marks, fight>>

\* GET_POS(c) > POS_STUNNED
Awake(s, c) == s.pos[c] = "up"

Successor(list, c) ==
  IF \E i \in 1..Len(list) - 1 : list[i] = c
  THEN list[1 + CHOOSE i \in 1..Len(list) - 1 : list[i] = c] ELSE NoChar

-----------------------------------------------------------------------------
(* Functions of fight.c, on the state of the fights *)

\* update_pos
UpdatePos(s, c) ==
  [s EXCEPT !.pos[c] = IF s.hit[c] = "well" THEN "up" ELSE s.hit[c]]

\* set_fighting
SetFighting(s, c, v) ==
  IF c = v THEN s
  ELSE IF s.on[c] # NoChar THEN [s EXCEPT !.dumped = TRUE]
  ELSE [s EXCEPT !.list = <<c>> \o @, !.on[c] = v, !.pos[c] = "up"]

\* Mutant of StopFighting: next_combat_list is not moved on.
StopFightingLeavesNext(s, c) ==
  UpdatePos([s EXCEPT !.list = RemoveFirst(@, c), !.on[c] = NoChar, !.pos[c] = "up",
                      !.due = @ \ {c}], c)

\* stop_fighting
StopFighting(s, c) ==
  UpdatePos([s EXCEPT !.next = IF @ = c THEN Successor(s.list, c) ELSE @,
                      !.list = RemoveFirst(@, c), !.on[c] = NoChar, !.pos[c] = "up",
                      !.due = @ \ {c}], c)

StopIfFighting(s, c) == IF s.on[c] # NoChar THEN StopFighting(s, c) ELSE s

\* extract_char_final's walk along combat_list: whoever fights c stops.
StopFoes(s, c) ==
  LET After[i \in 0..Len(s.list)] ==
        IF i = 0 THEN s
        ELSE IF After[i - 1].on[s.list[i]] = c THEN StopFighting(After[i - 1], s.list[i])
        ELSE After[i - 1]
  IN After[Len(s.list)]

\* Mutant of Engage: the attacker's present fight is not looked at.
EngageAnyway(s, c, v) ==
  LET t == IF Awake(s, c) THEN SetFighting(s, c, v) ELSE s
  IN IF c # v /\ Awake(t, v) /\ t.on[v] = NoChar THEN SetFighting(t, v, c) ELSE t

\* damage, as far as the first blow that starts a fight.
Engage(s, c, v) ==
  LET t == IF Awake(s, c) /\ s.on[c] = NoChar THEN SetFighting(s, c, v) ELSE s
  IN IF c # v /\ Awake(t, v) /\ t.on[v] = NoChar THEN SetFighting(t, v, c) ELSE t

\* do_simple_move: the charmed do not leave their master.
Held(c) == c \in charmed /\ master[c] # NoChar /\ room[c] = room[master[c]]

\* POS_SITTING of do_bash, POS_FIGHTING of a mobile that scrambles to its feet: the
\* hit points are not looked at.
GetUp(s, c) == [s EXCEPT !.pos[c] = "up"]

\* Those whom a bash got up and nothing has put right yet: on their feet, or fighting,
\* with no hit points.
Risen(s) == {c \in Chars : s.hit[c] = "down" /\ (Awake(s, c) \/ s.on[c] # NoChar)}

\* What a blow by c can make of v: one that is afraid, or has no link, leaves the
\* room if it can.
Blows(s, c, v) ==
  CASE s.hit[v] = "well" -> {"none", "down", "dead"} \union
                            {b \in {"flee"} : Held(v) => master[v] = c}
    [] s.hit[v] = "down" -> {"none", "dead"}
    [] s.hit[v] = "dead" -> {"none"}

\* Mutant of ExtractChar: nothing is counted.
ExtractCharUncounted(v) ==
  /\ pending' = pending \union {v}
  /\ UNCHANGED marks

\* extract_char
ExtractChar(v) ==
  /\ marks < MaxMarks /\ (Risen(fight) # {} => marks < MaxRisen)
  /\ pending' = pending \union {v}
  /\ marks' = marks + 1

\* damage, as far as v's hit points, position, room and death go, with what do_bash
\* adds to it: who is hurt, lives and is still there sits.  Who lies dead is not hurt
\* again.  (A body that was not marked would die again: DeadArePending says there is
\* none.)
Struck(s, c, v, blow, bash) ==
  LET t == UpdatePos([Engage(s, c, v) EXCEPT
                        !.hit[v] = IF blow \in {"none", "flee"} THEN @ ELSE blow], v)
      flees == blow = "flee" /\ Awake(t, v)
      dies == t.pos[v] = "dead"
      after == IF flees \/ ~Awake(t, v) THEN StopIfFighting(t, v) ELSE t
  IN IF s.pos[v] = "dead"
     THEN fight' = s /\ UNCHANGED <<room, pending, marks>>
     ELSE /\ fight' = IF bash /\ ~flees /\ ~dies THEN GetUp(after, v) ELSE after
          /\ room' = IF flees THEN [room EXCEPT ![v] = 3 - @] ELSE room
          /\ IF dies THEN ExtractChar(v) ELSE UNCHANGED <<pending, marks>>

\* The whole of damage: a pet one attacks is nobody's pet; death ends a charm.
Strike(s, c, v, bash) ==
  /\ \E blow \in Blows(s, c, v) : Struck(s, c, v, blow, bash)
  /\ IF master[v] = c /\ s.pos[v] # "dead" THEN Part(v)
     ELSE UNCHANGED bonds \/ (pending' # pending /\ CharmFades(v))

-----------------------------------------------------------------------------
(* Commands, spells, special procedures *)

Acts(c) ==
  /\ c \in listed /\ Awake(fight, c)
  /\ phase = "commands" \/ (phase = "round" /\ c = fight.turn)

\* do_hit, the skills and the spells that hurt; only a player bashes.
Attack(c, v) ==
  /\ Acts(c) /\ v \in listed /\ c # v /\ room[c] = room[v]
  /\ ~(c \in charmed /\ master[c] = v)
  /\ \E bash \in BOOLEAN :
       /\ bash => /\ phase = "commands"
                  /\ Cardinality(Risen(fight)) < MaxRisen /\ marks <= MaxRisen
       /\ Strike(fight, c, v, bash)
  /\ UNCHANGED phase

\* do_rescue; castle.c's banzaii lets the rescued one fight on.
Rescue(c, v, foe) ==
  /\ Acts(c) /\ {v, foe} \subseteq listed /\ c # v
  /\ fight.on[c] # v
  /\ fight.on[foe] = v /\ \A x \in {v, foe} : room[x] = room[c]
  /\ \E s \in {fight, IF fight.on[v] = foe THEN StopFighting(fight, v) ELSE fight} :
       LET t == StopIfFighting(StopIfFighting(s, foe), c)
       IN fight' = SetFighting(SetFighting(t, c, foe), foe, c)
  /\ UNCHANGED <<phase, bonds, room, pending, marks>>

\* do_flee, for somebody who fights; otherwise perform_move, which takes along those
\* who follow, stand in the room and do not fight, unless the way is barred to them.
Leave(c) ==
  /\ Acts(c) /\ ~Held(c)
  /\ \E party \in SUBSET {x \in listed : room[x] = room[c]} :
       /\ c \in party
       /\ \A x \in party \ {c} :
            Awake(fight, x) /\ fight.on[x] = NoChar /\ master[x] \in party
       /\ fight.on[c] # NoChar => party = {c}
       /\ room' = [x \in Chars |-> IF x \in party THEN 3 - room[x] ELSE room[x]]
  /\ fight' = StopIfFighting(fight, c)
  /\ UNCHANGED <<phase, bonds, pending, marks>>

\* Poison, or bleeding to death in point_update.
Suffer(c) ==
  /\ phase = "commands" /\ c \in listed
  /\ Strike(fight, c, c, FALSE)
  /\ UNCHANGED phase

\* point_update, or a spell, that gives back some hit points or all of them; a mobile
\* may do so in its turn.  A spell helps a body that lies dead, too.
Recover(c) ==
  /\ phase = "commands" \/ (phase = "round" /\ c = fight.turn)
  /\ c \in listed
  /\ fight.hit[c] # "well"
  /\ \E health \in {"down", "well"} :
       fight' = UpdatePos([fight EXCEPT !.hit[c] = health], c)
  /\ UNCHANGED <<phase, bonds, room, pending, marks>>

\* raw_kill by an implementor's do_kill, which hurts nobody: the position does not
\* show it.  do_purge, do_quit and a death trap have only extract_char.
Slay(v) ==
  /\ phase = "commands" /\ v \in listed
  /\ \/ fight' = fight /\ UNCHANGED bonds
     \/ fight' = StopIfFighting(fight, v) /\ (UNCHANGED bonds \/ CharmFades(v))
  /\ ExtractChar(v)
  /\ UNCHANGED <<phase, room>>

\* check_idling: whoever is idle goes to the void, the second room here.
Idle(c) ==
  /\ phase = "commands" /\ c \in listed
  /\ fight.on[c] # NoChar /\ room[c] = 1
  /\ fight' = StopFighting(StopFighting(fight, fight.on[c]), c)
  /\ room' = [room EXCEPT ![c] = 2]
  /\ UNCHANGED <<phase, bonds, pending, marks>>

\* A login, a zone reset, or a new mobile beside its master.
Arrive(c) ==
  /\ phase = "commands"
  /\ \E r \in {1, 2} :
       /\ room' = [room EXCEPT ![c] = r]
       /\ Enter(c) \/ \E leader \in Chars : room[leader] = r /\ Summon(c, leader)
  /\ UNCHANGED <<phase, pending, marks, fight>>

\* do_follow and spell_charm need the other one in the room; an ending needs nobody.
Relate(c) ==
  /\ phase = "commands"
  /\ \/ CharmFades(c) \/ Ungroup(c)
     \/ \E d \in Chars : room[c] = room[d] /\ (Follow(c, d) \/ Charm(c, d))
  /\ UNCHANGED <<phase, room, pending, marks, fight>>

\* mobile_activity: a pet leaves its master, wherever that is, and hits them first if
\* it can.  (Should that end a charm of the master, it is by a CharmFades.)
Rebel(c) ==
  /\ phase = "commands" /\ c \in charmed
  /\ Awake(fight, c) /\ fight.on[c] = NoChar
  /\ LET m == master[c]
     IN \/ UNCHANGED <<room, pending, marks, fight>>
        \/ room[m] = room[c] /\ \E blow \in Blows(fight, c, m) : Struck(fight, c, m, blow, FALSE)
  /\ Part(c)
  /\ UNCHANGED phase

-----------------------------------------------------------------------------
(* The heartbeat *)

\* perform_violence begins, in a pulse that has one.
BeginRound ==
  /\ phase = "commands" /\ phase' = "round"
  /\ fight' = [fight EXCEPT !.next = IF fight.list = <<>> THEN NoChar ELSE Head(fight.list),
                            !.due = ToSet(fight.list)]
  /\ UNCHANGED <<bonds, room, pending, marks>>

\* One turn: whoever's enemy has gone stops; a mobile may have to wait, a player may
\* be sitting or stunned.  A mobile gets up, stunned or not.
Turn ==
  /\ phase = "round" /\ fight.next # NoChar
  /\ LET c == fight.next
         s == [fight EXCEPT !.next = Successor(fight.list, c), !.turn = c,
                            !.due = @ \ {c}]
     IN IF fight.on[c] = NoChar \/ room[c] # room[fight.on[c]]
        THEN fight' = StopFighting(s, c) /\ UNCHANGED <<bonds, room, pending, marks>>
        ELSE \/ fight' = s /\ UNCHANGED <<bonds, room, pending, marks>>
             \/ \E v \in Chars : v = fight.on[c] /\ Strike(GetUp(s, c), c, v, FALSE)
  /\ UNCHANGED phase

\* The list is at its end, or the pulse has no round: extract_pending_chars.
EndRound ==
  /\ phase = "commands" \/ (phase = "round" /\ fight.next = NoChar)
  /\ phase' = "extract"
  /\ fight' = [fight EXCEPT !.turn = NoChar]
  /\ UNCHANGED <<bonds, room, pending, marks>>

\* Mutant of Unmarked: the flag is not taken off.
UnmarkedNot(c) == pending

Unmarked(c) == pending \ {c}

\* extract_char_final, and extract_pending_chars around it.  What comes in by that
\* name later is well and standing.
ExtractFinal(c) ==
  /\ phase = "extract" /\ c \in pending /\ marks > 0
  /\ pending' = Unmarked(c)
  /\ marks' = marks - 1
  /\ Extract(c)
  /\ fight' = [StopFoes(StopIfFighting(fight, c), c)
                EXCEPT !.pos[c] = "up", !.hit[c] = "well"]
  /\ room' = [room EXCEPT ![c] = 0]
  /\ UNCHANGED phase

EndPulse ==
  /\ phase = "extract" /\ (pending = {} \/ marks = 0)
  /\ phase' = "commands"
  /\ marks' = 0
  /\ UNCHANGED <<bonds, room, pending, fight>>

Init ==
  /\ FollowingInit
  /\ phase = "commands"
  /\ room = [c \in Chars |-> 0]
  /\ pending = {}
  /\ marks = 0
  /\ fight = [on |-> [c \in Chars |-> NoChar], list |-> <<>>, next |-> NoChar,
              turn |-> NoChar, due |-> {}, dumped |-> FALSE,
              pos |-> [c \in Chars |-> "up"], hit |-> [c \in Chars |-> "well"]]

Next ==
  \/ BeginRound \/ Turn \/ EndRound \/ EndPulse
  \/ \E c \in Chars :
       \/ Leave(c) \/ Suffer(c) \/ Recover(c) \/ Slay(c) \/ Idle(c) \/ Arrive(c)
       \/ Relate(c) \/ Rebel(c) \/ ExtractFinal(c)
       \/ \E v \in Chars : Attack(c, v) \/ \E foe \in Chars : Rescue(c, v, foe)

Spec == Init /\ [][Next]_vars

-----------------------------------------------------------------------------
(* Properties *)

\* The range of every variable.
TypeOK ==
  /\ phase \in {"commands", "round", "extract"}
  /\ room \in [Chars -> 0..2] /\ \A c \in Chars : c \in listed <=> room[c] # 0
  /\ pending \subseteq listed
  /\ marks \in 0..MaxMarks
  /\ fight.on \in [Chars -> Chars \union {NoChar}]
  /\ fight.list \in Seq(Chars) /\ {fight.next, fight.turn} \subseteq Chars \union {NoChar}
  /\ fight.due \subseteq Chars /\ fight.dumped \in BOOLEAN
  /\ fight.pos \in [Chars -> {"dead", "down", "up"}]
  /\ fight.hit \in [Chars -> {"dead", "down", "well"}]

\* combat_list holds whoever fights, each once: perform_violence never meets somebody
\* with no one to hit, and set_fighting never puts somebody on the list twice, for
\* which it would dump core.  Nobody there lies dead, so no corpse has a turn.  Nobody
\* there has been freed, nor has whom they fight.  (Stunned they may be: see above.)
CombatListed ==
  /\ ToSet(fight.list) = {c \in Chars : fight.on[c] # NoChar}
  /\ IsInjective(fight.list)
  /\ \A c \in ToSet(fight.list) : fight.pos[c] # "dead"
  /\ ~fight.dumped
  /\ \A c \in ToSet(fight.list) : {c, fight.on[c]} \subseteq listed

\* Through all the deaths, flights and rescues of a round, what is left of the list
\* from next_combat_list on is whoever has not had a turn: nobody is skipped, nobody
\* hits twice, and the loop does not run off into somebody who has left the list.
RoundFair ==
  phase = "round" =>
    fight.due = IF fight.next = NoChar THEN {}
                ELSE {fight.list[i] : i \in {j \in 1..Len(fight.list) :
                       \E k \in 1..j : fight.list[k] = fight.next}}

\* Who lies dead is marked for extraction, so damage never comes upon a corpse that is
\* not, of which it would make a second one (fight.c:787); and the marks counted are
\* enough for extract_pending_chars to reach all who are marked.  (Somebody marked who
\* does not lie dead, because a spell has helped them since or because do_kill had
\* left their hit points alone, can still die once more.)
DeadArePending ==
  /\ \A c \in Chars : fight.pos[c] = "dead" => c \in pending
  /\ Cardinality(pending) <= marks
=============================================================================

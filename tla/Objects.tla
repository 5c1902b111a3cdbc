------------------------------- MODULE Objects -------------------------------
(***************************************************************************)
(* Where the C server's objects are and what they weigh (handler.c,        *)
(* act.item.c).  An object lies in a room, in somebody's hands, on         *)
(* somebody's body or in another object.  Each place has a list of what is *)
(* there, and each object points back by a field of its own -- in_room,    *)
(* carried_by, worn_by, in_obj -- which nothing but the functions of       *)
(* handler.c keeps in step with the lists and with each other.  A          *)
(* container's weight is kept with its contents in it, and a character's   *)
(* load and number of items are kept too: every move adds and subtracts    *)
(* along the containers it is made from and to.                            *)
(*                                                                         *)
(* The functions of handler.c take a set of objects here, for the loops    *)
(* that call them for everything in a place.  A command that names several *)
(* objects is several steps.  The order of a list, the positions things    *)
(* are worn in, who sees what, curses and locks decide only whether a step *)
(* is taken and are left out, as are the characters' rooms: all are Here.  *)
(***************************************************************************)
EXTENDS Integers, FiniteSets, FiniteSetsExt

CONSTANTS
  Objs, Chars, Rooms,   \* the objects, characters and rooms there can be
  Null,                 \* NULL, and NOWHERE
  Here,                 \* the room everybody is in
  Kind,                 \* GET_OBJ_TYPE; "corpse" is a container of its own kind
  EmptyWeight,          \* what an object weighs by itself, without a liquid
  MaxItems, MaxLoad,    \* CAN_CARRY_N, CAN_CARRY_W
  Capacity,             \* GET_OBJ_VAL(cont, 0) of a container
  Full,                 \* GET_OBJ_VAL(obj, 0) of what holds a liquid
  May                   \* of {"fold", "edit"}

ASSUME ObjectsAssumption ==
  /\ Objs \intersect Chars = {} /\ Objs \intersect Rooms = {} /\ Chars \intersect Rooms = {}
  /\ Null \notin Objs \union Chars \union Rooms
  /\ Here \in Rooms
  /\ Kind \in [Objs -> {"bag", "flask", "fountain", "coins", "corpse"}]
  /\ EmptyWeight \in [Objs -> Nat] /\ Capacity \in [Objs -> Nat] /\ Full \in Nat
  /\ May \subseteq {"fold", "edit"}

Holders == Rooms \union Chars \union Objs

VARIABLES
  things,       \* .at: object_list, the lists and the pointers back;
                \* .mass: GET_OBJ_WEIGHT, IS_CARRYING_W and IS_CARRYING_N
  liquid,       \* GET_OBJ_VAL(obj, 1) of what holds a liquid
  present,      \* the characters in the world
  adrift        \* objects that a zone's reset left without a place (history)

vars == <<things, liquid, present, adrift>>

-----------------------------------------------------------------------------
(* handler.c: s is the state of things, O some objects that are together *)

Pointing(f, O, x) == [o \in Objs |-> IF o \in O THEN x ELSE f[o]]
Weight(s, O) == MapThenSumSet(LAMBDA o : s.mass.weight[o], O)

\* What is in O, directly or by way of others.
Within(at, O) ==
  {k \in Objs : \A S \in SUBSET Objs :
     O \subseteq S /\ (\A x \in S : at.held[x] \subseteq S) => k \in S}

\* b, what it is in, what that is in, and so on.
Around(at, b) ==
  {k \in Objs : \A S \in SUBSET Objs :
     b \in S /\ (\A x \in S : at.in_obj[x] # Null => at.in_obj[x] \in S) => k \in S}

\* Everything around b, and whoever carries it, has w more to bear.
Burdened(s, b, w) ==
  LET around == Around(s.at, b)
      bearer == {s.at.carried_by[k] : k \in around}
  IN [s.mass EXCEPT !.weight = [o \in Objs |-> @[o] + IF o \in around THEN w ELSE 0],
                    !.load = [c \in Chars |-> @[c] + IF c \in bearer THEN w ELSE 0]]

ObjToChar(s, O, c) ==
  [at |-> [s.at EXCEPT !.held[c] = @ \union O, !.carried_by = Pointing(@, O, c),
                       !.in_room = Pointing(@, O, Null)],
   mass |-> [s.mass EXCEPT !.load[c] = @ + Weight(s, O),
                           !.items[c] = @ + Cardinality(O)]]

ObjFromChar(s, O, c) ==
  [at |-> [s.at EXCEPT !.held[c] = @ \ O, !.carried_by = Pointing(@, O, Null)],
   mass |-> [s.mass EXCEPT !.load[c] = @ - Weight(s, O),
                           !.items[c] = @ - Cardinality(O)]]

\* equip_char, where the position is free; who may not wear it has it in hand.
EquipChar(s, o, c, zapped) ==
  IF zapped THEN ObjToChar(s, {o}, c)
  ELSE [at |-> [s.at EXCEPT !.worn[c] = @ \union {o}, !.worn_by = Pointing(@, {o}, c)],
        mass |-> s.mass]

UnequipChar(s, O, c) ==
  [at |-> [s.at EXCEPT !.worn[c] = @ \ O, !.worn_by = Pointing(@, O, Null)],
   mass |-> s.mass]

ObjToRoom(s, O, r) ==
  [at |-> [s.at EXCEPT !.held[r] = @ \union O, !.in_room = Pointing(@, O, r),
                       !.carried_by = Pointing(@, O, Null)],
   mass |-> s.mass]

ObjFromRoom(s, O, r) ==
  [at |-> [s.at EXCEPT !.held[r] = @ \ O, !.in_room = Pointing(@, O, Null)],
   mass |-> s.mass]

\* obj_to_obj, which does nothing with an object that is to go into itself.
ObjToObj(s, O, b) ==
  IF b \in O THEN s
  ELSE [at |-> [s.at EXCEPT !.held[b] = @ \union O, !.in_obj = Pointing(@, O, b)],
        mass |-> Burdened(s, b, Weight(s, O))]

\* Mutant of ObjFromObj: only the container itself becomes lighter.
ObjFromObjShallow(s, O, b) ==
  [at |-> [s.at EXCEPT !.held[b] = @ \ O, !.in_obj = Pointing(@, O, Null)],
   mass |-> [s.mass EXCEPT !.weight[b] = @ - Weight(s, O)]]

ObjFromObj(s, O, b) ==
  [at |-> [s.at EXCEPT !.held[b] = @ \ O, !.in_obj = Pointing(@, O, Null)],
   mass |-> Burdened(s, b, -Weight(s, O))]

\* extract_obj: an object is taken from its place, and freed with everything in it.
Detached(s, o) ==
  CASE s.at.worn_by[o] # Null -> UnequipChar(s, {o}, s.at.worn_by[o])
    [] s.at.in_room[o] # Null -> ObjFromRoom(s, {o}, s.at.in_room[o])
    [] s.at.carried_by[o] # Null -> ObjFromChar(s, {o}, s.at.carried_by[o])
    [] s.at.in_obj[o] # Null -> ObjFromObj(s, {o}, s.at.in_obj[o])
    [] OTHER -> s

Freed(s, O) ==
  [at |-> [listed |-> s.at.listed \ O,
           held |-> [h \in Holders |-> IF h \in O THEN {} ELSE s.at.held[h]],
           worn |-> s.at.worn,
           in_room |-> Pointing(s.at.in_room, O, Null),
           carried_by |-> Pointing(s.at.carried_by, O, Null),
           worn_by |-> Pointing(s.at.worn_by, O, Null),
           in_obj |-> Pointing(s.at.in_obj, O, Null)],
   mass |-> [s.mass EXCEPT !.weight = Pointing(@, O, 0)]]

\* Mutant of ExtractObj: what is in the object is left.
ExtractObjAlone(s, o) == Freed(Detached(s, o), {o})

ExtractObj(s, o) ==
  LET t == Detached(s, o) IN Freed(t, Within(t.at, {o}))

\* create_obj, and read_object, from which a new object has its weight.
Created(s, o, w) ==
  [at |-> [s.at EXCEPT !.listed = @ \union {o}],
   mass |-> [s.mass EXCEPT !.weight[o] = w]]

-----------------------------------------------------------------------------
(* act.item.c and others: what characters do with objects *)

At == things.at
Mass == things.mass

Carries(c, o) == c \in present /\ o \in At.held[c]
Room(c) == Mass.items[c] < MaxItems
CanCarry(c, o) == Room(c) /\ Mass.load[c] + Mass.weight[o] <= MaxLoad
CanTake(c, o) == CanCarry(c, o) /\ Kind[o] # "fountain"
IsContainer(o) == Kind[o] \in {"bag", "corpse"}
CanWear(o) == Kind[o] \in {"bag", "flask"}

Only == UNCHANGED <<liquid, present, adrift>>

\* get_check_money: coins go into the purse.
CheckedMoney(s, o) == IF Kind[o] = "coins" THEN ExtractObj(s, o) ELSE s

\* perform_get_from_room; a mobile that scavenges or cleans up keeps coins as they are.
Get(c, o, mobile) ==
  /\ c \in present /\ o \in At.held[Here]
  /\ CanTake(c, o)
  /\ LET t == ObjToChar(ObjFromRoom(things, {o}, Here), {o}, c)
     IN things' = IF mobile THEN t ELSE CheckedMoney(t, o)
  /\ Only

\* perform_get_from_container, from what one carries or what lies in the room.
GetFrom(c, o, b) ==
  /\ \/ Carries(c, b) /\ Room(c)
     \/ c \in present /\ b \in At.held[Here] /\ CanTake(c, o)
  /\ IsContainer(b) /\ o \in At.held[b]
  /\ things' = CheckedMoney(ObjToChar(ObjFromObj(things, {o}, b), {o}, c), o)
  /\ Only

\* perform_put.  do_put sees that the container is not to go into itself, but where
\* it is asked for a number of things, only for the first of them: `fold'.
Put(c, o, b) ==
  /\ Carries(c, o) /\ IsContainer(b)
  /\ b \in At.held[c] \union At.held[Here]
  /\ o # b \/ "fold" \in May
  /\ Mass.weight[b] + Mass.weight[o] <= Capacity[b]
  /\ things' = ObjToObj(ObjFromChar(things, {o}, c), {o}, b)
  /\ Only

\* perform_drop: SCMD_DROP with r = Here, or SCMD_DONATE, which junks a corpse.
Drop(c, o, r) ==
  /\ Carries(c, o) /\ (Kind[o] = "corpse" => r = Here)
  /\ things' = ObjToRoom(ObjFromChar(things, {o}, c), {o}, r)
  /\ Only

\* perform_drop with SCMD_JUNK; what is eaten, recited or quaffed goes the same way.
UseUp(c, o) ==
  /\ Carries(c, o)
  /\ things' = ExtractObj(ObjFromChar(things, {o}, c), o)
  /\ Only

\* perform_drop_gold
DropGold(c, o) ==
  /\ c \in present /\ o \notin At.listed /\ Kind[o] = "coins"
  /\ things' = ObjToRoom(Created(things, o, EmptyWeight[o]), {o}, Here)
  /\ Only

\* perform_give, and do_steal from somebody's hands.
Give(c, o, v) ==
  /\ Carries(c, o) /\ v \in present \ {c}
  /\ CanCarry(v, o)
  /\ things' = ObjToChar(ObjFromChar(things, {o}, c), {o}, v)
  /\ Only

\* do_steal from the body of somebody who is stunned.
StealWorn(c, o, v) ==
  /\ v \in present \ {c} /\ c \in present /\ o \in At.worn[v]
  /\ things' = ObjToChar(UnequipChar(things, {o}, v), {o}, c)
  /\ Only

\* perform_wear
Wear(c, o) ==
  /\ Carries(c, o) /\ CanWear(o)
  /\ \E zapped \in BOOLEAN :
       things' = EquipChar(ObjFromChar(things, {o}, c), o, c, zapped)
  /\ Only

\* perform_remove
Remove(c, o) ==
  /\ c \in present /\ o \in At.worn[c] /\ Room(c)
  /\ things' = ObjToChar(UnequipChar(things, {o}, c), {o}, c)
  /\ Only

\* weight_change_object
Heavier(s, o, w) == [at |-> s.at, mass |-> [s.mass EXCEPT !.weight[o] = @ + w]]
WeightChanged(s, o, w) ==
  CASE s.at.in_room[o] # Null -> Heavier(s, o, w)
    [] s.at.carried_by[o] # Null ->
         LET c == s.at.carried_by[o]
         IN ObjToChar(Heavier(ObjFromChar(s, {o}, c), o, w), {o}, c)
    [] s.at.in_obj[o] # Null ->
         LET b == s.at.in_obj[o]
         IN ObjToObj(Heavier(ObjFromObj(s, {o}, b), o, w), {o}, b)
    [] OTHER -> s

\* What c can drink or pour from.
AtHand(c, o) ==
  \/ Carries(c, o) /\ Kind[o] = "flask"
  \/ c \in present /\ o \in At.held[Here] /\ Kind[o] = "fountain"

\* Mutant of Drink: more is drunk than there is.
DrinkUnbounded(c, o, n) ==
  /\ AtHand(c, o) /\ liquid[o] > 0
  /\ things' = WeightChanged(things, o, -(IF n < Mass.weight[o] THEN n ELSE Mass.weight[o]))
  /\ liquid' = [liquid EXCEPT ![o] = @ - n]
  /\ UNCHANGED <<present, adrift>>

\* do_drink; do_pour out, of everything.
Drink(c, o, n) ==
  /\ AtHand(c, o) /\ n \in 1..liquid[o]
  /\ things' = WeightChanged(things, o, -(IF n < Mass.weight[o] THEN n ELSE Mass.weight[o]))
  /\ liquid' = [liquid EXCEPT ![o] = @ - n]
  /\ UNCHANGED <<present, adrift>>

\* do_pour, into another flask, as far as it has room; and filling from a fountain.
Pour(c, o, into) ==
  /\ AtHand(c, o) /\ Carries(c, into) /\ Kind[into] = "flask" /\ o # into
  /\ liquid[o] > 0 /\ liquid[into] < Full
  /\ LET room == Full - liquid[into]
         n == IF liquid[o] < room THEN liquid[o] ELSE room
     IN /\ things' = WeightChanged(WeightChanged(things, o, -n), into, n)
        /\ liquid' = [liquid EXCEPT ![o] = @ - n, ![into] = @ + n]
  /\ UNCHANGED <<present, adrift>>

-----------------------------------------------------------------------------
(* Characters come and go *)

Enter(c) ==
  /\ c \notin present
  /\ present' = present \union {c}
  /\ UNCHANGED <<things, liquid, adrift>>

\* make_corpse's transfer of an inventory: the list changes hands as it is.
HandedOver(s, c, k) ==
  LET O == s.at.held[c]
  IN [at |-> [s.at EXCEPT !.held[k] = O, !.held[c] = {}, !.in_obj = Pointing(@, O, k),
                          !.carried_by = Pointing(@, Within(s.at, O), Null)],
      mass |-> [s.mass EXCEPT !.load[c] = 0, !.items[c] = 0]]

\* make_corpse; there may have been gold.
Die(c, k) ==
  /\ c \in present /\ k \notin At.listed /\ Kind[k] = "corpse"
  /\ LET made == HandedOver(Created(things, k, EmptyWeight[k] + Mass.load[c]), c, k)
         worn == At.worn[c]
         full == ObjToObj(UnequipChar(made, worn, c), worn, k)
     IN \/ things' = ObjToRoom(full, {k}, Here)
        \/ \E gold \in {o \in Objs \ At.listed : Kind[o] = "coins"} :
             things' = ObjToRoom(ObjToObj(Created(full, gold, EmptyWeight[gold]), {gold}, k),
                                 {k}, Here)
  /\ Only

\* extract_char_final: everything c has is left in the room.
Leave(c) ==
  /\ c \in present
  /\ LET held == At.held[c]
         worn == At.worn[c]
         t == ObjToRoom(ObjFromChar(things, held, c), held, Here)
     IN things' = ObjToRoom(UnequipChar(t, worn, c), worn, Here)
  /\ present' = present \ {c}
  /\ UNCHANGED <<liquid, adrift>>

\* point_update's end of a corpse; its contents go where it was.
Decay(k) ==
  /\ k \in At.listed /\ Kind[k] = "corpse"
  /\ LET O == At.held[k]
         t == ObjFromObj(things, O, k)
         u == CASE At.in_obj[k] # Null -> ObjToObj(t, O, At.in_obj[k])
                [] At.carried_by[k] # Null -> ObjToRoom(t, O, Here)
                [] At.in_room[k] # Null -> ObjToRoom(t, O, At.in_room[k])
                [] OTHER -> t
     IN things' = ExtractObj(u, k)
  /\ Only

\* mag_summons: a new mobile has the contents of the corpse it is made from.
Animate(k, mob) ==
  /\ k \in At.held[Here] /\ Kind[k] = "corpse" /\ mob \notin present
  /\ LET O == At.held[k]
     IN things' = ExtractObj(ObjToChar(ObjFromObj(things, O, k), O, mob), k)
  /\ present' = present \union {mob}
  /\ UNCHANGED <<liquid, adrift>>

-----------------------------------------------------------------------------
(* Objects come and go: reset_zone's commands, the gods' *)

Prototyped(o) == o \notin At.listed /\ Kind[o] \notin {"coins", "corpse"}
Contents(o) == IF Kind[o] \in {"flask", "fountain"} THEN Full ELSE 0

\* read_object
Read(s, o) == Created(s, o, EmptyWeight[o] + Contents(o))
Filled(o) == liquid' = [liquid EXCEPT ![o] = Contents(o)] /\ UNCHANGED present

\* `O', into a room or nowhere.
LoadToRoom(o, r) ==
  /\ Prototyped(o)
  /\ IF r = Null THEN things' = Read(things, o) /\ adrift' = adrift \union {o}
     ELSE things' = ObjToRoom(Read(things, o), {o}, r) /\ UNCHANGED adrift
  /\ Filled(o)

\* `P', into the first object there is of a kind, which may be the new one, or none.
LoadInto(o, b) ==
  /\ Prototyped(o) /\ b \in At.listed \union {o, Null}
  /\ IF b \in {o, Null} THEN things' = Read(things, o) /\ adrift' = adrift \union {o}
     ELSE Kind[b] = "bag" /\ things' = ObjToObj(Read(things, o), {o}, b) /\ UNCHANGED adrift
  /\ Filled(o)

\* `G'; what is loaded by a god, made by a spell or handed over by a postmaster.
LoadToChar(o, c) ==
  /\ Prototyped(o) /\ c \in present /\ Kind[o] # "fountain"
  /\ things' = ObjToChar(Read(things, o), {o}, c)
  /\ UNCHANGED adrift /\ Filled(o)

\* `E'; equip_char refuses where something is worn already.
LoadWorn(o, c) ==
  /\ Prototyped(o) /\ c \in present /\ CanWear(o)
  /\ \/ /\ \E zapped \in BOOLEAN : things' = EquipChar(Read(things, o), o, c, zapped)
        /\ UNCHANGED adrift
     \/ At.worn[c] # {} /\ things' = Read(things, o) /\ adrift' = adrift \union {o}
  /\ Filled(o)

\* `R', do_purge and the dump: something in a room is destroyed.
Destroy(o) ==
  /\ \E r \in Rooms : o \in At.held[r]
  /\ things' = ExtractObj(things, o)
  /\ Only

\* update_objects, after a prototype was edited: an object has its prototype's
\* weight and contents again, as if nobody had it and it had nothing in it: `edit'.
Edit(o) ==
  /\ o \in At.listed /\ Kind[o] \notin {"coins", "corpse"}
  /\ (At.in_room[o] # Null /\ At.held[o] = {}) \/ "edit" \in May
  /\ things' = [at |-> At, mass |-> [Mass EXCEPT !.weight[o] = EmptyWeight[o] + Contents(o)]]
  /\ Filled(o) /\ UNCHANGED adrift

Init ==
  /\ things = [at |-> [listed |-> {}, held |-> [h \in Holders |-> {}],
                       worn |-> [c \in Chars |-> {}],
                       in_room |-> [o \in Objs |-> Null], carried_by |-> [o \in Objs |-> Null],
                       worn_by |-> [o \in Objs |-> Null], in_obj |-> [o \in Objs |-> Null]],
               mass |-> [weight |-> [o \in Objs |-> 0], load |-> [c \in Chars |-> 0],
                         items |-> [c \in Chars |-> 0]]]
  /\ liquid = [o \in Objs |-> 0]
  /\ present = {} /\ adrift = {}

Next ==
  \/ \E c \in Chars : Enter(c) \/ Leave(c)
  \/ \E c \in Chars, o \in Objs :
       \/ Get(c, o, TRUE) \/ Get(c, o, FALSE)
       \/ UseUp(c, o) \/ DropGold(c, o) \/ Wear(c, o) \/ Remove(c, o)
       \/ Die(c, o) \/ Animate(o, c) \/ LoadToChar(o, c) \/ LoadWorn(o, c)
       \/ \E r \in Rooms : Drop(c, o, r)
       \/ \E v \in Chars : Give(c, o, v) \/ StealWorn(c, o, v)
       \/ \E b \in Objs : GetFrom(c, o, b) \/ Put(c, o, b) \/ Pour(c, o, b)
       \/ \E n \in 1..Full : Drink(c, o, n)
  \/ \E o \in Objs :
       \/ Decay(o) \/ Destroy(o) \/ Edit(o)
       \/ \E r \in Rooms \union {Null} : LoadToRoom(o, r)
       \/ \E b \in Objs \union {Null} : LoadInto(o, b)

Spec == Init /\ [][Next]_vars

-----------------------------------------------------------------------------
(* Properties *)

\* The range of every variable; no object weighs less than nothing.
TypeOK ==
  /\ At \in [listed : SUBSET Objs, held : [Holders -> SUBSET Objs], worn : [Chars -> SUBSET Objs],
            in_room : [Objs -> Rooms \union {Null}], carried_by : [Objs -> Chars \union {Null}],
            worn_by : [Objs -> Chars \union {Null}], in_obj : [Objs -> Objs \union {Null}]]
  /\ Mass \in [weight : [Objs -> Nat], load : [Chars -> Nat], items : [Chars -> Nat]]
  /\ liquid \in [Objs -> 0..Full]
  /\ present \subseteq Chars /\ adrift \subseteq Objs

\* Each list has what points back to it.
LinksAgree(at) ==
  \A o \in Objs :
    /\ \A r \in Rooms : o \in at.held[r] <=> at.in_room[o] = r
    /\ \A c \in Chars : /\ o \in at.held[c] <=> at.carried_by[o] = c
                        /\ o \in at.worn[c] <=> at.worn_by[o] = c
    /\ \A b \in Objs : o \in at.held[b] <=> at.in_obj[o] = b

Nowhere(at) ==
  {o \in Objs : at.in_room[o] = Null /\ at.carried_by[o] = Null
                 /\ at.worn_by[o] = Null /\ at.in_obj[o] = Null}

\* No object is in two places.
OnePlace(at) ==
  \A o \in Objs :
    /\ at.in_room[o] # Null => at.carried_by[o] = Null /\ at.worn_by[o] = Null /\ at.in_obj[o] = Null
    /\ at.carried_by[o] # Null => at.worn_by[o] = Null /\ at.in_obj[o] = Null
    /\ at.worn_by[o] # Null => at.in_obj[o] = Null

\* Nothing is within itself, however deep: the walk from an object to what it is in
\* ends, and so do the recursions over contents.
NoCycle(at) ==
  \A S \in SUBSET Objs : (\A o \in S : at.in_obj[o] \in S) => S = {}

\* What does not exist is nowhere and has nothing in it.
OnlyListed(at) ==
  \A o \in Objs \ at.listed : o \in Nowhere(at) /\ at.held[o] = {}

\* Every object there is lies in just one place, from which its pointer and a list
\* lead to each other, unless a zone's reset left it without one; nothing is within
\* itself; nobody who has left the world has anything.
PlacedOnce ==
  /\ LinksAgree(At) /\ OnePlace(At) /\ NoCycle(At) /\ OnlyListed(At)
  /\ Nowhere(At) \intersect At.listed = adrift
  /\ \A c \in Chars \ present : At.held[c] = {} /\ At.worn[c] = {}

\* An object weighs what it is by itself and what is in it, to any depth and after
\* any number of moves; a character's load and number of items are those of the
\* things in hand.
WeightsAddUp ==
  /\ \A o \in At.listed :
       Mass.weight[o] = EmptyWeight[o] + liquid[o] + Weight(things, At.held[o])
  /\ \A c \in Chars : /\ Mass.load[c] = Weight(things, At.held[c])
                      /\ Mass.items[c] = Cardinality(At.held[c])
=============================================================================

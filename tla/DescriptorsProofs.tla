-------------------------- MODULE DescriptorsProofs --------------------------
(***************************************************************************)
(* What Descriptors promises for any number of connections: the pointers   *)
(* between them and the bodies, and the stay of the player.                *)
(***************************************************************************)
EXTENDS Descriptors, TLAPS, WellFoundedInduction, FiniteSetTheorems

-----------------------------------------------------------------------------
(* The inductive invariant *)

States == {"none", "gone", "name", "password", "menu", "playing", "building", "close",
           "disconnect"}
Phases == {"input", "commands", "sweep", "heartbeat", "autosave", "extract"}
Conn == [state : States, char : Bodies \union {NoBody}, orig : Players \union {NoBody}]
Body == [alloc : BOOLEAN, listed : BOOLEAN, pending : BOOLEAN, desc : Conns \union {NoConn},
         idle : 0..2, dirty : BOOLEAN, rec : 0..MaxRec, stuff : Nat]
Disk == [rec : 0..MaxRec, code : {"none", "crash", "rented"}, stuff : Nat]

Types ==
  /\ phase \in Phases /\ turn \in 0..Last /\ accepted \in 0..Last
  /\ conn \in [Conns -> Conn] /\ body \in [Bodies -> Body]
  /\ disk \in Disk /\ floor \in Nat /\ newest \in 0..MaxRec

Present == Listed \cap Players

\* What a descriptor's state says of its pointers, and of what they point to.
ConnSound(d) ==
  LET s == conn[d].state
      c == conn[d].char
      o == conn[d].orig
  IN /\ d > accepted => s = "none"
     /\ s \in {"none", "name"} => ~body[d].alloc
     /\ s \in {"none", "gone", "name"} => c = NoBody
     /\ s = "password" => c = d
     /\ s = "menu" => c # NoBody
     /\ s \in {"password", "menu", "close"} /\ c # NoBody => c \in Players /\ ~body[c].listed
     /\ s \in {"playing", "building"} => c # NoBody /\ body[c].listed
     /\ s = "building" => c # Mob
     /\ s = "disconnect" /\ c # NoBody =>
          body[c].listed /\ phase \in {"commands", "sweep"}
     /\ o # NoBody <=> c = Mob
     /\ o # NoBody => s \in {"playing", "disconnect"} /\ body[o].listed /\ body[o].desc = NoConn

\* Who is marked for extraction is in the world, and gone before the next pass.
BodySound(c) == body[c].pending => body[c].listed /\ phase # "input"

\* A player has one body in the world at most, and while they are at the menu none.
OnePlayer ==
  /\ \A b, c \in Present : b = c
  /\ \A d \in Conns : conn[d].state = "menu" =>
       Present = {} /\ \A k \in Conns \ {d} : conn[k].state # "menu"

Links ==
  /\ Types
  /\ PointersSound
  /\ \A d \in Conns : ConnSound(d)
  /\ \A c \in Bodies : BodySound(c)
  /\ OnePlayer

\* Where belongings are, and which file can be there with somebody present.
Belongings ==
  /\ \A c \in Bodies \ Present : body[c].stuff = 0
  /\ Present = {} => disk.code # "crash"
  /\ disk.code = "none" => disk.stuff = 0
  /\ disk.code = "rented" => \A c \in Present :
       /\ body[c].pending /\ body[c].stuff = 0
       /\ phase = "commands" => \A d \in Conns : Bound(d, c) => turn < d
  /\ \A c \in Present : body[c].stuff + floor + InRentFile = 1
  /\ Present = {} => floor + InRentFile = 1

\* Whoever comes in has the newest record, from the file or as the login has read it.
Current ==
  /\ disk.rec = newest
  /\ \A d \in Conns : conn[d].state \in {"password", "menu"} =>
       body[conn[d].char].rec = newest

\* Somebody is at c who will go to the menu when c is extracted, with c's record saved.
Driven(c) == \E d \in Conns : Bound(d, c) /\ ~Marked(d)

Records ==
  /\ disk.rec <= newest /\ \A c \in Bodies : body[c].rec <= newest
  /\ \A c \in Present : body[c].rec = newest
  /\ Present = {} => Current
  /\ \A c \in Present : body[c].pending => Current \/ Driven(c)

-----------------------------------------------------------------------------
(* The pointers *)

LEMMA Numbered ==
  /\ Last \in Nat /\ MaxRec \in Nat
  /\ Players = Conns /\ Mob \in Bodies /\ Mob \notin Players
  /\ Players \subseteq Bodies /\ NoBody \notin Bodies /\ NoConn \notin Conns
  /\ \A c \in Bodies : c \in Players <=> c # Mob
  /\ NoBody # Mob
BY DescriptorsAssumption DEF Players, Bodies, Conns, Mob, NoBody, NoConn

\* What states other than one's own can become without a pointer moving.
Restated(d) ==
  LET s == conn[d].state
      t == conn'[d].state
  IN \/ t = s
     \/ s \in {"name", "password", "menu"} /\ t = "close"
     \/ s = "playing" /\ t = "disconnect" /\ phase' = "commands"
     \/ s = "playing" /\ t = "building" /\ conn[d].orig = NoBody
     \/ s = "building" /\ t = "playing"

\* Most steps move no pointer, and put nobody into the world or out of it.
LEMMA RestatedKeepsLinks ==
  ASSUME Links, Types', accepted' = accepted,
         \A d \in Conns : /\ conn'[d].char = conn[d].char /\ conn'[d].orig = conn[d].orig
                          /\ Restated(d),
         \A c \in Bodies : /\ body'[c].alloc = body[c].alloc
                           /\ body'[c].listed = body[c].listed
                           /\ body'[c].desc = body[c].desc
                           /\ body'[c].pending => body[c].listed /\ phase' # "input",
         phase' = phase \/ phase' = "sweep" \/ \A d \in Conns : conn[d].state = "disconnect" => conn[d].char = NoBody
  PROVE  Links'
<1> USE Numbered
<1>1. /\ Types /\ PointersSound /\ OnePlayer
      /\ \A d \in Conns : ConnSound(d)
  BY DEF Links
<1>2. Listed' = Listed /\ Present' = Present
  BY DEF Listed, Present
<1>3. \A d \in Conns : conn[d].char \in Bodies \union {NoBody}
                       /\ conn[d].orig \in Players \union {NoBody}
  BY <1>1 DEF Types, Conn
<1>4. PointersSound'
  BY <1>1, <1>2, <1>3 DEF PointersSound, NothingFreedInUse, LinksAgree, Listed
<1>5. ASSUME NEW d \in Conns PROVE ConnSound(d)'
  <2>1. ConnSound(d) /\ Restated(d) /\ conn'[d].char = conn[d].char
        /\ conn'[d].orig = conn[d].orig
    BY <1>1
  <2>2. d \in Bodies /\ body'[d].alloc = body[d].alloc
    OBVIOUS
  <2>3. conn[d].char # NoBody => body'[conn[d].char].listed = body[conn[d].char].listed
    BY <1>3
  <2>4. conn[d].orig # NoBody => /\ body'[conn[d].orig].listed = body[conn[d].orig].listed
                                 /\ body'[conn[d].orig].desc = body[conn[d].orig].desc
    BY <1>3
  <2> QED
    BY <2>1, <2>2, <2>3, <2>4 DEF ConnSound, Restated
<1>6. \A c \in Bodies : BodySound(c)'
  BY DEF BodySound
<1>7. OnePlayer'
  <2>1. \A d \in Conns : conn'[d].state = "menu" => conn[d].state = "menu"
    BY DEF Restated
  <2> QED
    BY <1>1, <1>2, <2>1 DEF OnePlayer
<1> QED
  BY <1>4, <1>5, <1>6, <1>7 DEF Links

\* A body that has only been called back from the void.
Roused(b, c) ==
  /\ b[c].alloc = body[c].alloc /\ b[c].listed = body[c].listed
  /\ b[c].pending = body[c].pending /\ b[c].desc = body[c].desc
  /\ b[c].rec = body[c].rec /\ b[c].stuff = body[c].stuff

LEMMA AwakeIs ==
  ASSUME Types, NEW d \in Conns
  PROVE  Awake(d) \in [Bodies -> Body] /\ \A c \in Bodies : Roused(Awake(d), c)
<1> DEFINE c == conn[d].char
           n == IF conn[d].state # "playing" /\ body[c].idle = 2 THEN 2 ELSE 0
<1>1. n \in 0..2 /\ body \in [Bodies -> Body]
  BY DEF Types
<1>2. Awake(d) = [body EXCEPT ![c] = [@ EXCEPT !.idle = n]]
  BY DEF Awake
<1> HIDE DEF n, c
<1>3. Awake(d) = [x \in Bodies |-> IF x = c THEN [body[x] EXCEPT !.idle = n] ELSE body[x]]
  BY <1>1, <1>2
<1>4. ASSUME NEW x \in Bodies
      PROVE  [body[x] EXCEPT !.idle = n] \in Body /\ body[x] \in Body
  BY <1>1 DEF Body
<1>5. Awake(d) \in [Bodies -> Body]
  BY <1>3, <1>4
<1>6. ASSUME NEW x \in Bodies PROVE Roused(Awake(d), x)
  BY <1>3, <1>4 DEF Roused, Body
<1> QED
  BY <1>5, <1>6

\* Who plays has a body, in the world, which knows them.
LEMMA DriverIs ==
  ASSUME Links, NEW d \in Conns, conn[d].state \in {"playing", "building"}, conn[d].orig = NoBody
  PROVE  /\ conn[d].char \in Players /\ conn[d].char \in Bodies
         /\ body[conn[d].char].listed /\ body[conn[d].char].alloc
         /\ body[conn[d].char].desc = d
<1> USE Numbered
<1>1. /\ ConnSound(d) /\ PointersSound
      /\ conn[d].char \in Bodies \union {NoBody}
  BY DEF Links, Types, Conn
<1>2. conn[d].char \in Players /\ body[conn[d].char].listed
  BY <1>1 DEF ConnSound
<1>3. body[conn[d].char].alloc
  BY <1>1, <1>2 DEF PointersSound, NothingFreedInUse
<1> QED
  BY <1>1, <1>2, <1>3 DEF PointersSound, LinksAgree

\* The record that is saved is of a body's.
LEMMA SavedRecordIs ==
  ASSUME NEW b \in [Bodies -> Body], NEW c \in Bodies, NEW dsk \in Disk
  PROVE  LET t == SavedRecord(c, b, dsk)
         IN /\ t \in Disk /\ t.code = dsk.code /\ t.stuff = dsk.stuff
            /\ t.rec = IF c = Mob \/ b[c].desc = NoConn THEN dsk.rec ELSE b[c].rec
<1>1. b[c] \in Body
  OBVIOUS
<1> QED
  BY <1>1 DEF SavedRecord, Disk, Body

LEMMA SilentLinks ==
  ASSUME Links, NEW d \in Conns, Silent(d)
  PROVE  Links'
<1> USE Numbered
<1>1. /\ Types /\ turn = d /\ turn' = d - 1 /\ phase = "commands"
      /\ UNCHANGED <<phase, accepted, conn, body, disk, floor, newest>>
  BY DEF Links, Silent, Turn, world
<1>2. Types'
  BY <1>1 DEF Types, Conns
<1> QED
  BY <1>1, <1>2, RestatedKeepsLinks DEF Restated, Links, BodySound

\* nanny's dead ends, and the login that takes too long.
LEMMA LoginLinks ==
  ASSUME Links, NEW d \in Conns, WrongPassword(d) \/ Goodbye(d) \/ PasswordTimeout(d)
  PROVE  Links'
<1> USE Numbered
<1>1. /\ Types /\ phase' = phase /\ accepted' = accepted /\ turn' \in 0..Last
      /\ UNCHANGED <<body, floor, newest>>
      /\ phase # "input"
      /\ \E s \in {"password", "close"} : conn' = [conn EXCEPT ![d].state = s]
      /\ conn[d].state \in {"name", "password", "menu"}
      /\ conn'[d].state \in {conn[d].state, "close"}
  BY DEF Links, Types, WrongPassword, Goodbye, PasswordTimeout, Turn, world, Conns, Conn
<1>2. disk' \in Disk
  <2>1. CASE WrongPassword(d)
    <3>1. conn[d].char \in Bodies /\ disk' = SavedRecord(conn[d].char, body, disk)
      BY <2>1 DEF Links, ConnSound, WrongPassword
    <3> QED
      BY <1>1, <3>1, SavedRecordIs DEF Types
  <2>2. CASE Goodbye(d) \/ PasswordTimeout(d)
    BY <1>1, <2>2 DEF Goodbye, PasswordTimeout, Types
  <2> QED
    BY <2>1, <2>2
<1>3. conn' \in [Conns -> Conn]
  BY <1>1 DEF Types, Conn, States
<1>4. Types'
  BY <1>1, <1>2, <1>3 DEF Types
<1>5. \A k \in Conns : /\ conn'[k].char = conn[k].char /\ conn'[k].orig = conn[k].orig
                       /\ Restated(k)
  BY <1>1 DEF Types, Conn, Restated
<1>6. \A c \in Bodies : body[c].pending => body[c].listed
  BY DEF Links, BodySound
<1> QED
  BY <1>1, <1>4, <1>5, <1>6, RestatedKeepsLinks

LEMMA DcLinks ==
  ASSUME "dcBuilder" \notin May, Links, NEW d \in Conns, Dc(d)
  PROVE  Links'
<1> USE Numbered
<1>1. /\ Types /\ phase' = phase /\ phase = "commands"
      /\ UNCHANGED <<turn, accepted, body, disk, floor, newest>>
      /\ conn[d].state \in {"name", "password", "menu", "playing"}
      /\ conn' = [conn EXCEPT ![d].state =
                    IF conn[d].state = "playing" THEN "disconnect" ELSE "close"]
  BY DEF Links, Types, Dc, Open, Marked, world, Conn, States
<1>2. Types'
  BY <1>1 DEF Types, Conn, States
<1>3. \A k \in Conns : /\ conn'[k].char = conn[k].char /\ conn'[k].orig = conn[k].orig
                       /\ Restated(k)
  BY <1>1 DEF Types, Conn, Restated
<1>4. \A c \in Bodies : body[c].pending => body[c].listed
  BY DEF Links, BodySound
<1> QED
  BY <1>1, <1>2, <1>3, <1>4, RestatedKeepsLinks

\* The commands of somebody who plays, and what becomes of their body and file.
LEMMA PlayerLinks ==
  ASSUME Links, NEW d \in Conns,
         Play(d) \/ Drop(d) \/ Get(d) \/ Quit(d) \/ Save(d) \/ Build(d) \/ FinishBuilding(d)
  PROVE  Links'
<1> USE Numbered
<1> DEFINE c == conn[d].char
<1>1. /\ Types /\ phase' = phase /\ phase = "commands" /\ turn' \in 0..Last
      /\ accepted' = accepted /\ conn[d].state \in {"playing", "building"}
      /\ conn[d].orig = NoBody
  <2>1. Types /\ ConnSound(d) /\ d - 1 \in 0..Last
    BY DEF Links, Conns
  <2>2. /\ phase' = phase /\ phase = "commands" /\ turn' = d - 1 /\ accepted' = accepted
        /\ Driving(d) \/ conn[d].state = "building"
    BY DEF Play, Drop, Get, Quit, Save, Build, FinishBuilding, Turn
  <2> QED
    BY <2>1, <2>2 DEF ConnSound, Driving
<1>2. /\ c \in Players /\ c \in Bodies /\ body[c].listed
  BY <1>1, DriverIs
<1>3. Awake(d) \in [Bodies -> Body] /\ \A x \in Bodies : Roused(Awake(d), x)
  BY <1>1, AwakeIs
<1>4. /\ body \in [Bodies -> Body] /\ disk \in Disk /\ conn \in [Conns -> Conn]
      /\ floor \in Nat /\ newest \in 0..MaxRec
  BY <1>1 DEF Types
<1> DEFINE Alike(b) ==
             /\ b \in [Bodies -> Body]
             /\ \A x \in Bodies : /\ b[x].alloc = body[x].alloc
                                  /\ b[x].listed = body[x].listed
                                  /\ b[x].desc = body[x].desc
                                  /\ b[x].pending => body[x].pending \/ x = c
<1>5. /\ Alike(body') /\ disk' \in Disk /\ floor' \in Nat /\ newest' \in 0..MaxRec
      /\ conn' \in [Conns -> Conn]
      /\ \A k \in Conns : /\ conn'[k].char = conn[k].char /\ conn'[k].orig = conn[k].orig
                          /\ Restated(k)
  <2> HIDE DEF c
  <2>1. ASSUME conn' = conn
        PROVE  /\ conn' \in [Conns -> Conn]
               /\ \A k \in Conns : /\ conn'[k].char = conn[k].char
                                   /\ conn'[k].orig = conn[k].orig /\ Restated(k)
    BY <1>4, <2>1 DEF Restated
  <2>2. ASSUME NEW s \in {"playing", "building"}, conn' = [conn EXCEPT ![d].state = s]
        PROVE  /\ conn' \in [Conns -> Conn]
               /\ \A k \in Conns : /\ conn'[k].char = conn[k].char
                                   /\ conn'[k].orig = conn[k].orig /\ Restated(k)
    BY <1>1, <1>4, <2>2 DEF Restated, Conn, States
  <2>3. CASE Play(d)
    <3>1. /\ body' = [Awake(d) EXCEPT ![c].rec = newest + 1] /\ newest' = newest + 1
          /\ newest < MaxRec /\ UNCHANGED <<conn, disk, floor>>
      BY <2>3 DEF Play, c
    <3>2. newest + 1 \in 0..MaxRec
      BY <1>4, <3>1
    <3>3. Alike(body')
      BY <1>2, <1>3, <3>1, <3>2 DEF Body, Roused
    <3> QED
      BY <1>4, <2>1, <3>1, <3>2, <3>3
  <2>4. CASE Drop(d)
    <3>1. /\ body' = [Awake(d) EXCEPT ![c].stuff = @ - 1, ![c].dirty = TRUE]
          /\ floor' = floor + 1 /\ body[c].stuff > 0 /\ UNCHANGED <<conn, disk, newest>>
      BY <2>4 DEF Drop, c
    <3>2. Awake(d)[c].stuff - 1 \in Nat
      BY <1>2, <1>3, <1>4, <3>1 DEF Body, Roused
    <3>3. body' \in [Bodies -> Body]
      <4> DEFINE r == [Awake(d)[c] EXCEPT !.stuff = @ - 1, !.dirty = TRUE]
      <4>1. r \in Body
        BY <1>2, <1>3, <3>2 DEF Body
      <4>2. body' = [Awake(d) EXCEPT ![c] = r]
        BY <1>2, <1>3, <3>1 DEF Body
      <4> HIDE DEF r
      <4> QED
        BY <1>3, <4>1, <4>2
    <3>4. Alike(body')
      BY <1>2, <1>3, <3>1, <3>3 DEF Roused
    <3> QED
      BY <1>4, <2>1, <3>1, <3>4
  <2>5. CASE Get(d)
    <3>1. /\ body' = [Awake(d) EXCEPT ![c].stuff = @ + 1, ![c].dirty = TRUE]
          /\ floor' = floor - 1 /\ floor > 0 /\ UNCHANGED <<conn, disk, newest>>
      BY <2>5 DEF Get, c
    <3>2. Awake(d)[c].stuff + 1 \in Nat /\ floor' \in Nat
      BY <1>2, <1>3, <1>4, <3>1 DEF Body
    <3>3. body' \in [Bodies -> Body]
      <4> DEFINE r == [Awake(d)[c] EXCEPT !.stuff = @ + 1, !.dirty = TRUE]
      <4>1. r \in Body
        BY <1>2, <1>3, <3>2 DEF Body
      <4>2. body' = [Awake(d) EXCEPT ![c] = r]
        BY <1>2, <1>3, <3>1 DEF Body
      <4> HIDE DEF r
      <4> QED
        BY <1>3, <4>1, <4>2
    <3>4. Alike(body')
      BY <1>2, <1>3, <3>1, <3>3 DEF Roused
    <3> QED
      BY <1>4, <2>1, <3>1, <3>2, <3>4
  <2>6. CASE Quit(d)
    <3>1. /\ disk' = Stored(c, "rented", disk)
          /\ body' = [body EXCEPT ![c] = [Emptied(c) EXCEPT !.pending = TRUE, !.idle = 0]]
          /\ UNCHANGED <<conn, floor, newest>>
      BY <2>6 DEF Quit, c, world
    <3>2. disk' \in Disk
      BY <1>2, <1>4, <3>1 DEF Stored, Disk, Body
    <3>3. body' \in [Bodies -> Body]
      <4> DEFINE r == [Emptied(c) EXCEPT !.pending = TRUE, !.idle = 0]
      <4>1. body[c] \in Body
        BY <1>2, <1>4
      <4>2. Emptied(c) \in Body
        BY <4>1 DEF Emptied, Body
      <4>3. r \in Body
        <5> DEFINE e == Emptied(c)
        <5>1. e \in Body /\ r = [e EXCEPT !.pending = TRUE, !.idle = 0]
          BY <4>2
        <5> HIDE DEF e, r
        <5>2. r.idle \in 0..2 /\ r.pending \in BOOLEAN
          BY <5>1 DEF Body
        <5> QED
          BY <5>1, <5>2 DEF Body
      <4>4. body' = [body EXCEPT ![c] = r]
        BY <3>1
      <4> HIDE DEF r
      <4> QED
        BY <1>4, <4>3, <4>4
    <3>4. Alike(body')
      BY <1>2, <1>4, <3>1, <3>3 DEF Emptied
    <3> QED
      BY <1>4, <2>1, <3>1, <3>2, <3>4
  <2>7. CASE Save(d)
    <3>1. /\ disk' = CrashSaved(c, body, SavedRecord(c, body, disk))
          /\ body' = [Awake(d) EXCEPT ![c].dirty = FALSE]
          /\ UNCHANGED <<conn, floor, newest>>
      BY <2>7 DEF Save, c, world
    <3>2. SavedRecord(c, body, disk) \in Disk
      BY <1>1, <1>2, <1>4, SavedRecordIs
    <3>3. disk' \in Disk
      BY <1>2, <1>4, <3>1, <3>2 DEF CrashSaved, Disk, Body
    <3>4. body' \in [Bodies -> Body]
      BY <1>2, <1>3, <3>1, ZenonT(30) DEF Body
    <3>5. Alike(body')
      BY <1>2, <1>3, <3>1, <3>4 DEF Roused
    <3> QED
      BY <1>4, <2>1, <3>1, <3>3, <3>5
  <2>8. CASE Build(d) \/ FinishBuilding(d)
    <3>1. body' = Awake(d) /\ UNCHANGED <<disk, floor, newest>>
          /\ \E s \in {"playing", "building"} : conn' = [conn EXCEPT ![d].state = s]
      BY <2>8 DEF Build, FinishBuilding, world
    <3>2. Alike(body')
      BY <1>3, <3>1 DEF Roused
    <3> QED
      BY <1>4, <2>2, <3>1, <3>2
  <2> QED
    BY <2>3, <2>4, <2>5, <2>6, <2>7, <2>8
<1>6. Types'
  BY <1>1, <1>5 DEF Types
<1>7. \A x \in Bodies : body'[x].pending => body[x].listed /\ phase' # "input"
  BY <1>1, <1>2, <1>5 DEF Links, BodySound
<1> HIDE DEF c
<1> QED
  BY <1>1, <1>5, <1>6, <1>7, RestatedKeepsLinks

LEMMA AdvanceLinks ==
  ASSUME Links, Advance
  PROVE  Links'
<1> USE Numbered
<1>1. Types /\ UNCHANGED <<accepted, conn, body, disk, floor, newest>>
  BY DEF Links, Advance, world
<1>2. phase' \in Phases /\ turn' \in 0..Last
  BY <1>1 DEF Types, Phases, Advance
<1>3. Types'
  BY <1>1, <1>2 DEF Types
<1>4. \A c \in Bodies : body[c].pending => body[c].listed /\ phase' # "input"
  BY DEF Links, BodySound, Advance, Listed
<1>5. phase' = phase \/ phase' = "sweep"
      \/ \A d \in Conns : conn[d].state = "disconnect" => conn[d].char = NoBody
  <2>1. ASSUME phase \notin {"commands", "sweep"}, NEW d \in Conns, conn[d].state = "disconnect"
        PROVE  conn[d].char = NoBody
    <3>1. ConnSound(d)
      BY DEF Links
    <3> QED
      BY <2>1, <3>1 DEF ConnSound
  <2>2. ASSUME phase = "sweep", NEW d \in Conns, conn[d].state = "disconnect"
        PROVE  phase' = phase
    BY <2>2 DEF Advance, Marked
  <2> QED
    BY <2>1, <2>2 DEF Advance
<1> QED
  BY <1>1, <1>3, <1>4, <1>5, RestatedKeepsLinks DEF Restated

LEMMA AutosaveLinks ==
  ASSUME Links, NEW d \in Conns, Autosave(d)
  PROVE  Links'
<1> USE Numbered
<1> DEFINE c == conn[d].char
<1>1. /\ Types /\ body \in [Bodies -> Body] /\ disk \in Disk /\ c \in Bodies
      /\ UNCHANGED <<phase, turn, accepted, conn, floor, newest>>
      /\ disk' = CrashSaved(c, body, SavedRecord(c, body, disk))
      /\ body' = [body EXCEPT ![c].dirty = FALSE]
  BY DEF Links, Types, Autosave, world
<1> HIDE DEF c
<1>2. disk' \in Disk
  <2>1. SavedRecord(c, body, disk) \in Disk
    BY <1>1, SavedRecordIs
  <2> QED
    BY <1>1, <2>1 DEF CrashSaved, Disk, Body
<1>3. body' \in [Bodies -> Body]
  BY <1>1, ZenonT(30) DEF Body
<1>4. Types'
  BY <1>1, <1>2, <1>3 DEF Types
<1>5. \A x \in Bodies : /\ body'[x].alloc = body[x].alloc /\ body'[x].listed = body[x].listed
                        /\ body'[x].desc = body[x].desc /\ body'[x].pending = body[x].pending
  BY <1>1 DEF Body
<1>6. \A x \in Bodies : body[x].pending => body[x].listed /\ phase' # "input"
  BY <1>1 DEF Links, BodySound
<1> QED
  BY <1>1, <1>4, <1>5, <1>6, RestatedKeepsLinks DEF Restated

LEMMA DieLinks ==
  ASSUME Links, NEW c \in Bodies, Die(c)
  PROVE  Links'
<1> USE Numbered
<1>1. PICK corpse \in {body[c].stuff, 0} :
        /\ floor' = floor + corpse
        /\ body' = [body EXCEPT ![c].pending = TRUE, ![c].stuff = @ - corpse,
                               ![c].dirty = @ \/ corpse > 0]
  BY DEF Die
<1>2. /\ Types /\ body \in [Bodies -> Body] /\ floor \in Nat /\ body[c] \in Body
      /\ UNCHANGED <<phase, turn, accepted, conn, disk, newest>>
      /\ body[c].listed /\ phase # "input"
  BY DEF Links, Types, Die, Listed
<1>3. corpse \in Nat /\ body[c].stuff - corpse \in Nat
  BY <1>1, <1>2 DEF Body
<1> DEFINE r == [body[c] EXCEPT !.pending = TRUE, !.stuff = @ - corpse,
                                !.dirty = @ \/ corpse > 0]
<1>4. /\ r \in Body
      /\ r.alloc = body[c].alloc /\ r.listed = body[c].listed /\ r.desc = body[c].desc
  BY <1>2, <1>3 DEF Body
<1>5. body' = [body EXCEPT ![c] = r]
  BY <1>1, <1>2 DEF Body
<1> HIDE DEF r
<1>6. Types'
  <2>1. body' \in [Bodies -> Body]
    BY <1>2, <1>4, <1>5
  <2>2. floor' \in Nat
    BY <1>1, <1>2, <1>3
  <2> QED
    BY <1>2, <2>1, <2>2 DEF Types
<1>7. \A x \in Bodies : /\ body'[x].alloc = body[x].alloc /\ body'[x].listed = body[x].listed
                        /\ body'[x].desc = body[x].desc
                        /\ body'[x].pending => body[x].pending \/ x = c
  BY <1>2, <1>4, <1>5
<1>8. \A x \in Bodies : body[x].pending => body[x].listed
  BY DEF Links, BodySound
<1> QED
  BY <1>2, <1>6, <1>7, <1>8, RestatedKeepsLinks DEF Restated

\* check_idling, but for its last step.
LEMMA IdlingLinks ==
  ASSUME Links, NEW c \in Bodies, Idle(c), body[c].idle # 2
  PROVE  Links'
<1> USE Numbered
<1>1. /\ Types /\ body \in [Bodies -> Body] /\ disk \in Disk /\ body[c] \in Body
      /\ UNCHANGED <<phase, turn, accepted, floor, newest>> /\ body[c].idle \in 0..2
  BY DEF Links, Types, Idle, Listed, world, Body
<1>2. CASE body[c].idle = 0
  <2>1. body' = [body EXCEPT ![c].idle = 1] /\ UNCHANGED <<conn, disk>>
    BY <1>2 DEF Idle
  <2>2. body' \in [Bodies -> Body]
    BY <1>1, <2>1 DEF Body
  <2>3. Types'
    BY <1>1, <2>1, <2>2 DEF Types
  <2>4. \A x \in Bodies : /\ body'[x].alloc = body[x].alloc /\ body'[x].listed = body[x].listed
                          /\ body'[x].desc = body[x].desc /\ body'[x].pending = body[x].pending
    BY <1>1, <2>1 DEF Body
  <2>5. \A x \in Bodies : body[x].pending => body[x].listed /\ phase' # "input"
    BY <1>1 DEF Links, BodySound
  <2> QED
    BY <1>1, <2>1, <2>3, <2>4, <2>5, RestatedKeepsLinks DEF Restated
<1>3. CASE body[c].idle = 1
  <2>1. /\ body' = [body EXCEPT ![c].idle = 2, ![c].dirty = FALSE] /\ UNCHANGED conn
        /\ disk' = CrashSaved(c, body, SavedRecord(c, body, disk))
    BY <1>3 DEF Idle
  <2> DEFINE r == [body[c] EXCEPT !.idle = 2, !.dirty = FALSE]
  <2>2. /\ r.alloc = body[c].alloc /\ r.listed = body[c].listed /\ r.desc = body[c].desc
        /\ r.pending = body[c].pending /\ r.idle = 2
    BY <1>1 DEF Body
  <2>3. r \in Body
    <3>1. r.idle \in 0..2 /\ r.dirty \in BOOLEAN
      BY <1>1, <2>2 DEF Body
    <3> QED
      BY <1>1, <3>1 DEF Body
  <2>4. body' = [body EXCEPT ![c] = r]
    BY <1>1, <2>1 DEF Body
  <2> HIDE DEF r
  <2>5. disk' \in Disk
    <3>1. SavedRecord(c, body, disk) \in Disk
      BY <1>1, SavedRecordIs
    <3> QED
      BY <1>1, <2>1, <3>1 DEF CrashSaved, Disk, Body
  <2>6. body' \in [Bodies -> Body]
    BY <1>1, <2>4, <2>3
  <2>7. Types'
    BY <1>1, <2>1, <2>5, <2>6 DEF Types
  <2>8. \A x \in Bodies : /\ body'[x].alloc = body[x].alloc /\ body'[x].listed = body[x].listed
                          /\ body'[x].desc = body[x].desc /\ body'[x].pending = body[x].pending
    BY <1>1, <2>2, <2>4
  <2>9. \A x \in Bodies : body[x].pending => body[x].listed /\ phase' # "input"
    BY <1>1 DEF Links, BodySound
  <2> QED
    BY <1>1, <2>1, <2>7, <2>8, <2>9, RestatedKeepsLinks DEF Restated
<1> QED
  BY <1>1, <1>2, <1>3

\* close_socket: what a closed connection leaves behind is let go.
LEMMA CloseLinks ==
  ASSUME Links, NEW d \in Conns, Open(d), CloseSocket(d),
         UNCHANGED <<phase, turn, accepted, disk, floor, newest>>
  PROVE  Links'
<1> USE Numbered
<1> DEFINE c == conn[d].char
           o == conn[d].orig
           stays == InGame(d) \/ conn[d].state = "disconnect"
<1>1. /\ Types /\ PointersSound /\ OnePlayer
      /\ \A k \in Conns : ConnSound(k)
      /\ \A x \in Bodies : BodySound(x)
      /\ conn \in [Conns -> Conn] /\ body \in [Bodies -> Body]
  BY DEF Links, Types
<1>2. /\ c \in Bodies \union {NoBody} /\ o \in Players \union {NoBody}
      /\ conn[d].state \notin {"none", "gone"} /\ stays \in BOOLEAN
  BY <1>1 DEF Conn, Open
<1> DEFINE g == [Unmade EXCEPT !.state = "gone"]
<1>3. conn' = [conn EXCEPT ![d] = g]
  BY DEF CloseSocket
<1>4. g \in Conn /\ g.state = "gone" /\ g.char = NoBody /\ g.orig = NoBody
  BY DEF Unmade, Conn, States
<1> HIDE DEF g
<1>5. body' = [x \in Bodies |->
        IF x = c THEN [body[x] EXCEPT !.desc = NoConn, !.alloc = @ /\ stays]
        ELSE IF x = o THEN [body[x] EXCEPT !.desc = NoConn] ELSE body[x]]
  BY DEF CloseSocket
<1>6. /\ conn'[d].state = "gone" /\ conn'[d].char = NoBody /\ conn'[d].orig = NoBody
      /\ \A k \in Conns \ {d} : conn'[k] = conn[k]
  BY <1>1, <1>3, <1>4
<1>7. \A x \in Bodies :
        /\ body'[x].alloc = (body[x].alloc /\ (x = c => stays))
        /\ body'[x].listed = body[x].listed /\ body'[x].pending = body[x].pending
        /\ body'[x].desc = IF x = c \/ x = o THEN NoConn ELSE body[x].desc
  BY <1>1, <1>5, ZenonT(30) DEF Body
<1>8. Types'
  <2>1. conn' \in [Conns -> Conn]
    BY <1>1, <1>3, <1>4
  <2>2. body' \in [Bodies -> Body]
    <3>1. ASSUME NEW x \in Bodies
          PROVE  /\ [body[x] EXCEPT !.desc = NoConn, !.alloc = @ /\ stays] \in Body
                 /\ [body[x] EXCEPT !.desc = NoConn] \in Body
      <4>1. body[x] \in Body /\ stays \in BOOLEAN
        BY <1>1, <1>2
      <4> HIDE DEF stays
      <4>2. (body[x].alloc /\ stays) \in BOOLEAN
        OBVIOUS
      <4>3. [body[x] EXCEPT !.desc = NoConn, !.alloc = @ /\ stays] \in Body
        BY <4>1, <4>2 DEF Body
      <4> QED
        BY <4>1, <4>3 DEF Body
    <3> HIDE DEF stays, c, o
    <3> QED
      BY <1>1, <1>5, <3>1
  <2> QED
    BY <1>1, <2>1, <2>2 DEF Types
<1> HIDE DEF c, o, stays
<1>9. /\ c # NoBody /\ ~stays => ~body[c].listed
      /\ o # NoBody => body[o].desc = NoConn
  BY <1>1, <1>2 DEF ConnSound, c, o, stays, InGame, Conn, States
<1>10. \A k \in Conns \ {d} : /\ conn[k].char = c => c = NoBody
                              /\ conn[k].orig = c => c = NoBody \/ stays
  BY <1>1, <1>2, <1>9 DEF PointersSound, NothingFreedInUse, LinksAgree, ConnSound, c
<1>11. Listed' = Listed /\ Present' = Present
  BY <1>7 DEF Listed, Present
<1>12. PointersSound'
  <2>1. NothingFreedInUse'
    <3>1. \A x \in Listed : body'[x].alloc
      <4>1. ASSUME NEW x \in Bodies, body[x].listed PROVE body'[x].alloc
        <5>1. body[x].alloc
          BY <1>1, <4>1 DEF PointersSound, NothingFreedInUse, Listed
        <5> QED
          BY <1>2, <1>7, <1>9, <4>1, <5>1
      <4> QED
        BY <4>1 DEF Listed
    <3>2. ASSUME NEW k \in Conns \ {d}, NEW x \in {conn[k].char, conn[k].orig} \ {NoBody}
          PROVE  body'[x].alloc
      <4>1. x \in Bodies /\ body[x].alloc
        BY <1>1 DEF PointersSound, NothingFreedInUse, Conn
      <4>2. ASSUME x = c PROVE stays
        <5>1. x # NoBody /\ (x = conn[k].char \/ x = conn[k].orig)
          OBVIOUS
        <5> QED
          BY <1>10, <4>2, <5>1
      <4> QED
        BY <1>7, <4>1, <4>2
    <3> QED
      BY <1>6, <1>11, <3>1, <3>2 DEF NothingFreedInUse
  <2>2. LinksAgree'
    BY <1>1, <1>2, <1>6, <1>7, <1>9, <1>10 DEF PointersSound, LinksAgree, c, Body
  <2> QED
    BY <2>1, <2>2 DEF PointersSound
<1>13. ASSUME NEW k \in Conns PROVE ConnSound(k)'
  <2>1. CASE k = d
    BY <1>1, <1>2, <1>6, <2>1 DEF ConnSound
  <2>2. CASE k # d
    <3>1. ConnSound(k) /\ conn'[k] = conn[k] /\ k \in Bodies
      BY <1>1, <1>6, <2>2
    <3>2. /\ conn[k].char \in Bodies \union {NoBody}
          /\ conn[k].orig \in Players \union {NoBody}
      BY <1>1 DEF Conn
    <3>3. conn[k].char # NoBody => body'[conn[k].char].listed = body[conn[k].char].listed
      BY <1>7, <3>2
    <3>4. conn[k].orig # NoBody => /\ body'[conn[k].orig].listed = body[conn[k].orig].listed
                                  /\ body'[conn[k].orig].desc \in
                                       {NoConn, body[conn[k].orig].desc}
      BY <1>7, <3>2
    <3>5. body'[k].alloc => body[k].alloc
      BY <1>7, <3>1
    <3> HIDE DEF c
    <3> QED
      BY <1>1, <3>1, <3>3, <3>4, <3>5 DEF ConnSound
  <2> QED
    BY <2>1, <2>2
<1>14. \A x \in Bodies : BodySound(x)'
  BY <1>1, <1>7 DEF BodySound
<1>15. OnePlayer'
  BY <1>1, <1>6, <1>11 DEF OnePlayer
<1> QED
  BY <1>8, <1>12, <1>13, <1>14, <1>15 DEF Links

LEMMA AcceptLinks ==
  ASSUME Links, Accept
  PROVE  Links'
<1> USE Numbered
<1> DEFINE n == accepted + 1
<1>1. /\ Types /\ PointersSound /\ OnePlayer
      /\ \A k \in Conns : ConnSound(k)
      /\ conn \in [Conns -> Conn] /\ n \in Conns
      /\ conn' = [conn EXCEPT ![n].state = "name"] /\ accepted' = n
      /\ UNCHANGED <<phase, turn, body, disk, floor, newest>>
      /\ accepted \in Nat
  BY DEF Links, Types, Accept, world, Conns
<1> HIDE DEF n
<1>2. ConnSound(n) /\ n > accepted
  BY <1>1 DEF n
<1>3. /\ conn[n].state = "none" /\ conn[n].char = NoBody /\ conn[n].orig = NoBody
      /\ ~body[n].alloc
  BY <1>1, <1>2 DEF ConnSound, Conn
<1>4. \A k \in Conns : /\ conn'[k].state = IF k = n THEN "name" ELSE conn[k].state
                       /\ conn'[k].char = conn[k].char /\ conn'[k].orig = conn[k].orig
  BY <1>1 DEF Conn
<1>5. Types'
  <2>1. conn' \in [Conns -> Conn]
    BY <1>1 DEF Conn, States
  <2> QED
    BY <1>1, <2>1 DEF Types, Conns
<1>6. PointersSound'
  BY <1>1, <1>4 DEF PointersSound, NothingFreedInUse, LinksAgree, Listed
<1>7. ASSUME NEW k \in Conns PROVE ConnSound(k)'
  <2>1. CASE k = n
    <3>1. /\ conn'[n].state = "name" /\ conn'[n].char = NoBody /\ conn'[n].orig = NoBody
          /\ ~body'[n].alloc /\ ~(n > accepted')
      BY <1>1, <1>3, <1>4 DEF n
    <3> QED
      BY <2>1, <3>1 DEF ConnSound
  <2>2. CASE k # n
    <3>1. k > n => k > accepted
      BY <1>1 DEF n, Conns
    <3> QED
      BY <1>1, <1>4, <2>2, <3>1 DEF ConnSound
  <2> QED
    BY <2>1, <2>2
<1>8. \A x \in Bodies : BodySound(x)'
  BY <1>1 DEF Links, BodySound
<1>9. OnePlayer'
  BY <1>1, <1>4 DEF OnePlayer, Present, Listed
<1> QED
  BY <1>5, <1>6, <1>7, <1>8, <1>9 DEF Links

LEMMA GiveNameLinks ==
  ASSUME Links, NEW d \in Conns, GiveName(d)
  PROVE  Links'
<1> USE Numbered
<1> DEFINE r == [Unborn EXCEPT !.alloc = TRUE, !.desc = d, !.rec = disk.rec]
<1>1. /\ Types /\ PointersSound /\ OnePlayer
      /\ \A k \in Conns : ConnSound(k)
      /\ \A x \in Bodies : BodySound(x)
      /\ conn \in [Conns -> Conn] /\ body \in [Bodies -> Body] /\ disk.rec \in 0..MaxRec
      /\ conn[d].state = "name" /\ turn' \in 0..Last /\ phase # "input"
      /\ conn' = [conn EXCEPT ![d].state = "password", ![d].char = d]
      /\ body' = [body EXCEPT ![d] = r]
      /\ UNCHANGED <<phase, accepted, disk, floor, newest>>
  BY DEF Links, Types, GiveName, Turn, world, Conns, Disk
<1>2. /\ r \in Body /\ r.alloc /\ ~r.listed /\ ~r.pending /\ r.desc = d
  <2>1. Unborn \in Body /\ ~Unborn.listed /\ ~Unborn.pending
    <3>1. 0 \in 0..2 /\ 0 \in Nat /\ 0 \in 0..MaxRec
      OBVIOUS
    <3> QED
      BY <3>1 DEF Unborn, Body
  <2>2. r = [Unborn EXCEPT !.alloc = TRUE, !.desc = d, !.rec = disk.rec]
    OBVIOUS
  <2> HIDE DEF r
  <2> QED
    BY <1>1, <2>1, <2>2 DEF Body
<1> HIDE DEF r
<1>3. /\ conn[d].char = NoBody /\ conn[d].orig = NoBody /\ ~body[d].alloc /\ ~body[d].listed
      /\ d <= accepted
  <2>1. ConnSound(d) /\ d \in Bodies
    BY <1>1
  <2> QED
    BY <1>1, <2>1 DEF ConnSound, Conn, PointersSound, NothingFreedInUse, Listed, Types, Conns
<1>4. /\ \A k \in Conns : /\ conn'[k].state = IF k = d THEN "password" ELSE conn[k].state
                          /\ conn'[k].char = IF k = d THEN d ELSE conn[k].char
                          /\ conn'[k].orig = conn[k].orig
      /\ \A x \in Bodies : body'[x] = IF x = d THEN r ELSE body[x]
  BY <1>1 DEF Conn
<1>5. Types'
  <2>1. conn' \in [Conns -> Conn]
    <3>1. [conn[d] EXCEPT !.state = "password", !.char = d] \in Conn
      BY <1>1 DEF Conn, States
    <3>2. conn' = [conn EXCEPT ![d] = [conn[d] EXCEPT !.state = "password", !.char = d]]
      BY <1>1 DEF Conn
    <3> QED
      BY <1>1, <3>1, <3>2
  <2>2. body' \in [Bodies -> Body]
    BY <1>1, <1>2
  <2> QED
    BY <1>1, <2>1, <2>2 DEF Types
<1>6. \A k \in Conns : /\ conn[k].char \in Bodies \union {NoBody} /\ conn[k].char # d
                       /\ conn[k].orig \in Players \union {NoBody} /\ conn[k].orig # d
  BY <1>1, <1>3 DEF Conn, PointersSound, NothingFreedInUse
<1>7. Listed' = Listed /\ Present' = Present
  BY <1>2, <1>3, <1>4 DEF Listed, Present
<1>8. PointersSound'
  <2>1. NothingFreedInUse'
    BY <1>1, <1>2, <1>3, <1>4, <1>6, <1>7 DEF PointersSound, NothingFreedInUse, Listed
  <2>2. LinksAgree'
    BY <1>1, <1>2, <1>3, <1>4, <1>6 DEF PointersSound, LinksAgree
  <2> QED
    BY <2>1, <2>2 DEF PointersSound
<1>9. ASSUME NEW k \in Conns PROVE ConnSound(k)'
  <2>1. CASE k = d
    BY <1>1, <1>2, <1>3, <1>4, <2>1 DEF ConnSound
  <2>2. CASE k # d
    <3>1. ConnSound(k) /\ k \in Bodies
      BY <1>1
    <3> QED
      BY <1>1, <1>4, <1>6, <2>2, <3>1 DEF ConnSound
  <2> QED
    BY <2>1, <2>2
<1>10. \A x \in Bodies : BodySound(x)'
  BY <1>1, <1>2, <1>4 DEF BodySound
<1>11. OnePlayer'
  BY <1>1, <1>4, <1>7 DEF OnePlayer
<1> QED
  BY <1>5, <1>8, <1>9, <1>10, <1>11 DEF Links

LEMMA EnterGameLinks ==
  ASSUME Links, NEW d \in Conns, EnterGame(d)
  PROVE  Links'
<1> USE Numbered
<1> DEFINE c == conn[d].char
           r == [body[c] EXCEPT !.listed = TRUE, !.idle = 0, !.stuff = disk.stuff,
                                !.dirty = disk.stuff > 0]
<1>1. /\ Types /\ PointersSound /\ OnePlayer
      /\ \A k \in Conns : ConnSound(k)
      /\ \A x \in Bodies : BodySound(x)
      /\ conn \in [Conns -> Conn] /\ body \in [Bodies -> Body] /\ disk \in Disk
      /\ conn[d].state = "menu" /\ turn' \in 0..Last /\ phase = "commands"
      /\ conn' = [conn EXCEPT ![d].state = "playing"]
      /\ body' = [body EXCEPT ![c].listed = TRUE, ![c].idle = 0,
                              ![c].stuff = disk.stuff, ![c].dirty = disk.stuff > 0]
      /\ disk' = [disk EXCEPT !.rec = body[c].rec,
                              !.code = IF @ = "none" THEN "none" ELSE "crash"]
      /\ UNCHANGED <<phase, accepted, floor, newest>>
  BY DEF Links, Types, EnterGame, Turn, world, Conns
<1>2. /\ c \in Bodies /\ c \in Players /\ ~body[c].listed /\ body[c].alloc
      /\ body[c] \in Body /\ conn[d].orig = NoBody /\ d <= accepted
  <2>1. ConnSound(d) /\ conn[d].char \in Bodies \union {NoBody}
        /\ conn[d].orig \in Players \union {NoBody}
    BY <1>1 DEF Conn
  <2>2. conn[d].char \in Bodies /\ body[conn[d].char].alloc
    BY <1>1, <2>1 DEF ConnSound, PointersSound, NothingFreedInUse
  <2> QED
    BY <1>1, <2>1, <2>2 DEF ConnSound, Types, Conns
<1> HIDE DEF c
<1>3. r \in Body /\ r.alloc /\ r.listed /\ r.pending = body[c].pending /\ r.desc = body[c].desc
  <2>1. disk.stuff \in Nat /\ 0 \in 0..2 /\ (disk.stuff > 0) \in BOOLEAN
    BY <1>1 DEF Disk
  <2> QED
    BY <1>2, <2>1 DEF Body
<1>4. body' = [body EXCEPT ![c] = r]
  BY <1>1, <1>2 DEF Body
<1> HIDE DEF r
<1>5. \A x \in Bodies : body'[x] = IF x = c THEN r ELSE body[x]
  <2>1. body \in [Bodies -> Body]
    BY <1>1
  <2> QED
    BY <1>4, <2>1
<1>6. /\ \A k \in Conns : /\ conn'[k].state = IF k = d THEN "playing" ELSE conn[k].state
                          /\ conn'[k].char = conn[k].char
                          /\ conn'[k].orig = conn[k].orig
      /\ \A x \in Bodies : /\ body'[x].alloc = body[x].alloc
                           /\ body'[x].listed = (body[x].listed \/ x = c)
                           /\ body'[x].pending = body[x].pending
                           /\ body'[x].desc = body[x].desc
  <2>1. body \in [Bodies -> Body] /\ conn \in [Conns -> Conn]
        /\ conn' = [conn EXCEPT ![d].state = "playing"]
    BY <1>1
  <2>2. \A k \in Conns : /\ conn'[k].state = IF k = d THEN "playing" ELSE conn[k].state
                         /\ conn'[k].char = conn[k].char
                         /\ conn'[k].orig = conn[k].orig
    BY <2>1 DEF Conn
  <2>3. \A x \in Bodies : /\ body'[x].alloc = body[x].alloc
                          /\ body'[x].listed = (body[x].listed \/ x = c)
                          /\ body'[x].pending = body[x].pending
                          /\ body'[x].desc = body[x].desc
    BY <2>1, <1>2, <1>3, <1>5 DEF Body
  <2> QED
    BY <2>2, <2>3
<1>7. Types'
  <2>1. conn' \in [Conns -> Conn]
    BY <1>1 DEF Conn, States
  <2>2. body' \in [Bodies -> Body]
    <3>1. body \in [Bodies -> Body]
      BY <1>1
    <3> QED
      BY <1>2, <1>3, <1>4, <3>1
  <2>3. disk' \in Disk
    BY <1>1, <1>2 DEF Disk, Body
  <2> QED
    BY <1>1, <2>1, <2>2, <2>3 DEF Types
<1>8. \A k \in Conns \ {d} : conn[k].char # c
  BY <1>1, <1>2 DEF PointersSound, LinksAgree, c
<1>9. PointersSound'
  BY <1>1, <1>2, <1>6 DEF PointersSound, NothingFreedInUse, LinksAgree, Listed, Conn
<1>10. ASSUME NEW k \in Conns PROVE ConnSound(k)'
  <2>1. CASE k = d
    <3>1. conn'[d].char = c /\ conn'[d].state = "playing" /\ conn'[d].orig = NoBody
          /\ body'[c].listed /\ d <= accepted'
      <4>1. conn'[d].char = c /\ conn'[d].state = "playing" /\ conn'[d].orig = conn[d].orig
        BY <1>6 DEF c
      <4>2. body'[c].listed
        BY <1>2, <1>6
      <4>3. d <= accepted' /\ conn[d].orig = NoBody
        BY <1>1, <1>2
      <4> QED
        BY <4>1, <4>2, <4>3
    <3>2. ~(d > accepted')
      BY <1>1, <3>1 DEF Types, Conns
    <3> QED
      BY <1>2, <2>1, <3>1, <3>2 DEF ConnSound
  <2>2. CASE k # d
    <3>1. ConnSound(k) /\ k \in Bodies /\ conn[k].char # c
      BY <1>1, <1>8, <2>2
    <3>2. conn[k].char # NoBody => body'[conn[k].char].listed = body[conn[k].char].listed
      BY <1>1, <1>6, <3>1 DEF Conn
    <3>3. conn[k].orig # NoBody => /\ body[conn[k].orig].listed => body'[conn[k].orig].listed
                                   /\ body'[conn[k].orig].desc = body[conn[k].orig].desc
      BY <1>1, <1>6 DEF Conn
    <3> QED
      BY <1>1, <1>6, <2>2, <3>1, <3>2, <3>3 DEF ConnSound
  <2> QED
    BY <2>1, <2>2
<1>11. \A x \in Bodies : BodySound(x)'
  BY <1>1, <1>6 DEF BodySound
<1>12. OnePlayer'
  <2>1. Present' \subseteq Present \union {c}
    BY <1>6 DEF Present, Listed
  <2>2. Present = {} /\ \A k \in Conns \ {d} : conn[k].state # "menu"
    BY <1>1 DEF OnePlayer
  <2> QED
    BY <1>6, <2>1, <2>2 DEF OnePlayer
<1> QED
  BY <1>7, <1>9, <1>10, <1>11, <1>12 DEF Links

\* A step that moves the pointers of one descriptor, between a player's body in the
\* world and the mobile: switching, or returning.
LEMMA SwapLinks ==
  ASSUME Links, Types', NEW d \in Conns, NEW c \in Present, Mob \in Listed,
         UNCHANGED <<phase, accepted>>, phase = "commands" \/ phase = "extract",
         conn[d].state = "playing", d <= accepted,
         \/ conn[d].orig = NoBody /\ conn[d].char = c /\ body[Mob].desc = NoConn
            /\ conn'[d].orig = c /\ conn'[d].char = Mob
         \/ conn[d].orig = c /\ conn[d].char = Mob
            /\ conn'[d].orig = NoBody /\ conn'[d].char = c,
         conn'[d].state = "playing",
         \A k \in Conns \ {d} : conn'[k] = conn[k],
         \A x \in Bodies :
           /\ body'[x].alloc = body[x].alloc /\ body'[x].listed = body[x].listed
           /\ body'[x].pending = body[x].pending
           /\ body'[x].desc = IF x = conn'[d].char THEN d
                              ELSE IF x = conn[d].char THEN NoConn ELSE body[x].desc
  PROVE  Links'
<1> USE Numbered
<1>1. /\ Types /\ PointersSound /\ OnePlayer
      /\ \A k \in Conns : ConnSound(k)
      /\ \A x \in Bodies : BodySound(x)
      /\ conn \in [Conns -> Conn] /\ body \in [Bodies -> Body]
      /\ c \in Players /\ c \in Bodies /\ body[c].listed /\ body[c].alloc
      /\ body[Mob].listed /\ body[Mob].alloc /\ c # Mob
  BY DEF Links, Types, Present, Listed, PointersSound, NothingFreedInUse
<1>2. Listed' = Listed /\ Present' = Present
  BY DEF Listed, Present
<1>3. \A k \in Conns \ {d} : conn[k].char # c /\ conn[k].char # Mob /\ conn[k].orig = NoBody
  <2>1. conn[d].orig = c => body[c].desc = NoConn
    BY <1>1 DEF ConnSound
  <2>2. ASSUME NEW k \in Conns \ {d}
        PROVE  /\ conn[k].char # c /\ conn[k].char # Mob
               /\ conn[k].orig # NoBody <=> conn[k].char = Mob
    BY <1>1, <2>1 DEF PointersSound, LinksAgree, ConnSound
  <2> QED
    BY <2>2
<1>4. PointersSound'
  <2>1. NothingFreedInUse'
    BY <1>1, <1>2 DEF PointersSound, NothingFreedInUse, Listed, Conn
  <2>2. ASSUME NEW x \in Bodies, NEW k \in Conns, body'[x].alloc
        PROVE  body'[x].desc = k <=> conn'[k].char = x
    <3>1. body[x].alloc /\ (body[x].desc = k <=> conn[k].char = x)
      BY <1>1, <2>2 DEF PointersSound, LinksAgree
    <3>2. CASE k = d
      BY <1>1, <2>2, <3>1, <3>2
    <3>3. CASE k # d
      BY <1>1, <1>3, <2>2, <3>1, <3>3
    <3> QED
      BY <3>2, <3>3
  <2> QED
    BY <2>1, <2>2 DEF PointersSound, LinksAgree
<1>5. ASSUME NEW k \in Conns PROVE ConnSound(k)'
  <2>1. CASE k = d
    <3>1. ~(d > accepted')
      BY <1>1 DEF Types, Conns
    <3>2. body'[c].listed /\ body'[Mob].listed
          /\ (conn'[d].orig = c => body'[c].desc = NoConn)
      BY <1>1
    <3> QED
      BY <1>1, <2>1, <3>1, <3>2 DEF ConnSound
  <2>2. CASE k # d
    <3>1. ConnSound(k) /\ k \in Bodies /\ conn[k].orig = NoBody /\ conn'[k] = conn[k]
      BY <1>1, <1>3, <2>2
    <3>2. conn[k].char # NoBody => body'[conn[k].char].listed = body[conn[k].char].listed
      BY <1>1 DEF Conn
    <3>3. body'[k].alloc = body[k].alloc
      BY <3>1
    <3> QED
      BY <1>1, <2>2, <3>1, <3>2, <3>3 DEF ConnSound
  <2> QED
    BY <2>1, <2>2
<1>6. \A x \in Bodies : BodySound(x)'
  BY <1>1 DEF BodySound
<1>7. OnePlayer'
  <2>1. \A k \in Conns : conn'[k].state = conn[k].state
    OBVIOUS
  <2> QED
    BY <1>1, <1>2, <2>1 DEF OnePlayer
<1> QED
  BY <1>4, <1>5, <1>6, <1>7 DEF Links

LEMMA SwitchLinks ==
  ASSUME Links, NEW d \in Conns, Switch(d)
  PROVE  Links'
<1> USE Numbered
<1> DEFINE c == conn[d].char
<1>1. /\ Types /\ conn \in [Conns -> Conn] /\ disk \in Disk
      /\ conn[d].state = "playing" /\ conn[d].orig = NoBody
      /\ turn' \in 0..Last /\ phase = "commands" /\ Mob \in Listed /\ body[Mob].desc = NoConn
      /\ conn' = [conn EXCEPT ![d].char = Mob, ![d].orig = c]
      /\ body' = [Awake(d) EXCEPT ![c].desc = NoConn, ![Mob].desc = d]
      /\ UNCHANGED <<phase, accepted, disk, floor, newest>>
      /\ d <= accepted
  <2>1. ConnSound(d)
    BY DEF Links
  <2> QED
    BY <2>1 DEF Links, Types, Switch, Driving, Turn, world, Conns, ConnSound
<1>2. /\ c \in Players /\ c \in Bodies /\ body[c].listed /\ c # Mob /\ c \in Present
  BY <1>1, DriverIs DEF Present, Listed
<1>3. /\ Awake(d) \in [Bodies -> Body] /\ \A x \in Bodies : Roused(Awake(d), x)
  BY <1>1, AwakeIs
<1> HIDE DEF c
<1>4. /\ \A x \in Bodies : /\ body'[x].alloc = body[x].alloc /\ body'[x].listed = body[x].listed
                           /\ body'[x].pending = body[x].pending
                           /\ body'[x].desc = IF x = Mob THEN d
                                              ELSE IF x = c THEN NoConn ELSE body[x].desc
      /\ body' \in [Bodies -> Body]
  BY <1>1, <1>2, <1>3, SMTT(20) DEF Roused, Body
<1> DEFINE q == [conn[d] EXCEPT !.char = Mob, !.orig = c]
<1>5. q \in Conn /\ q.char = Mob /\ q.orig = c /\ q.state = "playing"
  BY <1>1, <1>2 DEF Conn
<1>6. conn' = [conn EXCEPT ![d] = q]
  BY <1>1 DEF Conn
<1> HIDE DEF q
<1>7. /\ conn' \in [Conns -> Conn] /\ \A k \in Conns \ {d} : conn'[k] = conn[k]
      /\ conn'[d].char = Mob /\ conn'[d].orig = c /\ conn'[d].state = "playing"
  <2>1. conn \in [Conns -> Conn]
    BY <1>1
  <2> QED
    BY <1>5, <1>6, <2>1
<1>8. Types'
  BY <1>1, <1>4, <1>7 DEF Types
<1> QED
  <2>1. UNCHANGED <<phase, accepted>> /\ phase = "commands" /\ d <= accepted
    BY <1>1
  <2>2. /\ conn[d].state = "playing" /\ conn[d].orig = NoBody /\ conn[d].char = c
        /\ body[Mob].desc = NoConn /\ conn'[d].orig = c /\ conn'[d].char = Mob
        /\ conn'[d].state = "playing"
    BY <1>1, <1>7 DEF c
  <2>3. c \in Present /\ Mob \in Listed /\ Types' /\ \A k \in Conns \ {d} : conn'[k] = conn[k]
    BY <1>1, <1>2, <1>7, <1>8
  <2>4. \A x \in Bodies :
          /\ body'[x].alloc = body[x].alloc /\ body'[x].listed = body[x].listed
          /\ body'[x].pending = body[x].pending
          /\ body'[x].desc = IF x = conn'[d].char THEN d
                             ELSE IF x = conn[d].char THEN NoConn ELSE body[x].desc
    <3>1. conn'[d].char = Mob /\ conn[d].char = c
      BY <2>2
    <3> QED
      BY <1>4, <3>1
  <2> QED
    BY <2>1, <2>2, <2>3, <2>4, SwapLinks

LEMMA ReturnedIs ==
  ASSUME Links, NEW d \in Conns, conn[d].orig # NoBody
  PROVE  LET o == conn[d].orig
         IN /\ o \in Present /\ conn[d].char = Mob /\ o # Mob
            /\ Returned(d).conn \in [Conns -> Conn] /\ Returned(d).body \in [Bodies -> Body]
            /\ \A k \in Conns \ {d} : Returned(d).conn[k] = conn[k]
            /\ Returned(d).conn[d].char = o /\ Returned(d).conn[d].orig = NoBody
            /\ Returned(d).conn[d].state = conn[d].state
            /\ \A x \in Bodies :
                 /\ Returned(d).body[x].alloc = body[x].alloc
                 /\ Returned(d).body[x].listed = body[x].listed
                 /\ Returned(d).body[x].pending = body[x].pending
                 /\ Returned(d).body[x].stuff = body[x].stuff
                 /\ Returned(d).body[x].rec = body[x].rec
                 /\ Returned(d).body[x].desc = IF x = o THEN d
                                               ELSE IF x = Mob THEN NoConn ELSE body[x].desc
<1> USE Numbered
<1> DEFINE o == conn[d].orig
<1>1. /\ conn \in [Conns -> Conn] /\ body \in [Bodies -> Body]
      /\ o \in Players /\ o \in Bodies /\ o # Mob /\ o \in Present /\ conn[d].char = Mob
  <2>1. ConnSound(d) /\ conn[d].orig \in Players
    BY DEF Links, Types, Conn
  <2> QED
    BY <2>1 DEF Links, Types, ConnSound, Present, Listed
<1>2. /\ Returned(d).conn = [conn EXCEPT ![d].char = o, ![d].orig = NoBody]
      /\ Returned(d).body = [body EXCEPT ![o].desc = d, ![Mob].desc = NoConn]
  BY <1>1 DEF Returned
<1> HIDE DEF o
<1> DEFINE q == [conn[d] EXCEPT !.char = o, !.orig = NoBody]
<1>3. q \in Conn /\ q.char = o /\ q.orig = NoBody /\ q.state = conn[d].state
  BY <1>1, ZenonT(30) DEF Conn
<1>4. [conn EXCEPT ![d].char = o, ![d].orig = NoBody] = [conn EXCEPT ![d] = q]
  BY <1>1 DEF Conn
<1> HIDE DEF q
<1> DEFINE b == [body EXCEPT ![o].desc = d, ![Mob].desc = NoConn]
<1>5. b \in [Bodies -> Body]
  BY <1>1 DEF Body
<1>6. \A x \in Bodies :
        /\ b[x].alloc = body[x].alloc /\ b[x].listed = body[x].listed
        /\ b[x].pending = body[x].pending /\ b[x].stuff = body[x].stuff
        /\ b[x].rec = body[x].rec
        /\ b[x].desc = IF x = o THEN d ELSE IF x = Mob THEN NoConn ELSE body[x].desc
  BY <1>1 DEF Body
<1>7. Returned(d).body = b
  BY <1>2
<1> HIDE DEF b
<1>8. /\ Returned(d).conn \in [Conns -> Conn] /\ Returned(d).conn[d] = q
      /\ \A k \in Conns \ {d} : Returned(d).conn[k] = conn[k]
  BY <1>1, <1>2, <1>3, <1>4
<1> QED
  BY <1>1, <1>3, <1>5, <1>6, <1>7, <1>8 DEF o

LEMMA ReturnLinks ==
  ASSUME Links, NEW d \in Conns, Return(d)
  PROVE  Links'
<1> USE Numbered
<1> DEFINE c == conn[d].orig
<1>1. /\ Types /\ disk \in Disk
      /\ conn[d].state = "playing" /\ conn[d].orig # NoBody
      /\ turn' \in 0..Last /\ phase = "commands"
      /\ conn' = Returned(d).conn /\ body' = Returned(d).body
      /\ UNCHANGED <<phase, accepted, disk, floor, newest>>
      /\ d <= accepted
  <2>1. ConnSound(d)
    BY DEF Links
  <2> QED
    BY <2>1 DEF Links, Types, Return, Turn, world, Conns, ConnSound
<1>2. /\ c \in Present /\ conn[d].char = Mob /\ c # Mob
      /\ conn' \in [Conns -> Conn] /\ body' \in [Bodies -> Body]
      /\ \A k \in Conns \ {d} : conn'[k] = conn[k]
      /\ conn'[d].char = c /\ conn'[d].orig = NoBody /\ conn'[d].state = "playing"
      /\ \A x \in Bodies :
           /\ body'[x].alloc = body[x].alloc /\ body'[x].listed = body[x].listed
           /\ body'[x].pending = body[x].pending
           /\ body'[x].desc = IF x = c THEN d ELSE IF x = Mob THEN NoConn ELSE body[x].desc
  BY <1>1, ReturnedIs
<1>3. Types'
  BY <1>1, <1>2 DEF Types
<1>4. Mob \in Listed
  <2>1. ConnSound(d)
    BY DEF Links
  <2> QED
    BY <1>1, <1>2, <2>1 DEF ConnSound, Listed
<1> HIDE DEF c
<1> QED
  BY <1>1, <1>2, <1>3, <1>4, SwapLinks DEF c

\* A player's body is marked for extraction, and whoever drives it lets it go.
LEMMA LetGoLinks ==
  ASSUME Links, Types', NEW c \in Present, NEW end \in {"close", "disconnect"},
         UNCHANGED <<phase, accepted>>, phase # "input",
         conn' = IF body[c].desc = NoConn THEN conn
                 ELSE [conn EXCEPT ![body[c].desc].state = end, ![body[c].desc].char = NoBody],
         \A x \in Bodies :
           /\ body'[x].alloc = body[x].alloc /\ body'[x].listed = body[x].listed
           /\ body'[x].pending = (body[x].pending \/ x = c)
           /\ body'[x].desc = IF x = c THEN NoConn ELSE body[x].desc
  PROVE  Links'
<1> USE Numbered
<1> DEFINE d == body[c].desc
<1>1. /\ Types /\ PointersSound /\ OnePlayer
      /\ \A k \in Conns : ConnSound(k)
      /\ \A x \in Bodies : BodySound(x)
      /\ conn \in [Conns -> Conn] /\ body \in [Bodies -> Body]
      /\ c \in Players /\ c \in Bodies /\ body[c].listed /\ body[c].alloc /\ c # Mob
      /\ d \in Conns \union {NoConn}
  BY DEF Links, Types, Present, Listed, PointersSound, NothingFreedInUse, Body
<1>2. Listed' = Listed /\ Present' = Present
  BY DEF Listed, Present
<1>3. /\ \A k \in Conns : conn[k].char = c <=> d = k
      /\ d \in Conns => /\ conn[d].orig = NoBody /\ d <= accepted
                        /\ conn[d].state \notin {"none", "gone", "menu", "password", "close"}
  <2>1. \A k \in Conns : conn[k].char = c <=> d = k
    BY <1>1 DEF PointersSound, LinksAgree
  <2>2. ASSUME d \in Conns
        PROVE  /\ conn[d].orig = NoBody /\ d <= accepted
               /\ conn[d].state \notin {"none", "gone", "menu", "password", "close"}
    <3>1. ConnSound(d) /\ conn[d].char = c
      BY <1>1, <2>1, <2>2
    <3>2. d \in Int /\ accepted \in Int
      BY <1>1, <2>2 DEF Types, Conns
    <3> QED
      BY <1>1, <3>1, <3>2 DEF ConnSound
  <2> QED
    BY <2>1, <2>2
<1>4. \A k \in Conns : /\ conn'[k].state = IF k = d THEN end ELSE conn[k].state
                       /\ conn'[k].char = IF k = d THEN NoBody ELSE conn[k].char
                       /\ conn'[k].orig = conn[k].orig
  BY <1>1 DEF Conn
<1> HIDE DEF d
<1>5. PointersSound'
  <2>1. NothingFreedInUse'
    BY <1>1, <1>2, <1>4 DEF PointersSound, NothingFreedInUse, Listed, Conn
  <2>2. ASSUME NEW x \in Bodies, NEW k \in Conns, body'[x].alloc
        PROVE  body'[x].desc = k <=> conn'[k].char = x
    <3>1. body[x].desc = k <=> conn[k].char = x
      BY <1>1, <2>2 DEF PointersSound, LinksAgree
    <3> QED
      BY <1>1, <1>3, <1>4, <2>2, <3>1 DEF d
  <2> QED
    BY <2>1, <2>2 DEF PointersSound, LinksAgree
<1>6. ASSUME NEW k \in Conns PROVE ConnSound(k)'
  <2>1. CASE k = d
    <3>1. ~(k > accepted')
      BY <1>1, <1>3, <2>1 DEF Types, Conns
    <3>2. conn'[k].state = end /\ conn'[k].char = NoBody /\ conn'[k].orig = NoBody
      BY <1>3, <1>4, <2>1
    <3> QED
      BY <3>1, <3>2 DEF ConnSound
  <2>2. CASE k # d
    <3>1. ConnSound(k) /\ k \in Bodies /\ conn'[k].state = conn[k].state
          /\ conn'[k].char = conn[k].char /\ conn'[k].orig = conn[k].orig
      BY <1>1, <1>4, <2>2
    <3>2. conn[k].char # NoBody => body'[conn[k].char].listed = body[conn[k].char].listed
      BY <1>1 DEF Conn
    <3>3. conn[k].orig # NoBody => /\ body'[conn[k].orig].listed = body[conn[k].orig].listed
                                   /\ body'[conn[k].orig].desc \in
                                        {NoConn, body[conn[k].orig].desc}
      BY <1>1 DEF Conn
    <3>4. body'[k].alloc = body[k].alloc
      BY <3>1
    <3> QED
      BY <3>1, <3>2, <3>3, <3>4 DEF ConnSound
  <2> QED
    BY <2>1, <2>2
<1>7. \A x \in Bodies : BodySound(x)'
  BY <1>1 DEF BodySound
<1>8. OnePlayer'
  BY <1>1, <1>2, <1>4 DEF OnePlayer
<1> QED
  BY <1>5, <1>6, <1>7, <1>8 DEF Links

LEMMA PurgeLinks ==
  ASSUME Links, NEW c \in Bodies, Purge(c)
  PROVE  Links'
<1> USE Numbered
<1> DEFINE d == body[c].desc
           r == [body[c] EXCEPT !.desc = NoConn, !.pending = TRUE]
           q == [conn[d] EXCEPT !.state = "close", !.char = NoBody]
<1>1. /\ Types /\ conn \in [Conns -> Conn] /\ body \in [Bodies -> Body] /\ body[c] \in Body
      /\ c \in Present /\ phase = "commands" /\ d \in Conns \union {NoConn}
      /\ UNCHANGED <<phase, turn, accepted, disk, floor, newest>>
  BY DEF Links, Types, Purge, Present, world, Body
<1>2. /\ conn' = IF d = NoConn THEN conn
                 ELSE [conn EXCEPT ![d].state = "close", ![d].char = NoBody]
      /\ body' = [body EXCEPT ![c].desc = NoConn, ![c].pending = TRUE]
  BY DEF Purge
<1>3. /\ r \in Body /\ r.alloc = body[c].alloc /\ r.listed = body[c].listed
      /\ r.pending /\ r.desc = NoConn
  BY <1>1 DEF Body
<1>4. body' = [body EXCEPT ![c] = r]
  BY <1>1, <1>2 DEF Body
<1> HIDE DEF r
<1>5. /\ body' \in [Bodies -> Body]
      /\ \A x \in Bodies :
           /\ body'[x].alloc = body[x].alloc /\ body'[x].listed = body[x].listed
           /\ body'[x].pending = (body[x].pending \/ x = c)
           /\ body'[x].desc = IF x = c THEN NoConn ELSE body[x].desc
  <2>1. body' \in [Bodies -> Body] /\ \A x \in Bodies : body'[x] = IF x = c THEN r ELSE body[x]
    BY <1>1, <1>3, <1>4
  <2> QED
    BY <1>1, <1>3, <2>1 DEF Body
<1>6. conn' \in [Conns -> Conn]
  <2>1. CASE d \in Conns
    <3>1. q \in Conn
      <4>1. conn[d] \in Conn
        BY <1>1, <2>1
      <4> HIDE DEF d
      <4> QED
        BY <4>1 DEF Conn, States
    <3>2. conn' = [conn EXCEPT ![d] = q]
      BY <1>1, <1>2, <2>1 DEF Conn
    <3> HIDE DEF q, d
    <3> QED
      BY <1>1, <2>1, <3>1, <3>2
  <2> QED
    BY <1>1, <1>2, <2>1
<1>7. Types'
  BY <1>1, <1>5, <1>6 DEF Types
<1> QED
  BY <1>1, <1>2, <1>5, <1>7, LetGoLinks

\* The last step of check_idling.
LEMMA ForcedRentLinks ==
  ASSUME Links, NEW c \in Bodies, Idle(c), body[c].idle = 2
  PROVE  Links'
<1> USE Numbered
<1> DEFINE d == body[c].desc
           r == [Emptied(c) EXCEPT !.desc = NoConn, !.pending = TRUE]
           q == [conn[d] EXCEPT !.state = "disconnect", !.char = NoBody]
<1>1. /\ Types /\ conn \in [Conns -> Conn] /\ body \in [Bodies -> Body] /\ body[c] \in Body
      /\ c \in Present /\ phase = "heartbeat" /\ d \in Conns \union {NoConn}
      /\ UNCHANGED <<phase, turn, accepted, floor, newest>> /\ disk \in Disk
  BY DEF Links, Types, Idle, Present, world, Body
<1>2. /\ conn' = IF d = NoConn THEN conn
                 ELSE [conn EXCEPT ![d].state = "disconnect", ![d].char = NoBody]
      /\ body' = [body EXCEPT ![c] = r]
      /\ disk' = Stored(c, "rented", disk)
  BY DEF Idle
<1>3. /\ r \in Body /\ r.alloc = body[c].alloc /\ r.listed = body[c].listed
      /\ r.pending /\ r.desc = NoConn
  <2>1. /\ Emptied(c) \in Body /\ Emptied(c).alloc = body[c].alloc
        /\ Emptied(c).listed = body[c].listed
    BY <1>1 DEF Emptied, Body
  <2> QED
    BY <2>1 DEF Body
<1> HIDE DEF r
<1>4. /\ body' \in [Bodies -> Body]
      /\ \A x \in Bodies :
           /\ body'[x].alloc = body[x].alloc /\ body'[x].listed = body[x].listed
           /\ body'[x].pending = (body[x].pending \/ x = c)
           /\ body'[x].desc = IF x = c THEN NoConn ELSE body[x].desc
  <2>1. body' \in [Bodies -> Body] /\ \A x \in Bodies : body'[x] = IF x = c THEN r ELSE body[x]
    BY <1>1, <1>2, <1>3
  <2> QED
    BY <1>1, <1>3, <2>1 DEF Body
<1>5. conn' \in [Conns -> Conn]
  <2>1. CASE d \in Conns
    <3>1. q \in Conn
      <4>1. conn[d] \in Conn
        BY <1>1, <2>1
      <4> HIDE DEF d
      <4> QED
        BY <4>1 DEF Conn, States
    <3>2. conn' = [conn EXCEPT ![d] = q]
      BY <1>1, <1>2, <2>1 DEF Conn
    <3> HIDE DEF q, d
    <3> QED
      BY <1>1, <2>1, <3>1, <3>2
  <2> QED
    BY <1>1, <1>2, <2>1
<1>6. disk' \in Disk
  BY <1>1, <1>2 DEF Stored, Disk, Body
<1>7. Types'
  BY <1>1, <1>4, <1>5, <1>6 DEF Types
<1> QED
  BY <1>1, <1>2, <1>4, <1>7, LetGoLinks

\* The newest of some descriptors is one of them.
LEMMA MaxElement ==
  ASSUME NEW S, S \subseteq Conns, S # {}
  PROVE  Max(S) \in S
<1> USE Numbered DEF Conns
<1> DEFINE R == {p \in Nat \X Nat : p[1] < p[2]}
           T == {Last - x : x \in S}
<1>1. IsWellFoundedOn(R, Nat)
  BY NatLessThanWellFounded DEF OpToRel
<1>2. T \subseteq Nat /\ T # {}
  <2>1. ASSUME NEW x \in S PROVE Last - x \in Nat
    <3>1. x \in 1..Last
      OBVIOUS
    <3> QED
      BY <3>1
  <2> QED
    BY <2>1
<1> HIDE DEF T
<1>3. PICK t \in T : \A u \in T : ~(<<u, t>> \in R)
  BY <1>1, <1>2, WFMin
<1>4. PICK x \in S : t = Last - x
  BY DEF T
<1>5. ASSUME NEW y \in S PROVE x >= y
  <2>1. Last - y \in T /\ t \in Nat /\ Last - y \in Nat
    BY <1>2 DEF T
  <2>2. ~(Last - y < t)
    BY <1>3, <2>1
  <2> QED
    BY <1>4, <2>2
<1> QED
  BY <1>5 DEF Max

\* What perform_dupe_check leaves of the other descriptors, and of the bodies.
LEMMA CutOffIs ==
  ASSUME Links, NEW d \in Conns, conn[d].state = "password"
  PROVE  /\ conn[d].char = d /\ conn[d].orig = NoBody
         /\ body[d].alloc /\ ~body[d].listed /\ body[d].desc = d
         /\ CutOff(d) \in [Conns -> Conn] /\ Unlinked(d) \in [Bodies -> Body]
         /\ CutOff(d)[d] = conn[d]
         /\ \A k \in Conns \ {d} :
              /\ CutOff(d)[k].char = NoBody /\ CutOff(d)[k].orig = NoBody
              /\ CutOff(d)[k].state \in {"none", "gone", "name", "close", "disconnect"}
              /\ CutOff(d)[k].state \in {"none", "gone", "name"} =>
                   CutOff(d)[k].state = conn[k].state
              /\ CutOff(d)[k].state \notin {"none", "gone"} =>
                   conn[k].state \notin {"none", "gone"}
         /\ \A x \in Bodies :
              /\ Unlinked(d)[x].alloc = body[x].alloc
              /\ Unlinked(d)[x].listed = body[x].listed
              /\ Unlinked(d)[x].pending = body[x].pending
              /\ Unlinked(d)[x].stuff = body[x].stuff
              /\ Unlinked(d)[x].rec = body[x].rec
              /\ x # d /\ body[x].alloc => Unlinked(d)[x].desc = NoConn
              /\ x = d => Unlinked(d)[x] = body[x]
<1> USE Numbered
<1> DEFINE g == [Unmade EXCEPT !.state = "close"]
<1>1. /\ Types /\ PointersSound
      /\ \A k \in Conns : ConnSound(k)
      /\ conn \in [Conns -> Conn] /\ body \in [Bodies -> Body]
  BY DEF Links, Types
<1>2. g \in Conn /\ g.state = "close" /\ g.char = NoBody /\ g.orig = NoBody
  BY DEF Unmade, Conn, States
<1>3. CutOff(d) = [k \in Conns |-> IF k \in Duplicates(d) THEN g ELSE conn[k]]
  BY DEF CutOff
<1> HIDE DEF g
<1>4. /\ conn[d].char = d /\ conn[d].orig = NoBody /\ d \in Bodies
      /\ body[d].alloc /\ ~body[d].listed /\ body[d].desc = d
  <2>1. ConnSound(d) /\ d \in Bodies
    BY <1>1
  <2>2. conn[d].char = d /\ conn[d].orig = NoBody /\ ~body[d].listed
    BY <1>1, <2>1 DEF ConnSound, Conn
  <2>3. body[d].alloc
    BY <1>1, <2>1, <2>2 DEF PointersSound, NothingFreedInUse
  <2> QED
    BY <1>1, <2>1, <2>2, <2>3 DEF PointersSound, LinksAgree
<1>5. ASSUME NEW k \in Conns \ {d}, k \notin Duplicates(d)
      PROVE  conn[k].char = NoBody /\ conn[k].orig = NoBody
             /\ conn[k].state \in {"none", "gone", "name", "close", "disconnect"}
  <2>1. ConnSound(k) /\ conn[k] \in Conn
    BY <1>1
  <2>2. ~Open(k) \/ (conn[k].orig = NoBody /\ conn[k].char \notin Players)
    BY <1>5 DEF Duplicates
  <2>3. conn[k].char \in Bodies \union {NoBody} /\ conn[k].state \in States
    BY <2>1 DEF Conn
  <2> QED
    BY <2>1, <2>2, <2>3 DEF ConnSound, Open, States
<1>6. CutOff(d) \in [Conns -> Conn] /\ CutOff(d)[d] = conn[d]
  BY <1>1, <1>2, <1>3 DEF Duplicates
<1>7. ASSUME NEW k \in Conns \ {d}
      PROVE  /\ CutOff(d)[k].char = NoBody /\ CutOff(d)[k].orig = NoBody
             /\ CutOff(d)[k].state \in {"none", "gone", "name", "close", "disconnect"}
             /\ CutOff(d)[k].state \in {"none", "gone", "name"} =>
                  CutOff(d)[k].state = conn[k].state
             /\ CutOff(d)[k].state \notin {"none", "gone"} =>
                  conn[k].state \notin {"none", "gone"}
  <2>1. CASE k \in Duplicates(d)
    BY <1>2, <1>3, <2>1 DEF Duplicates, Open
  <2>2. CASE k \notin Duplicates(d)
    BY <1>3, <1>5, <2>2
  <2> QED
    BY <2>1, <2>2
<1>8. Unlinked(d) = [x \in Bodies |-> IF \E k \in Duplicates(d) : conn[k].char = x
                                      THEN [body[x] EXCEPT !.desc = NoConn] ELSE body[x]]
  BY DEF Unlinked
<1>9. ASSUME NEW x \in Bodies
      PROVE  [body[x] EXCEPT !.desc = NoConn] \in Body /\ body[x] \in Body
  BY <1>1 DEF Body
<1>10. Unlinked(d) \in [Bodies -> Body]
  BY <1>8, <1>9
<1>11. ASSUME NEW x \in Bodies
       PROVE  /\ Unlinked(d)[x].alloc = body[x].alloc
              /\ Unlinked(d)[x].listed = body[x].listed
              /\ Unlinked(d)[x].pending = body[x].pending
              /\ Unlinked(d)[x].stuff = body[x].stuff
              /\ Unlinked(d)[x].rec = body[x].rec
              /\ x # d /\ body[x].alloc => Unlinked(d)[x].desc = NoConn
              /\ x = d => Unlinked(d)[x] = body[x]
  <2>1. CASE \E k \in Duplicates(d) : conn[k].char = x
    <3>1. Unlinked(d)[x] = [body[x] EXCEPT !.desc = NoConn]
      BY <1>8, <2>1
    <3>2. x # d
      <4>1. PICK k \in Conns \ {d} : conn[k].char = x
        BY <2>1 DEF Duplicates
      <4> QED
        BY <1>1, <1>4, <4>1 DEF PointersSound, LinksAgree
    <3> QED
      BY <1>9, <3>1, <3>2 DEF Body
  <2>2. CASE ~\E k \in Duplicates(d) : conn[k].char = x
    <3>1. Unlinked(d)[x] = body[x]
      BY <1>8, <2>2
    <3>2. ASSUME x # d, body[x].alloc, body[x].desc \in Conns PROVE FALSE
      <4> DEFINE k == body[x].desc
      <4>1. k \in Conns /\ conn[k].char = x
        BY <1>1, <3>2 DEF PointersSound, LinksAgree
      <4>2. k # d /\ k \notin Duplicates(d)
        BY <1>4, <2>2, <3>2, <4>1
      <4> HIDE DEF k
      <4> QED
        BY <1>5, <4>1, <4>2
    <3>3. body[x].desc \in Conns \union {NoConn}
      BY <1>9 DEF Body
    <3> QED
      BY <3>1, <3>2, <3>3
  <2> QED
    BY <2>1, <2>2
<1> QED
  BY <1>4, <1>6, <1>7, <1>10, <1>11

\* A login reconnects to the body of the player that is in the world, if there is one.
LEMMA TargetsAre ==
  ASSUME Links, NEW d \in Conns, conn[d].state = "password"
  PROVE  Targets(d) = Present /\ Linkless(d) = Present
<1> USE Numbered
<1>1. /\ Types /\ OnePlayer /\ PointersSound
      /\ \A k \in Conns : ConnSound(k)
      /\ conn \in [Conns -> Conn] /\ body \in [Bodies -> Body]
  BY DEF Links, Types
<1>2. Linkless(d) = Present
  <2>1. ASSUME NEW x \in Present PROVE Unlinked(d)[x].desc = NoConn
    <3>1. x \in Bodies /\ body[x].listed /\ body[x].alloc
      BY <1>1 DEF Present, Listed, PointersSound, NothingFreedInUse
    <3>2. x # d
      BY <3>1, CutOffIs
    <3> QED
      BY <3>1, <3>2, CutOffIs
  <2> QED
    BY <2>1 DEF Linkless, Present
<1>3. CASE Leftover(d) = {}
  BY <1>2, <1>3 DEF Targets
<1>4. CASE Leftover(d) # {}
  <2> DEFINE m == Max(Leftover(d))
             t == IF conn[m].orig # NoBody THEN conn[m].orig ELSE conn[m].char
  <2>1. Leftover(d) \subseteq Conns
    BY DEF Leftover, Duplicates
  <2>2. m \in Leftover(d)
    BY <1>4, <2>1, MaxElement
  <2>3. Targets(d) = {t}
    BY <1>4 DEF Targets
  <2> HIDE DEF m
  <2>4. m \in Conns /\ ConnSound(m) /\ conn[m].orig \in Players \union {NoBody}
        /\ conn[m].char \in Bodies \union {NoBody}
        /\ (conn[m].orig # NoBody \/ (conn[m].state = "playing" /\ conn[m].char \in Players))
    BY <1>1, <2>1, <2>2 DEF Leftover, Duplicates, Conn
  <2>5. t \in Present
    BY <2>4 DEF ConnSound, Present, Listed
  <2>6. Present = {t}
    BY <1>1, <2>5 DEF OnePlayer
  <2> QED
    BY <1>2, <2>3, <2>6
<1> QED
  BY <1>3, <1>4

LEMMA ToMenuLinks ==
  ASSUME Links, NEW d \in Conns, ToMenu(d)
  PROVE  Links'
<1> USE Numbered
<1> DEFINE q == [conn[d] EXCEPT !.state = "menu"]
<1>1. /\ Types /\ OnePlayer /\ PointersSound
      /\ \A k \in Conns : ConnSound(k)
      /\ \A x \in Bodies : BodySound(x)
      /\ conn \in [Conns -> Conn] /\ body \in [Bodies -> Body] /\ disk \in Disk
      /\ conn[d].state = "password" /\ turn' \in 0..Last /\ phase = "commands"
      /\ body' = Unlinked(d)
      /\ UNCHANGED <<phase, accepted, disk, floor, newest>>
      /\ Targets(d) = {}
  BY DEF Links, Types, ToMenu, Turn, world, Conns
<1>2. /\ conn[d].char = d /\ conn[d].orig = NoBody
      /\ body[d].alloc /\ ~body[d].listed /\ body[d].desc = d
      /\ CutOff(d) \in [Conns -> Conn] /\ body' \in [Bodies -> Body]
      /\ CutOff(d)[d] = conn[d]
      /\ \A x \in Bodies :
           /\ body'[x].alloc = body[x].alloc
           /\ body'[x].listed = body[x].listed
           /\ body'[x].pending = body[x].pending
           /\ x # d /\ body[x].alloc => body'[x].desc = NoConn
           /\ x = d => body'[x] = body[x]
  BY <1>1, CutOffIs
<1>3. \A k \in Conns \ {d} :
        /\ CutOff(d)[k].char = NoBody /\ CutOff(d)[k].orig = NoBody
        /\ CutOff(d)[k].state \in {"none", "gone", "name", "close", "disconnect"}
        /\ CutOff(d)[k].state \in {"none", "gone", "name"} =>
             CutOff(d)[k].state = conn[k].state
        /\ CutOff(d)[k].state \notin {"none", "gone"} =>
             conn[k].state \notin {"none", "gone"}
  BY <1>1, CutOffIs
<1>4. q \in Conn /\ q.state = "menu" /\ q.char = d /\ q.orig = NoBody
  BY <1>1, <1>2 DEF Conn, States
<1>5. conn' = [CutOff(d) EXCEPT ![d] = q]
  <2>1. conn' = [CutOff(d) EXCEPT ![d].state = "menu"]
    BY DEF ToMenu
  <2> QED
    BY <1>2, <2>1
<1> HIDE DEF q
<1>6. /\ conn' \in [Conns -> Conn] /\ conn'[d] = q
      /\ \A k \in Conns \ {d} : conn'[k] = CutOff(d)[k]
  BY <1>2, <1>4, <1>5
<1>7. Types'
  BY <1>1, <1>2, <1>6 DEF Types
<1>8. Listed' = Listed /\ Present' = Present /\ Present = {}
  BY <1>1, <1>2, TargetsAre DEF Listed, Present
<1>9. PointersSound'
  <2>1. NothingFreedInUse'
    <3>1. \A x \in Listed : body'[x].alloc
      BY <1>1, <1>2 DEF PointersSound, NothingFreedInUse, Listed
    <3>2. ASSUME NEW k \in Conns, NEW x \in {conn'[k].char, conn'[k].orig} \ {NoBody}
          PROVE  body'[x].alloc
      BY <1>2, <1>3, <1>4, <1>6
    <3> QED
      BY <1>8, <3>1, <3>2 DEF NothingFreedInUse
  <2>2. LinksAgree'
    BY <1>2, <1>3, <1>4, <1>6 DEF LinksAgree
  <2> QED
    BY <2>1, <2>2 DEF PointersSound
<1>10. ASSUME NEW k \in Conns PROVE ConnSound(k)'
  <2>1. CASE k = d
    <3>1. ConnSound(d)
      BY <1>1
    <3>2. ~(d > accepted') /\ ~body'[d].listed
      BY <1>1, <1>2, <3>1 DEF ConnSound
    <3> QED
      BY <1>4, <1>6, <2>1, <3>2 DEF ConnSound
  <2>2. CASE k # d
    <3>1. ConnSound(k) /\ k \in Bodies /\ body'[k].alloc = body[k].alloc
      BY <1>1, <1>2
    <3>2. /\ conn'[k].char = NoBody /\ conn'[k].orig = NoBody
          /\ conn'[k].state \in {"none", "gone", "name", "close", "disconnect"}
          /\ conn'[k].state \in {"none", "gone", "name"} => conn'[k].state = conn[k].state
          /\ conn'[k].state \notin {"none", "gone"} => conn[k].state \notin {"none", "gone"}
      BY <1>3, <1>6, <2>2
    <3> QED
      BY <1>1, <3>1, <3>2 DEF ConnSound
  <2> QED
    BY <2>1, <2>2
<1>11. \A x \in Bodies : BodySound(x)'
  BY <1>1, <1>2 DEF BodySound
<1>12. OnePlayer'
  BY <1>3, <1>6, <1>8 DEF OnePlayer
<1> QED
  BY <1>7, <1>9, <1>10, <1>11, <1>12 DEF Links

\* What a take-over does.
LEMMA ReconnectIs ==
  ASSUME Links, NEW d \in Conns, Reconnect(d)
  PROVE  \E t \in Present :
           /\ t # d /\ Present = {t}
           /\ conn' \in [Conns -> Conn] /\ body' \in [Bodies -> Body]
           /\ conn'[d].state = "playing" /\ conn'[d].char = t /\ conn'[d].orig = NoBody
           /\ \A k \in Conns \ {d} : conn'[k] = CutOff(d)[k]
           /\ \A x \in Bodies \ {d} :
                /\ body'[x].alloc = body[x].alloc /\ body'[x].listed = body[x].listed
                /\ body'[x].pending = body[x].pending
                /\ body'[x].stuff = body[x].stuff /\ body'[x].rec = body[x].rec
                /\ body'[x].desc = IF x = t THEN d ELSE Unlinked(d)[x].desc
           /\ body'[d] = Unborn
<1> USE Numbered
<1>1. conn[d].state = "password"
  BY DEF Reconnect
<1>2. PICK t \in Present :
       /\ conn' = [CutOff(d) EXCEPT ![d] = [Unmade EXCEPT !.state = "playing", !.char = t]]
       /\ body' = [c \in Bodies |->
            CASE c = t -> [Unlinked(d)[c] EXCEPT
                             !.desc = d, !.idle = IF @ = 2 THEN 2 ELSE 0]
              [] c = d -> Unborn
              [] c \in Linkless(d) \ {t} -> [Unlinked(d)[c] EXCEPT !.pending = TRUE]
              [] OTHER -> Unlinked(d)[c]]
  BY <1>1, TargetsAre DEF Reconnect
<1>3. /\ Present = {t} /\ t \in Bodies /\ t # d /\ Linkless(d) \ {t} = {}
  <2>1. Present = {t} /\ t \in Bodies /\ body[t].listed
    BY DEF Links, OnePlayer, Present, Listed
  <2> QED
    BY <1>1, <2>1, CutOffIs, TargetsAre
<1>4. /\ CutOff(d) \in [Conns -> Conn] /\ Unlinked(d) \in [Bodies -> Body]
      /\ \A x \in Bodies :
           /\ Unlinked(d)[x].alloc = body[x].alloc
           /\ Unlinked(d)[x].listed = body[x].listed
           /\ Unlinked(d)[x].pending = body[x].pending
           /\ Unlinked(d)[x].stuff = body[x].stuff
           /\ Unlinked(d)[x].rec = body[x].rec
  BY <1>1, CutOffIs
<1> DEFINE g == [Unmade EXCEPT !.state = "playing", !.char = t]
           n == IF Unlinked(d)[t].idle = 2 THEN 2 ELSE 0
           r == [Unlinked(d)[t] EXCEPT !.desc = d, !.idle = n]
<1>5. g \in Conn /\ g.state = "playing" /\ g.char = t /\ g.orig = NoBody
  BY <1>3 DEF Unmade, Conn, States
<1>6. r \in Body /\ r.alloc = body[t].alloc /\ r.listed = body[t].listed
      /\ r.pending = body[t].pending /\ r.stuff = body[t].stuff /\ r.rec = body[t].rec
      /\ r.desc = d
  <2>1. Unlinked(d)[t] \in Body /\ n \in 0..2
    BY <1>3, <1>4
  <2> HIDE DEF n
  <2> QED
    BY <1>3, <1>4, <2>1 DEF Body
<1>7. Unborn \in Body
  <2>1. 0 \in 0..2 /\ 0 \in Nat /\ 0 \in 0..MaxRec
    OBVIOUS
  <2> QED
    BY <2>1 DEF Unborn, Body
<1>8. conn' = [CutOff(d) EXCEPT ![d] = g]
  BY <1>2
<1>9. body' = [x \in Bodies |-> IF x = t THEN r ELSE IF x = d THEN Unborn ELSE Unlinked(d)[x]]
  <2> DEFINE Took(c) == [Unlinked(d)[c] EXCEPT !.desc = d, !.idle = IF @ = 2 THEN 2 ELSE 0]
             Gone(c) == [Unlinked(d)[c] EXCEPT !.pending = TRUE]
             Case(c) == CASE c = t -> Took(c)
                          [] c = d -> Unborn
                          [] c \in Linkless(d) \ {t} -> Gone(c)
                          [] OTHER -> Unlinked(d)[c]
  <2>1. r = Took(t)
    OBVIOUS
  <2>2. body' = [c \in Bodies |-> Case(c)]
    BY <1>2
  <2> HIDE DEF Took, Gone, r
  <2>3. ASSUME NEW c \in Bodies
        PROVE  Case(c) = IF c = t THEN r ELSE IF c = d THEN Unborn ELSE Unlinked(d)[c]
    BY <1>3, <2>1
  <2> HIDE DEF Case
  <2> QED
    BY <2>2, <2>3
<1> HIDE DEF g, r
<1>10. conn' \in [Conns -> Conn] /\ conn'[d] = g
       /\ \A k \in Conns \ {d} : conn'[k] = CutOff(d)[k]
  BY <1>4, <1>5, <1>8
<1>11. body' \in [Bodies -> Body] /\ body'[d] = Unborn /\ body'[t] = r
       /\ \A x \in Bodies \ {d, t} : body'[x] = Unlinked(d)[x]
  BY <1>3, <1>4, <1>6, <1>7, <1>9
<1>12. \A x \in Bodies \ {d} :
         /\ body'[x].alloc = body[x].alloc /\ body'[x].listed = body[x].listed
         /\ body'[x].pending = body[x].pending
         /\ body'[x].stuff = body[x].stuff /\ body'[x].rec = body[x].rec
         /\ body'[x].desc = IF x = t THEN d ELSE Unlinked(d)[x].desc
  BY <1>4, <1>6, <1>11
<1> QED
  BY <1>3, <1>5, <1>10, <1>11, <1>12

LEMMA ReconnectLinks ==
  ASSUME Links, NEW d \in Conns, Reconnect(d)
  PROVE  Links'
<1> USE Numbered
<1>1. /\ Types /\ OnePlayer /\ PointersSound
      /\ \A k \in Conns : ConnSound(k)
      /\ \A x \in Bodies : BodySound(x)
      /\ conn \in [Conns -> Conn] /\ body \in [Bodies -> Body] /\ disk \in Disk
      /\ conn[d].state = "password" /\ turn' \in 0..Last /\ phase = "commands"
      /\ UNCHANGED <<phase, accepted, disk, floor, newest>>
  <2>1. /\ conn[d].state = "password" /\ phase = "commands" /\ turn' = d - 1
        /\ UNCHANGED <<phase, accepted, disk, floor, newest>>
    BY DEF Reconnect, Turn, world
  <2> QED
    BY <2>1 DEF Links, Types, Conns
<1>2. PICK t \in Present :
        /\ t # d /\ Present = {t}
        /\ conn' \in [Conns -> Conn] /\ body' \in [Bodies -> Body]
        /\ conn'[d].state = "playing" /\ conn'[d].char = t /\ conn'[d].orig = NoBody
        /\ \A k \in Conns \ {d} : conn'[k] = CutOff(d)[k]
        /\ \A x \in Bodies \ {d} :
             /\ body'[x].alloc = body[x].alloc /\ body'[x].listed = body[x].listed
             /\ body'[x].pending = body[x].pending
             /\ body'[x].desc = IF x = t THEN d ELSE Unlinked(d)[x].desc
        /\ body'[d] = Unborn
  BY ReconnectIs
<1>3. /\ ~body[d].listed /\ d \in Bodies
      /\ \A x \in Bodies : x # d /\ body[x].alloc => Unlinked(d)[x].desc = NoConn
      /\ \A k \in Conns \ {d} :
           /\ CutOff(d)[k].char = NoBody /\ CutOff(d)[k].orig = NoBody
           /\ CutOff(d)[k].state \in {"none", "gone", "name", "close", "disconnect"}
           /\ CutOff(d)[k].state \in {"none", "gone", "name"} =>
                CutOff(d)[k].state = conn[k].state
           /\ CutOff(d)[k].state \notin {"none", "gone"} =>
                conn[k].state \notin {"none", "gone"}
  BY <1>1, CutOffIs
<1>4. ~body'[d].alloc /\ ~body'[d].listed /\ ~body'[d].pending
  BY <1>2 DEF Unborn
<1>5. t \in Bodies /\ t \in Players /\ body[t].listed /\ body[t].alloc /\ t # Mob
  BY <1>1 DEF Present, Listed, PointersSound, NothingFreedInUse
<1>6. Listed' = Listed /\ Present' = Present
  BY <1>2, <1>3, <1>4 DEF Listed, Present
<1>7. Types'
  BY <1>1, <1>2 DEF Types
<1>8. PointersSound'
  <2>1. NothingFreedInUse'
    <3>1. \A x \in Listed : body'[x].alloc
      BY <1>1, <1>2, <1>3 DEF PointersSound, NothingFreedInUse, Listed
    <3>2. ASSUME NEW k \in Conns, NEW x \in {conn'[k].char, conn'[k].orig} \ {NoBody}
          PROVE  body'[x].alloc
      BY <1>2, <1>3, <1>5
    <3> QED
      BY <1>6, <3>1, <3>2 DEF NothingFreedInUse
  <2>2. LinksAgree'
    BY <1>2, <1>3, <1>4, <1>5 DEF LinksAgree
  <2> QED
    BY <2>1, <2>2 DEF PointersSound
<1>9. ASSUME NEW k \in Conns PROVE ConnSound(k)'
  <2>1. CASE k = d
    <3>1. ConnSound(d)
      BY <1>1
    <3>2. ~(d > accepted') /\ body'[t].listed
      BY <1>1, <1>2, <1>5, <3>1 DEF ConnSound
    <3> QED
      BY <1>2, <1>5, <2>1, <3>2 DEF ConnSound
  <2>2. CASE k # d
    <3>1. ConnSound(k) /\ k \in Bodies /\ body'[k].alloc = body[k].alloc
      BY <1>1, <1>2, <2>2
    <3>2. /\ conn'[k].char = NoBody /\ conn'[k].orig = NoBody
          /\ conn'[k].state \in {"none", "gone", "name", "close", "disconnect"}
          /\ conn'[k].state \in {"none", "gone", "name"} => conn'[k].state = conn[k].state
          /\ conn'[k].state \notin {"none", "gone"} => conn[k].state \notin {"none", "gone"}
      BY <1>2, <1>3, <2>2
    <3> QED
      BY <1>1, <3>1, <3>2 DEF ConnSound
  <2> QED
    BY <2>1, <2>2
<1>10. \A x \in Bodies : BodySound(x)'
  BY <1>1, <1>2, <1>4 DEF BodySound
<1>11. OnePlayer'
  <2>1. \A k \in Conns : conn'[k].state # "menu"
    BY <1>2, <1>3
  <2> QED
    BY <1>2, <1>6, <2>1 DEF OnePlayer
<1> QED
  BY <1>7, <1>8, <1>9, <1>10, <1>11 DEF Links

\* Extraction first puts back whoever has switched, out of the body that goes or into it.
Away(c) == {d \in Conns : Open(d) /\ conn[d].orig # NoBody
                          /\ (conn[d].orig = c \/ conn[d].char = c)}
Back(c) == IF Away(c) = {} THEN [conn |-> conn, body |-> body]
           ELSE Returned(CHOOSE d \in Away(c) : TRUE)

\* Then nobody is switched out of it or into it.
Settled(cn, b, c) ==
  /\ cn \in [Conns -> Conn] /\ b \in [Bodies -> Body]
  /\ \A k \in Conns :
       /\ cn[k].state = conn[k].state
       /\ cn[k].state \in {"none", "gone", "name", "disconnect"} => cn[k].char = NoBody
       /\ cn[k].state = "password" => cn[k].char = k
       /\ cn[k].state = "menu" => cn[k].char # NoBody
       /\ cn[k].state \in {"password", "menu", "close"} /\ cn[k].char # NoBody =>
            cn[k].char \in Players /\ ~body[cn[k].char].listed
       /\ cn[k].state \in {"playing", "building"} =>
            cn[k].char # NoBody /\ body[cn[k].char].listed
       /\ cn[k].state = "building" => cn[k].char # Mob
       /\ cn[k].orig # NoBody <=> cn[k].char = Mob
       /\ cn[k].orig # NoBody =>
            /\ cn[k].state = "playing" /\ body[cn[k].orig].listed
            /\ b[cn[k].orig].desc = NoConn /\ cn[k].orig # c /\ cn[k].char # c
  /\ \A k \in Conns : \A x \in {cn[k].char, cn[k].orig} \ {NoBody} : body[x].alloc
  /\ \A x \in Bodies, k \in Conns : body[x].alloc => (b[x].desc = k <=> cn[k].char = x)
  /\ \A x \in Bodies : /\ b[x].alloc = body[x].alloc /\ b[x].listed = body[x].listed
                       /\ b[x].pending = body[x].pending
                       /\ b[x].stuff = body[x].stuff /\ b[x].rec = body[x].rec

LEMMA BackIsSettled ==
  ASSUME Links, NEW c \in Listed, phase = "extract"
  PROVE  Settled(Back(c).conn, Back(c).body, c)
<1> USE Numbered
<1>1. /\ Types /\ PointersSound /\ c \in Bodies /\ body[c].listed /\ body[c].alloc
      /\ \A k \in Conns : ConnSound(k)
      /\ conn \in [Conns -> Conn] /\ body \in [Bodies -> Body]
  BY DEF Links, Types, Listed, PointersSound, NothingFreedInUse
<1>2. \A k \in Conns : conn[k].char \in Bodies \union {NoBody}
                       /\ conn[k].orig \in Players \union {NoBody}
  BY <1>1 DEF Conn
<1>3. CASE Away(c) = {}
  <2>1. Back(c).conn = conn /\ Back(c).body = body
    BY <1>3 DEF Back
  <2>2. ASSUME NEW k \in Conns, conn[k].orig # NoBody
        PROVE  conn[k].orig # c /\ conn[k].char # c
    <3>1. ConnSound(k)
      BY <1>1
    <3> QED
      BY <1>3, <2>2, <3>1 DEF Away, Open, ConnSound
  <2>3. ASSUME NEW k \in Conns
        PROVE  /\ conn[k].state \in {"none", "gone", "name", "disconnect"} =>
                    conn[k].char = NoBody
               /\ conn[k].state = "password" => conn[k].char = k
               /\ conn[k].state = "menu" => conn[k].char # NoBody
               /\ conn[k].state \in {"password", "menu", "close"} /\ conn[k].char # NoBody =>
                    conn[k].char \in Players /\ ~body[conn[k].char].listed
               /\ conn[k].state \in {"playing", "building"} =>
                    conn[k].char # NoBody /\ body[conn[k].char].listed
               /\ conn[k].state = "building" => conn[k].char # Mob
               /\ conn[k].orig # NoBody <=> conn[k].char = Mob
               /\ conn[k].orig # NoBody =>
                    /\ conn[k].state = "playing" /\ body[conn[k].orig].listed
                    /\ body[conn[k].orig].desc = NoConn
    <3>1. ConnSound(k)
      BY <1>1
    <3> QED
      BY <3>1 DEF ConnSound
  <2> QED
    BY <1>1, <2>1, <2>2, <2>3 DEF Settled, PointersSound, NothingFreedInUse, LinksAgree
<1>4. CASE Away(c) # {}
  <2> DEFINE d == CHOOSE d \in Away(c) : TRUE
             o == conn[d].orig
             cn == Back(c).conn
             b == Back(c).body
  <2>1. d \in Away(c) /\ Back(c) = Returned(d)
    BY <1>4 DEF Back
  <2> HIDE DEF d
  <2>2. d \in Conns /\ o # NoBody /\ (o = c \/ conn[d].char = c)
    BY <2>1 DEF Away
  <2> HIDE DEF o
  <2>3. /\ o \in Present /\ conn[d].char = Mob /\ o # Mob
        /\ cn \in [Conns -> Conn] /\ b \in [Bodies -> Body]
        /\ \A k \in Conns \ {d} : cn[k] = conn[k]
        /\ cn[d].char = o /\ cn[d].orig = NoBody /\ cn[d].state = conn[d].state
        /\ \A x \in Bodies :
             /\ b[x].alloc = body[x].alloc /\ b[x].listed = body[x].listed
             /\ b[x].pending = body[x].pending
             /\ b[x].stuff = body[x].stuff /\ b[x].rec = body[x].rec
             /\ b[x].desc = IF x = o THEN d ELSE IF x = Mob THEN NoConn ELSE body[x].desc
    BY <2>1, <2>2, ReturnedIs DEF o
  <2> HIDE DEF cn, b
  <2>4. /\ conn[d].state = "playing" /\ body[Mob].listed /\ body[Mob].alloc
        /\ o \in Players /\ o \in Bodies /\ body[o].listed /\ body[o].alloc
        /\ body[o].desc = NoConn
    <3>1. ConnSound(d)
      BY <1>1, <2>2
    <3>2. conn[d].state = "playing" /\ body[Mob].listed /\ body[o].listed
          /\ body[o].desc = NoConn /\ o \in Players
      BY <2>2, <2>3, <3>1 DEF ConnSound, o, Present, Listed
    <3> QED
      BY <1>1, <3>2 DEF PointersSound, NothingFreedInUse, Listed
  <2>5. ASSUME NEW k \in Conns \ {d}
        PROVE  conn[k].char # Mob /\ conn[k].orig = NoBody /\ conn[k].char # o
    <3>1. conn[k].char # Mob /\ conn[k].char # o
      BY <1>1, <2>2, <2>3, <2>4 DEF PointersSound, LinksAgree
    <3> QED
      BY <1>1, <3>1 DEF ConnSound
  <2>6. ASSUME NEW k \in Conns
        PROVE  /\ cn[k].state = conn[k].state
               /\ cn[k].state \in {"none", "gone", "name", "disconnect"} =>
                    cn[k].char = NoBody
               /\ cn[k].state = "password" => cn[k].char = k
               /\ cn[k].state = "menu" => cn[k].char # NoBody
               /\ cn[k].state \in {"password", "menu", "close"} /\ cn[k].char # NoBody =>
                    cn[k].char \in Players /\ ~body[cn[k].char].listed
               /\ cn[k].state \in {"playing", "building"} =>
                    cn[k].char # NoBody /\ body[cn[k].char].listed
               /\ cn[k].state = "building" => cn[k].char # Mob
               /\ cn[k].orig = NoBody /\ cn[k].char # Mob
    <3>1. ConnSound(k)
      BY <1>1
    <3>2. CASE k = d
      BY <2>3, <2>4, <3>2
    <3>3. CASE k # d
      BY <2>3, <2>5, <3>1, <3>3 DEF ConnSound
    <3> QED
      BY <3>2, <3>3
  <2>7. ASSUME NEW k \in Conns, NEW x \in {cn[k].char, cn[k].orig} \ {NoBody}
        PROVE  body[x].alloc
    <3>1. CASE k = d
      BY <2>3, <2>4, <3>1
    <3>2. CASE k # d
      BY <1>1, <2>3, <3>2 DEF PointersSound, NothingFreedInUse
    <3> QED
      BY <3>1, <3>2
  <2>8. ASSUME NEW x \in Bodies, NEW k \in Conns, body[x].alloc
        PROVE  b[x].desc = k <=> cn[k].char = x
    <3>1. body[x].desc = k <=> conn[k].char = x
      BY <1>1, <2>8 DEF PointersSound, LinksAgree
    <3>2. CASE k = d
      BY <2>3, <2>4, <3>1, <3>2
    <3>3. CASE k # d
      BY <2>3, <2>4, <2>5, <3>1, <3>3
    <3> QED
      BY <3>2, <3>3
  <2>9. Settled(cn, b, c)
    BY <2>3, <2>6, <2>7, <2>8 DEF Settled
  <2> QED
    BY <2>9 DEF cn, b
<1> QED
  BY <1>3, <1>4

\* What extraction leaves of the descriptors, the body and the file.
LEMMA ExtractIs ==
  ASSUME Links, NEW c \in Bodies, ExtractFinal(c)
  PROVE  LET cn == Back(c).conn
             b == Back(c).body
             owner == b[c].desc
             kept == SavedRecord(c, b, disk)
         IN /\ phase = "extract" /\ c \in Listed /\ body[c].pending
            /\ UNCHANGED <<phase, turn, accepted, newest>>
            /\ floor' = floor + body[c].stuff
            /\ owner \in Conns \union {NoConn}
            /\ conn' \in [Conns -> Conn] /\ body' \in [Bodies -> Body] /\ disk' \in Disk
            /\ \A k \in Conns :
                 /\ conn'[k].char = cn[k].char /\ conn'[k].orig = cn[k].orig
                 /\ conn'[k].state =
                      IF k = owner THEN "menu"
                      ELSE IF owner # NoConn /\ Open(k) /\ cn[k].char \in Players THEN "close"
                      ELSE cn[k].state
            /\ \A x \in Bodies \ {c} : body'[x] = b[x]
            /\ ~body'[c].listed /\ ~body'[c].pending /\ body'[c].stuff = 0
            /\ body'[c].alloc = (owner # NoConn)
            /\ body'[c].desc = owner /\ body'[c].rec = b[c].rec
            /\ disk' = IF c # Mob /\ kept.code = "crash"
                       THEN [kept EXCEPT !.code = "none", !.stuff = 0] ELSE kept
            /\ kept \in Disk /\ kept.code = disk.code /\ kept.stuff = disk.stuff
            /\ kept.rec = IF c = Mob \/ b[c].desc = NoConn THEN disk.rec ELSE b[c].rec
<1> USE Numbered
<1> DEFINE cn == Back(c).conn
           b == Back(c).body
           owner == b[c].desc
           kept == SavedRecord(c, b, disk)
<1>1. /\ phase = "extract" /\ c \in Listed /\ body[c].pending
      /\ floor' = floor + body[c].stuff
      /\ UNCHANGED <<phase, turn, accepted, newest>>
  BY DEF ExtractFinal
<1>2. /\ conn' = [d \in Conns |->
             IF d = owner THEN [cn[d] EXCEPT !.state = "menu"]
             ELSE IF owner # NoConn /\ Open(d) /\ cn[d].char \in Players
                  THEN [cn[d] EXCEPT !.state = "close"]
             ELSE cn[d]]
      /\ body' = [b EXCEPT ![c] =
             [@ EXCEPT !.listed = FALSE, !.pending = FALSE, !.stuff = 0,
                       !.alloc = owner # NoConn]]
      /\ disk' = IF c # Mob /\ kept.code = "crash"
                 THEN [kept EXCEPT !.code = "none", !.stuff = 0] ELSE kept
  BY DEF ExtractFinal, Back, Away
<1>3. Settled(cn, b, c) /\ cn \in [Conns -> Conn] /\ b \in [Bodies -> Body] /\ disk \in Disk
  BY <1>1, BackIsSettled DEF Settled, Links, Types
<1> HIDE DEF cn, b
<1>4. b[c] \in Body /\ owner \in Conns \union {NoConn} /\ (owner # NoConn) \in BOOLEAN
  BY <1>3 DEF Body
<1>5. /\ kept \in Disk /\ kept.code = disk.code /\ kept.stuff = disk.stuff
      /\ kept.rec = IF c = Mob \/ b[c].desc = NoConn THEN disk.rec ELSE b[c].rec
  BY <1>3, SavedRecordIs
<1> HIDE DEF owner, kept
<1>6. disk' \in Disk
  BY <1>2, <1>5 DEF Disk
<1> DEFINE r == [b[c] EXCEPT !.listed = FALSE, !.pending = FALSE, !.stuff = 0,
                             !.alloc = owner # NoConn]
<1>7. /\ r \in Body /\ ~r.listed /\ ~r.pending /\ r.stuff = 0 /\ r.alloc = (owner # NoConn)
      /\ r.desc = b[c].desc /\ r.rec = b[c].rec
  <2> DEFINE made == owner # NoConn
  <2>1. made \in BOOLEAN
    BY <1>4
  <2> HIDE DEF made
  <2>2. [b[c] EXCEPT !.listed = FALSE, !.pending = FALSE, !.stuff = 0, !.alloc = made] \in Body
    BY <1>4, <2>1 DEF Body
  <2>3. r = [b[c] EXCEPT !.listed = FALSE, !.pending = FALSE, !.stuff = 0, !.alloc = made]
    BY DEF made
  <2>4. /\ ~r.listed /\ ~r.pending /\ r.stuff = 0 /\ r.alloc = made
        /\ r.desc = b[c].desc /\ r.rec = b[c].rec
    BY <1>4, <2>3 DEF Body
  <2> QED
    BY <2>2, <2>3, <2>4 DEF made
<1>8. body' = [b EXCEPT ![c] = r]
  BY <1>2, <1>3
<1> HIDE DEF r
<1>9. body' \in [Bodies -> Body] /\ body'[c] = r /\ \A x \in Bodies \ {c} : body'[x] = b[x]
  BY <1>3, <1>7, <1>8
<1>10. ASSUME NEW k \in Conns
       PROVE  /\ conn'[k] \in Conn
              /\ conn'[k].char = cn[k].char /\ conn'[k].orig = cn[k].orig
              /\ conn'[k].state =
                   IF k = owner THEN "menu"
                   ELSE IF owner # NoConn /\ Open(k) /\ cn[k].char \in Players THEN "close"
                   ELSE cn[k].state
  <2>1. cn[k] \in Conn
    BY <1>3
  <2>2. conn'[k] = IF k = owner THEN [cn[k] EXCEPT !.state = "menu"]
                   ELSE IF owner # NoConn /\ Open(k) /\ cn[k].char \in Players
                        THEN [cn[k] EXCEPT !.state = "close"]
                   ELSE cn[k]
    BY <1>2
  <2> QED
    BY <2>1, <2>2 DEF Conn, States
<1>11. conn' \in [Conns -> Conn]
  <2> DEFINE F(d) == IF d = owner THEN [cn[d] EXCEPT !.state = "menu"]
                     ELSE IF owner # NoConn /\ Open(d) /\ cn[d].char \in Players
                          THEN [cn[d] EXCEPT !.state = "close"]
                     ELSE cn[d]
  <2>1. conn' = [d \in Conns |-> F(d)]
    BY <1>2
  <2> HIDE DEF F
  <2> QED
    BY <1>10, <2>1
<1> QED
  BY <1>1, <1>2, <1>4, <1>5, <1>6, <1>7, <1>9, <1>10, <1>11 DEF owner, kept, b, cn

LEMMA ExtractLinks ==
  ASSUME Links, NEW c \in Bodies, ExtractFinal(c)
  PROVE  Links'
<1> USE Numbered
<1> DEFINE cn == Back(c).conn
           b == Back(c).body
           owner == b[c].desc
<1>1. /\ Types /\ PointersSound /\ OnePlayer /\ body[c].listed /\ body[c].alloc
      /\ \A k \in Conns : ConnSound(k)
      /\ \A x \in Bodies : BodySound(x)
      /\ body \in [Bodies -> Body] /\ floor \in Nat
  BY ExtractIs DEF Links, Types, Listed, PointersSound, NothingFreedInUse
<1>2. /\ phase = "extract" /\ body[c].pending
      /\ UNCHANGED <<phase, turn, accepted, newest>>
      /\ floor' = floor + body[c].stuff
      /\ owner \in Conns \union {NoConn}
      /\ conn' \in [Conns -> Conn] /\ body' \in [Bodies -> Body] /\ disk' \in Disk
      /\ \A x \in Bodies \ {c} : body'[x] = b[x]
      /\ ~body'[c].listed /\ ~body'[c].pending /\ body'[c].alloc = (owner # NoConn)
      /\ body'[c].desc = owner
  BY ExtractIs
<1>3. \A k \in Conns :
        /\ conn'[k].char = cn[k].char /\ conn'[k].orig = cn[k].orig
        /\ conn'[k].state =
             IF k = owner THEN "menu"
             ELSE IF owner # NoConn /\ Open(k) /\ cn[k].char \in Players THEN "close"
             ELSE cn[k].state
  BY ExtractIs
<1>4. Settled(cn, b, c)
  BY ExtractIs, BackIsSettled
<1> HIDE DEF cn, b
<1>5. /\ \A k \in Conns : owner = k <=> cn[k].char = c
      /\ cn \in [Conns -> Conn]
  BY <1>1, <1>4 DEF Settled
<1> HIDE DEF owner
<1>6. /\ c = Mob => owner = NoConn
      /\ c \in Players => Present = {c}
  <2>1. ASSUME c = Mob, owner \in Conns PROVE FALSE
    BY <1>4, <1>5, <2>1 DEF Settled
  <2> QED
    BY <1>1, <1>2, <2>1 DEF OnePlayer, Present, Listed
<1>7. \A x \in Bodies \ {c} :
        /\ body'[x].alloc = body[x].alloc /\ body'[x].listed = body[x].listed
        /\ body'[x].pending = body[x].pending /\ body'[x].desc = b[x].desc
  BY <1>2, <1>4 DEF Settled
<1>8. Types'
  <2>1. floor' \in Nat
    <3>1. body[c].stuff \in Nat
      BY <1>1 DEF Body
    <3> QED
      BY <1>1, <1>2, <3>1
  <2> QED
    BY <1>1, <1>2, <2>1 DEF Types
<1>9. Listed' = Listed \ {c} /\ Present' = Present \ {c}
  BY <1>2, <1>7 DEF Listed, Present
<1>10. PointersSound'
  <2>1. NothingFreedInUse'
    <3>1. \A x \in Listed \ {c} : body'[x].alloc
      BY <1>1, <1>7 DEF PointersSound, NothingFreedInUse, Listed
    <3>2. ASSUME NEW k \in Conns, NEW x \in {conn'[k].char, conn'[k].orig} \ {NoBody}
          PROVE  body'[x].alloc
      <4>1. body[x].alloc /\ x \in {cn[k].char, cn[k].orig} \ {NoBody} /\ x \in Bodies
        BY <1>3, <1>4, <1>5 DEF Settled, Conn
      <4>2. CASE x # c
        BY <1>7, <4>1, <4>2
      <4>3. CASE x = c
        <5>1. cn[k].orig # c
          BY <1>4, <4>1, <4>3 DEF Settled
        <5> QED
          BY <1>2, <1>5, <4>1, <4>3, <5>1
      <4> QED
        BY <4>2, <4>3
    <3> QED
      BY <1>9, <3>1, <3>2 DEF NothingFreedInUse
  <2>2. LinksAgree'
    <3>1. ASSUME NEW x \in Bodies, NEW k \in Conns, body'[x].alloc
          PROVE  body'[x].desc = k <=> conn'[k].char = x
      <4>1. CASE x # c
        BY <1>3, <1>4, <1>7, <3>1, <4>1 DEF Settled
      <4>2. CASE x = c
        BY <1>2, <1>3, <1>5, <4>2
      <4> QED
        BY <4>1, <4>2
    <3> QED
      BY <3>1 DEF LinksAgree
  <2> QED
    BY <2>1, <2>2 DEF PointersSound
<1>11. ASSUME NEW k \in Conns PROVE ConnSound(k)'
  <2> DEFINE s == cn[k].state
             p == cn[k].char
             o == cn[k].orig
  <2>1. /\ s = conn[k].state
        /\ s \in {"none", "gone", "name", "disconnect"} => p = NoBody
        /\ s = "password" => p = k
        /\ s = "menu" => p # NoBody
        /\ s \in {"password", "menu", "close"} /\ p # NoBody =>
             p \in Players /\ ~body[p].listed
        /\ s \in {"playing", "building"} => p # NoBody /\ body[p].listed
        /\ s = "building" => p # Mob
        /\ o # NoBody <=> p = Mob
        /\ o # NoBody => /\ s = "playing" /\ body[o].listed
                         /\ b[o].desc = NoConn /\ o # c /\ p # c
    BY <1>4 DEF Settled
  <2>2. /\ p \in Bodies \union {NoBody} /\ o \in Players \union {NoBody}
        /\ s \in States
    BY <1>5 DEF Conn
  <2>3. conn'[k].char = p /\ conn'[k].orig = o
    BY <1>3
  <2>4. /\ k > accepted' => s = "none"
        /\ s \in {"none", "name"} => ~body'[k].alloc
    <3>1. ConnSound(k) /\ k \in Bodies
      BY <1>1
    <3>2. k > accepted' => s = "none"
      BY <1>2, <2>1, <3>1 DEF ConnSound
    <3>3. s \in {"none", "name"} => ~body'[k].alloc
      BY <1>1, <1>7, <2>1, <3>1 DEF ConnSound
    <3> QED
      BY <3>2, <3>3
  <2> HIDE DEF s, p, o
  <2>5. CASE k = owner
    <3>1. p = c /\ c # Mob /\ c # NoBody /\ conn'[k].state = "menu"
      BY <1>2, <1>3, <1>5, <1>6, <2>5 DEF p
    <3>2. o = NoBody /\ s # "none"
      BY <2>1, <3>1
    <3> QED
      BY <1>2, <2>3, <2>4, <3>1, <3>2 DEF ConnSound
  <2>6. CASE k # owner /\ owner # NoConn /\ Open(k) /\ p \in Players
    <3>1. conn'[k].state = "close" /\ p # c /\ p # Mob /\ p # NoBody
      BY <1>3, <1>5, <2>6 DEF p
    <3>2. o = NoBody /\ s # "none"
      BY <2>1, <3>1
    <3>3. ~body'[p].listed
      <4>1. c \in Players
        BY <1>2, <1>6, <2>6
      <4>2. p \notin Present
        BY <1>6, <3>1, <4>1
      <4> QED
        BY <1>7, <2>2, <2>6, <3>1, <4>2 DEF Present, Listed
    <3> QED
      BY <2>3, <2>4, <2>6, <3>1, <3>2, <3>3 DEF ConnSound
  <2>7. CASE k # owner /\ ~(owner # NoConn /\ Open(k) /\ p \in Players)
    <3>1. conn'[k].state = s /\ p # c
      BY <1>3, <1>5, <2>7 DEF s, p
    <3>2. p # NoBody => body'[p].listed = body[p].listed
      BY <1>7, <2>2, <3>1
    <3>3. o # NoBody => body'[o].listed = body[o].listed /\ body'[o].desc = b[o].desc
      BY <1>7, <2>1, <2>2
    <3> QED
      BY <2>1, <2>2, <2>3, <2>4, <3>1, <3>2, <3>3 DEF ConnSound
  <2> QED
    BY <2>5, <2>6, <2>7
<1>12. \A x \in Bodies : BodySound(x)'
  BY <1>1, <1>2, <1>7 DEF BodySound
<1>13. OnePlayer'
  <2>1. \A k \in Conns : conn'[k].state = "menu" => k = owner \/ conn[k].state = "menu"
    BY <1>3, <1>4 DEF Settled
  <2>2. \A x, y \in Present' : x = y
    BY <1>1, <1>9 DEF OnePlayer
  <2>3. ASSUME NEW k \in Conns, conn'[k].state = "menu"
        PROVE  Present' = {} /\ \A j \in Conns \ {k} : conn'[j].state # "menu"
    <3>1. CASE owner \in Conns
      <4>1. c \in Players /\ Present = {c}
        BY <1>6, <3>1
      <4>2. \A j \in Conns : conn[j].state # "menu"
        BY <1>1, <4>1 DEF OnePlayer
      <4> QED
        BY <1>9, <2>1, <2>3, <4>1, <4>2
    <3>2. CASE owner \notin Conns
      <4>1. \A j \in Conns : conn'[j].state = "menu" => conn[j].state = "menu"
        BY <2>1, <3>2
      <4> QED
        BY <1>1, <1>9, <2>3, <4>1 DEF OnePlayer
    <3> QED
      BY <3>1, <3>2
  <2> QED
    BY <2>2, <2>3 DEF OnePlayer
<1> QED
  BY <1>8, <1>10, <1>11, <1>12, <1>13 DEF Links

LEMMA InitLinks == Init => Links
<1> SUFFICES ASSUME Init PROVE Links
  OBVIOUS
<1> USE Numbered
<1> DEFINE mobile == [Unborn EXCEPT !.alloc = TRUE, !.listed = TRUE]
<1>1. Unmade \in Conn /\ Unmade.state = "none" /\ Unmade.char = NoBody /\ Unmade.orig = NoBody
  BY DEF Unmade, Conn, States
<1>2. /\ Unborn \in Body /\ ~Unborn.alloc /\ ~Unborn.listed /\ ~Unborn.pending
      /\ Unborn.desc = NoConn /\ Unborn.stuff = 0
  <2>1. 0 \in 0..2 /\ 0 \in Nat /\ 0 \in 0..MaxRec
    OBVIOUS
  <2> QED
    BY <2>1 DEF Unborn, Body
<1>3. /\ mobile \in Body /\ mobile.alloc /\ mobile.listed /\ ~mobile.pending
      /\ mobile.desc = NoConn
  BY <1>2 DEF Body
<1>4. /\ phase = "input" /\ turn = 0 /\ accepted = 0 /\ floor = 0 /\ newest = 0
      /\ disk = [rec |-> 0, code |-> "rented", stuff |-> 1]
      /\ conn = [d \in Conns |-> Unmade]
      /\ body = [c \in Bodies |-> IF c = Mob THEN mobile ELSE Unborn]
  BY DEF Init
<1> HIDE DEF mobile
<1>5. /\ \A d \in Conns : conn[d] = Unmade
      /\ \A c \in Players : body[c] = Unborn
      /\ body[Mob] = mobile
      /\ conn \in [Conns -> Conn] /\ body \in [Bodies -> Body]
  BY <1>1, <1>2, <1>3, <1>4
<1>6. Types
  <2>1. disk \in Disk
    BY <1>4 DEF Disk
  <2>2. phase \in Phases
    BY <1>4 DEF Phases
  <2> QED
    BY <1>4, <1>5, <2>1, <2>2 DEF Types
<1>7. PointersSound
  BY <1>1, <1>2, <1>3, <1>5 DEF PointersSound, NothingFreedInUse, LinksAgree, Listed
<1>8. \A d \in Conns : ConnSound(d)
  BY <1>1, <1>2, <1>5 DEF ConnSound
<1>9. \A c \in Bodies : BodySound(c)
  BY <1>2, <1>3, <1>5 DEF BodySound
<1>10. OnePlayer
  BY <1>1, <1>2, <1>5 DEF OnePlayer, Present, Listed
<1> QED
  BY <1>6, <1>7, <1>8, <1>9, <1>10 DEF Links

LEMMA HangupLinks ==
  ASSUME Links, NEW d \in Conns, Hangup(d) \/ Sweep(d)
  PROVE  Links'
<1>1. Open(d) /\ CloseSocket(d) /\ UNCHANGED <<phase, turn, accepted, disk, floor, newest>>
  BY DEF Hangup, Sweep, Marked, Open, world
<1> QED
  BY <1>1, CloseLinks

LEMMA LinksStep ==
  ASSUME "dcBuilder" \notin May, Links, [Next]_vars
  PROVE  Links'
<1>1. CASE Accept
  BY <1>1, AcceptLinks
<1>2. CASE Advance
  BY <1>2, AdvanceLinks
<1>3. ASSUME NEW d \in Conns, Hangup(d) \/ Dc(d) \/ Sweep(d) \/ PasswordTimeout(d) \/ Autosave(d)
      PROVE  Links'
  BY <1>3, HangupLinks, DcLinks, LoginLinks, AutosaveLinks
<1>4. ASSUME NEW d \in Conns, Command(d)
      PROVE  Links'
  <2>1. CASE Silent(d)
    BY <2>1, SilentLinks
  <2>2. CASE GiveName(d) \/ WrongPassword(d) \/ Goodbye(d)
    BY <2>2, GiveNameLinks, LoginLinks
  <2>3. CASE Reconnect(d) \/ ToMenu(d) \/ EnterGame(d)
    BY <2>3, ReconnectLinks, ToMenuLinks, EnterGameLinks
  <2>4. CASE Play(d) \/ Drop(d) \/ Get(d) \/ Quit(d) \/ Save(d) \/ Build(d) \/ FinishBuilding(d)
    BY <2>4, PlayerLinks
  <2>5. CASE Switch(d) \/ Return(d)
    BY <2>5, SwitchLinks, ReturnLinks
  <2> QED
    BY <1>4, <2>1, <2>2, <2>3, <2>4, <2>5 DEF Command
<1>5. ASSUME NEW c \in Bodies, Purge(c) \/ Die(c) \/ Idle(c) \/ ExtractFinal(c)
      PROVE  Links'
  BY <1>5, PurgeLinks, DieLinks, IdlingLinks, ForcedRentLinks, ExtractLinks
<1>6. CASE UNCHANGED vars
  BY <1>6 DEF vars, world, Links, Types, PointersSound, NothingFreedInUse, LinksAgree, Listed,
              ConnSound, BodySound, OnePlayer, Present
<1> QED
  BY <1>1, <1>2, <1>3, <1>4, <1>5, <1>6 DEF Next

LEMMA LinksHold ==
  ASSUME "dcBuilder" \notin May
  PROVE  Spec => []Links
<1>1. Links /\ [Next]_vars => Links'
  BY LinksStep
<1> QED
  BY <1>1, InitLinks, PTL DEF Spec

-----------------------------------------------------------------------------
(* What a step does to the bodies, but for the pointers *)

\* Only c's belongings and record may be others than before.
Only(c, stuff, rec) ==
  \A x \in Bodies : /\ body'[x].listed = body[x].listed
                    /\ body'[x].stuff = IF x = c THEN stuff ELSE body[x].stuff
                    /\ body'[x].rec = IF x = c THEN rec ELSE body[x].rec

\* Only c may be marked for extraction by the step.
Marks(c) == \A x \in Bodies : body'[x].pending = (body[x].pending \/ x = c)
MarksNobody == \A x \in Bodies : body'[x].pending = body[x].pending

LEMMA PlayerIs ==
  ASSUME Links, NEW d \in Conns, conn[d].state \in {"playing", "building"},
         conn[d].orig = NoBody
  PROVE  LET c == conn[d].char
         IN /\ Play(d) => Only(c, body[c].stuff, newest + 1) /\ MarksNobody
            /\ Drop(d) => Only(c, body[c].stuff - 1, body[c].rec) /\ MarksNobody
            /\ Get(d) => Only(c, body[c].stuff + 1, body[c].rec) /\ MarksNobody
            /\ Quit(d) => Only(c, 0, body[c].rec) /\ Marks(c)
            /\ Save(d) \/ Build(d) \/ FinishBuilding(d) \/ Autosave(d) =>
                 Only(c, body[c].stuff, body[c].rec) /\ MarksNobody
<1> USE Numbered
<1> DEFINE c == conn[d].char
           a == Awake(d)
<1>1. c \in Bodies /\ body \in [Bodies -> Body]
  BY DriverIs DEF Links, Types
<1>2. a \in [Bodies -> Body] /\ \A x \in Bodies : Roused(a, x)
  BY AwakeIs DEF Links
<1>3. /\ Play(d) => body' = [a EXCEPT ![c].rec = newest + 1]
      /\ Drop(d) => body' = [a EXCEPT ![c].stuff = @ - 1, ![c].dirty = TRUE]
      /\ Get(d) => body' = [a EXCEPT ![c].stuff = @ + 1, ![c].dirty = TRUE]
      /\ Quit(d) => body' = [body EXCEPT ![c] = [Emptied(c) EXCEPT !.pending = TRUE, !.idle = 0]]
      /\ Save(d) => body' = [a EXCEPT ![c].dirty = FALSE]
      /\ Autosave(d) => body' = [body EXCEPT ![c].dirty = FALSE]
      /\ Build(d) \/ FinishBuilding(d) => body' = a
  BY DEF Play, Drop, Get, Quit, Save, Autosave, Build, FinishBuilding
<1>4. Quit(d) => body' = [body EXCEPT ![c] =
                   [[body[c] EXCEPT !.stuff = 0, !.dirty = @ \/ body[c].stuff > 0]
                      EXCEPT !.pending = TRUE, !.idle = 0]]
  BY DEF Quit, Emptied
<1> HIDE DEF c, a
<1>5. ASSUME Play(d) PROVE Only(c, body[c].stuff, newest + 1) /\ MarksNobody
  <2>1. body' = [a EXCEPT ![c].rec = newest + 1]
    BY <1>3, <1>5
  <2> QED
    BY <1>1, <1>2, <2>1 DEF Body, Only, MarksNobody, Roused
<1>6. ASSUME Drop(d) PROVE Only(c, body[c].stuff - 1, body[c].rec) /\ MarksNobody
  <2>1. body' = [a EXCEPT ![c].stuff = @ - 1, ![c].dirty = TRUE]
    BY <1>3, <1>6
  <2> QED
    BY <1>1, <1>2, <2>1 DEF Body, Only, MarksNobody, Roused
<1>7. ASSUME Get(d) PROVE Only(c, body[c].stuff + 1, body[c].rec) /\ MarksNobody
  <2>1. body' = [a EXCEPT ![c].stuff = @ + 1, ![c].dirty = TRUE]
    BY <1>3, <1>7
  <2> QED
    BY <1>1, <1>2, <2>1 DEF Body, Only, MarksNobody, Roused
<1>8. ASSUME Quit(d) PROVE Only(c, 0, body[c].rec) /\ Marks(c)
  <2> DEFINE r == [[body[c] EXCEPT !.stuff = 0, !.dirty = @ \/ body[c].stuff > 0]
                      EXCEPT !.pending = TRUE, !.idle = 0]
  <2>1. body' = [body EXCEPT ![c] = r]
    BY <1>4, <1>8
  <2>2. /\ r.listed = body[c].listed /\ r.stuff = 0 /\ r.rec = body[c].rec /\ r.pending
    BY <1>1 DEF Body
  <2> HIDE DEF r
  <2>3. \A x \in Bodies : body'[x] = IF x = c THEN r ELSE body[x]
    BY <1>1, <2>1
  <2>4. Only(c, 0, body[c].rec)
    BY <2>2, <2>3 DEF Only
  <2>5. Marks(c)
    <3>1. \A x \in Bodies : body[x].pending \in BOOLEAN
      BY <1>1 DEF Body
    <3> QED
      BY <2>2, <2>3, <3>1 DEF Marks
  <2> QED
    BY <2>4, <2>5
<1>9. ASSUME Save(d) \/ Build(d) \/ FinishBuilding(d)
      PROVE  Only(c, body[c].stuff, body[c].rec) /\ MarksNobody
  <2>1. CASE body' = [a EXCEPT ![c].dirty = FALSE]
    BY <1>1, <1>2, <2>1 DEF Body, Only, MarksNobody, Roused
  <2>2. CASE body' = a
    BY <1>1, <1>2, <2>2 DEF Only, MarksNobody, Roused
  <2> QED
    BY <1>3, <1>9, <2>1, <2>2
<1>10. ASSUME Autosave(d)
       PROVE  Only(c, body[c].stuff, body[c].rec) /\ MarksNobody
  <2>1. body' = [body EXCEPT ![c].dirty = FALSE]
    BY <1>3, <1>10
  <2> QED
    BY <1>1, <2>1 DEF Body, Only, MarksNobody
<1> QED
  BY <1>5, <1>6, <1>7, <1>8, <1>9, <1>10 DEF c

LEMMA VictimIs ==
  ASSUME Links, NEW c \in Bodies
  PROVE  /\ Purge(c) => Only(c, body[c].stuff, body[c].rec) /\ Marks(c)
         /\ Die(c) => \E corpse \in {body[c].stuff, 0} :
                        /\ Only(c, body[c].stuff - corpse, body[c].rec) /\ Marks(c)
                        /\ floor' = floor + corpse
         /\ Idle(c) /\ body[c].idle # 2 => Only(c, body[c].stuff, body[c].rec) /\ MarksNobody
         /\ Idle(c) /\ body[c].idle = 2 => Only(c, 0, body[c].rec) /\ Marks(c)
<1> USE Numbered
<1>1. body \in [Bodies -> Body] /\ body[c] \in Body /\ body[c].idle \in 0..2
  BY DEF Links, Types, Body
<1>2. ASSUME Purge(c) PROVE Only(c, body[c].stuff, body[c].rec) /\ Marks(c)
  <2>1. body' = [body EXCEPT ![c].desc = NoConn, ![c].pending = TRUE]
    BY <1>2 DEF Purge
  <2> QED
    BY <1>1, <2>1 DEF Body, Only, Marks
<1>3. ASSUME Die(c)
      PROVE  \E corpse \in {body[c].stuff, 0} :
               /\ Only(c, body[c].stuff - corpse, body[c].rec) /\ Marks(c)
               /\ floor' = floor + corpse
  <2>1. PICK corpse \in {body[c].stuff, 0} :
          /\ floor' = floor + corpse
          /\ body' = [body EXCEPT ![c].pending = TRUE, ![c].stuff = @ - corpse,
                                 ![c].dirty = @ \/ corpse > 0]
    BY <1>3 DEF Die
  <2> DEFINE r == [body[c] EXCEPT !.pending = TRUE, !.stuff = @ - corpse,
                                  !.dirty = @ \/ corpse > 0]
  <2>2. body' = [body EXCEPT ![c] = r]
    BY <1>1, <2>1 DEF Body
  <2>3. /\ r.listed = body[c].listed /\ r.stuff = body[c].stuff - corpse
        /\ r.rec = body[c].rec /\ r.pending
    BY <1>1 DEF Body
  <2> HIDE DEF r
  <2>4. Only(c, body[c].stuff - corpse, body[c].rec) /\ Marks(c)
    BY <1>1, <2>2, <2>3 DEF Only, Marks, Body
  <2> QED
    BY <2>1, <2>4
<1>4. ASSUME Idle(c), body[c].idle # 2
      PROVE  Only(c, body[c].stuff, body[c].rec) /\ MarksNobody
  <2>1. CASE body[c].idle = 0
    <3>1. body' = [body EXCEPT ![c].idle = 1]
      BY <1>4, <2>1 DEF Idle
    <3> QED
      BY <1>1, <3>1 DEF Body, Only, MarksNobody
  <2>2. CASE body[c].idle = 1
    <3>1. body' = [body EXCEPT ![c].idle = 2, ![c].dirty = FALSE]
      BY <1>4, <2>2 DEF Idle
    <3> QED
      BY <1>1, <3>1 DEF Body, Only, MarksNobody
  <2> QED
    BY <1>1, <1>4, <2>1, <2>2
<1>5. ASSUME Idle(c), body[c].idle = 2 PROVE Only(c, 0, body[c].rec) /\ Marks(c)
  <2> DEFINE r == [[body[c] EXCEPT !.stuff = 0, !.dirty = @ \/ body[c].stuff > 0]
                      EXCEPT !.desc = NoConn, !.pending = TRUE]
  <2>1. body' = [body EXCEPT ![c] = r]
    BY <1>5 DEF Idle, Emptied
  <2>2. r.listed = body[c].listed /\ r.stuff = 0 /\ r.rec = body[c].rec /\ r.pending
    BY <1>1 DEF Body
  <2> HIDE DEF r
  <2> QED
    BY <1>1, <2>1, <2>2 DEF Only, Marks, Body
<1> QED
  BY <1>2, <1>3, <1>4, <1>5

LEMMA EnterIs ==
  ASSUME Links, NEW d \in Conns, EnterGame(d)
  PROVE  LET c == conn[d].char
         IN /\ c \in Players /\ ~body[c].listed /\ ~body[c].pending /\ Present = {}
            /\ Present' = {c} /\ MarksNobody
            /\ \A x \in Bodies :
                 /\ body'[x].stuff = IF x = c THEN disk.stuff ELSE body[x].stuff
                 /\ body'[x].rec = body[x].rec
            /\ disk'.rec = body[c].rec /\ disk'.stuff = disk.stuff
            /\ disk'.code = IF disk.code = "none" THEN "none" ELSE "crash"
            /\ UNCHANGED <<floor, newest>>
<1> USE Numbered
<1> DEFINE c == conn[d].char
           r == [body[c] EXCEPT !.listed = TRUE, !.idle = 0, !.stuff = disk.stuff,
                                !.dirty = disk.stuff > 0]
<1>1. /\ body \in [Bodies -> Body] /\ disk \in Disk /\ OnePlayer /\ conn[d].state = "menu"
      /\ UNCHANGED <<floor, newest>> /\ ConnSound(d)
      /\ \A x \in Bodies : BodySound(x)
  BY DEF Links, Types, EnterGame, world
<1>2. c \in Players /\ c \in Bodies /\ ~body[c].listed /\ ~body[c].pending /\ Present = {}
  BY <1>1 DEF ConnSound, OnePlayer, BodySound
<1>3. /\ body' = [body EXCEPT ![c].listed = TRUE, ![c].idle = 0,
                              ![c].stuff = disk.stuff, ![c].dirty = disk.stuff > 0]
      /\ disk' = [disk EXCEPT !.rec = body[c].rec,
                              !.code = IF @ = "none" THEN "none" ELSE "crash"]
  BY DEF EnterGame
<1> HIDE DEF c
<1>4. body' = [body EXCEPT ![c] = r]
  BY <1>1, <1>2, <1>3 DEF Body
<1>5. r.listed /\ r.stuff = disk.stuff /\ r.rec = body[c].rec /\ r.pending = body[c].pending
  BY <1>1, <1>2 DEF Body
<1> HIDE DEF r
<1>6. \A x \in Bodies : body'[x] = IF x = c THEN r ELSE body[x]
  BY <1>1, <1>2, <1>4
<1>7. Present' = {c}
  BY <1>2, <1>5, <1>6 DEF Present, Listed
<1>8. \A x \in Bodies : /\ body'[x].stuff = IF x = c THEN disk.stuff ELSE body[x].stuff
                        /\ body'[x].rec = body[x].rec /\ body'[x].pending = body[x].pending
  BY <1>5, <1>6
<1>9. /\ disk'.rec = body[c].rec /\ disk'.stuff = disk.stuff
      /\ disk'.code = IF disk.code = "none" THEN "none" ELSE "crash"
  BY <1>1, <1>3 DEF Disk
<1> QED
  BY <1>1, <1>2, <1>7, <1>8, <1>9 DEF c, MarksNobody

\* The command loop comes to whoever gets hold of a body in their turn only once.
TurnsOn ==
  phase' = "commands" =>
    \/ phase = "input"
    \/ /\ phase = "commands" /\ turn' <= turn
       /\ \A k \in Conns, c \in Present : Bound(k, c)' => Bound(k, c) \/ turn' < k

LEMMA TurnsGoOn ==
  ASSUME Links, Next
  PROVE  TurnsOn
<1> USE Numbered
<1>1. /\ conn \in [Conns -> Conn] /\ turn \in Int
      /\ \A x \in Present : x \in Bodies /\ x # NoBody /\ x # Mob /\ body[x].listed
      /\ \A k \in Conns : ConnSound(k)
  BY DEF Links, Types, Present, Listed
<1>2. ASSUME phase' = "commands" => phase = "commands" /\ turn' \in {turn, turn - 1},
             \A k \in Conns, c \in Present : Bound(k, c)' => Bound(k, c) \/ turn' < k
      PROVE  TurnsOn
  BY <1>1, <1>2 DEF TurnsOn
<1>3. ASSUME phase' = "commands" => phase = "commands" /\ turn' \in {turn, turn - 1},
             \A k \in Conns : /\ conn'[k].char \in {conn[k].char, NoBody}
                              /\ conn'[k].orig = conn[k].orig
      PROVE  TurnsOn
  BY <1>1, <1>2, <1>3 DEF Bound
<1>4. CASE Accept \/ Advance
  BY <1>4 DEF Accept, Advance, TurnsOn
<1>5. ASSUME NEW d \in Conns, Hangup(d) \/ Sweep(d) \/ PasswordTimeout(d) \/ Autosave(d)
      PROVE  TurnsOn
  BY <1>5 DEF Hangup, Sweep, PasswordTimeout, Autosave, TurnsOn
<1>6. ASSUME NEW c \in Bodies, Idle(c) \/ ExtractFinal(c)
      PROVE  TurnsOn
  BY <1>6 DEF Idle, ExtractFinal, TurnsOn
<1>7. ASSUME NEW c \in Bodies, Die(c)
      PROVE  TurnsOn
  BY <1>1, <1>3, <1>7 DEF Die
<1>8. ASSUME NEW c \in Bodies, Purge(c)
      PROVE  TurnsOn
  <2> DEFINE d == body[c].desc
  <2>1. /\ phase' = phase /\ turn' = turn /\ d \in Conns \union {NoConn}
        /\ conn' = IF d = NoConn THEN conn
                   ELSE [conn EXCEPT ![d].state = "close", ![d].char = NoBody]
    BY <1>8 DEF Purge, Links, Types, Body
  <2> HIDE DEF d
  <2>2. \A k \in Conns : /\ conn'[k].char \in {conn[k].char, NoBody}
                         /\ conn'[k].orig = conn[k].orig
    BY <1>1, <2>1 DEF Conn
  <2> QED
    BY <1>3, <2>1, <2>2
<1>9. ASSUME NEW d \in Conns, Dc(d)
      PROVE  TurnsOn
  <2>1. /\ phase' = phase /\ turn' = turn
        /\ conn' = [conn EXCEPT ![d].state =
                      IF conn[d].state = "playing" THEN "disconnect" ELSE "close"]
    BY <1>9 DEF Dc
  <2>2. \A k \in Conns : conn'[k].char = conn[k].char /\ conn'[k].orig = conn[k].orig
    BY <1>1, <2>1 DEF Conn
  <2> QED
    BY <1>3, <2>1, <2>2
<1>10. ASSUME NEW d \in Conns, Command(d)
       PROVE  TurnsOn
  <2>1. /\ phase = "commands" /\ phase' = phase /\ turn = d /\ turn' = turn - 1
        /\ d - 1 < d /\ ConnSound(d)
    <3>1. Turn(d) /\ phase' = phase
      BY <1>10 DEF Command, Silent, GiveName, WrongPassword, Reconnect, ToMenu, EnterGame,
                   Goodbye, Play, Drop, Get, Quit, Save, Build, FinishBuilding, Switch, Return
    <3>2. d \in Int /\ ConnSound(d)
      BY <1>1 DEF Conns
    <3> QED
      BY <3>1, <3>2 DEF Turn
  <2>2. ASSUME \A k \in Conns : conn'[k].char = conn[k].char /\ conn'[k].orig = conn[k].orig
        PROVE  TurnsOn
    BY <1>3, <2>1, <2>2
  <2>3. CASE \/ Silent(d) \/ Play(d) \/ Drop(d) \/ Get(d) \/ Quit(d) \/ Save(d)
    BY <2>2, <2>3 DEF Silent, Play, Drop, Get, Quit, Save
  <2>4. CASE WrongPassword(d) \/ EnterGame(d) \/ Goodbye(d) \/ Build(d) \/ FinishBuilding(d)
    <3>1. \E s \in States : conn' = [conn EXCEPT ![d].state = s]
      BY <2>4 DEF WrongPassword, EnterGame, Goodbye, Build, FinishBuilding, States
    <3>2. \A k \in Conns : conn'[k].char = conn[k].char /\ conn'[k].orig = conn[k].orig
      BY <1>1, <3>1 DEF Conn
    <3> QED
      BY <2>2, <3>2
  <2>5. CASE GiveName(d)
    <3>1. conn' = [conn EXCEPT ![d].state = "password", ![d].char = d] /\ d \notin Present
      <4>1. conn[d].state = "name" /\ d \in Bodies
        BY <2>5 DEF GiveName
      <4>2. ~body[d].listed
        BY <2>1, <4>1 DEF ConnSound, Links, PointersSound, NothingFreedInUse, Listed
      <4> QED
        BY <1>1, <2>5, <4>2 DEF GiveName
    <3>2. \A k \in Conns : /\ conn'[k].char = IF k = d THEN d ELSE conn[k].char
                           /\ conn'[k].orig = conn[k].orig
      BY <1>1, <3>1 DEF Conn
    <3>3. \A k \in Conns, c \in Present : Bound(k, c)' => Bound(k, c)
      BY <3>1, <3>2 DEF Bound
    <3> QED
      BY <1>2, <2>1, <3>3
  <2>6. CASE Reconnect(d)
    <3>1. conn[d].state = "password" /\ \A k \in Conns \ {d} : conn'[k] = CutOff(d)[k]
      BY <2>6, ReconnectIs DEF Reconnect
    <3>2. \A k \in Conns \ {d} : conn'[k].char = NoBody /\ conn'[k].orig = NoBody
      BY <3>1, CutOffIs
    <3>3. \A k \in Conns, c \in Present : Bound(k, c)' => k = d
      BY <1>1, <3>2 DEF Bound
    <3> QED
      BY <1>2, <2>1, <3>3
  <2>7. CASE ToMenu(d)
    <3>1. Present = {}
      BY <2>7, TargetsAre DEF ToMenu
    <3> QED
      BY <1>2, <2>1, <3>1
  <2>8. CASE Switch(d)
    <3>1. conn' = [conn EXCEPT ![d].char = Mob, ![d].orig = conn[d].char]
      BY <2>8 DEF Switch
    <3>2. \A k \in Conns : /\ conn'[k].char = IF k = d THEN Mob ELSE conn[k].char
                           /\ conn'[k].orig = IF k = d THEN conn[d].char ELSE conn[k].orig
      BY <1>1, <3>1 DEF Conn
    <3>3. \A k \in Conns, c \in Present : Bound(k, c)' => Bound(k, c)
      BY <1>1, <3>2 DEF Bound
    <3> QED
      BY <1>2, <2>1, <3>3
  <2>9. CASE Return(d)
    <3>1. conn' = [conn EXCEPT ![d].char = conn[d].orig, ![d].orig = NoBody]
      BY <2>9 DEF Return, Returned
    <3>2. \A k \in Conns : /\ conn'[k].char = IF k = d THEN conn[d].orig ELSE conn[k].char
                           /\ conn'[k].orig = IF k = d THEN NoBody ELSE conn[k].orig
      BY <1>1, <3>1 DEF Conn
    <3>3. \A k \in Conns, c \in Present : Bound(k, c)' => Bound(k, c)
      BY <1>1, <3>2 DEF Bound
    <3> QED
      BY <1>2, <2>1, <3>3
  <2> QED
    BY <1>10, <2>3, <2>4, <2>5, <2>6, <2>7, <2>8, <2>9 DEF Command
<1> QED
  BY <1>4, <1>5, <1>6, <1>7, <1>8, <1>9, <1>10 DEF Next

-----------------------------------------------------------------------------
(* Belongings *)

\* A body that a login allocates, or lets go for one that is in the world already.
Fresh(x) ==
  \/ conn[x].state = "name" /\ body'[x].rec = disk.rec
  \/ conn[x].state = "password" /\ conn'[x].state = "playing" /\ body'[x].rec = 0

\* Most steps neither move belongings nor touch the file, or whoever is in the world.
Quiet ==
  /\ Present' = Present
  /\ \A x \in Bodies : body'[x].stuff = body[x].stuff
  /\ \A x \in Present : body'[x].rec = body[x].rec /\ body'[x].pending = body[x].pending
  /\ \A x \in Bodies : body'[x].rec = body[x].rec \/ (x \in Conns /\ Fresh(x))
  /\ UNCHANGED <<disk, floor, newest>>

LEMMA QuietSteps ==
  ASSUME Links, Belongings
  PROVE  /\ Accept \/ Advance => Quiet
         /\ \A d \in Conns :
              Hangup(d) \/ Sweep(d) \/ Dc(d) \/ PasswordTimeout(d) \/ Silent(d) \/ GiveName(d)
              \/ Reconnect(d) \/ ToMenu(d) \/ Goodbye(d) \/ Build(d) \/ FinishBuilding(d)
              \/ Switch(d) \/ Return(d) => Quiet
         /\ \A c \in Bodies : Idle(c) /\ body[c].idle = 0 => Quiet
         /\ ExtractFinal(Mob) => Quiet
<1> USE Numbered
<1>1. /\ body \in [Bodies -> Body] /\ conn \in [Conns -> Conn]
      /\ \A c \in Bodies \ Present : body[c].stuff = 0
      /\ \A k \in Conns : ConnSound(k)
  BY DEF Links, Types, Belongings
<1>2. ASSUME UNCHANGED <<body, disk, floor, newest>>
      PROVE  Quiet
  BY <1>2 DEF Quiet, Present, Listed, Fresh
<1>3. ASSUME \A x \in Bodies : /\ body'[x].listed = body[x].listed
                               /\ body'[x].stuff = body[x].stuff /\ body'[x].rec = body[x].rec
                               /\ body'[x].pending = body[x].pending,
             UNCHANGED <<disk, floor, newest>>
      PROVE  Quiet
  BY <1>3 DEF Quiet, Present, Listed, Fresh
<1>4. ASSUME NEW c \in Bodies, Only(c, body[c].stuff, body[c].rec), MarksNobody,
             UNCHANGED <<disk, floor, newest>>
      PROVE  Quiet
  BY <1>3, <1>4 DEF Only, MarksNobody
<1>5. CASE Accept \/ Advance
  BY <1>2, <1>5 DEF Accept, Advance, world
<1>6. ASSUME NEW d \in Conns, Dc(d) \/ PasswordTimeout(d) \/ Silent(d) \/ Goodbye(d)
      PROVE  Quiet
  BY <1>2, <1>6 DEF Dc, PasswordTimeout, Silent, Goodbye, world
<1>7. ASSUME NEW d \in Conns, Hangup(d) \/ Sweep(d)
      PROVE  Quiet
  <2> DEFINE c == conn[d].char
             o == conn[d].orig
             stays == InGame(d) \/ conn[d].state = "disconnect"
  <2>1. /\ UNCHANGED <<disk, floor, newest>>
        /\ body' = [x \in Bodies |->
             IF x = c THEN [body[x] EXCEPT !.desc = NoConn, !.alloc = @ /\ stays]
             ELSE IF x = o THEN [body[x] EXCEPT !.desc = NoConn] ELSE body[x]]
    BY <1>7 DEF Hangup, Sweep, CloseSocket, world
  <2> HIDE DEF c, o, stays
  <2>2. ASSUME NEW x \in Bodies
        PROVE  /\ body'[x].listed = body[x].listed /\ body'[x].stuff = body[x].stuff
               /\ body'[x].rec = body[x].rec /\ body'[x].pending = body[x].pending
    <3>1. body[x] \in Body
      BY <1>1
    <3>2. \/ body'[x] = [body[x] EXCEPT !.desc = NoConn, !.alloc = @ /\ stays]
          \/ body'[x] = [body[x] EXCEPT !.desc = NoConn]
          \/ body'[x] = body[x]
      BY <2>1
    <3> QED
      BY <3>1, <3>2 DEF Body
  <2> QED
    BY <1>3, <2>1, <2>2
<1>8. ASSUME NEW d \in Conns, GiveName(d)
      PROVE  Quiet
  <2> DEFINE r == [Unborn EXCEPT !.alloc = TRUE, !.desc = d, !.rec = disk.rec]
  <2>1. body' = [body EXCEPT ![d] = r] /\ UNCHANGED <<disk, floor, newest>> /\ d \in Bodies
        /\ conn[d].state = "name"
    BY <1>8 DEF GiveName, world
  <2>2. ~r.listed /\ r.stuff = 0
    BY DEF Unborn
  <2> HIDE DEF r
  <2>3. ~body[d].listed
    <3>1. ~body[d].alloc
      BY <1>1, <2>1 DEF ConnSound
    <3> QED
      BY <2>1, <3>1 DEF Links, PointersSound, NothingFreedInUse, Listed
  <2>4. \A x \in Bodies : body'[x] = IF x = d THEN r ELSE body[x]
    BY <1>1, <2>1
  <2>5. Present' = Present /\ d \notin Present
    BY <2>2, <2>3, <2>4 DEF Present, Listed
  <2>6. \A x \in Bodies : body'[x].stuff = body[x].stuff
    BY <1>1, <2>1, <2>2, <2>4, <2>5
  <2>7. Fresh(d)
    <3>1. r.rec = disk.rec
      BY DEF r, Unborn
    <3> QED
      BY <2>1, <2>4, <3>1 DEF Fresh
  <2>8. \A x \in Bodies : x # d => body'[x] = body[x]
    BY <2>4
  <2>9. \A x \in Bodies : body'[x].rec = body[x].rec \/ (x \in Conns /\ Fresh(x))
    BY <2>7, <2>8
  <2>10. \A x \in Present : body'[x] = body[x]
    BY <2>5, <2>8 DEF Present, Listed
  <2> QED
    BY <2>1, <2>5, <2>6, <2>9, <2>10 DEF Quiet
<1>9. ASSUME NEW d \in Conns, Reconnect(d)
      PROVE  Quiet
  <2>1. /\ body'[d] = Unborn /\ d \in Bodies /\ UNCHANGED <<disk, floor, newest>>
        /\ \A x \in Bodies \ {d} :
             /\ body'[x].listed = body[x].listed
             /\ body'[x].pending = body[x].pending
             /\ body'[x].stuff = body[x].stuff /\ body'[x].rec = body[x].rec
    <3>1. UNCHANGED <<disk, floor, newest>> /\ d \in Bodies
      BY <1>9 DEF Reconnect, world
    <3> QED
      BY <1>9, <3>1, ReconnectIs
  <2>2. ~body[d].listed
    BY <1>9, CutOffIs DEF Reconnect
  <2>3. ~body'[d].listed /\ body'[d].stuff = 0
    BY <2>1 DEF Unborn
  <2>4. Present' = Present /\ d \notin Present
    BY <2>1, <2>2, <2>3 DEF Present, Listed
  <2>5. \A x \in Bodies : body'[x].stuff = body[x].stuff
    BY <1>1, <2>1, <2>3, <2>4
  <2>6. \A x \in Present : body'[x].rec = body[x].rec /\ body'[x].pending = body[x].pending
    BY <2>1, <2>4 DEF Present, Listed
  <2>7. Fresh(d)
    <3>1. conn[d].state = "password" /\ conn'[d].state = "playing"
      BY <1>9, ReconnectIs DEF Reconnect
    <3> QED
      BY <2>1, <3>1 DEF Fresh, Unborn
  <2>8. \A x \in Bodies : body'[x].rec = body[x].rec \/ (x \in Conns /\ Fresh(x))
    BY <2>1, <2>7
  <2> QED
    BY <2>1, <2>4, <2>5, <2>6, <2>8 DEF Quiet
<1>10. ASSUME NEW d \in Conns, ToMenu(d)
       PROVE  Quiet
  <2>1. /\ body' = Unlinked(d) /\ UNCHANGED <<disk, floor, newest>> /\ conn[d].state = "password"
    BY <1>10 DEF ToMenu, world
  <2> QED
    BY <1>3, <2>1, CutOffIs
<1>11. ASSUME NEW d \in Conns, Build(d) \/ FinishBuilding(d)
       PROVE  Quiet
  <2>1. /\ conn[d].state \in {"playing", "building"} /\ UNCHANGED <<disk, floor, newest>>
        /\ conn[d].orig = NoBody
    BY <1>1, <1>11 DEF Build, FinishBuilding, Driving, world, ConnSound
  <2>2. conn[d].char \in Bodies
    BY <2>1, DriverIs
  <2> QED
    BY <1>4, <1>11, <2>1, <2>2, PlayerIs
<1>12. ASSUME NEW d \in Conns, Switch(d)
       PROVE  Quiet
  <2> DEFINE c == conn[d].char
             a == Awake(d)
  <2>1. /\ body' = [a EXCEPT ![c].desc = NoConn, ![Mob].desc = d]
        /\ UNCHANGED <<disk, floor, newest>> /\ Driving(d)
    BY <1>12 DEF Switch, world
  <2>2. a \in [Bodies -> Body] /\ \A x \in Bodies : Roused(a, x)
    BY AwakeIs DEF Links
  <2>3. c \in Bodies
    BY <2>1, DriverIs DEF Driving
  <2> HIDE DEF c, a
  <2>4. \A x \in Bodies : /\ body'[x].listed = a[x].listed /\ body'[x].stuff = a[x].stuff
                          /\ body'[x].rec = a[x].rec /\ body'[x].pending = a[x].pending
    BY <2>1, <2>2, <2>3 DEF Body
  <2> QED
    BY <1>3, <2>1, <2>2, <2>4 DEF Roused
<1>13. ASSUME NEW d \in Conns, Return(d)
       PROVE  Quiet
  <2>1. /\ body' = Returned(d).body /\ UNCHANGED <<disk, floor, newest>> /\ conn[d].orig # NoBody
    BY <1>13 DEF Return, world
  <2> QED
    BY <1>3, <2>1, ReturnedIs
<1>14. ASSUME NEW c \in Bodies, Idle(c) /\ body[c].idle = 0
       PROVE  Quiet
  <2>1. UNCHANGED <<disk, floor, newest>>
    BY <1>14 DEF Idle, world
  <2> QED
    BY <1>4, <1>14, <2>1, VictimIs
<1>15. CASE ExtractFinal(Mob)
  <2> DEFINE b == Back(Mob).body
  <2>1. Settled(Back(Mob).conn, b, Mob)
    BY <1>15, ExtractIs, BackIsSettled
  <2>2. /\ \A x \in Bodies \ {Mob} : body'[x] = b[x]
        /\ body'[Mob].stuff = 0 /\ UNCHANGED newest /\ floor' = floor + body[Mob].stuff
        /\ body'[Mob].rec = b[Mob].rec
    BY <1>15, ExtractIs
  <2>3. disk' = disk
    BY <1>15 DEF ExtractFinal, SavedRecord
  <2> HIDE DEF b
  <2>4. \A x \in Bodies \ {Mob} :
          /\ body'[x].listed = body[x].listed /\ body'[x].stuff = body[x].stuff
          /\ body'[x].rec = body[x].rec /\ body'[x].pending = body[x].pending
    BY <2>1, <2>2 DEF Settled
  <2>5. body[Mob].stuff = 0 /\ floor' = floor
    <3>1. Mob \notin Present /\ floor \in Nat
      BY DEF Present, Links, Types
    <3> QED
      BY <1>1, <2>2, <3>1
  <2>6. body'[Mob].rec = body[Mob].rec
    BY <2>1, <2>2 DEF Settled
  <2>7. \A x \in Bodies : body'[x].rec = body[x].rec \/ (x \in Conns /\ Fresh(x))
    BY <2>4, <2>6
  <2>8. \A x \in Bodies : body'[x].stuff = body[x].stuff
    BY <2>2, <2>4, <2>5
  <2>9. Present' = Present
    BY <2>4 DEF Present, Listed
  <2>10. \A x \in Present : body'[x].rec = body[x].rec /\ body'[x].pending = body[x].pending
    BY <2>4 DEF Present, Listed
  <2> QED
    BY <2>2, <2>3, <2>5, <2>7, <2>8, <2>9, <2>10 DEF Quiet
<1> QED
  BY <1>5, <1>6, <1>7, <1>8, <1>9, <1>10, <1>11, <1>12, <1>13, <1>14, <1>15

LEMMA QuietKeepsBelongings ==
  ASSUME Links, Belongings, TurnsOn, Quiet, Links'
  PROVE  Belongings'
<1> USE Numbered
<1>1. Present' = Present /\ InRentFile' = InRentFile /\ Present \subseteq Bodies
  BY DEF Quiet, InRentFile, Present, Listed
<1>2. ASSUME NEW c \in Present, disk.code = "rented"
      PROVE  /\ body'[c].pending /\ body'[c].stuff = 0
             /\ phase' = "commands" => \A k \in Conns : Bound(k, c)' => turn' < k
  <2>1. /\ body[c].pending /\ body[c].stuff = 0 /\ phase # "input"
        /\ phase = "commands" => \A k \in Conns : Bound(k, c) => turn < k
    BY <1>1, <1>2 DEF Belongings, Links, BodySound
  <2>2. body'[c].pending /\ body'[c].stuff = 0
    BY <1>1, <2>1 DEF Quiet
  <2>3. ASSUME phase' = "commands", NEW k \in Conns, Bound(k, c)'
        PROVE  turn' < k
    <3>1. /\ phase = "commands" /\ turn' <= turn
          /\ Bound(k, c) \/ turn' < k
      BY <2>1, <2>3 DEF TurnsOn
    <3>2. turn \in Int /\ turn' \in Int /\ k \in Int
      BY DEF Links, Types, Conns
    <3> QED
      BY <2>1, <3>1, <3>2
  <2> QED
    BY <2>2, <2>3
<1> QED
  BY <1>1, <1>2 DEF Belongings, Quiet

\* Whoever has a turn is the player, present, and has not rented.
LEMMA TurnNotRented ==
  ASSUME Links, Belongings, NEW d \in Conns, phase = "commands", turn = d, Driving(d)
  PROVE  LET c == conn[d].char
         IN /\ c \in Bodies /\ c # Mob /\ Present = {c} /\ disk.code # "rented"
            /\ body[c].stuff \in Nat /\ floor \in Nat /\ body[c].stuff + floor = 1
            /\ body[c].desc = d
<1> USE Numbered
<1> DEFINE c == conn[d].char
<1>1. /\ c \in Bodies /\ c \in Players /\ body[c].listed /\ body[c].desc = d /\ c # NoBody
  BY DriverIs DEF Driving
<1>2. c \in Present /\ Present = {c}
  BY <1>1 DEF Present, Listed, Links, OnePlayer
<1>3. body[c].stuff \in Nat /\ floor \in Nat /\ turn \in Int
  <2>1. body[c] \in Body /\ floor \in Nat
    BY <1>1 DEF Links, Types
  <2>2. turn \in Int
    BY DEF Conns
  <2> QED
    BY <2>1, <2>2 DEF Body
<1>4. disk.code # "rented"
  <2>1. Bound(d, c) /\ ~(turn < d)
    BY <1>3 DEF Bound
  <2> QED
    BY <1>2, <2>1 DEF Belongings
<1>5. body[c].stuff + floor = 1
  <2>1. InRentFile = 0
    BY <1>4 DEF InRentFile
  <2> QED
    BY <1>2, <1>3, <2>1 DEF Belongings
<1> QED
  BY <1>1, <1>2, <1>3, <1>4, <1>5

LEMMA OnlyPresent ==
  ASSUME NEW c, NEW n, NEW m, Only(c, n, m), Links, Belongings, c \in Bodies
  PROVE  /\ Present' = Present
         /\ \A x \in Bodies \ (Present \union {c}) : body'[x].stuff = 0
         /\ body'[c].stuff = n /\ body'[c].rec = m
BY DEF Only, Present, Listed, Belongings

\* Where belongings are after a step with somebody present who has not rented.
LEMMA OneHolds ==
  ASSUME Links, Belongings, NEW c \in Bodies, Present = {c}, NEW n \in Nat, NEW m, Only(c, n, m),
         disk'.code # "rented", floor' \in Nat, n + floor' = 1,
         disk'.code = "none" => disk'.stuff = 0
  PROVE  Belongings'
<1>1. /\ Present' = {c} /\ body'[c].stuff = n
      /\ \A x \in Bodies \ {c} : body'[x].stuff = 0
  BY OnlyPresent
<1>2. InRentFile' = 0
  BY DEF InRentFile
<1>3. body'[c].stuff + floor' + InRentFile' = 1
  <2>1. PICK f \in Nat : f = floor'
    OBVIOUS
  <2>2. n + f = 1 /\ body'[c].stuff = n /\ n \in Nat
    BY <1>1, <2>1
  <2>3. n + f + 0 = 1
    BY <2>2
  <2> QED
    BY <1>2, <2>1, <2>2, <2>3
<1>4. Present' # {}
  BY <1>1
<1> QED
  BY <1>1, <1>3, <1>4 DEF Belongings

\* Play, dropping and picking up, saving, and renting.
LEMMA PlayerBelongings ==
  ASSUME Links, Belongings, NEW d \in Conns,
         Play(d) \/ Drop(d) \/ Get(d) \/ Quit(d) \/ Save(d)
  PROVE  Belongings'
<1> USE Numbered
<1> DEFINE c == conn[d].char
<1>1. phase = "commands" /\ turn = d /\ Driving(d) /\ phase' = phase /\ turn' = d - 1
      /\ conn' = conn
  BY DEF Play, Drop, Get, Quit, Save, Turn
<1>2. /\ c \in Bodies /\ c # Mob /\ Present = {c} /\ disk.code # "rented"
      /\ body[c].stuff \in Nat /\ floor \in Nat /\ body[c].stuff + floor = 1
      /\ disk \in Disk
  BY <1>1, TurnNotRented DEF Links, Types
<1>3. /\ Play(d) => Only(c, body[c].stuff, newest + 1) /\ MarksNobody
      /\ Drop(d) => Only(c, body[c].stuff - 1, body[c].rec) /\ MarksNobody
      /\ Get(d) => Only(c, body[c].stuff + 1, body[c].rec) /\ MarksNobody
      /\ Quit(d) => Only(c, 0, body[c].rec) /\ Marks(c)
      /\ Save(d) => Only(c, body[c].stuff, body[c].rec) /\ MarksNobody
  BY <1>1, PlayerIs DEF Driving
<1>4. ASSUME NEW n \in Nat, NEW m, Only(c, n, m), disk'.code # "rented",
             n + floor' = 1, floor' \in Nat, disk'.code = "none" => disk'.stuff = 0
      PROVE  Belongings'
  BY <1>2, <1>4, OneHolds
<1>5. disk.code = "none" => disk.stuff = 0
  BY DEF Belongings
<1> HIDE DEF c
<1>6. CASE Play(d)
  <2>1. UNCHANGED <<disk, floor>>
    BY <1>6 DEF Play
  <2> QED
    BY <1>2, <1>3, <1>4, <1>5, <1>6, <2>1
<1>7. CASE Drop(d)
  <2>1. UNCHANGED disk /\ floor' = floor + 1 /\ body[c].stuff > 0
    BY <1>7 DEF Drop, c
  <2>2. body[c].stuff - 1 \in Nat /\ body[c].stuff - 1 + floor' = 1 /\ floor' \in Nat
    BY <1>2, <2>1
  <2> QED
    BY <1>2, <1>3, <1>4, <1>5, <1>7, <2>1, <2>2
<1>8. CASE Get(d)
  <2>1. UNCHANGED disk /\ floor' = floor - 1 /\ floor > 0
    BY <1>8 DEF Get
  <2>2. body[c].stuff + 1 \in Nat /\ body[c].stuff + 1 + floor' = 1 /\ floor' \in Nat
    BY <1>2, <2>1
  <2> QED
    BY <1>2, <1>3, <1>4, <1>5, <1>8, <2>1, <2>2
<1>9. CASE Quit(d)
  <2>1. UNCHANGED <<floor, conn>> /\ disk' = Stored(c, "rented", disk)
    BY <1>9 DEF Quit, world, c
  <2>2. disk'.code = "rented" /\ disk'.stuff = body[c].stuff
    BY <1>2, <2>1 DEF Stored, Disk
  <2>3. /\ Present' = {c} /\ body'[c].stuff = 0 /\ body'[c].pending
        /\ \A x \in Bodies \ Present' : body'[x].stuff = 0
    BY <1>2, <1>3, <1>9, OnlyPresent DEF Marks
  <2>4. InRentFile' = body[c].stuff
    BY <2>2 DEF InRentFile
  <2>5. PICK b \in Bodies : b = c
    BY <1>2
  <2>6. ASSUME NEW k \in Conns, Bound(k, b)'
        PROVE  turn' < k
    <3>1. conn[k].char = b \/ conn[k].orig = b
      BY <1>1, <2>6 DEF Bound
    <3>2. body[b].desc = d /\ body[b].alloc
      BY <1>1, <2>5, DriverIs DEF Driving, c
    <3>3. k = d
      BY <2>5, <3>1, <3>2 DEF Links, ConnSound, PointersSound, LinksAgree
    <3> QED
      BY <1>1, <3>3 DEF Conns
  <2>7. body'[b].stuff + floor' + InRentFile' = 1 /\ Present' = {b} /\ Present' # {}
    BY <1>2, <2>1, <2>3, <2>4, <2>5
  <2>8. body'[b].pending /\ body'[b].stuff = 0
    BY <2>3, <2>5
  <2> QED
    BY <2>2, <2>3, <2>6, <2>7, <2>8 DEF Belongings
<1>10. CASE Save(d)
  <2>1. UNCHANGED floor /\ disk' = CrashSaved(c, body, SavedRecord(c, body, disk))
    BY <1>10 DEF Save, world, c
  <2>2. disk'.code = "crash"
    <3>1. SavedRecord(c, body, disk) \in Disk
      BY <1>2, SavedRecordIs DEF Links, Types
    <3> QED
      BY <2>1, <3>1 DEF CrashSaved, Disk
  <2> QED
    BY <1>2, <1>3, <1>4, <1>10, <2>1, <2>2
<1> QED
  BY <1>6, <1>7, <1>8, <1>9, <1>10

LEMMA LoginBelongings ==
  ASSUME Links, Belongings, TurnsOn, Links', NEW d \in Conns, WrongPassword(d) \/ EnterGame(d)
  PROVE  Belongings'
<1> USE Numbered
<1>1. disk \in Disk /\ body \in [Bodies -> Body] /\ floor \in Nat
  BY DEF Links, Types
<1>2. CASE WrongPassword(d)
  <2>1. /\ UNCHANGED <<body, floor, newest, phase>> /\ phase = "commands"
        /\ disk' = SavedRecord(conn[d].char, body, disk) /\ conn[d].state = "password"
        /\ turn = d /\ turn' = d - 1
    BY <1>2 DEF WrongPassword, Turn, world
  <2>2. conn[d].char \in Bodies
    BY <2>1 DEF Links, ConnSound
  <2>3. disk'.code = disk.code /\ disk'.stuff = disk.stuff
    BY <1>1, <2>1, <2>2, SavedRecordIs
  <2>4. InRentFile' = InRentFile /\ Present' = Present
    BY <2>1, <2>3 DEF InRentFile, Present, Listed
  <2>5. ASSUME NEW c \in Present, disk.code = "rented", NEW k \in Conns, Bound(k, c)'
        PROVE  turn' < k
    <3>1. turn' <= turn /\ (Bound(k, c) \/ turn' < k)
      BY <2>1, <2>5 DEF TurnsOn
    <3>2. Bound(k, c) => turn < k
      BY <2>1, <2>5 DEF Belongings
    <3>3. turn \in Int /\ turn' \in Int /\ k \in Int
      BY DEF Links, Types, Conns
    <3> QED
      BY <3>1, <3>2, <3>3
  <2> QED
    BY <2>1, <2>3, <2>4, <2>5 DEF Belongings
<1>3. CASE EnterGame(d)
  <2> DEFINE c == conn[d].char
  <2>1. /\ c \in Players /\ Present = {} /\ Present' = {c}
        /\ \A x \in Bodies : body'[x].stuff = IF x = c THEN disk.stuff ELSE body[x].stuff
        /\ disk'.stuff = disk.stuff
        /\ disk'.code = IF disk.code = "none" THEN "none" ELSE "crash"
        /\ UNCHANGED <<floor, newest>>
    BY <1>3, EnterIs
  <2> HIDE DEF c
  <2>2. /\ disk.code # "crash" /\ disk.code \in {"none", "crash", "rented"}
        /\ disk.stuff \in Nat /\ floor + InRentFile = 1
        /\ disk.code = "none" => disk.stuff = 0
    BY <1>1, <2>1 DEF Belongings, Disk
  <2>3. InRentFile' = 0 /\ disk.stuff + floor = 1
    BY <1>1, <2>1, <2>2 DEF InRentFile
  <2> QED
    BY <1>1, <2>1, <2>2, <2>3 DEF Belongings
<1> QED
  BY <1>2, <1>3

LEMMA AutosaveBelongings ==
  ASSUME "quitAtAutosave" \notin May, Links, Belongings, NEW d \in Conns, Autosave(d)
  PROVE  Belongings'
<1> USE Numbered
<1> DEFINE c == conn[d].char
<1>1. /\ disk \in Disk /\ body \in [Bodies -> Body] /\ floor \in Nat
      /\ conn[d].state = "playing" /\ c \in Players /\ ConnSound(d)
      /\ body[c].pending /\ disk.code = "rented" => FALSE
      /\ disk' = CrashSaved(c, body, SavedRecord(c, body, disk))
      /\ UNCHANGED <<floor, newest>>
  BY DEF Links, Types, Autosave, world
<1>2. c \in Bodies /\ c \in Present /\ conn[d].orig = NoBody
  BY <1>1 DEF ConnSound, Present, Listed
<1>3. disk.code # "rented" /\ Present = {c} /\ body[c].stuff + floor = 1 /\ body[c].stuff \in Nat
  <2>1. disk.code # "rented"
    BY <1>1, <1>2 DEF Belongings
  <2>2. InRentFile = 0 /\ body[c].stuff \in Nat
    BY <1>1, <1>2, <2>1 DEF InRentFile, Body
  <2> QED
    BY <1>1, <1>2, <2>1, <2>2 DEF Links, OnePlayer, Belongings
<1>4. Only(c, body[c].stuff, body[c].rec)
  BY <1>1, <1>2, PlayerIs
<1> HIDE DEF c
<1>5. /\ Present' = {c} /\ body'[c].stuff = body[c].stuff
      /\ \A x \in Bodies \ Present' : body'[x].stuff = 0
  BY <1>2, <1>3, <1>4, OnlyPresent
<1>6. disk'.code = "crash" /\ InRentFile' = 0
  <2>1. SavedRecord(c, body, disk) \in Disk
    BY <1>1, <1>2, SavedRecordIs
  <2> QED
    BY <1>1, <2>1 DEF CrashSaved, Disk, InRentFile
<1> QED
  BY <1>1, <1>3, <1>5, <1>6 DEF Belongings

LEMMA VictimBelongings ==
  ASSUME Links, Belongings, TurnsOn, Links', NEW c \in Bodies,
         Die(c) \/ Idle(c)
  PROVE  Belongings'
<1> USE Numbered
<1>1. /\ disk \in Disk /\ body \in [Bodies -> Body] /\ floor \in Nat /\ body[c] \in Body
      /\ body[c].stuff \in Nat /\ ~body[c].pending /\ body[c].listed /\ body[c].idle \in 0..2
  BY DEF Links, Types, Body, Die, Idle, Listed
<1>2. ASSUME c \in Players
      PROVE  /\ Present = {c} /\ disk.code # "rented" /\ body[c].stuff + floor = 1
  <2>1. Present = {c}
    BY <1>1, <1>2 DEF Present, Listed, Links, OnePlayer
  <2>2. disk.code # "rented"
    BY <1>1, <2>1 DEF Belongings
  <2>3. InRentFile = 0
    BY <2>2 DEF InRentFile
  <2> QED
    BY <1>1, <2>1, <2>2, <2>3 DEF Belongings
<1>3. ASSUME c = Mob PROVE body[c].stuff = 0 /\ c \notin Present
  BY <1>1, <1>3 DEF Belongings, Present
<1>4. CASE Die(c) /\ c = Mob
  <2>1. Only(c, body[c].stuff, body[c].rec) /\ Marks(c) /\ floor' = floor
    BY <1>1, <1>3, <1>4, VictimIs
  <2>2. UNCHANGED <<disk, newest>>
    BY <1>4 DEF Die
  <2>3. /\ \A x \in Bodies : /\ body'[x].listed = body[x].listed
                             /\ body'[x].stuff = body[x].stuff /\ body'[x].rec = body[x].rec
        /\ \A x \in Present : x # c
    BY <1>3, <1>4, <2>1 DEF Only
  <2>4. \A x \in Bodies : x # c => body'[x].pending = body[x].pending
    <3>1. body \in [Bodies -> Body]
      BY <1>1
    <3> QED
      BY <2>1, <3>1 DEF Marks, Body
  <2>5. Present' = Present /\ Present \subseteq Bodies
    BY <2>3 DEF Present, Listed
  <2>6. \A x \in Present : body'[x].rec = body[x].rec /\ body'[x].pending = body[x].pending
    BY <2>3, <2>4, <2>5
  <2>7. Quiet
    BY <2>1, <2>2, <2>3, <2>5, <2>6 DEF Quiet
  <2> QED
    BY <2>7, QuietKeepsBelongings
<1>5. CASE Die(c) /\ c \in Players
  <2>1. PICK corpse \in {body[c].stuff, 0} :
          Only(c, body[c].stuff - corpse, body[c].rec) /\ floor' = floor + corpse
    BY <1>5, VictimIs
  <2>2. UNCHANGED disk
    BY <1>5 DEF Die
  <2>3. body[c].stuff - corpse \in Nat /\ floor' \in Nat /\ body[c].stuff - corpse + floor' = 1
    BY <1>1, <1>2, <1>5, <2>1
  <2>4. disk'.code = "none" => disk'.stuff = 0
    BY <2>2 DEF Belongings
  <2> QED
    BY <1>2, <1>5, <2>1, <2>2, <2>3, <2>4, OneHolds
<1>6. CASE Idle(c) /\ body[c].idle = 0
  BY <1>6, QuietSteps, QuietKeepsBelongings
<1>7. CASE Idle(c) /\ body[c].idle = 1
  <2>1. Only(c, body[c].stuff, body[c].rec)
    BY <1>7, VictimIs
  <2>2. UNCHANGED floor /\ disk' = CrashSaved(c, body, SavedRecord(c, body, disk))
    BY <1>7 DEF Idle, world
  <2>3. c \in Players
    BY <1>7 DEF Idle
  <2>4. disk'.code = "crash"
    <3>1. SavedRecord(c, body, disk) \in Disk
      BY <1>1, SavedRecordIs
    <3> QED
      BY <2>2, <3>1 DEF CrashSaved, Disk
  <2> QED
    BY <1>1, <1>2, <2>1, <2>2, <2>3, <2>4, OneHolds
<1>8. CASE Idle(c) /\ body[c].idle = 2
  <2>1. Only(c, 0, body[c].rec) /\ Marks(c) /\ c \in Players
    BY <1>8, VictimIs DEF Idle
  <2>2. UNCHANGED <<phase, floor>> /\ disk' = Stored(c, "rented", disk) /\ phase = "heartbeat"
    BY <1>8 DEF Idle, world
  <2>3. /\ Present' = {c} /\ body'[c].stuff = 0 /\ body'[c].pending
        /\ \A x \in Bodies \ Present' : body'[x].stuff = 0
    BY <1>2, <2>1, OnlyPresent DEF Marks
  <2>4. disk'.code = "rented" /\ disk'.stuff = body[c].stuff /\ InRentFile' = body[c].stuff
    BY <1>1, <2>2 DEF Stored, Disk, InRentFile
  <2> QED
    BY <1>1, <1>2, <2>1, <2>2, <2>3, <2>4 DEF Belongings
<1> QED
  BY <1>1, <1>4, <1>5, <1>6, <1>7, <1>8

LEMMA PurgeBelongings ==
  ASSUME Links, Belongings, TurnsOn, Links', NEW c \in Bodies, Purge(c)
  PROVE  Belongings'
<1> USE Numbered
<1>1. /\ body \in [Bodies -> Body] /\ floor \in Nat /\ body[c] \in Body
      /\ body[c].stuff \in Nat /\ Present = {c} /\ UNCHANGED <<disk, floor, newest>>
  <2>1. c \in Present /\ UNCHANGED <<disk, floor, newest>>
    BY DEF Purge, Present, Listed, world
  <2> QED
    BY <2>1 DEF Links, Types, Body, OnePlayer
<1>2. Only(c, body[c].stuff, body[c].rec) /\ Marks(c)
  BY VictimIs
<1>3. CASE disk.code = "rented"
  <2>1. body[c].pending
    BY <1>1, <1>3 DEF Belongings
  <2>2. Quiet
    BY <1>1, <1>2, <2>1 DEF Quiet, Only, Marks, Present, Listed, Fresh
  <2> QED
    BY <2>2, QuietKeepsBelongings
<1>4. CASE disk.code # "rented"
  <2>1. body[c].stuff + floor + 0 = 1
    BY <1>1, <1>4 DEF Belongings, InRentFile
  <2>2. body[c].stuff + floor' = 1 /\ floor' \in Nat
    BY <1>1, <2>1
  <2>3. disk'.code = "none" => disk'.stuff = 0
    BY <1>1 DEF Belongings
  <2> QED
    BY <1>1, <1>2, <1>4, <2>2, <2>3, OneHolds
<1> QED
  BY <1>3, <1>4

LEMMA ExtractBelongings ==
  ASSUME Links, Belongings, NEW c \in Bodies, c \in Players, ExtractFinal(c)
  PROVE  /\ Belongings' /\ Present = {c} /\ Present' = {}
         /\ floor' = floor + body[c].stuff /\ InRentFile' = InRentFile
<1> USE Numbered
<1> DEFINE b == Back(c).body
<1>1. /\ disk \in Disk /\ floor \in Nat /\ body[c].stuff \in Nat
      /\ c \in Listed /\ floor' = floor + body[c].stuff
      /\ \A x \in Bodies \ {c} : body'[x] = b[x]
      /\ ~body'[c].listed /\ body'[c].stuff = 0
      /\ Settled(Back(c).conn, b, c)
  BY ExtractIs, BackIsSettled, ZenonT(30) DEF Links, Types, Body
<1>2. /\ disk'.code = (IF disk.code = "crash" THEN "none" ELSE disk.code)
      /\ disk'.stuff = (IF disk.code = "crash" THEN 0 ELSE disk.stuff)
  <2> DEFINE kept == SavedRecord(c, b, disk)
  <2>1. /\ disk' = IF c # Mob /\ kept.code = "crash"
                   THEN [kept EXCEPT !.code = "none", !.stuff = 0] ELSE kept
        /\ kept \in Disk /\ kept.code = disk.code /\ kept.stuff = disk.stuff
    BY ExtractIs
  <2> HIDE DEF kept
  <2> QED
    BY <2>1 DEF Disk
<1> HIDE DEF b
<1>3. Present = {c}
  BY <1>1 DEF Present, Listed, Links, OnePlayer
<1>4. \A x \in Bodies \ {c} : body'[x].listed = body[x].listed /\ body'[x].stuff = body[x].stuff
  BY <1>1 DEF Settled
<1>5. Present' = {} /\ \A x \in Bodies : body'[x].stuff = 0
  BY <1>1, <1>3, <1>4 DEF Present, Listed, Belongings
<1>6. InRentFile' = InRentFile
  BY <1>2 DEF InRentFile
<1>7. body[c].stuff + floor + InRentFile = 1
  BY <1>3 DEF Belongings
<1>8. InRentFile \in Nat
  BY <1>1 DEF InRentFile, Disk
<1>9. floor' + InRentFile' = 1
  BY <1>1, <1>6, <1>7, <1>8
<1>10. disk'.code # "crash" /\ (disk'.code = "none" => disk'.stuff = 0)
  BY <1>2 DEF Belongings
<1> QED
  BY <1>1, <1>3, <1>5, <1>6, <1>9, <1>10 DEF Belongings

LEMMA InitBelongings == Init => Belongings
<1> SUFFICES ASSUME Init PROVE Belongings
  OBVIOUS
<1> USE Numbered
<1> DEFINE mobile == [Unborn EXCEPT !.alloc = TRUE, !.listed = TRUE]
<1>1. ~Unborn.listed /\ Unborn.stuff = 0 /\ mobile.stuff = 0
  BY DEF Unborn
<1>2. /\ body = [c \in Bodies |-> IF c = Mob THEN mobile ELSE Unborn] /\ floor = 0
      /\ disk = [rec |-> 0, code |-> "rented", stuff |-> 1]
  BY DEF Init
<1> HIDE DEF mobile
<1>3. \A c \in Bodies : body[c].stuff = 0 /\ (c # Mob => ~body[c].listed)
  BY <1>1, <1>2
<1>4. Present = {}
  BY <1>3 DEF Present, Listed
<1>5. disk.code = "rented" /\ InRentFile = 1 /\ floor + InRentFile = 1
  BY <1>2 DEF InRentFile
<1> QED
  BY <1>3, <1>4, <1>5 DEF Belongings

LEMMA BelongingsStep ==
  ASSUME "dcBuilder" \notin May, "quitAtAutosave" \notin May, Links, Belongings, [Next]_vars
  PROVE  Belongings'
<1> USE Numbered
<1>1. CASE UNCHANGED vars
  BY <1>1 DEF vars, world, Belongings, Present, Listed, InRentFile, Bound
<1>2. CASE Next
  <2>1. TurnsOn /\ Links'
    BY <1>2, TurnsGoOn, LinksStep
  <2>2. Quiet => Belongings'
    BY <2>1, QuietKeepsBelongings
  <2>3. ASSUME NEW d \in Conns,
               Hangup(d) \/ Command(d) \/ Dc(d) \/ Sweep(d) \/ PasswordTimeout(d) \/ Autosave(d)
        PROVE  Belongings'
    <3>1. CASE Play(d) \/ Drop(d) \/ Get(d) \/ Quit(d) \/ Save(d)
      BY <3>1, PlayerBelongings
    <3>2. CASE WrongPassword(d) \/ EnterGame(d)
      BY <3>2, <2>1, LoginBelongings
    <3>3. CASE Autosave(d)
      BY <3>3, AutosaveBelongings
    <3>4. CASE Hangup(d) \/ Sweep(d) \/ Dc(d) \/ PasswordTimeout(d) \/ Silent(d) \/ GiveName(d)
               \/ Reconnect(d) \/ ToMenu(d) \/ Goodbye(d) \/ Build(d) \/ FinishBuilding(d)
               \/ Switch(d) \/ Return(d)
      BY <3>4, <2>2, QuietSteps
    <3> QED
      BY <2>3, <3>1, <3>2, <3>3, <3>4 DEF Command
  <2>4. ASSUME NEW c \in Bodies, Purge(c) \/ Die(c) \/ Idle(c) \/ ExtractFinal(c)
        PROVE  Belongings'
    <3>1. CASE Purge(c)
      BY <3>1, <2>1, PurgeBelongings
    <3>2. CASE Die(c) \/ Idle(c)
      BY <3>2, <2>1, VictimBelongings
    <3>3. CASE ExtractFinal(c) /\ c = Mob
      BY <3>3, <2>2, QuietSteps
    <3>4. CASE ExtractFinal(c) /\ c # Mob
      BY <3>4, ExtractBelongings
    <3> QED
      BY <2>4, <3>1, <3>2, <3>3, <3>4
  <2>5. CASE Accept \/ Advance
    BY <2>5, <2>2, QuietSteps
  <2> QED
    BY <1>2, <2>3, <2>4, <2>5 DEF Next
<1> QED
  BY <1>1, <1>2

LEMMA BelongingsHold ==
  ASSUME "dcBuilder" \notin May, "quitAtAutosave" \notin May
  PROVE  Spec => [](Links /\ Belongings)
<1>1. Links /\ Belongings /\ [Next]_vars => Links' /\ Belongings'
  BY LinksStep, BelongingsStep
<1> QED
  BY <1>1, InitLinks, InitBelongings, PTL DEF Spec

\* What is carried, lies about or is stored adds up, with a number for each.
LEMMA BelongingsAre ==
  ASSUME Links, Belongings
  PROVE  /\ \A c \in Bodies : body[c].stuff \in 0..1
         /\ floor \in 0..1 /\ InRentFile \in 0..1
         /\ Present # {} => \E c \in Present :
              Present = {c} /\ Held = (IF body[c].stuff = 1 THEN {c} ELSE {})
         /\ Present = {} => Held = {}
<1> USE Numbered
<1>1. /\ floor \in Nat /\ InRentFile \in Nat
      /\ \A c \in Bodies : body[c].stuff \in Nat
      /\ \A b, c \in Present : b = c
      /\ \A c \in Bodies \ Present : body[c].stuff = 0
      /\ \A c \in Present : body[c].stuff + floor + InRentFile = 1
      /\ Present = {} => floor + InRentFile = 1
      /\ Present \subseteq Bodies
  BY DEF Links, Types, OnePlayer, Belongings, InRentFile, Body, Disk, Present, Listed
<1>2. CASE Present = {}
  <2>1. Held = {}
    BY <1>1, <1>2 DEF Held
  <2>2. floor \in 0..1 /\ InRentFile \in 0..1
    BY <1>1, <1>2
  <2> QED
    BY <1>1, <1>2, <2>1, <2>2
<1>3. CASE Present # {}
  <2>1. PICK c \in Present : Present = {c}
    BY <1>1, <1>3
  <2>2. /\ body[c].stuff \in 0..1 /\ floor \in 0..1 /\ InRentFile \in 0..1
        /\ body[c].stuff = 1 \/ body[c].stuff = 0
    BY <1>1
  <2>3. \A x \in Bodies : x # c => body[x].stuff = 0
    BY <1>1, <2>1
  <2>4. Held = IF body[c].stuff = 1 THEN {c} ELSE {}
    <3>1. \A x \in Bodies : body[x].stuff > 0 <=> x = c /\ body[c].stuff = 1
      BY <2>2, <2>3
    <3> QED
      BY <1>1, <3>1 DEF Held
  <2> QED
    BY <2>1, <2>2, <2>3, <2>4
<1> QED
  BY <1>2, <1>3


\* A rent or crash file holds what it held, nothing, or what somebody carried.
LEMMA FileIs ==
  ASSUME Links, Belongings, [Next]_vars
  PROVE  disk'.stuff \in {disk.stuff, 0} \union {body[c].stuff : c \in Bodies}
<1> USE Numbered
<1>1. /\ disk \in Disk /\ body \in [Bodies -> Body]
      /\ \A d \in Conns : conn[d].char \in Bodies \union {NoBody} /\ ConnSound(d)
  BY DEF Links, Types, Conn
<1>2. ASSUME UNCHANGED disk
      PROVE  disk'.stuff \in {disk.stuff, 0} \union {body[c].stuff : c \in Bodies}
  BY <1>2
<1>3. ASSUME NEW c \in Bodies, disk' = CrashSaved(c, body, SavedRecord(c, body, disk))
      PROVE  disk'.stuff = body[c].stuff
  <2>1. SavedRecord(c, body, disk) \in Disk
    BY <1>1, SavedRecordIs
  <2> QED
    BY <1>3, <2>1 DEF CrashSaved, Disk
<1>4. ASSUME NEW c \in Bodies, disk' = Stored(c, "rented", disk)
      PROVE  disk'.stuff = body[c].stuff
  BY <1>1, <1>4 DEF Stored, Disk
<1>5. ASSUME NEW d \in Conns, Quit(d) \/ Save(d)
      PROVE  disk'.stuff \in {body[c].stuff : c \in Bodies}
  <2>1. conn[d].char \in Bodies
    BY <1>5, DriverIs DEF Quit, Save, Driving
  <2> QED
    BY <1>3, <1>4, <1>5, <2>1 DEF Quit, Save
<1>6. ASSUME NEW d \in Conns, Autosave(d)
      PROVE  disk'.stuff \in {body[c].stuff : c \in Bodies}
  BY <1>3, <1>6 DEF Autosave
<1>7. ASSUME NEW d \in Conns, WrongPassword(d)
      PROVE  disk'.stuff = disk.stuff
  <2>1. conn[d].char \in Bodies /\ disk' = SavedRecord(conn[d].char, body, disk)
    BY <1>1, <1>7 DEF WrongPassword, ConnSound
  <2> QED
    BY <1>1, <2>1, SavedRecordIs
<1>8. ASSUME NEW d \in Conns, EnterGame(d)
      PROVE  disk'.stuff = disk.stuff
  BY <1>8, EnterIs
<1>9. ASSUME NEW c \in Bodies, Idle(c)
      PROVE  disk'.stuff \in {disk.stuff, body[c].stuff}
  <2>1. CASE body[c].idle = 0
    BY <1>9, <2>1 DEF Idle
  <2>2. CASE body[c].idle = 1
    BY <1>3, <1>9, <2>2 DEF Idle
  <2>3. CASE body[c].idle = 2
    BY <1>4, <1>9, <2>3 DEF Idle
  <2>4. body[c].idle \in 0..2
    BY <1>1 DEF Body
  <2> QED
    BY <2>1, <2>2, <2>3, <2>4
<1>10. ASSUME NEW c \in Bodies, ExtractFinal(c)
       PROVE  disk'.stuff \in {disk.stuff, 0}
  <2> DEFINE kept == SavedRecord(c, Back(c).body, disk)
  <2>1. /\ disk' = IF c # Mob /\ kept.code = "crash"
                   THEN [kept EXCEPT !.code = "none", !.stuff = 0] ELSE kept
        /\ kept \in Disk /\ kept.stuff = disk.stuff
    BY <1>10, ExtractIs
  <2> HIDE DEF kept
  <2> QED
    BY <2>1 DEF Disk
<1>11. ASSUME NEW d \in Conns,
              Hangup(d) \/ Dc(d) \/ Sweep(d) \/ PasswordTimeout(d) \/ Autosave(d) \/ Command(d)
       PROVE  disk'.stuff \in {disk.stuff, 0} \union {body[c].stuff : c \in Bodies}
  <2>1. CASE Hangup(d) \/ Dc(d) \/ Sweep(d) \/ PasswordTimeout(d)
    BY <1>2, <2>1 DEF Hangup, Dc, Sweep, PasswordTimeout
  <2>2. CASE Silent(d) \/ GiveName(d) \/ Reconnect(d) \/ ToMenu(d) \/ Goodbye(d)
    BY <1>2, <2>2 DEF Silent, GiveName, Reconnect, ToMenu, Goodbye
  <2>3. CASE Play(d) \/ Drop(d) \/ Get(d) \/ Build(d) \/ FinishBuilding(d) \/ Switch(d) \/ Return(d)
    BY <1>2, <2>3 DEF Play, Drop, Get, Build, FinishBuilding, Switch, Return
  <2> QED
    BY <1>5, <1>6, <1>7, <1>8, <1>11, <2>1, <2>2, <2>3 DEF Command
<1>12. ASSUME NEW c \in Bodies, Purge(c) \/ Die(c)
       PROVE  UNCHANGED disk
  BY <1>12 DEF Purge, Die
<1>13. CASE Accept \/ Advance \/ UNCHANGED vars
  BY <1>2, <1>13 DEF Accept, Advance, vars
<1> QED
  BY <1>2, <1>9, <1>10, <1>11, <1>12, <1>13 DEF Next

LEMMA FileHolds ==
  ASSUME "dcBuilder" \notin May, "quitAtAutosave" \notin May
  PROVE  Spec => [](Links /\ Belongings /\ disk.stuff \in 0..1)
<1>1. Links /\ Belongings /\ disk.stuff \in 0..1 /\ [Next]_vars =>
        Links' /\ Belongings' /\ (disk.stuff \in 0..1)'
  BY LinksStep, BelongingsStep, FileIs, BelongingsAre
<1>2. Init => disk.stuff \in 0..1
  BY DEF Init
<1> QED
  BY <1>1, <1>2, InitLinks, InitBelongings, PTL DEF Spec


-----------------------------------------------------------------------------
(* The record *)

\* Whoever is logging in was before, or has just loaded the record.
LoginsGoOn ==
  \A k \in Conns : conn'[k].state \in {"password", "menu"} =>
    \/ conn[k].state \in {"password", "menu"} /\ conn'[k].char = conn[k].char
    \/ conn[k].state = "name" /\ conn'[k].char = k /\ body'[k].rec = disk.rec

\* Whoever was at a body in the world and not marked for closing still is.
DrivesOn ==
  \A k \in Conns, x \in Present : Bound(k, x) /\ ~Marked(k) => Bound(k, x)' /\ ~Marked(k)'

LEMMA BackKeeps ==
  ASSUME Links, NEW c \in Listed, phase = "extract", NEW k \in Conns
  PROVE  LET cn == Back(c).conn
         IN /\ conn[k].state \in {"password", "menu"} => cn[k].char = conn[k].char
            /\ \A x \in Players : Bound(k, x) => cn[k].char = x \/ cn[k].orig = x
<1> USE Numbered
<1> DEFINE cn == Back(c).conn
<1>1. CASE Away(c) = {}
  BY <1>1 DEF Back, Bound
<1>2. CASE Away(c) # {}
  <2> DEFINE d == CHOOSE d \in Away(c) : TRUE
  <2>1. d \in Away(c) /\ Back(c) = Returned(d)
    BY <1>2 DEF Back
  <2> HIDE DEF d
  <2>2. d \in Conns /\ conn[d].orig # NoBody /\ (conn[d].orig = c \/ conn[d].char = c)
    BY <2>1 DEF Away
  <2>3. /\ conn[d].char = Mob /\ conn[d].orig # Mob
        /\ \A j \in Conns \ {d} : cn[j] = conn[j]
        /\ cn[d].char = conn[d].orig
    BY <2>1, <2>2, ReturnedIs
  <2> HIDE DEF cn
  <2>4. conn[d].state \notin {"password", "menu"}
    <3>1. ConnSound(d)
      BY <2>2 DEF Links
    <3> QED
      BY <2>2, <3>1 DEF ConnSound
  <2>5. CASE k = d
    BY <2>3, <2>4, <2>5 DEF Bound, cn
  <2>6. CASE k # d
    BY <2>3, <2>6 DEF Bound, cn
  <2> QED
    BY <2>5, <2>6
<1> QED
  BY <1>1, <1>2

LEMMA LoginsKept ==
  ASSUME Links, Next, \A c \in Players : ~ExtractFinal(c)
  PROVE  LoginsGoOn
<1> USE Numbered
<1>1. /\ conn \in [Conns -> Conn] /\ body \in [Bodies -> Body]
      /\ \A k \in Conns : ConnSound(k) /\ conn[k] \in Conn
  BY DEF Links, Types
<1>2. ASSUME \A k \in Conns : \/ conn'[k] = conn[k]
                              \/ conn'[k].state \notin {"password", "menu"}
                              \/ conn[k].state = "password" /\ conn'[k].char = conn[k].char
      PROVE  LoginsGoOn
  BY <1>2 DEF LoginsGoOn
<1>3. ASSUME UNCHANGED conn
      PROVE  LoginsGoOn
  BY <1>3 DEF LoginsGoOn
<1>4. ASSUME NEW d \in Conns, NEW r, conn' = [conn EXCEPT ![d] = r],
             \/ r.state \notin {"password", "menu"}
             \/ conn[d].state = "password" /\ r.char = conn[d].char
      PROVE  LoginsGoOn
  <2>1. \A k \in Conns : conn'[k] = IF k = d THEN r ELSE conn[k]
    BY <1>1, <1>4
  <2> QED
    BY <1>2, <1>4, <2>1
<1>5. ASSUME NEW d \in Conns, NEW st \in States, conn' = [conn EXCEPT ![d].state = st],
             st # "menu", st = "password" => conn[d].state = "password"
      PROVE  LoginsGoOn
  <2> DEFINE r == [conn[d] EXCEPT !.state = st]
  <2>1. conn' = [conn EXCEPT ![d] = r] /\ r.state = st /\ r.char = conn[d].char
    BY <1>1, <1>5 DEF Conn
  <2> HIDE DEF r
  <2> QED
    BY <1>4, <1>5, <2>1
<1>6. CASE Accept
  <2>1. accepted + 1 \in Conns
    BY <1>6 DEF Accept, Links, Types, Conns
  <2> QED
    BY <1>5, <1>6, <2>1 DEF Accept, States
<1>7. CASE Advance
  BY <1>3, <1>7 DEF Advance
<1>8. ASSUME NEW d \in Conns, Hangup(d) \/ Sweep(d)
      PROVE  LoginsGoOn
  <2> DEFINE r == [Unmade EXCEPT !.state = "gone"]
  <2>1. conn' = [conn EXCEPT ![d] = r]
    BY <1>8 DEF Hangup, Sweep, CloseSocket
  <2>2. r.state = "gone"
    BY DEF Unmade
  <2> HIDE DEF r
  <2> QED
    BY <1>4, <2>1, <2>2
<1>9. ASSUME NEW d \in Conns, Dc(d) \/ PasswordTimeout(d) \/ Autosave(d)
      PROVE  LoginsGoOn
  <2>1. CASE Dc(d)
    <3>1. conn' = [conn EXCEPT ![d].state = IF conn[d].state = "playing" THEN "disconnect"
                                                                        ELSE "close"]
      BY <2>1 DEF Dc
    <3> QED
      BY <1>5, <3>1 DEF States
  <2>2. CASE PasswordTimeout(d)
    BY <1>5, <2>2 DEF PasswordTimeout, States
  <2>3. CASE Autosave(d)
    BY <1>3, <2>3 DEF Autosave
  <2> QED
    BY <1>9, <2>1, <2>2, <2>3
<1>10. ASSUME NEW d \in Conns, Silent(d) \/ Play(d) \/ Drop(d) \/ Get(d) \/ Quit(d) \/ Save(d)
       PROVE  LoginsGoOn
  BY <1>3, <1>10 DEF Silent, Play, Drop, Get, Quit, Save
<1>11. ASSUME NEW d \in Conns, WrongPassword(d)
       PROVE  LoginsGoOn
  <2>1. PICK st \in {"password", "close"} : conn' = [conn EXCEPT ![d].state = st]
    BY <1>11 DEF WrongPassword
  <2>2. conn[d].state = "password"
    BY <1>11 DEF WrongPassword
  <2> QED
    BY <1>5, <2>1, <2>2 DEF States
<1>12. ASSUME NEW d \in Conns, EnterGame(d) \/ Goodbye(d) \/ Build(d) \/ FinishBuilding(d)
       PROVE  LoginsGoOn
  <2>1. \E st \in {"playing", "close", "building"} : conn' = [conn EXCEPT ![d].state = st]
    BY <1>12 DEF EnterGame, Goodbye, Build, FinishBuilding
  <2> QED
    BY <1>5, <2>1 DEF States
<1>13. ASSUME NEW d \in Conns, GiveName(d)
       PROVE  LoginsGoOn
  <2> DEFINE r == [Unborn EXCEPT !.alloc = TRUE, !.desc = d, !.rec = disk.rec]
  <2>1. /\ conn[d].state = "name" /\ d \in Bodies
        /\ conn' = [conn EXCEPT ![d].state = "password", ![d].char = d]
        /\ body' = [body EXCEPT ![d] = r]
    BY <1>13 DEF GiveName
  <2>2. r.rec = disk.rec
    BY DEF Unborn
  <2> HIDE DEF r
  <2>3. body'[d].rec = disk.rec
    BY <1>1, <2>1, <2>2
  <2>4. conn'[d].char = d /\ \A k \in Conns \ {d} : conn'[k] = conn[k]
    BY <1>1, <2>1 DEF Conn
  <2> QED
    BY <2>1, <2>3, <2>4 DEF LoginsGoOn
<1>14. ASSUME NEW d \in Conns, Reconnect(d)
       PROVE  LoginsGoOn
  <2>1. /\ conn'[d].state = "playing" /\ conn[d].state = "password"
        /\ \A k \in Conns \ {d} : conn'[k] = CutOff(d)[k]
    BY <1>14, ReconnectIs DEF Reconnect
  <2>2. \A k \in Conns \ {d} : conn'[k].state \notin {"password", "menu"}
    BY <2>1, CutOffIs
  <2> QED
    BY <1>2, <2>1, <2>2
<1>15. ASSUME NEW d \in Conns, ToMenu(d)
       PROVE  LoginsGoOn
  <2> DEFINE cut == CutOff(d)
  <2>1. conn[d].state = "password" /\ conn' = [cut EXCEPT ![d].state = "menu"]
    BY <1>15 DEF ToMenu
  <2>2. /\ cut \in [Conns -> Conn] /\ cut[d] = conn[d]
        /\ \A k \in Conns \ {d} : cut[k].state \notin {"password", "menu"}
    BY <2>1, CutOffIs
  <2> HIDE DEF cut
  <2>3. conn'[d].char = conn[d].char /\ \A k \in Conns \ {d} : conn'[k] = cut[k]
    BY <2>1, <2>2 DEF Conn
  <2> QED
    BY <1>2, <2>1, <2>2, <2>3
<1>16. ASSUME NEW d \in Conns, Switch(d) \/ Return(d)
       PROVE  LoginsGoOn
  <2>1. conn[d].state = "playing" /\ \A k \in Conns \ {d} : conn'[k] = conn[k]
    BY <1>1, <1>16 DEF Switch, Return, Returned, Driving
  <2>2. conn'[d].state = "playing"
    BY <1>1, <1>16, <2>1 DEF Switch, Return, Returned, Conn
  <2> QED
    BY <1>2, <2>1, <2>2
<1>17. ASSUME NEW c \in Bodies, Purge(c)
       PROVE  LoginsGoOn
  <2> DEFINE d == body[c].desc
             r == [conn[d] EXCEPT !.state = "close", !.char = NoBody]
  <2>1. /\ d \in Conns \union {NoConn}
        /\ conn' = IF d = NoConn THEN conn
                   ELSE [conn EXCEPT ![d].state = "close", ![d].char = NoBody]
    BY <1>1, <1>17 DEF Purge, Body
  <2> HIDE DEF d
  <2>2. d \in Conns => r.state = "close"
    BY <1>1 DEF Conn
  <2>3. conn' = conn \/ (d \in Conns /\ conn' = [conn EXCEPT ![d] = r])
    BY <1>1, <2>1 DEF Conn
  <2> HIDE DEF r
  <2> QED
    BY <1>3, <1>4, <2>2, <2>3
<1>18. ASSUME NEW c \in Bodies, Die(c)
       PROVE  LoginsGoOn
  BY <1>3, <1>18 DEF Die
<1>19. ASSUME NEW c \in Bodies, Idle(c)
       PROVE  LoginsGoOn
  <2> DEFINE d == body[c].desc
             r == [conn[d] EXCEPT !.state = "disconnect", !.char = NoBody]
  <2>1. d \in Conns \union {NoConn} /\ body[c].idle \in 0..2
    BY <1>1 DEF Body
  <2>2. d \in Conns => r.state = "disconnect"
    BY <1>1 DEF Conn
  <2>3. conn' = conn \/ (d \in Conns /\ conn' = [conn EXCEPT ![d] = r])
    <3>1. CASE body[c].idle # 2
      <4>1. body[c].idle = 0 \/ body[c].idle = 1
        BY <2>1, <3>1
      <4>2. body[c].idle = 0 => conn' = conn
        BY <1>19 DEF Idle
      <4>3. body[c].idle = 1 => conn' = conn
        BY <1>19 DEF Idle
      <4> QED
        BY <4>1, <4>2, <4>3
    <3>2. CASE body[c].idle = 2
      <4>1. conn' = IF d = NoConn THEN conn
                    ELSE [conn EXCEPT ![d].state = "disconnect", ![d].char = NoBody]
        BY <1>19, <3>2 DEF Idle
      <4>2. d \in Conns => conn' = [conn EXCEPT ![d] = r]
        <5> HIDE DEF d
        <5> QED
          BY <1>1, <2>1, <4>1 DEF Conn
      <4> QED
        BY <2>1, <4>1, <4>2
    <3> QED
      BY <3>1, <3>2
  <2> HIDE DEF r
  <2> QED
    BY <1>3, <1>4, <2>2, <2>3
<1>20. ASSUME NEW c \in Bodies, c = Mob, ExtractFinal(c)
       PROVE  LoginsGoOn
  <2> DEFINE cn == Back(c).conn
             b == Back(c).body
             owner == b[c].desc
  <2>1. owner \in Conns \union {NoConn} /\ c \in Listed /\ phase = "extract"
    BY <1>20, ExtractIs
  <2>2. \A k \in Conns :
          /\ conn'[k].char = cn[k].char /\ conn'[k].orig = cn[k].orig
          /\ conn'[k].state =
               IF k = owner THEN "menu"
               ELSE IF owner # NoConn /\ Open(k) /\ cn[k].char \in Players THEN "close"
               ELSE cn[k].state
    BY <1>20, ExtractIs
  <2>3. Settled(cn, b, c)
    BY <2>1, BackIsSettled
  <2> HIDE DEF cn, b
  <2>4. owner = NoConn
    <3>1. body[c].alloc /\ \A k \in Conns : cn[k].char # c
      BY <1>20, <2>1, <2>3 DEF Settled, Links, PointersSound, NothingFreedInUse
    <3> QED
      BY <2>1, <2>3, <3>1 DEF Settled
  <2>5. \A k \in Conns : conn'[k].char = cn[k].char /\ conn'[k].state = conn[k].state
    BY <2>2, <2>3, <2>4 DEF Settled
  <2>6. \A k \in Conns : conn[k].state \in {"password", "menu"} => cn[k].char = conn[k].char
    BY <2>1, BackKeeps DEF cn
  <2> QED
    BY <2>6, <2>5 DEF LoginsGoOn
<1> QED
  BY <1>6, <1>7, <1>8, <1>9, <1>10, <1>11, <1>12, <1>13, <1>14, <1>15, <1>16, <1>17, <1>18,
     <1>19, <1>20 DEF Next, Command


LEMMA DrivesKept ==
  ASSUME Links
  PROVE  /\ Accept \/ Advance => DrivesOn
         /\ \A d \in Conns :
              Sweep(d) \/ PasswordTimeout(d) \/ Silent(d) \/ GiveName(d) \/ WrongPassword(d)
              \/ ToMenu(d) \/ Goodbye(d) \/ Drop(d) \/ Get(d) \/ Quit(d) \/ Save(d) \/ Build(d)
              \/ FinishBuilding(d) \/ Switch(d) \/ Return(d) \/ Autosave(d) \/ Play(d) => DrivesOn
         /\ \A c \in Bodies : Die(c) \/ (Idle(c) /\ body[c].idle # 2) => DrivesOn
         /\ ExtractFinal(Mob) => DrivesOn
<1> USE Numbered
<1>1. /\ conn \in [Conns -> Conn] /\ body \in [Bodies -> Body]
      /\ \A k \in Conns : ConnSound(k)
      /\ \A x \in Present : x \in Bodies /\ x # NoBody /\ x # Mob /\ body[x].listed
  BY DEF Links, Types, Present, Listed
<1>2. ASSUME UNCHANGED conn
      PROVE  DrivesOn
  BY <1>2 DEF DrivesOn, Bound, Marked
<1>3. ASSUME NEW d \in Conns, NEW x \in Present,
             conn[d].state \in {"none", "gone", "name", "password", "menu", "close"}
      PROVE  ~Bound(d, x)
  <2>1. ConnSound(d) /\ x # NoBody /\ body[x].listed
    BY <1>1
  <2> QED
    BY <1>3, <2>1 DEF ConnSound, Bound
<1>4. ASSUME NEW d \in Conns, NEW r, conn' = [conn EXCEPT ![d] = r],
             \/ Marked(d)
             \/ conn[d].state \in {"none", "gone", "name", "password", "menu"}
             \/ /\ r.state \notin {"close", "disconnect"}
                /\ \A x \in Present : Bound(d, x) => r.char = x \/ r.orig = x
      PROVE  DrivesOn
  <2>1. \A k \in Conns : conn'[k] = IF k = d THEN r ELSE conn[k]
    BY <1>1, <1>4
  <2>2. ASSUME NEW k \in Conns, NEW x \in Present, Bound(k, x), ~Marked(k)
        PROVE  Bound(k, x)' /\ ~Marked(k)'
    <3>1. CASE k # d
      BY <2>1, <2>2, <3>1 DEF Bound, Marked
    <3>2. CASE k = d
      <4>1. r.state \notin {"close", "disconnect"} /\ (r.char = x \/ r.orig = x)
        BY <1>3, <1>4, <2>2, <3>2
      <4> QED
        BY <2>1, <3>2, <4>1 DEF Bound, Marked
    <3> QED
      BY <3>1, <3>2
  <2> QED
    BY <2>2 DEF DrivesOn
<1>5. ASSUME NEW d \in Conns, NEW st \in States, conn' = [conn EXCEPT ![d].state = st],
             \/ conn[d].state \in {"none", "gone", "name", "password", "menu"}
             \/ st \notin {"close", "disconnect"}
      PROVE  DrivesOn
  <2> DEFINE r == [conn[d] EXCEPT !.state = st]
  <2>1. /\ conn' = [conn EXCEPT ![d] = r] /\ r.state = st /\ r.char = conn[d].char
        /\ r.orig = conn[d].orig
    BY <1>1, <1>5 DEF Conn
  <2> HIDE DEF r
  <2>2. \A x \in Present : Bound(d, x) => r.char = x \/ r.orig = x
    BY <2>1 DEF Bound
  <2> QED
    BY <1>4, <1>5, <2>1, <2>2
<1>6. CASE Accept
  <2>1. accepted + 1 \in Conns /\ accepted + 1 > accepted
    BY <1>6 DEF Accept, Links, Types, Conns
  <2>2. conn[accepted + 1].state = "none"
    BY <1>1, <2>1 DEF ConnSound
  <2> QED
    BY <1>5, <1>6, <2>1, <2>2 DEF Accept, States
<1>7. CASE Advance
  BY <1>2, <1>7 DEF Advance
<1>8. ASSUME NEW d \in Conns, Sweep(d)
      PROVE  DrivesOn
  <2> DEFINE r == [Unmade EXCEPT !.state = "gone"]
  <2>1. conn' = [conn EXCEPT ![d] = r] /\ Marked(d)
    BY <1>8 DEF Sweep, CloseSocket
  <2> HIDE DEF r
  <2> QED
    BY <1>4, <2>1
<1>9. ASSUME NEW d \in Conns, PasswordTimeout(d) \/ WrongPassword(d) \/ Goodbye(d)
      PROVE  DrivesOn
  <2>1. /\ \E st \in {"password", "close"} : conn' = [conn EXCEPT ![d].state = st]
        /\ conn[d].state \in {"name", "password", "menu"}
    BY <1>9 DEF PasswordTimeout, WrongPassword, Goodbye
  <2> QED
    BY <1>5, <2>1 DEF States
<1>10. ASSUME NEW d \in Conns, Build(d) \/ FinishBuilding(d)
       PROVE  DrivesOn
  <2>1. \E st \in {"playing", "building"} : conn' = [conn EXCEPT ![d].state = st]
    BY <1>10 DEF Build, FinishBuilding
  <2> QED
    BY <1>5, <2>1 DEF States
<1>11. ASSUME NEW d \in Conns, Silent(d) \/ Drop(d) \/ Get(d) \/ Quit(d) \/ Save(d)
                               \/ Autosave(d) \/ Play(d)
       PROVE  DrivesOn
  BY <1>2, <1>11 DEF Silent, Drop, Get, Quit, Save, Autosave, Play
<1>12. ASSUME NEW d \in Conns, GiveName(d)
       PROVE  DrivesOn
  <2> DEFINE r == [conn[d] EXCEPT !.state = "password", !.char = d]
  <2>1. conn' = [conn EXCEPT ![d].state = "password", ![d].char = d] /\ conn[d].state = "name"
    BY <1>12 DEF GiveName
  <2>2. conn' = [conn EXCEPT ![d] = r]
    BY <1>1, <2>1 DEF Conn
  <2> HIDE DEF r
  <2> QED
    BY <1>4, <2>1, <2>2
<1>13. ASSUME NEW d \in Conns, ToMenu(d)
       PROVE  DrivesOn
  <2>1. Present = {}
    BY <1>13, TargetsAre DEF ToMenu
  <2> QED
    BY <2>1 DEF DrivesOn
<1>14. ASSUME NEW d \in Conns, Switch(d)
       PROVE  DrivesOn
  <2> DEFINE r == [conn[d] EXCEPT !.char = Mob, !.orig = conn[d].char]
  <2>1. /\ conn' = [conn EXCEPT ![d].char = Mob, ![d].orig = conn[d].char]
        /\ conn[d].state = "playing" /\ conn[d].orig = NoBody
    BY <1>14 DEF Switch, Driving
  <2>2. conn' = [conn EXCEPT ![d] = r] /\ r.orig = conn[d].char /\ r.state = "playing"
    BY <1>1, <2>1 DEF Conn
  <2> HIDE DEF r
  <2>3. \A x \in Present : Bound(d, x) => r.orig = x
    BY <1>1, <2>1, <2>2 DEF Bound
  <2> QED
    BY <1>4, <2>2, <2>3
<1>15. ASSUME NEW d \in Conns, Return(d)
       PROVE  DrivesOn
  <2> DEFINE r == [conn[d] EXCEPT !.char = conn[d].orig, !.orig = NoBody]
  <2>1. /\ conn' = [conn EXCEPT ![d].char = conn[d].orig, ![d].orig = NoBody]
        /\ conn[d].state = "playing" /\ conn[d].orig # NoBody /\ ConnSound(d)
    BY <1>1, <1>15 DEF Return, Returned
  <2>2. conn' = [conn EXCEPT ![d] = r] /\ r.char = conn[d].orig /\ r.state = "playing"
    BY <1>1, <2>1 DEF Conn
  <2> HIDE DEF r
  <2>3. \A x \in Present : Bound(d, x) => r.char = x
    BY <1>1, <2>1, <2>2 DEF Bound, ConnSound
  <2> QED
    BY <1>4, <2>2, <2>3
<1>16. ASSUME NEW c \in Bodies, Die(c)
       PROVE  DrivesOn
  BY <1>2, <1>16 DEF Die
<1>17. ASSUME NEW c \in Bodies, Idle(c), body[c].idle # 2
       PROVE  DrivesOn
  <2>1. body[c].idle = 0 \/ body[c].idle = 1
    <3>1. body[c].idle \in 0..2
      BY <1>1 DEF Body
    <3> QED
      BY <1>17, <3>1
  <2>2. body[c].idle = 0 => conn' = conn
    BY <1>17 DEF Idle
  <2>3. body[c].idle = 1 => conn' = conn
    BY <1>17 DEF Idle
  <2> QED
    BY <1>2, <2>1, <2>2, <2>3
<1>18. ASSUME NEW c \in Bodies, c = Mob, ExtractFinal(c)
       PROVE  DrivesOn
  <2> DEFINE cn == Back(c).conn
             b == Back(c).body
             owner == b[c].desc
  <2>1. owner \in Conns \union {NoConn} /\ c \in Listed /\ phase = "extract"
    BY <1>18, ExtractIs
  <2>2. \A k \in Conns :
          /\ conn'[k].char = cn[k].char /\ conn'[k].orig = cn[k].orig
          /\ conn'[k].state =
               IF k = owner THEN "menu"
               ELSE IF owner # NoConn /\ Open(k) /\ cn[k].char \in Players THEN "close"
               ELSE cn[k].state
    BY <1>18, ExtractIs
  <2>3. Settled(cn, b, c)
    BY <2>1, BackIsSettled
  <2>4. \A k \in Conns, x \in Players : Bound(k, x) => cn[k].char = x \/ cn[k].orig = x
    BY <2>1, BackKeeps
  <2> HIDE DEF cn, b
  <2>5. owner = NoConn
    <3>1. body[c].alloc /\ \A k \in Conns : cn[k].char # c
      BY <1>18, <2>1, <2>3 DEF Settled, Links, PointersSound, NothingFreedInUse
    <3> QED
      BY <2>1, <2>3, <3>1 DEF Settled
  <2>6. \A k \in Conns : conn'[k].state = conn[k].state
    BY <2>2, <2>3, <2>5 DEF Settled
  <2>7. \A k \in Conns, x \in Present : Bound(k, x) => Bound(k, x)'
    BY <2>2, <2>4 DEF Bound, Present
  <2> QED
    BY <2>6, <2>7 DEF DrivesOn, Marked
<1> QED
  BY <1>6, <1>7, <1>8, <1>9, <1>10, <1>11, <1>12, <1>13, <1>14, <1>15, <1>16, <1>17, <1>18


\* What a step must leave alone for the record to be found as play left it.
LEMMA RecordsFollow ==
  ASSUME Links, Records, Present' = Present, newest' = newest, LoginsGoOn,
         disk'.rec <= newest, Current => disk'.rec = newest,
         \A x \in Bodies : body'[x].rec <= newest,
         \A x \in Present : body'[x].rec = body[x].rec,
         \A k \in Conns : conn[k].state \in {"password", "menu"}
                          /\ conn'[k].state \in {"password", "menu"} =>
           body'[conn[k].char].rec = body[conn[k].char].rec,
         \A x \in Present : body'[x].pending => Current \/ Driven(x)'
  PROVE  Records'
<1>1. ASSUME Current
      PROVE  Current'
  <2>1. ASSUME NEW k \in Conns, conn'[k].state \in {"password", "menu"}
        PROVE  body'[conn'[k].char].rec = newest
    <3>1. CASE conn[k].state \in {"password", "menu"} /\ conn'[k].char = conn[k].char
      BY <1>1, <2>1, <3>1 DEF Current
    <3>2. CASE conn[k].state = "name" /\ conn'[k].char = k /\ body'[k].rec = disk.rec
      BY <1>1, <3>2 DEF Current
    <3> QED
      BY <2>1, <3>1, <3>2 DEF LoginsGoOn
  <2> QED
    BY <1>1, <2>1 DEF Current
<1>2. Present' = {} => Current'
  BY <1>1 DEF Records
<1>3. \A x \in Present : body'[x].rec = newest
  BY DEF Records
<1> QED
  BY <1>1, <1>2, <1>3 DEF Records

\* Who goes with nobody at it is not missed: its record is saved, and nobody logs in.
LEMMA LosesIs ==
  ASSUME "unsaved" \notin May, "lateLogin" \notin May, Links, Records, NEW c \in Present, Loses(c)
  PROVE  Current
<1> USE Numbered
<1>1. c # Mob /\ Present # {} /\ body[c].rec = newest
  BY DEF Present, Records
<1>2. body[c].rec = disk.rec /\ \A d \in Conns : conn[d].state # "password"
  BY <1>1 DEF Loses
<1>3. \A d \in Conns : conn[d].state # "menu"
  BY <1>1 DEF Links, OnePlayer
<1> QED
  BY <1>1, <1>2, <1>3 DEF Current

LEMMA QuietRecords ==
  ASSUME Links, Records, Quiet, LoginsGoOn,
         \A x \in Present : body[x].pending => Current \/ Driven(x)'
  PROVE  Records'
<1> USE Numbered
<1>1. /\ Present' = Present /\ newest' = newest /\ disk' = disk /\ newest \in Nat
      /\ \A x \in Present : body'[x].rec = body[x].rec /\ body'[x].pending = body[x].pending
      /\ \A x \in Bodies : body'[x].rec = body[x].rec \/ (x \in Conns /\ Fresh(x))
  BY DEF Quiet, Links, Types
<1>2. disk.rec <= newest /\ \A x \in Bodies : body[x].rec <= newest
  BY DEF Records
<1>3. \A x \in Bodies : body'[x].rec <= newest
  <2>1. \A x \in Bodies : body'[x].rec \in {body[x].rec, disk.rec, 0}
    BY <1>1 DEF Fresh
  <2> QED
    BY <1>1, <1>2, <2>1
<1>4. ASSUME NEW k \in Conns, conn[k].state \in {"password", "menu"},
             conn'[k].state \in {"password", "menu"}
      PROVE  body'[conn[k].char].rec = body[conn[k].char].rec
  <2> DEFINE x == conn[k].char
  <2>1. x \in Bodies /\ x # NoBody /\ ConnSound(k) /\ body[x].alloc /\ body[x].desc = k
    <3>1. ConnSound(k) /\ conn[k].char \in Bodies \union {NoBody} /\ PointersSound
      BY DEF Links, Types, Conn
    <3>2. x \in Bodies /\ x # NoBody
      BY <1>4, <3>1 DEF ConnSound
    <3>3. body[x].alloc
      BY <3>1, <3>2 DEF PointersSound, NothingFreedInUse
    <3> QED
      BY <3>1, <3>2, <3>3 DEF PointersSound, LinksAgree
  <2> HIDE DEF x
  <2>2. CASE body'[x].rec = body[x].rec
    BY <2>2 DEF x
  <2>3. CASE x \in Conns /\ conn[x].state = "name"
    <3>1. ConnSound(x)
      BY <2>3 DEF Links
    <3> QED
      BY <2>1, <2>3, <3>1 DEF ConnSound
  <2>4. CASE x \in Conns /\ conn[x].state = "password" /\ conn'[x].state = "playing"
    <3>1. ConnSound(x)
      BY <2>4 DEF Links
    <3>2. conn[x].char = x
      BY <2>4, <3>1 DEF ConnSound
    <3>3. x = k
      BY <2>1, <2>4, <3>2 DEF Links, PointersSound, LinksAgree
    <3> QED
      BY <1>4, <2>4, <3>3
  <2> QED
    BY <1>1, <2>1, <2>2, <2>3, <2>4 DEF Fresh
<1>5. Current => disk'.rec = newest
  BY <1>1 DEF Current
<1>6. disk'.rec <= newest
  BY <1>1, <1>2
<1> QED
  BY <1>1, <1>3, <1>4, <1>5, <1>6, RecordsFollow

LEMMA OnlyRecords ==
  ASSUME Links, Records, NEW c \in Bodies, NEW n, Only(c, n, body[c].rec), newest' = newest,
         disk'.rec \in {disk.rec, newest}, LoginsGoOn,
         \A x \in Present : body'[x].pending => Current \/ Driven(x)'
  PROVE  Records'
<1> USE Numbered
<1>1. /\ \A x \in Bodies : body'[x].listed = body[x].listed /\ body'[x].rec = body[x].rec
      /\ newest \in Nat
  BY DEF Only, Links, Types
<1>2. Present' = Present /\ Present \subseteq Bodies
  BY <1>1 DEF Present, Listed
<1>3. /\ disk'.rec <= newest
      /\ \A x \in Bodies : body'[x].rec <= newest
  BY <1>1 DEF Records
<1>4. Current => disk'.rec = newest
  BY DEF Current
<1>5. ASSUME NEW k \in Conns, conn[k].state \in {"password", "menu"}
      PROVE  body'[conn[k].char].rec = body[conn[k].char].rec
  <2>1. conn[k].char \in Bodies
    BY <1>5 DEF Links, ConnSound, Types, Conn
  <2> QED
    BY <1>1, <2>1
<1>6. \A x \in Present : body'[x].rec = body[x].rec
  BY <1>1, <1>2
<1> QED
  BY <1>2, <1>3, <1>4, <1>5, <1>6, RecordsFollow


\* Most steps leave whoever is at a body there, or put somebody at it.
LEMMA QuietlyRecords ==
  ASSUME "unsaved" \notin May, "lateLogin" \notin May, Links, Records, Quiet, LoginsGoOn,
         \/ DrivesOn
         \/ \E d \in Conns : Reconnect(d)
         \/ \E d \in Conns : LosesNobody(d) /\ \A k \in Conns \ {d} : conn'[k] = conn[k]
  PROVE  Records'
<1> USE Numbered
<1>1. ASSUME NEW x \in Present, body[x].pending
      PROVE  Current \/ Driven(x)'
  <2>1. Current \/ \E k \in Conns : Bound(k, x) /\ ~Marked(k)
    BY <1>1 DEF Records, Driven
  <2>2. CASE DrivesOn
    BY <1>1, <2>1, <2>2 DEF DrivesOn, Driven
  <2>3. ASSUME NEW d \in Conns, Reconnect(d)
        PROVE  Driven(x)'
    <3>1. conn'[d].state = "playing" /\ conn'[d].char = x
      BY <1>1, <2>3, ReconnectIs
    <3> QED
      BY <3>1 DEF Driven, Bound, Marked
  <2>4. ASSUME NEW d \in Conns, LosesNobody(d), \A k \in Conns \ {d} : conn'[k] = conn[k]
        PROVE  Current \/ Driven(x)'
    <3>1. ASSUME NEW k \in Conns, Bound(k, x), ~Marked(k)
          PROVE  Current \/ Driven(x)'
      <4>1. CASE k = d
        <5>1. Loses(x)
          BY <1>1, <2>4, <3>1, <4>1 DEF LosesNobody, Present
        <5> QED
          BY <5>1, LosesIs
      <4>2. CASE k # d
        BY <2>4, <3>1, <4>2 DEF Driven, Bound, Marked
      <4> QED
        BY <4>1, <4>2
    <3> QED
      BY <2>1, <3>1
  <2> QED
    BY <2>2, <2>3, <2>4
<1> QED
  BY <1>1, QuietRecords

\* What is saved of somebody in the world is the newest.
LEMMA SavedIsNewest ==
  ASSUME Links, Records, NEW c \in Bodies, c \in Present
  PROVE  /\ SavedRecord(c, body, disk).rec \in {disk.rec, newest}
         /\ CrashSaved(c, body, SavedRecord(c, body, disk)).rec \in {disk.rec, newest}
         /\ Stored(c, "rented", disk).rec = disk.rec
<1>1. disk \in Disk /\ body \in [Bodies -> Body] /\ body[c].rec = newest
  BY DEF Links, Types, Records
<1> DEFINE t == SavedRecord(c, body, disk)
<1>2. t \in Disk /\ t.rec \in {disk.rec, newest}
  BY <1>1, SavedRecordIs
<1> HIDE DEF t
<1>3. CrashSaved(c, body, t).rec = t.rec
  BY <1>2 DEF CrashSaved, Disk
<1>4. Stored(c, "rented", disk).rec = disk.rec
  BY <1>1 DEF Stored, Disk
<1> QED
  BY <1>2, <1>3, <1>4 DEF t

LEMMA PlayerRecords ==
  ASSUME Links, Records, Links', LoginsGoOn, NEW d \in Conns,
         Play(d) \/ Drop(d) \/ Get(d) \/ Quit(d) \/ Save(d) \/ Autosave(d)
  PROVE  Records'
<1> USE Numbered
<1>1. PICK c \in Bodies : c = conn[d].char
  BY DEF Links, ConnSound, Types, Conn, Play, Drop, Get, Quit, Save, Autosave, Driving
<1>2. /\ c \in Present /\ Present = {c} /\ body[c].rec = newest
      /\ conn[d].state = "playing" /\ conn[d].orig = NoBody /\ Bound(d, c) /\ ~Marked(d)
      /\ conn' = conn
  <2>1. /\ conn[d].state = "playing" /\ ConnSound(d) /\ c # Mob /\ conn' = conn
    BY <1>1 DEF Links, ConnSound, Play, Drop, Get, Quit, Save, Autosave, Driving
  <2>2. c \in Present /\ conn[d].orig = NoBody
    BY <1>1, <2>1 DEF ConnSound, Present, Listed
  <2> QED
    BY <1>1, <2>1, <2>2 DEF Links, OnePlayer, Records, Bound, Marked
<1>3. Driven(c)'
  BY <1>2 DEF Driven, Bound, Marked
<1>4. CASE Play(d)
  <2>1. /\ Only(c, body[c].stuff, newest + 1) /\ newest' = newest + 1 /\ disk' = disk
        /\ newest \in Nat
    <3>1. Only(c, body[c].stuff, newest + 1)
      BY <1>1, <1>2, <1>4, PlayerIs
    <3>2. newest' = newest + 1 /\ disk' = disk
      BY <1>4 DEF Play
    <3>3. newest \in Nat
      BY DEF Links, Types
    <3> QED
      BY <3>1, <3>2, <3>3
  <2>2. Present' = {c} /\ body'[c].rec = newest'
    BY <1>2, <2>1 DEF Only, Present, Listed
  <2>3. \A x \in Bodies : body'[x].rec <= newest'
    <3>1. \A x \in Bodies : body[x].rec \in Int /\ body[x].rec <= newest
      BY DEF Links, Types, Body, Records
    <3>2. \A x \in Bodies : body'[x].rec = IF x = c THEN newest + 1 ELSE body[x].rec
      BY <2>1 DEF Only
    <3> QED
      BY <2>1, <3>1, <3>2
  <2>4. disk'.rec <= newest'
    <3>1. disk.rec \in Int /\ disk.rec <= newest
      BY DEF Links, Types, Disk, Records
    <3> QED
      BY <2>1, <3>1
  <2> QED
    BY <1>3, <2>2, <2>3, <2>4 DEF Records
<1>5. ASSUME ~Play(d)
      PROVE  Records'
  <2>1. \E n : Only(c, n, body[c].rec)
    BY <1>1, <1>2, <1>5, PlayerIs
  <2>2. newest' = newest
    BY <1>5 DEF Drop, Get, Quit, Save, Autosave, world
  <2>3. disk'.rec \in {disk.rec, newest}
    BY <1>1, <1>2, <1>5, SavedIsNewest DEF Drop, Get, Quit, Save, Autosave
  <2> QED
    BY <1>2, <1>3, <2>1, <2>2, <2>3, OnlyRecords
<1> QED
  BY <1>4, <1>5

LEMMA VictimRecords ==
  ASSUME "unsaved" \notin May, "lateLogin" \notin May, Links, Records, LoginsGoOn,
         NEW c \in Bodies, Purge(c) \/ Die(c) \/ Idle(c)
  PROVE  Records'
<1> USE Numbered
<1>1. PICK n : Only(c, n, body[c].rec)
  BY VictimIs
<1>2. newest' = newest
  BY DEF Purge, Die, Idle, world
<1>3. body[c].idle \in 0..2 /\ body \in [Bodies -> Body]
  BY DEF Links, Types, Body
<1>4. disk'.rec \in {disk.rec, newest}
  <2>1. CASE Purge(c) \/ Die(c)
    BY <2>1 DEF Purge, Die
  <2>2. CASE Idle(c)
    <3>1. c \in Present
      BY <2>2 DEF Idle, Present
    <3>2. body[c].idle = 0 => disk' = disk
      BY <2>2 DEF Idle
    <3>3. body[c].idle = 1 => disk' = CrashSaved(c, body, SavedRecord(c, body, disk))
      BY <2>2 DEF Idle
    <3>4. body[c].idle = 2 => disk' = Stored(c, "rented", disk)
      BY <2>2 DEF Idle
    <3> QED
      BY <1>3, <3>1, <3>2, <3>3, <3>4, SavedIsNewest
  <2> QED
    BY <2>1, <2>2
<1>5. ASSUME NEW x \in Present, body'[x].pending
      PROVE  Current \/ Driven(x)'
  <2>1. x \in Bodies /\ (body[x].pending => Current \/ Driven(x))
    BY DEF Present, Records
  <2>2. CASE Purge(c)
    <3>1. c \in Present /\ Loses(c)
      BY <2>2 DEF Purge, Present
    <3> QED
      BY <3>1, LosesIs
  <2>3. CASE Die(c)
    <3>1. DrivesOn /\ Marks(c) /\ Goes(c) /\ c \in Listed
      BY <2>3, DrivesKept, VictimIs DEF Die
    <3>2. body[x].pending \/ x = c
      <4>1. body'[x].pending = (body[x].pending \/ x = c)
        BY <2>1, <3>1 DEF Marks
      <4> QED
        BY <1>5, <4>1
    <3>3. x = c => Current \/ Driven(x)
      BY <3>1, LosesIs DEF Goes, Driven
    <3>4. Current \/ Driven(x)
      BY <2>1, <3>2, <3>3
    <3> QED
      BY <3>1, <3>4 DEF DrivesOn, Driven
  <2>4. CASE Idle(c) /\ body[c].idle # 2
    <3>1. DrivesOn /\ MarksNobody
      BY <2>4, DrivesKept, VictimIs
    <3> QED
      BY <1>5, <2>1, <3>1 DEF DrivesOn, Driven, MarksNobody
  <2>5. CASE Idle(c) /\ body[c].idle = 2
    <3>1. c \in Present
      BY <2>5 DEF Idle, Present
    <3>2. Loses(c)
      BY <2>5 DEF Idle
    <3> QED
      BY <3>1, <3>2, LosesIs
  <2> QED
    BY <2>2, <2>3, <2>4, <2>5
<1> QED
  BY <1>1, <1>2, <1>4, <1>5, OnlyRecords


LEMMA LoginRecords ==
  ASSUME Links, Records, LoginsGoOn, NEW d \in Conns, WrongPassword(d) \/ EnterGame(d)
  PROVE  Records'
<1> USE Numbered
<1>1. disk \in Disk /\ body \in [Bodies -> Body] /\ newest \in Nat
  BY DEF Links, Types
<1>2. CASE WrongPassword(d)
  <2> DEFINE c == conn[d].char
  <2>1. /\ UNCHANGED <<body, newest>> /\ disk' = SavedRecord(c, body, disk)
        /\ conn[d].state = "password"
    BY <1>2 DEF WrongPassword, world
  <2>2. c \in Bodies
    BY <2>1 DEF Links, ConnSound
  <2>3. disk'.rec \in {disk.rec, body[c].rec}
    BY <1>1, <2>1, <2>2, SavedRecordIs
  <2>4. /\ disk'.rec <= newest
        /\ Current => disk'.rec = newest
    BY <2>1, <2>2, <2>3 DEF Records, Current
  <2> HIDE DEF c
  <2>5. Present' = Present /\ \A x \in Bodies : body'[x].rec <= newest
    BY <2>1 DEF Present, Listed, Records
  <2>6. DrivesOn
    BY <1>2, DrivesKept
  <2>7. \A x \in Present : body'[x].pending => Current \/ Driven(x)'
    BY <2>1, <2>6 DEF DrivesOn, Driven, Records
  <2> QED
    BY <2>1, <2>4, <2>5, <2>7, RecordsFollow
<1>3. CASE EnterGame(d)
  <2> DEFINE c == conn[d].char
  <2>1. /\ c \in Bodies /\ ~body[c].pending /\ Present = {} /\ Present' = {c} /\ MarksNobody
        /\ \A x \in Bodies : body'[x].rec = body[x].rec
        /\ disk'.rec = body[c].rec /\ newest' = newest
    BY <1>3, EnterIs
  <2>2. body[c].rec = newest
    <3>1. Current /\ conn[d].state = "menu"
      BY <1>3, <2>1 DEF Records, EnterGame
    <3> QED
      BY <3>1 DEF Current
  <2> HIDE DEF c
  <2>3. ~body'[c].pending
    BY <2>1 DEF MarksNobody
  <2>4. disk'.rec <= newest' /\ \A x \in Bodies : body'[x].rec <= newest'
    BY <1>1, <2>1, <2>2 DEF Records
  <2> QED
    BY <2>1, <2>2, <2>3, <2>4 DEF Records
<1> QED
  BY <1>2, <1>3

\* Extraction saves the record of whoever is driven to the menu, and closes every other
\* login; a body nobody is at has been saved, and nobody is logging in.
LEMMA ExtractRecords ==
  ASSUME Links, Belongings, Records, NEW c \in Bodies, c \in Players, ExtractFinal(c)
  PROVE  Records' /\ disk'.rec = newest /\ newest' = newest
<1> USE Numbered
<1> DEFINE cn == Back(c).conn
           b == Back(c).body
           owner == b[c].desc
           kept == SavedRecord(c, b, disk)
<1>1. /\ phase = "extract" /\ c \in Listed /\ body[c].pending /\ newest' = newest
      /\ owner \in Conns \union {NoConn}
      /\ \A x \in Bodies \ {c} : body'[x] = b[x]
      /\ body'[c].rec = b[c].rec
  BY ExtractIs
<1>2. \A k \in Conns :
        /\ conn'[k].char = cn[k].char /\ conn'[k].orig = cn[k].orig
        /\ conn'[k].state =
             IF k = owner THEN "menu"
             ELSE IF owner # NoConn /\ Open(k) /\ cn[k].char \in Players THEN "close"
             ELSE cn[k].state
  BY ExtractIs
<1>3. /\ disk' = IF c # Mob /\ kept.code = "crash"
                 THEN [kept EXCEPT !.code = "none", !.stuff = 0] ELSE kept
      /\ kept \in Disk
      /\ kept.rec = IF c = Mob \/ b[c].desc = NoConn THEN disk.rec ELSE b[c].rec
  BY ExtractIs
<1>4. Settled(cn, b, c)
  BY <1>1, BackIsSettled
<1>5. \A k \in Conns :
        /\ conn[k].state \in {"password", "menu"} => cn[k].char = conn[k].char
        /\ Bound(k, c) => cn[k].char = c \/ cn[k].orig = c
  BY <1>1, BackKeeps
<1>6. Present = {c} /\ Present' = {}
  BY ExtractBelongings
<1>7. disk'.rec = IF owner = NoConn THEN disk.rec ELSE b[c].rec
  <2> HIDE DEF kept, b
  <2> QED
    BY <1>3 DEF Disk
<1> HIDE DEF cn, b, kept
<1>8. /\ body[c].alloc /\ body[c].rec = newest /\ newest \in Nat
      /\ \A x \in Bodies : body'[x].rec = body[x].rec
  <2>1. body[c].alloc
    BY <1>1 DEF Links, PointersSound, NothingFreedInUse
  <2>2. body[c].rec = newest /\ newest \in Nat
    BY <1>6 DEF Records, Links, Types
  <2>3. \A x \in Bodies : body'[x].rec = body[x].rec
    BY <1>1, <1>4 DEF Settled
  <2> QED
    BY <2>1, <2>2, <2>3
<1>9. \A k \in Conns : owner = k <=> cn[k].char = c
  BY <1>4, <1>8 DEF Settled
<1>10. disk'.rec = newest /\ Current'
  <2>1. CASE owner = NoConn
    <3>1. ~Driven(c)
      <4>1. ASSUME NEW k \in Conns, Bound(k, c) PROVE FALSE
        <5>1. cn[k].char # c
          BY <1>9, <2>1
        <5>2. cn[k].orig # c
          BY <1>4 DEF Settled
        <5> QED
          BY <1>5, <4>1, <5>1, <5>2
      <4> QED
        BY <4>1 DEF Driven
    <3>2. Current
      BY <1>1, <1>6, <3>1 DEF Records
    <3>3. \A k \in Conns : conn'[k].state = conn[k].state /\ conn'[k].char = cn[k].char
      BY <1>2, <1>4, <2>1 DEF Settled
    <3>4. ASSUME NEW k \in Conns, conn'[k].state \in {"password", "menu"}
          PROVE  body'[conn'[k].char].rec = newest
      <4>1. conn'[k].char = conn[k].char /\ body[conn[k].char].rec = newest
        BY <1>5, <3>2, <3>3, <3>4 DEF Current
      <4>2. conn[k].char \in Bodies
        BY <3>3, <3>4 DEF Links, ConnSound, Types, Conn
      <4> QED
        BY <1>8, <4>1, <4>2
    <3> QED
      BY <1>1, <1>7, <2>1, <3>2, <3>4 DEF Current
  <2>2. CASE owner # NoConn
    <3>1. disk'.rec = newest
      BY <1>4, <1>7, <1>8, <2>2 DEF Settled
    <3>2. ASSUME NEW k \in Conns, conn'[k].state \in {"password", "menu"}
          PROVE  body'[conn'[k].char].rec = newest
      <4>1. CASE k = owner
        BY <1>2, <1>8, <1>9, <4>1
      <4>2. CASE k # owner
        <5>1. cn[k].state = conn[k].state /\ conn[k].state \in {"password", "menu"}
          BY <1>2, <1>4, <3>2, <4>2 DEF Settled
        <5>2. cn[k].char \in Players
          BY <1>4, <5>1 DEF Settled
        <5> QED
          BY <1>2, <2>2, <3>2, <4>2, <5>1, <5>2 DEF Open
      <4> QED
        BY <4>1, <4>2
    <3> QED
      BY <1>1, <3>1, <3>2 DEF Current
  <2> QED
    BY <2>1, <2>2
<1>11. disk'.rec <= newest' /\ \A x \in Bodies : body'[x].rec <= newest'
  BY <1>1, <1>8, <1>10 DEF Records
<1> QED
  BY <1>1, <1>6, <1>10, <1>11 DEF Records


LEMMA InitRecords == Init => Records
<1> SUFFICES ASSUME Init PROVE Records
  OBVIOUS
<1> USE Numbered
<1> DEFINE mobile == [Unborn EXCEPT !.alloc = TRUE, !.listed = TRUE]
<1>1. ~Unborn.listed /\ Unborn.rec = 0 /\ mobile.rec = 0 /\ Unmade.state = "none"
  BY DEF Unborn, Unmade
<1>2. /\ body = [c \in Bodies |-> IF c = Mob THEN mobile ELSE Unborn] /\ newest = 0
      /\ disk = [rec |-> 0, code |-> "rented", stuff |-> 1]
      /\ conn = [d \in Conns |-> Unmade]
  BY DEF Init
<1> HIDE DEF mobile
<1>3. \A c \in Bodies : body[c].rec = 0 /\ (c # Mob => ~body[c].listed)
  BY <1>1, <1>2
<1>4. Present = {}
  BY <1>3 DEF Present, Listed
<1>5. disk.rec = 0 /\ \A d \in Conns : conn[d].state = "none"
  BY <1>1, <1>2
<1> QED
  BY <1>2, <1>3, <1>4, <1>5 DEF Records, Current

LEMMA RecordsStep ==
  ASSUME "dcBuilder" \notin May, "unsaved" \notin May, "lateLogin" \notin May,
         Links, Belongings, Records, [Next]_vars
  PROVE  Records'
<1> USE Numbered
<1>1. CASE UNCHANGED vars
  BY <1>1 DEF vars, world, Records, Current, Driven, Bound, Marked, Present, Listed
<1>2. CASE Next
  <2>1. Links'
    BY <1>2, LinksStep
  <2>2. ASSUME NEW c \in Bodies, c # Mob, ExtractFinal(c)
        PROVE  Records'
    BY <2>2, ExtractRecords
  <2>3. ASSUME \A c \in Players : ~ExtractFinal(c)
        PROVE  Records'
    <3>1. LoginsGoOn
      BY <1>2, <2>3, LoginsKept
    <3>2. Quiet /\ DrivesOn => Records'
      BY <3>1, QuietlyRecords
    <3>3. CASE Accept \/ Advance \/ ExtractFinal(Mob)
      BY <3>2, <3>3, QuietSteps, DrivesKept
    <3>4. ASSUME NEW d \in Conns,
                 Sweep(d) \/ PasswordTimeout(d) \/ Silent(d) \/ GiveName(d) \/ ToMenu(d)
                 \/ Goodbye(d) \/ Build(d) \/ FinishBuilding(d) \/ Switch(d) \/ Return(d)
          PROVE  Records'
      BY <3>2, <3>4, QuietSteps, DrivesKept
    <3>5. ASSUME NEW d \in Conns, Reconnect(d)
          PROVE  Records'
      BY <3>1, <3>5, QuietSteps, QuietlyRecords
    <3>6. ASSUME NEW d \in Conns, Hangup(d) \/ Dc(d)
          PROVE  Records'
      <4>1. LosesNobody(d) /\ \A k \in Conns \ {d} : conn'[k] = conn[k]
        BY <3>6 DEF Hangup, Dc, CloseSocket, Links, Types
      <4> QED
        BY <3>1, <3>6, <4>1, QuietSteps, QuietlyRecords
    <3>7. ASSUME NEW d \in Conns, WrongPassword(d) \/ EnterGame(d)
          PROVE  Records'
      BY <3>1, <3>7, LoginRecords
    <3>8. ASSUME NEW d \in Conns,
                 Play(d) \/ Drop(d) \/ Get(d) \/ Quit(d) \/ Save(d) \/ Autosave(d)
          PROVE  Records'
      BY <2>1, <3>1, <3>8, PlayerRecords
    <3>9. ASSUME NEW c \in Bodies, Purge(c) \/ Die(c) \/ Idle(c)
          PROVE  Records'
      BY <3>1, <3>9, VictimRecords
    <3> QED
      BY <1>2, <2>3, <3>3, <3>4, <3>5, <3>6, <3>7, <3>8, <3>9 DEF Next, Command
  <2> QED
    BY <2>2, <2>3
<1> QED
  BY <1>1, <1>2

\* What may happen without a promise being broken on purpose.
Ordinary ==
  "dcBuilder" \notin May /\ "quitAtAutosave" \notin May /\ "unsaved" \notin May
  /\ "lateLogin" \notin May

LEMMA RecordsHold ==
  ASSUME Ordinary
  PROVE  Spec => [](Links /\ Belongings /\ Records)
<1>1. Links /\ Belongings /\ Records /\ [Next]_vars => Links' /\ Belongings' /\ Records'
  BY LinksStep, BelongingsStep, RecordsStep DEF Ordinary
<1> QED
  BY <1>1, InitLinks, InitBelongings, InitRecords, PTL DEF Spec


-----------------------------------------------------------------------------
(* The player's stay *)

Here == Listed \cap Players # {}
Whereabouts == CASE Held # {} -> "carried"
                 [] floor > 0 -> "left"
                 [] InRentFile > 0 -> "stored"
                 [] OTHER -> "lost"

\* The actions of PlayerStay in the terms of Descriptors.
LEMMA StayActions ==
  /\ Here' = Here /\ Whereabouts' = Whereabouts /\ newest' = newest /\ disk'.rec = disk.rec =>
       UNCHANGED Stay!vars
  /\ ~Here /\ Here' /\ newest = disk.rec /\ newest' = newest /\ disk'.rec = disk.rec
     /\ Whereabouts' = (IF Whereabouts = "stored" THEN "carried" ELSE Whereabouts) =>
       Stay!Next
  /\ Here /\ Here' /\ newest' = newest + 1 /\ Whereabouts' = Whereabouts
     /\ disk'.rec = disk.rec =>
       Stay!Next
  /\ Here /\ Here' /\ Whereabouts = "carried" /\ Whereabouts' = "left" /\ newest' = newest
     /\ disk'.rec = disk.rec =>
       Stay!Next
  /\ Here /\ Here' /\ Whereabouts = "left" /\ Whereabouts' = "carried" /\ newest' = newest
     /\ disk'.rec = disk.rec =>
       Stay!Next
  /\ Here /\ Here' /\ disk'.rec \in 0..newest /\ Whereabouts' = Whereabouts
     /\ newest' = newest =>
       Stay!Next
  /\ Here /\ Here' /\ Whereabouts = "carried" /\ Whereabouts' = "stored" /\ newest' = newest
     /\ disk'.rec = disk.rec =>
       Stay!Next
  /\ Here /\ ~Here' /\ disk'.rec = newest /\ newest' = newest
     /\ Whereabouts' = (IF Whereabouts = "carried" THEN "left" ELSE Whereabouts) =>
       Stay!Next
<1>1. Here' = Here /\ Whereabouts' = Whereabouts /\ newest' = newest /\ disk'.rec = disk.rec =>
        UNCHANGED Stay!vars
  BY DEF Here, Whereabouts, Stay!vars
<1>2. ~Here /\ Here' /\ newest = disk.rec /\ newest' = newest /\ disk'.rec = disk.rec
      /\ Whereabouts' = (IF Whereabouts = "stored" THEN "carried" ELSE Whereabouts) =>
        Stay!Arrive
  BY DEF Here, Whereabouts, Stay!Arrive
<1>3. Here /\ Here' /\ newest' = newest + 1 /\ Whereabouts' = Whereabouts
      /\ disk'.rec = disk.rec => Stay!Play
  BY DEF Here, Whereabouts, Stay!Play
<1>4. Here /\ Here' /\ Whereabouts = "carried" /\ Whereabouts' = "left" /\ newest' = newest
      /\ disk'.rec = disk.rec => Stay!PutDown
  BY DEF Here, Whereabouts, Stay!PutDown
<1>5. Here /\ Here' /\ Whereabouts = "left" /\ Whereabouts' = "carried" /\ newest' = newest
      /\ disk'.rec = disk.rec => Stay!PickUp
  BY DEF Here, Whereabouts, Stay!PickUp
<1>6. Here /\ Here' /\ disk'.rec \in 0..newest /\ Whereabouts' = Whereabouts
      /\ newest' = newest => Stay!Keep
  BY DEF Here, Whereabouts, Stay!Keep
<1>7. Here /\ Here' /\ Whereabouts = "carried" /\ Whereabouts' = "stored" /\ newest' = newest
      /\ disk'.rec = disk.rec => Stay!Store
  BY DEF Here, Whereabouts, Stay!Store
<1>8. Here /\ ~Here' /\ disk'.rec = newest /\ newest' = newest
      /\ Whereabouts' = (IF Whereabouts = "carried" THEN "left" ELSE Whereabouts) =>
        Stay!Depart
  BY DEF Here, Whereabouts, Stay!Depart
<1> QED
  BY <1>1, <1>2, <1>3, <1>4, <1>5, <1>6, <1>7, <1>8 DEF Stay!Next

LEMMA WhereaboutsAre ==
  ASSUME Links, Belongings
  PROVE  /\ Held # {} => Whereabouts = "carried" /\ floor = 0
         /\ Held = {} /\ floor = 1 => Whereabouts = "left"
         /\ Held = {} /\ floor = 0 => Whereabouts = "stored"
         /\ floor = 0 \/ floor = 1
         /\ Here <=> Present # {}
         /\ ~Here => Held = {}
<1> USE Numbered
<1>1. floor \in 0..1 /\ InRentFile \in 0..1
  BY BelongingsAre
<1>2. Here <=> Present # {}
  BY DEF Here, Present
<1>3. CASE Present = {}
  <2>1. Held = {} /\ floor + InRentFile = 1
    BY <1>3, BelongingsAre DEF Belongings
  <2>2. (floor = 1 /\ InRentFile = 0) \/ (floor = 0 /\ InRentFile = 1)
    BY <1>1, <2>1
  <2> QED
    BY <1>2, <1>3, <2>1, <2>2 DEF Whereabouts
<1>4. CASE Present # {}
  <2>1. PICK c \in Present : Present = {c} /\ Held = (IF body[c].stuff = 1 THEN {c} ELSE {})
    BY <1>4, BelongingsAre
  <2>2. body[c].stuff \in 0..1 /\ body[c].stuff + floor + InRentFile = 1
    BY <2>1, BelongingsAre DEF Belongings, Present, Listed
  <2>3. \/ body[c].stuff = 1 /\ floor = 0 /\ InRentFile = 0
        \/ body[c].stuff = 0 /\ floor = 1 /\ InRentFile = 0
        \/ body[c].stuff = 0 /\ floor = 0 /\ InRentFile = 1
    BY <1>1, <2>2
  <2>4. (body[c].stuff = 1 => Held # {}) /\ (body[c].stuff = 0 => Held = {})
    BY <2>1
  <2>5. \/ Held # {} /\ floor = 0 /\ InRentFile = 0
        \/ Held = {} /\ floor = 1 /\ InRentFile = 0
        \/ Held = {} /\ floor = 0 /\ InRentFile = 1
    BY <2>3, <2>4
  <2>6. Held # {} /\ floor = 0 /\ InRentFile = 0 => Whereabouts = "carried"
    BY DEF Whereabouts
  <2>7. Held = {} /\ floor = 1 /\ InRentFile = 0 => Whereabouts = "left"
    BY DEF Whereabouts
  <2>8. Held = {} /\ floor = 0 /\ InRentFile = 1 => Whereabouts = "stored"
    BY DEF Whereabouts
  <2> QED
    BY <1>2, <1>4, <2>5, <2>6, <2>7, <2>8
<1> QED
  BY <1>3, <1>4


Placed ==
  /\ Held # {} => Whereabouts = "carried" /\ floor = 0
  /\ Held = {} /\ floor = 1 => Whereabouts = "left"
  /\ Held = {} /\ floor = 0 => Whereabouts = "stored"
  /\ floor = 0 \/ floor = 1
  /\ Here <=> Present # {}
  /\ ~Here => Held = {}

LEMMA Placing == Links /\ Belongings => Placed
BY WhereaboutsAre DEF Placed

LEMMA PlacingNext == (Links /\ Belongings => Placed)'
BY Placing, PTL

\* What is carried, from what everybody has in hand.
LEMMA Holding ==
  ASSUME Links, Belongings, NEW c \in Present
  PROVE  /\ Present = {c} /\ body[c].stuff \in 0..1 /\ body[c].rec \in 0..MaxRec
         /\ Held = (IF body[c].stuff = 1 THEN {c} ELSE {})
BY BelongingsAre, Numbered DEF Links, Types, Body, OnePlayer, Present, Listed

\* Steps of Descriptors that are one step of PlayerStay, or none.
LEMMA StandStill ==
  ASSUME Placed, Placed', Here' = Here, Held' = Held, floor' = floor, newest' = newest
  PROVE  /\ disk'.rec = disk.rec => UNCHANGED Stay!vars
         /\ Here /\ disk'.rec \in 0..newest => Stay!Next
<1>1. Whereabouts' = Whereabouts
  BY DEF Placed
<1> QED
  BY <1>1, StayActions

LEMMA QuietStays ==
  ASSUME Placed, Placed', Quiet
  PROVE  UNCHANGED Stay!vars
<1>1. Here' = Here /\ Held' = Held
  BY DEF Quiet, Here, Present, Held
<1> QED
  BY <1>1, StandStill DEF Quiet

\* Whoever is in the world changes hands with the floor or the file.
LEMMA OneStays ==
  ASSUME Links, Belongings, Placed, Placed', NEW c \in Bodies, NEW n \in 0..1, NEW m,
         Only(c, n, m), c = Mob => n = body[c].stuff, c # Mob => c \in Present,
         newest' = newest, disk'.rec \in 0..newest, c = Mob => disk'.rec = disk.rec,
         floor' = floor + body[c].stuff - n \/ floor' = floor,
         n # body[c].stuff => disk'.rec = disk.rec,
         n = 1 /\ body[c].stuff = 0 => floor' # floor
  PROVE  [Stay!Next]_(Stay!vars)
<1> USE Numbered
<1>1. /\ Here' = Here /\ Held' = {x \in Bodies : (IF x = c THEN n ELSE body[x].stuff) > 0}
      /\ body[c].stuff \in 0..1 /\ floor \in 0..1
  BY BelongingsAre DEF Only, Here, Listed, Held
<1>2. CASE n = body[c].stuff
  <2>1. Held' = Held /\ floor' = floor
    BY <1>1, <1>2 DEF Held
  <2>2. CASE c = Mob
    BY <1>1, <2>1, <2>2, StandStill
  <2>3. CASE c # Mob
    <3>1. Here
      BY <2>3 DEF Here, Present
    <3> QED
      BY <1>1, <2>1, <3>1, StandStill
  <2> QED
    BY <2>2, <2>3
<1>3. CASE n # body[c].stuff
  <2>1. c \in Present /\ Here /\ Here' /\ Held = (IF body[c].stuff = 1 THEN {c} ELSE {})
        /\ Present = {c}
    BY <1>1, <1>3, Holding DEF Here, Present
  <2>2. Held' = IF n = 1 THEN {c} ELSE {}
    <3>1. \A x \in Bodies : x # c => body[x].stuff = 0
      BY <2>1 DEF Belongings
    <3>2. n = 0 \/ n = 1
      OBVIOUS
    <3> QED
      BY <1>1, <3>1, <3>2
  <2>3. CASE n = 0
    <3>1. body[c].stuff = 1 /\ Held = {c} /\ Held' = {}
      BY <1>1, <1>3, <2>1, <2>2, <2>3
    <3>2. Whereabouts = "carried" /\ Whereabouts' \in {"left", "stored"}
      BY <3>1 DEF Placed
    <3> QED
      BY <1>3, <2>1, <3>2, StayActions
  <2>4. CASE n = 1
    <3>1. body[c].stuff = 0 /\ Held = {} /\ Held' = {c}
      BY <1>1, <1>3, <2>1, <2>2, <2>4
    <3>2. floor = 1
      <4>1. floor' = floor - 1
        BY <1>1, <2>4, <3>1
      <4> QED
        BY <1>1, <4>1 DEF Placed
    <3>3. Whereabouts = "left" /\ Whereabouts' = "carried"
      BY <3>1, <3>2 DEF Placed
    <3> QED
      BY <1>3, <2>1, <3>3, StayActions
  <2> QED
    BY <2>3, <2>4
<1> QED
  BY <1>2, <1>3


LEMMA PlayerStays ==
  ASSUME "quitAtAutosave" \notin May, Links, Belongings, Records, Placed, Placed',
         disk'.rec \in Nat, disk'.rec <= newest', NEW d \in Conns,
         Play(d) \/ Drop(d) \/ Get(d) \/ Quit(d) \/ Save(d) \/ Autosave(d)
  PROVE  [Stay!Next]_(Stay!vars)
<1> USE Numbered
<1>1. PICK c \in Bodies : c = conn[d].char
  BY DEF Links, ConnSound, Types, Conn, Play, Drop, Get, Quit, Save, Autosave, Driving
<1>2. c \in Present /\ c # Mob /\ conn[d].state = "playing" /\ conn[d].orig = NoBody
  <2>1. conn[d].state = "playing" /\ ConnSound(d) /\ c # Mob
    BY <1>1 DEF Links, ConnSound, Play, Drop, Get, Quit, Save, Autosave, Driving
  <2> QED
    BY <1>1, <2>1 DEF ConnSound, Present, Listed
<1>3. body[c].stuff \in 0..1 /\ floor \in 0..1 /\ disk \in Disk /\ newest \in Nat
  BY BelongingsAre DEF Links, Types
<1>4. /\ Play(d) => Only(c, body[c].stuff, newest + 1)
      /\ Drop(d) => Only(c, body[c].stuff - 1, body[c].rec)
      /\ Get(d) => Only(c, body[c].stuff + 1, body[c].rec)
      /\ Quit(d) => Only(c, 0, body[c].rec)
      /\ Save(d) \/ Autosave(d) => Only(c, body[c].stuff, body[c].rec)
  BY <1>1, <1>2, PlayerIs
<1>5. CASE Play(d)
  <2>1. UNCHANGED <<disk, floor>> /\ newest' = newest + 1
    BY <1>5 DEF Play
  <2>2. Held' = Held /\ Here' = Here /\ Here
    BY <1>2, <1>4, <1>5 DEF Only, Held, Here, Listed, Present
  <2>3. Whereabouts' = Whereabouts
    BY <2>1, <2>2 DEF Placed
  <2> QED
    BY <2>1, <2>2, <2>3, StayActions
<1>6. CASE Drop(d)
  <2>1. UNCHANGED <<disk, newest>> /\ floor' = floor + 1 /\ body[c].stuff = 1
    BY <1>1, <1>3, <1>6 DEF Drop
  <2>2. Only(c, 0, body[c].rec) /\ disk'.rec \in 0..newest
    BY <1>3, <1>4, <1>6, <2>1
  <2> QED
    BY <1>2, <1>3, <2>1, <2>2, OneStays
<1>7. CASE Get(d)
  <2>1. UNCHANGED <<disk, newest>> /\ floor' = floor - 1 /\ floor > 0
    BY <1>7 DEF Get
  <2>2. body[c].stuff = 0
    <3>1. body[c].stuff = 1 => Held # {}
      BY <1>2 DEF Held
    <3> QED
      BY <1>3, <2>1, <3>1 DEF Placed
  <2>3. Only(c, 1, body[c].rec) /\ disk'.rec \in 0..newest
    BY <1>3, <1>4, <1>7, <2>1, <2>2
  <2> QED
    BY <1>2, <1>3, <2>1, <2>2, <2>3, OneStays
<1>8. CASE Quit(d)
  <2>1. disk' = Stored(c, "rented", disk) /\ UNCHANGED <<floor, newest>>
    BY <1>1, <1>8 DEF Quit, world
  <2>2. disk'.rec = disk.rec /\ disk'.rec \in 0..newest /\ Only(c, 0, body[c].rec)
    BY <1>2, <1>3, <1>4, <1>8, <2>1, SavedIsNewest
  <2> QED
    BY <1>2, <1>3, <2>1, <2>2, OneStays
<1>9. CASE Save(d) \/ Autosave(d)
  <2>1. UNCHANGED <<floor, newest>> /\ Only(c, body[c].stuff, body[c].rec)
    BY <1>4, <1>9 DEF Save, Autosave, world
  <2>2. disk'.rec \in 0..newest
    BY <1>3, <2>1
  <2> QED
    BY <1>2, <1>3, <2>1, <2>2, OneStays
<1> QED
  BY <1>5, <1>6, <1>7, <1>8, <1>9

LEMMA VictimStays ==
  ASSUME Links, Belongings, Records, Placed, Placed',
         disk'.rec \in Nat, disk'.rec <= newest', NEW c \in Bodies, Purge(c) \/ Die(c) \/ Idle(c)
  PROVE  [Stay!Next]_(Stay!vars)
<1> USE Numbered
<1>1. /\ body[c].stuff \in 0..1 /\ floor \in 0..1 /\ disk \in Disk /\ newest \in Nat
      /\ body \in [Bodies -> Body] /\ body[c].idle \in 0..2
  BY BelongingsAre DEF Links, Types, Body
<1>2. c # Mob => c \in Present
  BY DEF Purge, Die, Idle, Present
<1>3. CASE Purge(c)
  <2>1. Only(c, body[c].stuff, body[c].rec) /\ UNCHANGED <<disk, floor, newest>>
    BY <1>3, VictimIs DEF Purge, world
  <2>2. disk'.rec \in 0..newest
    BY <1>1, <2>1
  <2> QED
    BY <1>1, <1>2, <2>1, <2>2, OneStays
<1>4. CASE Die(c)
  <2>1. PICK corpse \in {body[c].stuff, 0} :
          Only(c, body[c].stuff - corpse, body[c].rec) /\ floor' = floor + corpse
    BY <1>4, VictimIs
  <2>2. UNCHANGED <<disk, newest>>
    BY <1>4 DEF Die
  <2>3. PICK n \in 0..1 : n = body[c].stuff - corpse
    BY <1>1, <2>1
  <2>4. /\ Only(c, n, body[c].rec) /\ disk'.rec \in 0..newest /\ disk'.rec = disk.rec
        /\ floor' = floor + body[c].stuff - n
        /\ ~(n = 1 /\ body[c].stuff = 0)
    BY <1>1, <2>1, <2>2, <2>3
  <2>5. c = Mob => n = body[c].stuff
    BY <1>1, <2>1, <2>3 DEF Belongings, Present
  <2> QED
    BY <1>1, <1>2, <2>2, <2>4, <2>5, OneStays
<1>5. CASE Idle(c)
  <2>1. c # Mob /\ c \in Present /\ UNCHANGED <<floor, newest>>
    BY <1>2, <1>5 DEF Idle, world
  <2>2. disk'.rec \in 0..newest
    BY <1>1, <2>1
  <2>3. CASE body[c].idle # 2
    <3>1. Only(c, body[c].stuff, body[c].rec)
      BY <1>5, <2>3, VictimIs
    <3> QED
      BY <1>1, <2>1, <2>2, <3>1, OneStays
  <2>4. CASE body[c].idle = 2
    <3>1. disk' = Stored(c, "rented", disk)
      BY <1>5, <2>4 DEF Idle
    <3>2. Only(c, 0, body[c].rec) /\ disk'.rec = disk.rec
      BY <1>5, <2>1, <2>4, <3>1, VictimIs, SavedIsNewest
    <3> QED
      BY <1>1, <2>1, <2>2, <3>2, OneStays
  <2> QED
    BY <2>3, <2>4
<1> QED
  BY <1>3, <1>4, <1>5

\* A stay begins at the menu and ends with extraction.
LEMMA EnterStays ==
  ASSUME Links, Belongings, Records, Placed, Placed', Belongings', Links',
         NEW d \in Conns, EnterGame(d)
  PROVE  Stay!Next
<1> USE Numbered
<1> DEFINE c == conn[d].char
<1>1. /\ c \in Players /\ c \in Bodies /\ Present = {} /\ Present' = {c}
      /\ \A x \in Bodies : body'[x].stuff = IF x = c THEN disk.stuff ELSE body[x].stuff
      /\ disk'.rec = body[c].rec /\ UNCHANGED <<floor, newest>>
  BY EnterIs
<1>2. disk.rec = newest /\ body[c].rec = newest
  BY <1>1 DEF Records, Current, EnterGame
<1> HIDE DEF c
<1>3. ~Here /\ Here' /\ Held = {}
  BY <1>1, BelongingsAre DEF Here, Present
<1>4. disk.stuff \in Nat /\ floor + InRentFile = 1 /\ floor \in 0..1
  BY <1>1, BelongingsAre DEF Belongings, Links, Types, Disk
<1>5. disk.stuff = InRentFile
  <2>1. disk.code \in {"none", "crash", "rented"} /\ disk.code # "crash"
        /\ (disk.code = "none" => disk.stuff = 0)
    BY <1>1 DEF Belongings, Links, Types, Disk
  <2> QED
    BY <2>1 DEF InRentFile
<1>6. Held' = IF disk.stuff > 0 THEN {c} ELSE {}
  <2>1. \A x \in Bodies : body[x].stuff = 0
    BY <1>1 DEF Belongings
  <2> QED
    BY <1>1, <1>4, <2>1 DEF Held
<1>7. Whereabouts' = (IF Whereabouts = "stored" THEN "carried" ELSE Whereabouts)
  <2>1. CASE floor = 0
    <3>1. disk.stuff > 0
      BY <1>4, <1>5, <2>1
    <3> QED
      BY <1>3, <1>6, <2>1, <3>1 DEF Placed
  <2>2. CASE floor = 1
    <3>1. ~(disk.stuff > 0)
      BY <1>4, <1>5, <2>2
    <3> QED
      BY <1>1, <1>3, <1>6, <2>2, <3>1 DEF Placed
  <2> QED
    BY <1>4, <2>1, <2>2
<1> QED
  BY <1>1, <1>2, <1>3, <1>7, StayActions

LEMMA ExtractStays ==
  ASSUME Links, Belongings, Records, Placed, Placed',
         NEW c \in Bodies, c \in Players, ExtractFinal(c)
  PROVE  Stay!Next
<1> USE Numbered
<1>1. /\ Present = {c} /\ Present' = {} /\ Belongings' /\ disk'.rec = newest /\ newest' = newest
      /\ floor' = floor + body[c].stuff
  BY ExtractBelongings, ExtractRecords
<1>2. /\ body[c].stuff \in 0..1 /\ Held = (IF body[c].stuff = 1 THEN {c} ELSE {})
      /\ floor \in 0..1
  BY <1>1, Holding, BelongingsAre
<1>3. Here /\ ~Here' /\ Held' = {}
  BY <1>1 DEF Placed
<1>4. Whereabouts' = (IF Whereabouts = "carried" THEN "left" ELSE Whereabouts)
  <2>1. CASE body[c].stuff = 1
    <3>1. Held # {} /\ floor = 0 /\ floor' = 1
      BY <1>1, <1>2, <2>1 DEF Placed
    <3> QED
      BY <1>3, <3>1 DEF Placed
  <2>2. CASE body[c].stuff = 0
    <3>1. Held = {} /\ floor' = floor
      BY <1>1, <1>2, <2>2
    <3> QED
      BY <1>3, <3>1 DEF Placed
  <2> QED
    BY <1>2, <2>1, <2>2
<1> QED
  BY <1>1, <1>3, <1>4, StayActions


LEMMA StayStep ==
  ASSUME Ordinary, Links, Belongings, Records, [Next]_vars
  PROVE  [Stay!Next]_(Stay!vars)
<1> USE Numbered
<1>1. Links' /\ Belongings' /\ Records'
  BY LinksStep, BelongingsStep, RecordsStep DEF Ordinary
<1>2. Placed /\ Placed'
  BY <1>1, Placing, PlacingNext
<1>3. disk'.rec \in Nat /\ disk'.rec <= newest'
  BY <1>1 DEF Links, Types, Disk, Records
<1>4. CASE UNCHANGED vars
  <2>1. Held' = Held /\ Here' = Here /\ floor' = floor /\ newest' = newest /\ disk' = disk
    BY <1>4 DEF vars, world, Held, Here, Listed
  <2> QED
    BY <1>2, <2>1, StandStill
<1>5. ASSUME Quiet
      PROVE  [Stay!Next]_(Stay!vars)
  BY <1>2, <1>5, QuietStays
<1>6. CASE Next
  <2>1. CASE Accept \/ Advance
    BY <1>5, <2>1, QuietSteps
  <2>2. ASSUME NEW d \in Conns,
               Hangup(d) \/ Sweep(d) \/ Dc(d) \/ PasswordTimeout(d) \/ Silent(d) \/ GiveName(d)
               \/ Reconnect(d) \/ ToMenu(d) \/ Goodbye(d) \/ Build(d) \/ FinishBuilding(d)
               \/ Switch(d) \/ Return(d)
        PROVE  [Stay!Next]_(Stay!vars)
    BY <1>5, <2>2, QuietSteps
  <2>3. ASSUME NEW d \in Conns,
               Play(d) \/ Drop(d) \/ Get(d) \/ Quit(d) \/ Save(d) \/ Autosave(d)
        PROVE  [Stay!Next]_(Stay!vars)
    BY <1>2, <1>3, <2>3, PlayerStays DEF Ordinary
  <2>4. ASSUME NEW d \in Conns, EnterGame(d)
        PROVE  [Stay!Next]_(Stay!vars)
    BY <1>1, <1>2, <2>4, EnterStays
  <2>5. ASSUME NEW d \in Conns, WrongPassword(d)
        PROVE  [Stay!Next]_(Stay!vars)
    <3>1. UNCHANGED <<body, floor, newest>>
      BY <2>5 DEF WrongPassword, world
    <3>2. Held' = Held /\ Here' = Here /\ Present' = Present
      BY <3>1 DEF Held, Here, Listed, Present
    <3>3. CASE Here
      <4>1. disk'.rec \in 0..newest
        BY <1>1, <1>3, <3>1 DEF Links, Types
      <4> QED
        BY <1>2, <3>1, <3>2, <3>3, <4>1, StandStill
    <3>4. CASE ~Here
      <4>1. disk.rec = newest /\ disk'.rec = newest'
        BY <1>1, <1>2, <3>2, <3>4 DEF Placed, Records, Current
      <4> QED
        BY <1>2, <3>1, <3>2, <4>1, StandStill
    <3> QED
      BY <3>3, <3>4
  <2>6. ASSUME NEW c \in Bodies, Purge(c) \/ Die(c) \/ Idle(c)
        PROVE  [Stay!Next]_(Stay!vars)
    BY <1>2, <1>3, <2>6, VictimStays
  <2>7. ASSUME NEW c \in Bodies, ExtractFinal(c)
        PROVE  [Stay!Next]_(Stay!vars)
    <3>1. CASE c = Mob
      BY <1>5, <2>7, <3>1, QuietSteps
    <3>2. CASE c # Mob
      BY <1>2, <2>7, <3>2, ExtractStays
    <3> QED
      BY <3>1, <3>2
  <2> QED
    BY <1>6, <2>1, <2>2, <2>3, <2>4, <2>5, <2>6, <2>7 DEF Next, Command
<1> QED
  BY <1>4, <1>6

LEMMA InitStay == Init => Stay!Init
<1> SUFFICES ASSUME Init PROVE Stay!Init
  OBVIOUS
<1>1. Links /\ Belongings /\ floor = 0 /\ newest = 0 /\ disk.rec = 0
  BY InitLinks, InitBelongings DEF Init
<1>2. ~Here
  <2>1. \A c \in Players : ~body[c].listed
    BY Numbered DEF Init, Unborn
  <2> QED
    BY <2>1 DEF Here, Listed
<1>3. Whereabouts = "stored"
  BY <1>1, <1>2, WhereaboutsAre
<1> QED
  BY <1>1, <1>2, <1>3 DEF Stay!Init, Here, Whereabouts


-----------------------------------------------------------------------------
(* Results *)

\* Nothing freed is on character_list or at the end of a descriptor's pointer, and
\* descriptors and bodies agree on who drives whom, however many connections there are
\* and wherever in a pass they hang up, take over, switch, or are put out; unless a god
\* disconnects somebody in the editor.
THEOREM PointersStaySound ==
  ASSUME "dcBuilder" \notin May
  PROVE  Spec => []PointersSound
<1>1. Links => PointersSound
  BY DEF Links
<1> QED
  BY <1>1, LinksHold, PTL

\* The ranges of the variables: whatever is dropped, picked up, stored and restored,
\* there is never more than one of anything.
THEOREM DescriptorsTypes ==
  ASSUME "dcBuilder" \notin May, "quitAtAutosave" \notin May
  PROVE  Spec => []TypeOK
<1>1. ASSUME Links, Belongings, disk.stuff \in 0..1
      PROVE  TypeOK
  <2>1. /\ Types /\ floor \in 0..1 /\ \A c \in Bodies : body[c].stuff \in 0..1
    BY <1>1, BelongingsAre DEF Links
  <2>2. disk \in [rec : 0..MaxRec, code : {"none", "crash", "rented"}, stuff : 0..1]
    BY <1>1, <2>1 DEF Types, Disk
  <2>3. body \in [Bodies -> [alloc : BOOLEAN, listed : BOOLEAN, pending : BOOLEAN,
                             desc : Conns \union {NoConn}, idle : 0..2, dirty : BOOLEAN,
                             rec : 0..MaxRec, stuff : 0..1]]
    BY <2>1 DEF Types, Body
  <2> QED
    BY <2>1, <2>2, <2>3 DEF TypeOK, Types, Conn, States, Phases
<1> QED
  BY <1>1, FileHolds, PTL

\* However many connections log in, reconnect and take over, a player has one body in
\* the world, and nothing is in the hands of one that has left it.
THEOREM OneBodyStays ==
  ASSUME "dcBuilder" \notin May, "quitAtAutosave" \notin May
  PROVE  Spec => []OneBody
<1>1. ASSUME Links, Belongings
      PROVE  OneBody
  <2>1. Cardinality(Present) \in {0, 1}
    <3>1. CASE Present = {}
      BY <3>1, FS_EmptySet
    <3>2. CASE Present # {}
      <4>1. PICK c : Present = {c}
        BY <1>1, <3>2, BelongingsAre
      <4> QED
        BY <4>1, FS_Singleton
    <3> QED
      BY <3>1, <3>2
  <2>2. \A c \in Players \ Listed : body[c].stuff = 0
    BY <1>1, Numbered DEF Belongings, Present
  <2> QED
    BY <2>1, <2>2 DEF OneBody, Present
<1> QED
  BY <1>1, BelongingsHold, PTL

\* Nothing a player has is lost or doubled, through rents, crash files, corpses and
\* drops, whoever is put out in between; unless somebody rents in the very pulse of
\* an autosave.
THEOREM BelongingsStayOnce ==
  ASSUME "dcBuilder" \notin May, "quitAtAutosave" \notin May
  PROVE  Spec => []BelongingsOnce
<1>1. ASSUME Links, Belongings
      PROVE  BelongingsOnce
  <2>1. CASE Present = {}
    <3>1. Held = {} /\ floor + InRentFile = 1 /\ floor \in Int /\ InRentFile \in Int
      BY <1>1, <2>1, BelongingsAre DEF Belongings
    <3> QED
      BY <3>1, FS_EmptySet DEF BelongingsOnce
  <2>2. CASE Present # {}
    <3>1. PICK c \in Present : Present = {c} /\ Held = IF body[c].stuff = 1 THEN {c} ELSE {}
      BY <1>1, <2>2, BelongingsAre
    <3>2. /\ body[c].stuff + floor + InRentFile = 1 /\ body[c].stuff \in 0..1
          /\ floor \in Int /\ InRentFile \in Int
      BY <1>1, BelongingsAre DEF Belongings, Present, Listed
    <3>3. Cardinality(Held) = body[c].stuff
      <4>1. body[c].stuff = 1 \/ body[c].stuff = 0
        BY <3>2
      <4> QED
        BY <3>1, <4>1, FS_EmptySet, FS_Singleton
    <3> QED
      BY <3>2, <3>3 DEF BelongingsOnce
  <2> QED
    BY <2>1, <2>2
<1> QED
  BY <1>1, BelongingsHold, PTL

\* The C server's connections implement PlayerStay: through every reconnection,
\* take-over, link loss, switch, death and extraction a player has one stay in the
\* world at a time, which begins with what the last one ended with.
THEOREM DescriptorsImplementStay ==
  ASSUME Ordinary
  PROVE  Spec => IsStay
<1>1. Links /\ Belongings /\ Records /\ [Next]_vars => [Stay!Next]_(Stay!vars)
  BY StayStep
<1> QED
  BY <1>1, InitStay, RecordsHold, PTL DEF Spec, IsStay, Stay!Spec
=============================================================================

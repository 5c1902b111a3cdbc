--------------------------- MODULE PresenceProofs ---------------------------
(***************************************************************************)
(* What Presence promises for any number of connections, whatever the      *)
(* people about may do, whichever handlers come between each other's steps *)
(* and while the server goes down: the types, one connection for one body, *)
(* and one account of the world until one of four late steps.              *)
(*                                                                         *)
(* The lemmas at the end of the sections on the world, the record, the     *)
(* belongings and the way down are about runs in which handlers come in    *)
(* turn, as they do unless two of one player's fall within moments of each *)
(* other.  Nothing in the server makes them, so none is a theorem of it.   *)
(***************************************************************************)
EXTENDS Shutdown, TLAPS, WellFoundedInduction, FiniteSetTheorems

-----------------------------------------------------------------------------
(* Numbers.                                                                *)

\* A set of naturals that is not empty has its smallest element in it.
LEMMA MinElement ==
    ASSUME NEW S, S \subseteq Nat, S # {}
    PROVE  /\ Min(S) \in S
           /\ \A y \in S : Min(S) <= y
<1> DEFINE R == {p \in Nat \X Nat : p[1] < p[2]}
<1>1. IsWellFoundedOn(R, Nat)
  BY NatLessThanWellFounded DEF OpToRel
<1>2. PICK x \in S : \A y \in S : ~(<<y, x>> \in R)
  BY <1>1, WFMin
<1>3. ASSUME NEW y \in S PROVE x <= y
  <2>1. x \in Nat /\ y \in Nat /\ <<y, x>> \notin R
    BY <1>2
  <2>2. ~(y < x)
    BY <2>1
  <2> QED
    BY <2>1, <2>2
<1> QED
  BY <1>3 DEF Min

\* Copies never exceed what they are counted up to.
LEMMA PlusCounts ==
    ASSUME NEW m \in Nat, NEW n \in Nat
    PROVE  Plus(m, n) \in 0..Many
<1>1. {m + n, Many} \subseteq Nat /\ {m + n, Many} # {}
  BY PresenceAssumption
<1>2. Plus(m, n) \in {m + n, Many}
  BY <1>1, MinElement DEF Plus
<1>3. \E x \in {m + n, Many} : \A y \in {m + n, Many} : x <= y
  BY PresenceAssumption
<1>4. \A y \in {m + n, Many} : Plus(m, n) <= y
  BY <1>3 DEF Plus, Min
<1> QED
  BY <1>2, <1>4, PresenceAssumption
-----------------------------------------------------------------------------
(* Type correctness.                                                       *)

\* Places before the session has a character, and those where it has one.
Bodiless == {"off", "prompt", "tallying", "upgrading", "loaded", "adopting", "fresh"}
Embodied == {"reading", "entering", "loading", "forfeiting", "emptying", "restoring",
             "marking", "entered", "doing", "saving", "writing", "crashing", "storing",
             "releasing"}
AllPlaces == Bodiless \cup Embodied \cup {"ended", "gone"}

\* The inductive invariant, by what it is about.  Besides the types: a session
\* has a character where it needs one, and what is read or noted to be written
\* is of the size of what it is for.
SessionTypes ==
    /\ at \in [Conns -> AllPlaces]
    /\ state \in [Conns -> {"login", "menu", "playing"}]
    /\ char \in [Conns -> Bodies \cup {None}]
    /\ flags \in [Conns -> SUBSET {"closed", "quit", "rented", "extracted", "displaced"}]
    /\ local \in [Conns -> [read : Nat, body : Bodies \cup {None}, quit : BOOLEAN]]

SessionSized ==
    \A s \in Conns :
        /\ at[s] \in Bodiless => char[s] = None
        /\ at[s] \in Embodied => char[s] \in Bodies
        /\ at[s] = "adopting" => local[s].body \in Bodies
        /\ at[s] \in {"tallying", "writing"} => local[s].read <= MaxRec
        /\ at[s] \in {"emptying", "storing"} => local[s].read <= Many

WorldTypes ==
    /\ inWorld \subseteq Bodies
    /\ byName \in Bodies \cup {None}
    /\ client \in [Bodies -> Conns \cup {None}]
    /\ carrying \in [Bodies -> 0..Many]
    /\ rec \in [Bodies -> 0..MaxRec]
    /\ parted \in 0..Many

FileTypes ==
    /\ file \in [rec : 0..MaxRec, code : Codes, items : 0..Many]
    /\ file.code = "none" <=> file.items = 0

JobType == [step : {"none", "quitRecord", "quitCrash", "rentObjects", "rentSnapshot",
                    "rentRecord", "rentClose"},
            body : Bodies \cup {None}, rec : 0..MaxRec, items : 0..Many,
            leaver : Conns \cup {None}]

ServerTypes ==
    /\ job \in [1..Jobs -> JobType]
    /\ \A j \in 1..Jobs :
          /\ job[j].step # "none" => job[j].body \in Bodies
          /\ job[j].step = "rentObjects" => job[j].items # 0
    /\ sweep \in [step : {"none", "swept", "judging", "reaping"}, body : Bodies \cup {None},
                  rec : 0..MaxRec, linked : BOOLEAN]
    /\ sweep.step # "none" => sweep.body \in Bodies
    /\ linkdead \subseteq Bodies

TypeInv == SessionTypes /\ SessionSized /\ WorldTypes /\ FileTypes /\ ServerTypes

LEMMA PlacesListed == UNION {Places[h] : h \in DOMAIN Places} = AllPlaces
  BY DEF Places, AllPlaces, Bodiless, Embodied

LEMMA TypeInvImplies == TypeInv => TypeOK
  BY PlacesListed
     DEF TypeInv, TypeOK, SessionTypes, WorldTypes, FileTypes, ServerTypes, JobType

\* A step of one session that goes to a place it is fit for.
LEMMA SessionSteps ==
    ASSUME SessionTypes, SessionSized, NEW s \in Conns, NEW p \in AllPlaces,
           Goto(s, p),
           state' \in [Conns -> {"login", "menu", "playing"}],
           flags' \in [Conns -> SUBSET {"closed", "quit", "rented", "extracted", "displaced"}],
           char' \in [Conns -> Bodies \cup {None}],
           local' \in [Conns -> [read : Nat, body : Bodies \cup {None}, quit : BOOLEAN]],
           \A t \in Conns \ {s} : char'[t] = char[t] /\ local'[t] = local[t],
           p \in Bodiless => char'[s] = None,
           p \in Embodied => char'[s] \in Bodies,
           p = "adopting" => local'[s].body \in Bodies,
           p \in {"tallying", "writing"} => local'[s].read <= MaxRec,
           p \in {"emptying", "storing"} => local'[s].read <= Many
    PROVE  SessionTypes' /\ SessionSized'
<1>1. at' \in [Conns -> AllPlaces] /\ at'[s] = p /\ \A t \in Conns \ {s} : at'[t] = at[t]
  BY DEF SessionTypes, Goto
<1>2. ASSUME NEW t \in Conns
      PROVE  /\ at'[t] \in Bodiless => char'[t] = None
             /\ at'[t] \in Embodied => char'[t] \in Bodies
             /\ at'[t] = "adopting" => local'[t].body \in Bodies
             /\ at'[t] \in {"tallying", "writing"} => local'[t].read <= MaxRec
             /\ at'[t] \in {"emptying", "storing"} => local'[t].read <= Many
  <2>1. CASE t = s
    BY <1>1, <2>1
  <2>2. CASE t # s
    BY <1>1, <2>2 DEF SessionSized
  <2> QED
    BY <2>1, <2>2
<1> QED
  BY <1>1, <1>2 DEF SessionTypes, SessionSized

\* A step of one session that keeps its character and its locals, to a place
\* that asks no more of them than where it comes from.
LEMMA SessionGoes ==
    ASSUME SessionTypes, SessionSized, NEW s \in Conns, NEW p \in AllPlaces,
           Goto(s, p),
           state' \in [Conns -> {"login", "menu", "playing"}],
           flags' \in [Conns -> SUBSET {"closed", "quit", "rented", "extracted", "displaced"}],
           UNCHANGED <<char, local>>,
           p \in Bodiless => at[s] \in Bodiless,
           p \in Embodied => at[s] \in Embodied,
           p \notin {"adopting", "tallying", "writing", "emptying", "storing"}
    PROVE  SessionTypes' /\ SessionSized'
  BY SessionSteps DEF SessionTypes, SessionSized

\* So does one that notes what it has read, or forgets it.
LEMMA SessionReads ==
    ASSUME SessionTypes, SessionSized, NEW s \in Conns, NEW p \in AllPlaces, NEW n \in Nat,
           Goto(s, p), Read(s, n),
           UNCHANGED <<state, char, flags>>,
           p \in Bodiless => at[s] \in Bodiless,
           p \in Embodied => at[s] \in Embodied,
           p # "adopting",
           p \in {"tallying", "writing"} => n <= MaxRec,
           p \in {"emptying", "storing"} => n <= Many
    PROVE  SessionTypes' /\ SessionSized'
<1>0. local \in [Conns -> [read : Nat, body : Bodies \cup {None}, quit : BOOLEAN]]
  BY DEF SessionTypes
<1>1. local' \in [Conns -> [read : Nat, body : Bodies \cup {None}, quit : BOOLEAN]]
  <2>1. [local[s] EXCEPT !.read = n] \in [read : Nat, body : Bodies \cup {None}, quit : BOOLEAN]
    BY <1>0
  <2>2. local' = [local EXCEPT ![s] = [local[s] EXCEPT !.read = n]]
    BY <1>0 DEF Read
  <2> QED
    BY <1>0, <2>1, <2>2
<1>2. local'[s].read = n /\ \A t \in Conns \ {s} : local'[t] = local[t]
  BY <1>0 DEF Read
<1>3. char \in [Conns -> Bodies \cup {None}]
  BY DEF SessionTypes
<1>4. /\ p \in Bodiless => char[s] = None
      /\ p \in Embodied => char[s] \in Bodies
  BY DEF SessionSized
<1> QED
  BY <1>1, <1>2, <1>3, <1>4, SessionSteps DEF SessionTypes

\* Forgetting leaves the locals typed, and those of the others alone.
LEMMA Forgotten ==
    ASSUME SessionTypes, NEW s \in Conns, Forget(s)
    PROVE  /\ local' \in [Conns -> [read : Nat, body : Bodies \cup {None}, quit : BOOLEAN]]
           /\ \A t \in Conns \ {s} : local'[t] = local[t]
<1>1. local \in [Conns -> [read : Nat, body : Bodies \cup {None}, quit : BOOLEAN]]
  BY DEF SessionTypes
<1>2. [local[s] EXCEPT !.read = 0, !.body = None]
        \in [read : Nat, body : Bodies \cup {None}, quit : BOOLEAN]
  BY <1>1
<1>3. local' = [local EXCEPT ![s] = [local[s] EXCEPT !.read = 0, !.body = None]]
  BY <1>1 DEF Forget
<1> QED
  BY <1>1, <1>2, <1>3

LEMMA SessionForgets ==
    ASSUME SessionTypes, SessionSized, NEW s \in Conns, NEW p \in AllPlaces,
           Goto(s, p), Forget(s),
           UNCHANGED <<state, flags>>,
           char' \in [Conns -> Bodies \cup {None}],
           \A t \in Conns \ {s} : char'[t] = char[t],
           p \in Bodiless => char'[s] = None,
           p \in Embodied => char'[s] \in Bodies,
           p \notin {"adopting", "tallying", "writing", "emptying", "storing"}
    PROVE  SessionTypes' /\ SessionSized'
  BY Forgotten, SessionSteps DEF SessionTypes

\* Marking leaves flags flags.
LEMMA MarkTypes ==
    ASSUME SessionTypes, NEW ss, NEW marks,
           marks \subseteq {"closed", "quit", "rented", "extracted", "displaced"},
           Mark(ss, marks)
    PROVE  flags' \in [Conns -> SUBSET {"closed", "quit", "rented", "extracted", "displaced"}]
  BY DEF SessionTypes, Mark

\* What a step does not touch keeps its type.
LEMMA Untouched ==
    /\ SessionTypes /\ SessionSized /\ UNCHANGED session => SessionTypes' /\ SessionSized'
    /\ WorldTypes /\ UNCHANGED world => WorldTypes'
    /\ FileTypes /\ UNCHANGED file => FileTypes'
    /\ ServerTypes /\ UNCHANGED server => ServerTypes'
  BY DEF SessionTypes, SessionSized, WorldTypes, FileTypes, ServerTypes, session, world,
         rooms, bodies, server

\* The store's operations, each with what it may be given.
LEMMA StoreTypes ==
    ASSUME FileTypes
    PROVE  /\ \A r \in 0..MaxRec : Save(r) => FileTypes'
           /\ \A n \in 0..Many : WriteCrashFile(n) => FileTypes'
           /\ \A n \in 0..Many : n # 0 /\ SaveObjects("rented", n) => FileTypes'
           /\ MarkCrashed => FileTypes'
<1>1. ASSUME NEW r \in 0..MaxRec, Save(r) PROVE FileTypes'
  BY <1>1 DEF FileTypes, Save, Codes
<1>2. ASSUME NEW n \in 0..Many, n # 0, NEW c \in {"crash", "rented"}, SaveObjects(c, n)
      PROVE  FileTypes'
  BY <1>2 DEF FileTypes, SaveObjects, Codes
<1>3. ASSUME DeleteObjects PROVE FileTypes'
  <2>1. 0 \in 0..Many
    BY PresenceAssumption
  <2>2. file' = [file EXCEPT !.code = "none", !.items = 0]
    BY <1>3 DEF DeleteObjects, SaveObjects
  <2> QED
    BY <2>1, <2>2 DEF FileTypes, Codes
<1>4. ASSUME MarkCrashed PROVE FileTypes'
  BY <1>4 DEF FileTypes, MarkCrashed, Codes
<1> QED
  BY <1>1, <1>2, <1>3, <1>4 DEF WriteCrashFile

\* background() takes a job that is in order.
LEMMA BeginTypes ==
    ASSUME ServerTypes, NEW f \in JobType, Begin(f), UNCHANGED <<sweep, linkdead>>,
           f.body \in Bodies, f.step = "rentObjects" => f.items # 0
    PROVE  ServerTypes'
<1>1. job' \in [1..Jobs -> JobType] /\ \A j \in 1..Jobs : job'[j] = job[j] \/ job'[j] = f
  BY DEF ServerTypes, Begin
<1> QED
  BY <1>1 DEF ServerTypes

\* Entering and leaving the world keep its types.
LEMMA RoomTypes ==
    ASSUME WorldTypes, NEW b \in Bodies, UNCHANGED bodies,
           WorldEnter(b) \/ WorldRemove(b)
    PROVE  WorldTypes'
  BY DEF WorldTypes, bodies, WorldEnter, WorldRemove
\* The donor of DupeCheck is one of those it found, and the body is a body.
LEMMA DonorFound ==
    ASSUME NEW s \in Conns, Donors(s) # {}
    PROVE  Min(Donors(s)) \in Donors(s)
<1>1. Donors(s) \subseteq Nat
  BY PresenceAssumption DEF Donors, Others, Registered, Conns
<1> QED
  BY <1>1, MinElement

LEMMA ExistingIsBody ==
    ASSUME SessionTypes, WorldTypes, NEW s \in Conns
    PROVE  Existing(s) \in Bodies \cup {None}
<1>1. \A o \in Donors(s) : char[o] \in Bodies
  BY DEF SessionTypes, Donors, Others, Registered
<1> QED
  BY <1>1, DonorFound DEF Existing, WorldTypes

\* No body and no connection is None, and none is a count out of its range.
LEMMA Numbers ==
    /\ None \notin Conns /\ None \notin Bodies
    /\ 0..Many \subseteq Nat /\ 0 \in 0..Many /\ 0 \in 0..MaxRec
  BY PresenceAssumption DEF Conns, Bodies

\* Each handler keeps the types.
LEMMA LoginTypes ==
    ASSUME TypeInv, NEW s \in Conns, Login(s)
    PROVE  TypeInv'
<1> SessionTypes /\ SessionSized /\ WorldTypes /\ FileTypes /\ ServerTypes
  BY DEF TypeInv
<1> USE DEF AllPlaces, Bodiless, Embodied
<1>1. CASE Connect(s)
  <2>1. SessionTypes' /\ SessionSized'
    BY <1>1, SessionGoes DEF Connect, SessionTypes, SessionSized
  <2>2. WorldTypes'
    BY <1>1, Untouched DEF Connect
  <2>3. FileTypes'
    BY <1>1, Untouched DEF Connect
  <2>4. ServerTypes'
    BY <1>1, Untouched DEF Connect
  <2> QED
    BY <2>1, <2>2, <2>3, <2>4 DEF TypeInv
<1>2. CASE BadPassword(s)
  <2>1. SessionTypes' /\ SessionSized'
    <3>1. /\ at[s] = "prompt" /\ Goto(s, "tallying") /\ Read(s, file.rec)
          /\ UNCHANGED <<state, char, flags>>
      BY <1>2 DEF BadPassword
    <3>2. file.rec \in Nat /\ file.rec <= MaxRec
      BY PresenceAssumption DEF FileTypes
    <3> QED
      BY <3>1, <3>2, SessionReads
  <2>2. WorldTypes'
    BY <1>2, Untouched DEF BadPassword
  <2>3. FileTypes'
    BY <1>2, Untouched DEF BadPassword
  <2>4. ServerTypes'
    BY <1>2, Untouched DEF BadPassword
  <2> QED
    BY <2>1, <2>2, <2>3, <2>4 DEF TypeInv
<1>3. CASE TallyBadPassword(s)
  <2>1. SessionTypes' /\ SessionSized'
    BY <1>3, SessionForgets DEF TallyBadPassword, SessionTypes, SessionSized
  <2>2. WorldTypes'
    BY <1>3, Untouched DEF TallyBadPassword
  <2>3. FileTypes'
    BY <1>3, StoreTypes DEF TallyBadPassword, SessionTypes, SessionSized
  <2>4. ServerTypes'
    BY <1>3, Untouched DEF TallyBadPassword
  <2> QED
    BY <2>1, <2>2, <2>3, <2>4 DEF TypeInv
<1>4. CASE Authenticate(s)
  <2>1. SessionTypes' /\ SessionSized'
    BY <1>4, SessionGoes DEF Authenticate, SessionTypes, SessionSized
  <2>2. WorldTypes'
    BY <1>4 DEF Authenticate, FileTypes, WorldTypes, rooms
  <2>3. FileTypes'
    BY <1>4, Untouched DEF Authenticate
  <2>4. ServerTypes'
    BY <1>4, Untouched DEF Authenticate
  <2> QED
    BY <2>1, <2>2, <2>3, <2>4 DEF TypeInv
<1>5. CASE UpgradeCredential(s)
  <2>1. SessionTypes' /\ SessionSized'
    BY <1>5, SessionGoes DEF UpgradeCredential, SessionTypes, SessionSized
  <2>2. WorldTypes'
    BY <1>5, Untouched DEF UpgradeCredential
  <2>3. FileTypes'
    <3>1. rec[s] \in 0..MaxRec
      BY DEF WorldTypes, Bodies
    <3> QED
      BY <1>5, <3>1, StoreTypes DEF UpgradeCredential
  <2>4. ServerTypes'
    BY <1>5, Untouched DEF UpgradeCredential
  <2> QED
    BY <2>1, <2>2, <2>3, <2>4 DEF TypeInv
<1>6. CASE Refuse(s)
  <2>1. SessionTypes' /\ SessionSized'
    BY <1>6, SessionGoes, MarkTypes DEF Refuse, SessionTypes, SessionSized
  <2>2. WorldTypes'
    BY <1>6, Untouched DEF Refuse
  <2>3. FileTypes'
    BY <1>6, Untouched DEF Refuse
  <2>4. ServerTypes'
    BY <1>6, Untouched DEF Refuse
  <2> QED
    BY <2>1, <2>2, <2>3, <2>4 DEF TypeInv
<1>7. CASE DupeCheck(s)
  <2>1. SessionTypes' /\ SessionSized'
    <3> DEFINE p == IF Existing(s) = None THEN "fresh" ELSE "adopting"
    <3>1. /\ at[s] = "loaded" /\ Goto(s, p) /\ UNCHANGED <<state, char>>
          /\ Mark(Others(s), {"displaced", "closed"})
          /\ local' = [local EXCEPT ![s].body = Existing(s)]
      BY <1>7 DEF DupeCheck
    <3>2. local' \in [Conns -> [read : Nat, body : Bodies \cup {None}, quit : BOOLEAN]]
      BY <3>1, ExistingIsBody DEF SessionTypes
    <3>3. local'[s].body = Existing(s) /\ \A t \in Conns \ {s} : local'[t] = local[t]
      BY <3>1 DEF SessionTypes
    <3>4. char[s] = None
      BY <3>1 DEF SessionSized
    <3>5. p \in {"fresh", "adopting"} /\ (p = "adopting" => local'[s].body \in Bodies)
      BY <3>3, ExistingIsBody
    <3>6. flags' \in [Conns -> SUBSET {"closed", "quit", "rented", "extracted", "displaced"}]
      BY <3>1, MarkTypes
    <3> HIDE DEF p
    <3> QED
      BY <3>1, <3>2, <3>3, <3>4, <3>5, <3>6, SessionSteps DEF SessionTypes
  <2>2. WorldTypes'
    <3>1. Freed(s) \in [Bodies -> Conns \cup {None}]
      BY DEF Freed, WorldTypes
    <3>2. client' \in [Bodies -> Conns \cup {None}]
      BY <1>7, <3>1 DEF DupeCheck
    <3> QED
      BY <1>7, <3>2 DEF DupeCheck, WorldTypes, rooms
  <2>3. FileTypes'
    BY <1>7, Untouched DEF DupeCheck
  <2>4. ServerTypes'
    BY <1>7, Untouched DEF DupeCheck
  <2> QED
    BY <2>1, <2>2, <2>3, <2>4 DEF TypeInv
<1>8. CASE Adopt(s)
  <2>1. SessionTypes' /\ SessionSized'
    <3>1. /\ at[s] = "adopting" /\ Goto(s, "reading") /\ Forget(s)
          /\ char' = [char EXCEPT ![s] = local[s].body]
          /\ state' = [state EXCEPT ![s] = "playing"]
          /\ UNCHANGED flags
      BY <1>8 DEF Adopt
    <3>2. local[s].body \in Bodies
      BY <3>1 DEF SessionSized
    <3>3. /\ char' \in [Conns -> Bodies \cup {None}]
          /\ char'[s] = local[s].body /\ \A t \in Conns \ {s} : char'[t] = char[t]
      BY <3>1, <3>2 DEF SessionTypes
    <3>4. /\ local' \in [Conns -> [read : Nat, body : Bodies \cup {None}, quit : BOOLEAN]]
          /\ \A t \in Conns \ {s} : local'[t] = local[t]
      BY <3>1, Forgotten
    <3> QED
      BY <3>1, <3>2, <3>3, <3>4, SessionSteps DEF SessionTypes
  <2>2. WorldTypes'
    BY <1>8, Untouched DEF Adopt
  <2>3. FileTypes'
    BY <1>8, Untouched DEF Adopt
  <2>4. ServerTypes'
    BY <1>8, Untouched DEF Adopt
  <2> QED
    BY <2>1, <2>2, <2>3, <2>4 DEF TypeInv
<1>9. CASE ToMenu(s)
  <2>1. SessionTypes' /\ SessionSized'
    <3>1. /\ Goto(s, "reading") /\ UNCHANGED <<flags, local>>
          /\ char' = [char EXCEPT ![s] = s]
          /\ state' = [state EXCEPT ![s] = "menu"]
      BY <1>9 DEF ToMenu
    <3>2. /\ char' \in [Conns -> Bodies \cup {None}]
          /\ char'[s] \in Bodies /\ \A t \in Conns \ {s} : char'[t] = char[t]
      BY <3>1 DEF SessionTypes, Bodies
    <3> QED
      BY <3>1, <3>2, SessionSteps DEF SessionTypes
  <2>2. WorldTypes'
    BY <1>9, Untouched DEF ToMenu
  <2>3. FileTypes'
    BY <1>9, Untouched DEF ToMenu
  <2>4. ServerTypes'
    BY <1>9, Untouched DEF ToMenu
  <2> QED
    BY <2>1, <2>2, <2>3, <2>4 DEF TypeInv
<1>10. QED
  BY <1>1, <1>2, <1>3, <1>4, <1>5, <1>6, <1>7, <1>8, <1>9 DEF Login

LEMMA EnterTypes ==
    ASSUME TypeInv, NEW s \in Conns, Enter(s)
    PROVE  TypeInv'
<1> SessionTypes /\ SessionSized /\ WorldTypes /\ FileTypes /\ ServerTypes
  BY DEF TypeInv
<1> USE DEF AllPlaces, Bodiless, Embodied
<1>1. CASE ChooseEnter(s)
  <2>1. SessionTypes' /\ SessionSized'
    BY <1>1, SessionGoes DEF ChooseEnter, SessionTypes, SessionSized
  <2>2. WorldTypes'
    BY <1>1 DEF ChooseEnter, WorldTypes, rooms
  <2>3. FileTypes'
    BY <1>1, Untouched DEF ChooseEnter
  <2>4. ServerTypes'
    BY <1>1, Untouched DEF ChooseEnter
  <2> QED
    BY <2>1, <2>2, <2>3, <2>4 DEF TypeInv
<1>2. CASE EnterRoom(s)
  <2>1. SessionTypes' /\ SessionSized'
    BY <1>2, SessionGoes DEF EnterRoom, SessionTypes, SessionSized
  <2>2. WorldTypes'
    BY <1>2, RoomTypes DEF EnterRoom, SessionSized, Extract
  <2>3. FileTypes'
    BY <1>2, Untouched DEF EnterRoom
  <2>4. ServerTypes'
    BY <1>2, Untouched DEF EnterRoom
  <2> QED
    BY <2>1, <2>2, <2>3, <2>4 DEF TypeInv
<1>3. CASE LoadObjects(s)
  <2>1. SessionTypes' /\ SessionSized'
    <3>1. PICK p \in {"entered", "restoring", "forfeiting"} :
            at[s] = "loading" /\ Goto(s, p) /\ Read(s, file.items)
      BY <1>3 DEF LoadObjects
    <3>2. file.items \in Nat /\ UNCHANGED <<state, char, flags>>
      BY <1>3, Numbers DEF FileTypes, LoadObjects
    <3> QED
      BY <3>1, <3>2, SessionReads
  <2>2. WorldTypes'
    BY <1>3, Untouched DEF LoadObjects
  <2>3. FileTypes'
    BY <1>3, Untouched DEF LoadObjects
  <2>4. ServerTypes'
    BY <1>3, Untouched DEF LoadObjects
  <2> QED
    BY <2>1, <2>2, <2>3, <2>4 DEF TypeInv
<1>4. CASE Forfeit(s)
  <2>1. SessionTypes' /\ SessionSized'
    <3>1. /\ at[s] = "forfeiting" /\ Goto(s, "emptying") /\ Read(s, carrying[char[s]])
          /\ UNCHANGED <<state, char, flags>>
      BY <1>4 DEF Forfeit
    <3>2. char[s] \in Bodies
      BY <3>1 DEF SessionSized
    <3>3. carrying[char[s]] \in Nat /\ carrying[char[s]] <= Many
      BY <3>2, PresenceAssumption DEF WorldTypes
    <3> QED
      BY <3>1, <3>3, SessionReads
  <2>2. WorldTypes'
    <3>1. parted \in Nat /\ local[s].read \in Nat
      BY Numbers DEF WorldTypes, SessionTypes
    <3>2. parted' \in 0..Many
      BY <1>4, <3>1, PlusCounts DEF Forfeit
    <3> QED
      BY <1>4, <3>2 DEF Forfeit, WorldTypes, rooms
  <2>3. FileTypes'
    BY <1>4, Untouched DEF Forfeit
  <2>4. ServerTypes'
    BY <1>4, Untouched DEF Forfeit
  <2> QED
    BY <2>1, <2>2, <2>3, <2>4 DEF TypeInv
<1>5. CASE ForfeitWrite(s)
  <2>1. SessionTypes' /\ SessionSized'
    BY <1>5, SessionForgets DEF ForfeitWrite, SessionTypes, SessionSized
  <2>2. WorldTypes'
    BY <1>5, Untouched DEF ForfeitWrite
  <2>3. FileTypes'
    BY <1>5, StoreTypes DEF ForfeitWrite, SessionTypes, SessionSized
  <2>4. ServerTypes'
    BY <1>5, Untouched DEF ForfeitWrite
  <2> QED
    BY <2>1, <2>2, <2>3, <2>4 DEF TypeInv
<1>6. CASE RestoreObjects(s)
  <2>1. SessionTypes' /\ SessionSized'
    BY <1>6, SessionForgets DEF RestoreObjects, SessionTypes, SessionSized
  <2>2. WorldTypes'
    <3>1. carrying[char[s]] \in Nat /\ local[s].read \in Nat
      BY <1>6, Numbers DEF RestoreObjects, WorldTypes, SessionTypes, SessionSized
    <3>2. carrying' \in [Bodies -> 0..Many]
      BY <1>6, <3>1, PlusCounts DEF RestoreObjects, WorldTypes
    <3> QED
      BY <1>6, <3>2 DEF RestoreObjects, WorldTypes, rooms
  <2>3. FileTypes'
    BY <1>6, Untouched DEF RestoreObjects
  <2>4. ServerTypes'
    BY <1>6, Untouched DEF RestoreObjects
  <2> QED
    BY <2>1, <2>2, <2>3, <2>4 DEF TypeInv
<1>7. CASE MarkRestored(s)
  <2>1. SessionTypes' /\ SessionSized'
    BY <1>7, SessionGoes DEF MarkRestored, SessionTypes, SessionSized
  <2>2. WorldTypes'
    BY <1>7, Untouched DEF MarkRestored
  <2>3. FileTypes'
    BY <1>7, StoreTypes DEF MarkRestored, SessionTypes, SessionSized
  <2>4. ServerTypes'
    BY <1>7, Untouched DEF MarkRestored
  <2> QED
    BY <2>1, <2>2, <2>3, <2>4 DEF TypeInv
<1>8. CASE Entered(s)
  <2>1. SessionTypes' /\ SessionSized'
    BY <1>8, SessionGoes DEF Entered, SessionTypes, SessionSized
  <2>2. WorldTypes'
    BY <1>8, Untouched DEF Entered
  <2>3. FileTypes'
    BY <1>8, Untouched DEF Entered
  <2>4. ServerTypes'
    BY <1>8, Untouched DEF Entered
  <2> QED
    BY <2>1, <2>2, <2>3, <2>4 DEF TypeInv
<1>9. QED
  BY <1>1, <1>2, <1>3, <1>4, <1>5, <1>6, <1>7, <1>8 DEF Enter

LEMMA CommandTypes ==
    ASSUME TypeInv, NEW s \in Conns, Command(s)
    PROVE  TypeInv'
<1> SessionTypes /\ SessionSized /\ WorldTypes /\ FileTypes /\ ServerTypes
  BY DEF TypeInv
<1> USE DEF AllPlaces, Bodiless, Embodied
<1>1. CASE TypeCommand(s)
  <2>1. SessionTypes' /\ SessionSized'
    BY <1>1, SessionGoes DEF TypeCommand, SessionTypes, SessionSized
  <2>2. WorldTypes'
    BY <1>1, Untouched DEF TypeCommand
  <2>3. FileTypes'
    BY <1>1, Untouched DEF TypeCommand
  <2>4. ServerTypes'
    BY <1>1, Untouched DEF TypeCommand
  <2> QED
    BY <2>1, <2>2, <2>3, <2>4 DEF TypeInv
<1>2. CASE Play(s)
  <2>1. SessionTypes' /\ SessionSized'
    BY <1>2, SessionGoes DEF Play, SessionTypes, SessionSized
  <2>2. WorldTypes'
    <3>1. char[s] \in Bodies /\ rec[char[s]] \in 0..MaxRec /\ rec[char[s]] < MaxRec
      BY <1>2 DEF Play, WorldTypes, SessionSized
    <3>2. rec[char[s]] + 1 \in 0..MaxRec
      BY <3>1, PresenceAssumption
    <3>3. rec' \in [Bodies -> 0..MaxRec]
      BY <1>2, <3>2 DEF Play, WorldTypes
    <3> QED
      BY <1>2, <3>3 DEF Play, WorldTypes, rooms
  <2>3. FileTypes'
    BY <1>2, Untouched DEF Play
  <2>4. ServerTypes'
    BY <1>2, Untouched DEF Play
  <2> QED
    BY <2>1, <2>2, <2>3, <2>4 DEF TypeInv
<1>3. CASE Look(s)
  <2>1. SessionTypes' /\ SessionSized'
    BY <1>3, SessionGoes DEF Look, SessionTypes, SessionSized
  <2>2. WorldTypes'
    BY <1>3, Untouched DEF Look
  <2>3. FileTypes'
    BY <1>3, Untouched DEF Look
  <2>4. ServerTypes'
    BY <1>3, Untouched DEF Look
  <2> QED
    BY <2>1, <2>2, <2>3, <2>4 DEF TypeInv
<1>4. CASE Quit(s)
  <2>1. SessionTypes' /\ SessionSized'
    BY <1>4, SessionGoes, MarkTypes DEF Quit, SessionTypes, SessionSized
  <2>2. WorldTypes'
    BY <1>4, RoomTypes DEF Quit, SessionSized, Extract
  <2>3. FileTypes'
    BY <1>4, Untouched DEF Quit
  <2>4. ServerTypes'
    BY <1>4, BeginTypes, Numbers
       DEF Quit, Extract, JobType, SessionSized, WorldTypes
  <2> QED
    BY <2>1, <2>2, <2>3, <2>4 DEF TypeInv
<1>5. CASE DeathTrap(s)
  <2>1. SessionTypes' /\ SessionSized'
    BY <1>5, SessionGoes, MarkTypes DEF DeathTrap, SessionTypes, SessionSized
  <2>2. WorldTypes'
    <3>1. char[s] \in Bodies /\ parted \in Nat /\ carrying[char[s]] \in Nat
      BY <1>5, Numbers DEF DeathTrap, WorldTypes, SessionSized
    <3>2. parted' \in 0..Many
      BY <1>5, <3>1, PlusCounts DEF DeathTrap
    <3>3. carrying' \in [Bodies -> 0..Many]
      BY <1>5, Numbers DEF DeathTrap, WorldTypes
    <3>4. inWorld' \subseteq Bodies /\ byName' \in Bodies \cup {None}
      BY <1>5 DEF DeathTrap, Extract, WorldRemove, WorldTypes
    <3> QED
      BY <1>5, <3>2, <3>3, <3>4 DEF DeathTrap, WorldTypes
  <2>3. FileTypes'
    BY <1>5, Untouched DEF DeathTrap
  <2>4. ServerTypes'
    BY <1>5, BeginTypes, Numbers
       DEF DeathTrap, Extract, JobType, SessionSized, WorldTypes
  <2> QED
    BY <2>1, <2>2, <2>3, <2>4 DEF TypeInv
<1>6. CASE Rent(s)
  <2>1. SessionTypes' /\ SessionSized'
    BY <1>6, SessionGoes, MarkTypes DEF Rent, SessionTypes, SessionSized
  <2>2. WorldTypes'
    <3>1. carrying' \in [Bodies -> 0..Many]
      BY <1>6, Numbers DEF Rent, WorldTypes
    <3>2. inWorld' \subseteq Bodies /\ byName' \in Bodies \cup {None}
      BY <1>6 DEF Rent, WorldRemove, WorldTypes
    <3> QED
      BY <1>6, <3>1, <3>2 DEF Rent, WorldTypes
  <2>3. FileTypes'
    BY <1>6, Untouched DEF Rent
  <2>4. ServerTypes'
    BY <1>6, BeginTypes, Numbers
       DEF Rent, Extract, JobType, SessionSized, WorldTypes
  <2> QED
    BY <2>1, <2>2, <2>3, <2>4 DEF TypeInv
<1>7. QED
  BY <1>1, <1>2, <1>3, <1>4, <1>5, <1>6 DEF Command

LEMMA DepartTypes ==
    ASSUME TypeInv, NEW s \in Conns, Depart(s)
    PROVE  TypeInv'
<1> SessionTypes /\ SessionSized /\ WorldTypes /\ FileTypes /\ ServerTypes
  BY DEF TypeInv
<1> USE DEF AllPlaces, Bodiless, Embodied
<1>1. CASE ReadEnds(s)
  <2>1. SessionTypes' /\ SessionSized'
    BY <1>1, SessionGoes DEF ReadEnds, SessionTypes, SessionSized
  <2>2. WorldTypes'
    BY <1>1, Untouched DEF ReadEnds
  <2>3. FileTypes'
    BY <1>1, Untouched DEF ReadEnds
  <2>4. ServerTypes'
    BY <1>1, Untouched DEF ReadEnds
  <2> QED
    BY <2>1, <2>2, <2>3, <2>4 DEF TypeInv
<1>2. CASE LeaveNothing(s)
  <2>1. SessionTypes' /\ SessionSized'
    BY <1>2, SessionGoes, MarkTypes DEF LeaveNothing, SessionTypes, SessionSized
  <2>2. WorldTypes'
    BY <1>2, Untouched DEF LeaveNothing
  <2>3. FileTypes'
    BY <1>2, Untouched DEF LeaveNothing
  <2>4. ServerTypes'
    BY <1>2, Untouched DEF LeaveNothing
  <2> QED
    BY <2>1, <2>2, <2>3, <2>4 DEF TypeInv
<1>3. CASE Leave(s)
  <2>1. SessionTypes' /\ SessionSized'
    <3>1. /\ Goto(s, "saving") /\ char[s] # None /\ UNCHANGED <<state, char, flags>>
          /\ local' = [local EXCEPT ![s].quit = Is(s, "quit")]
      BY <1>3 DEF Leave
    <3> DEFINE q == Is(s, "quit")
    <3>2. q \in BOOLEAN /\ local' = [local EXCEPT ![s].quit = q]
      BY <3>1 DEF Is
    <3> HIDE DEF q
    <3>3. /\ local' \in [Conns -> [read : Nat, body : Bodies \cup {None}, quit : BOOLEAN]]
          /\ \A t \in Conns \ {s} : local'[t] = local[t]
      BY <3>2 DEF SessionTypes
    <3> QED
      BY <3>1, <3>3, SessionSteps DEF SessionTypes
  <2>2. WorldTypes'
    BY <1>3, Untouched DEF Leave
  <2>3. FileTypes'
    BY <1>3, Untouched DEF Leave
  <2>4. ServerTypes'
    BY <1>3, Untouched DEF Leave
  <2> QED
    BY <2>1, <2>2, <2>3, <2>4 DEF TypeInv
<1>4. CASE LeaveSnapshot(s)
  <2>1. SessionTypes' /\ SessionSized'
    <3>1. /\ at[s] = "saving" /\ Goto(s, "writing") /\ Read(s, rec[char[s]])
          /\ UNCHANGED <<state, char, flags>>
      BY <1>4 DEF LeaveSnapshot
    <3>2. char[s] \in Bodies
      BY <3>1 DEF SessionSized
    <3>3. rec[char[s]] \in Nat /\ rec[char[s]] <= MaxRec
      BY <3>2, PresenceAssumption DEF WorldTypes
    <3> QED
      BY <3>1, <3>3, SessionReads
  <2>2. WorldTypes'
    BY <1>4, Untouched DEF LeaveSnapshot
  <2>3. FileTypes'
    BY <1>4, Untouched DEF LeaveSnapshot
  <2>4. ServerTypes'
    BY <1>4, Untouched DEF LeaveSnapshot
  <2> QED
    BY <2>1, <2>2, <2>3, <2>4 DEF TypeInv
<1>5. CASE LeaveSave(s)
  <2>1. SessionTypes' /\ SessionSized'
    BY <1>5, SessionForgets DEF LeaveSave, SessionTypes, SessionSized
  <2>2. WorldTypes'
    BY <1>5, Untouched DEF LeaveSave
  <2>3. FileTypes'
    BY <1>5, StoreTypes DEF LeaveSave, SessionTypes, SessionSized
  <2>4. ServerTypes'
    BY <1>5, Untouched DEF LeaveSave
  <2> QED
    BY <2>1, <2>2, <2>3, <2>4 DEF TypeInv
<1>6. CASE LeaveCrashFile(s)
  <2>1. SessionTypes' /\ SessionSized'
    <3>1. /\ at[s] = "crashing" /\ Goto(s, "storing") /\ Read(s, carrying[char[s]])
          /\ UNCHANGED <<state, char, flags>>
      BY <1>6 DEF LeaveCrashFile
    <3>2. char[s] \in Bodies
      BY <3>1 DEF SessionSized
    <3>3. carrying[char[s]] \in Nat /\ carrying[char[s]] <= Many
      BY <3>2, PresenceAssumption DEF WorldTypes
    <3> QED
      BY <3>1, <3>3, SessionReads
  <2>2. WorldTypes'
    BY <1>6, Untouched DEF LeaveCrashFile
  <2>3. FileTypes'
    BY <1>6, Untouched DEF LeaveCrashFile
  <2>4. ServerTypes'
    BY <1>6, Untouched DEF LeaveCrashFile
  <2> QED
    BY <2>1, <2>2, <2>3, <2>4 DEF TypeInv
<1>7. CASE LeaveCrashSave(s)
  <2>1. SessionTypes' /\ SessionSized'
    BY <1>7, SessionForgets DEF LeaveCrashSave, SessionTypes, SessionSized
  <2>2. WorldTypes'
    BY <1>7, Untouched DEF LeaveCrashSave
  <2>3. FileTypes'
    BY <1>7, StoreTypes DEF LeaveCrashSave, SessionTypes, SessionSized
  <2>4. ServerTypes'
    BY <1>7, Untouched DEF LeaveCrashSave
  <2> QED
    BY <2>1, <2>2, <2>3, <2>4 DEF TypeInv
<1>8. CASE LeaveWorld(s)
  <2>1. SessionTypes' /\ SessionSized'
    BY <1>8, SessionGoes, MarkTypes DEF LeaveWorld, SessionTypes, SessionSized
  <2>2. WorldTypes'
    BY <1>8 DEF LeaveWorld, WorldTypes, rooms, WorldRemove
  <2>3. FileTypes'
    BY <1>8, Untouched DEF LeaveWorld
  <2>4. ServerTypes'
    BY <1>8, Untouched DEF LeaveWorld
  <2> QED
    BY <2>1, <2>2, <2>3, <2>4 DEF TypeInv
<1>9. QED
  BY <1>1, <1>2, <1>3, <1>4, <1>5, <1>6, <1>7, <1>8 DEF Depart

\* The steps of a background write: where it was and where it goes.
LEMMA JobStepTypes ==
    ASSUME ServerTypes, NEW j \in 1..Jobs, NEW from, from # "none",
           NEW to \in {"none", "quitCrash", "rentSnapshot", "rentClose"},
           JobStep(j, from, to)
    PROVE  ServerTypes'
<1>1. Idle \in JobType
  BY PresenceAssumption DEF Idle, JobType
<1>2. [job[j] EXCEPT !.step = to] \in JobType /\ job[j].body \in Bodies
  BY DEF ServerTypes, JobStep, JobType
<1>3. /\ job' \in [1..Jobs -> JobType]
      /\ \A k \in 1..Jobs \ {j} : job'[k] = job[k]
      /\ job'[j] = Idle \/ job'[j] = [job[j] EXCEPT !.step = to]
  BY <1>1, <1>2 DEF ServerTypes, JobStep
<1>4. ASSUME NEW k \in 1..Jobs
      PROVE  /\ job'[k].step # "none" => job'[k].body \in Bodies
             /\ job'[k].step = "rentObjects" => job'[k].items # 0
  <2>1. CASE k # j
    BY <1>3, <2>1 DEF ServerTypes
  <2>2. CASE k = j /\ job'[j] = Idle
    BY <2>2 DEF Idle
  <2>3. CASE k = j /\ job'[j] = [job[j] EXCEPT !.step = to]
    <3>1. job[j] \in JobType
      BY DEF ServerTypes
    <3>2. job'[j].step = to /\ job'[j].body = job[j].body
      BY <2>3, <3>1 DEF JobType
    <3> QED
      BY <1>2, <2>3, <3>2
  <2> QED
    BY <1>3, <2>1, <2>2, <2>3
<1> QED
  BY <1>3, <1>4 DEF ServerTypes, JobStep

LEMMA BackgroundTypes ==
    ASSUME TypeInv, NEW j \in 1..Jobs, Background(j)
    PROVE  TypeInv'
<1> SessionTypes /\ SessionSized /\ WorldTypes /\ FileTypes /\ ServerTypes
  BY DEF TypeInv
<1>0. /\ job[j].rec \in 0..MaxRec /\ job[j].items \in 0..Many
      /\ job[j].step = "rentObjects" => job[j].items # 0
      /\ job[j].step # "none" => job[j].body \in Bodies
  BY DEF ServerTypes, JobType
<1>1. CASE QuitSave(j)
  BY <1>0, <1>1, JobStepTypes, StoreTypes, Untouched DEF QuitSave, TypeInv
<1>2. CASE QuitCrashSave(j)
  BY <1>0, <1>2, JobStepTypes, StoreTypes, Untouched DEF QuitCrashSave, TypeInv
<1>3. CASE RentSaveObjects(j)
  <2>1. job[j].items # 0
    BY <1>0, <1>3 DEF RentSaveObjects, JobStep
  <2> QED
    BY <1>0, <1>3, <2>1, JobStepTypes, StoreTypes, Untouched
       DEF RentSaveObjects, TypeInv
<1>4. CASE RentSnapshot(j)
  <2>1. job[j].body \in Bodies /\ rec[job[j].body] \in 0..MaxRec
    BY <1>0, <1>4 DEF RentSnapshot, WorldTypes
  <2> DEFINE f == [job[j] EXCEPT !.step = "rentRecord", !.rec = rec[job[j].body]]
  <2>2. f \in JobType /\ f.body \in Bodies /\ f.step = "rentRecord"
    BY <2>1 DEF ServerTypes, JobType
  <2>3. job' = [job EXCEPT ![j] = f] /\ UNCHANGED <<sweep, linkdead>>
    BY <1>4 DEF RentSnapshot, ServerTypes, JobType
  <2> HIDE DEF f
  <2>4. ServerTypes'
    BY <2>2, <2>3 DEF ServerTypes
  <2> QED
    BY <1>4, <2>4, Untouched DEF RentSnapshot, TypeInv
<1>5. CASE RentSave(j)
  BY <1>0, <1>5, JobStepTypes, StoreTypes, Untouched DEF RentSave, TypeInv
<1>6. CASE RentClose(j)
  <2>1. SessionTypes' /\ SessionSized'
    BY <1>6, MarkTypes DEF RentClose, SessionTypes, SessionSized
  <2>2. ServerTypes'
    BY <1>6, JobStepTypes DEF RentClose
  <2> QED
    BY <1>6, <2>1, <2>2, Untouched DEF RentClose, TypeInv
<1>7. QED
  BY <1>1, <1>2, <1>3, <1>4, <1>5, <1>6 DEF Background

LEMMA SweepTypes ==
    ASSUME TypeInv, Sweep
    PROVE  TypeInv'
<1> SessionTypes /\ SessionSized /\ WorldTypes /\ FileTypes /\ ServerTypes
  BY DEF TypeInv
<1>0. Rest.step = "none" /\ Rest \in [step : {"none", "swept", "judging", "reaping"},
         body : Bodies \cup {None}, rec : 0..MaxRec, linked : BOOLEAN]
  BY Numbers DEF Rest
<1>1. CASE SweepSnapshot
  <2> DEFINE l == client[byName] # None
  <2>1. /\ byName \in Bodies /\ rec[byName] \in 0..MaxRec /\ l \in BOOLEAN
        /\ sweep' = [step |-> "swept", body |-> byName, rec |-> rec[byName], linked |-> l]
        /\ UNCHANGED <<job, linkdead>>
    BY <1>1 DEF SweepSnapshot, WorldTypes
  <2> HIDE DEF l
  <2>2. ServerTypes'
    BY <2>1 DEF ServerTypes
  <2> QED
    BY <1>1, <2>2, Untouched DEF SweepSnapshot, TypeInv
<1>2. CASE SweepSave
  <2>1. sweep.rec \in 0..MaxRec
    BY DEF ServerTypes
  <2>2. ServerTypes'
    BY <1>2 DEF SweepSave, ServerTypes
  <2> QED
    BY <1>2, <2>1, <2>2, StoreTypes, Untouched DEF SweepSave, TypeInv
<1>3. CASE SweepJudge
  <2>1. sweep.body \in Bodies
    BY <1>3 DEF SweepJudge, ServerTypes
  <2>2. UNCHANGED job /\ linkdead' \subseteq Bodies
    BY <1>3, <2>1 DEF SweepJudge, ServerTypes
  <2>3. \/ sweep' = Rest
        \/ sweep' = [sweep EXCEPT !.step = "reaping"]
    BY <1>3 DEF SweepJudge
  <2>4. ServerTypes'
    BY <1>0, <2>1, <2>2, <2>3 DEF ServerTypes
  <2> QED
    BY <1>3, <2>4, Untouched DEF SweepJudge, TypeInv
<1>4. CASE SweepReap
  <2>1. WorldTypes'
    BY <1>4, RoomTypes DEF SweepReap, ServerTypes
  <2>2. ServerTypes'
    BY <1>0, <1>4 DEF SweepReap, ServerTypes
  <2> QED
    BY <1>4, <2>1, <2>2, Untouched DEF SweepReap, TypeInv
<1>5. QED
  BY <1>1, <1>2, <1>3, <1>4 DEF Sweep

LEMMA PurgeTypes ==
    ASSUME TypeInv, NEW b \in Bodies, Purge(b)
    PROVE  TypeInv'
<1> SessionTypes /\ SessionSized /\ WorldTypes /\ FileTypes /\ ServerTypes
  BY DEF TypeInv
<1>1. SessionTypes' /\ SessionSized'
  BY MarkTypes DEF Purge, SessionTypes, SessionSized
<1>2. parted \in Nat /\ carrying[b] \in Nat
  BY Numbers DEF WorldTypes
<1>3. parted' \in 0..Many
  BY <1>2, PlusCounts DEF Purge
<1>4. carrying' \in [Bodies -> 0..Many]
  BY Numbers DEF Purge, WorldTypes
<1>5. inWorld' \subseteq Bodies /\ byName' \in Bodies \cup {None}
  BY DEF Purge, WorldRemove, WorldTypes
<1>6. WorldTypes'
  BY <1>3, <1>4, <1>5 DEF Purge, WorldTypes
<1> QED
  BY <1>1, <1>6, Untouched DEF Purge, TypeInv

LEMMA KickTypes ==
    ASSUME TypeInv, NEW s \in Conns, Kick(s)
    PROVE  TypeInv'
<1> SessionTypes /\ SessionSized /\ WorldTypes /\ FileTypes /\ ServerTypes
  BY DEF TypeInv
<1>1. SessionTypes' /\ SessionSized'
  BY MarkTypes DEF Kick, SessionTypes, SessionSized
<1> QED
  BY <1>1, Untouched DEF Kick, TypeInv

LEMMA InitTypes == Init => TypeInv
<1> SUFFICES ASSUME Init PROVE TypeInv
  OBVIOUS
<1>1. SessionTypes /\ SessionSized
  BY DEF Init, SessionTypes, SessionSized, NoLocals, AllPlaces, Bodiless, Embodied
<1>2. WorldTypes
  BY Numbers DEF Init, WorldTypes
<1>3. FileTypes
  <2>1. 1 \in 0..Many /\ 0 \in 0..MaxRec
    BY PresenceAssumption
  <2> QED
    BY <2>1 DEF Init, FileTypes, Codes
<1>4. ServerTypes
  BY Numbers DEF Init, ServerTypes, Idle, Rest, JobType
<1> QED
  BY <1>1, <1>2, <1>3, <1>4 DEF TypeInv

LEMMA StepTypes ==
    ASSUME TypeInv, [Next]_vars
    PROVE  TypeInv'
<1>1. CASE Next
  <2>1. CASE Sweep
    BY <2>1, SweepTypes
  <2>2. CASE \E j \in 1..Jobs : Background(j)
    BY <2>2, BackgroundTypes
  <2>3. CASE \E b \in Bodies : Purge(b)
    BY <2>3, PurgeTypes
  <2>4. CASE \E s \in Conns : Login(s) \/ Enter(s) \/ Command(s) \/ Depart(s) \/ Kick(s)
    BY <2>4, LoginTypes, EnterTypes, CommandTypes, DepartTypes, KickTypes
  <2> QED
    BY <1>1, <2>1, <2>2, <2>3, <2>4 DEF Next
<1>2. CASE UNCHANGED vars
  BY <1>2, Untouched DEF TypeInv, vars
<1> QED
  BY <1>1, <1>2

\* Every variable of a player's presence keeps its type, for any number of
\* connections and of background writes: Enter, Leave and the sweep never want
\* the character of a session that has none, and an empty rent section is never
\* written.
THEOREM TypeCorrect == Spec => []TypeOK
<1>1. Init => TypeInv
  BY InitTypes
<1>2. TypeInv /\ [Next]_vars => TypeInv'
  BY StepTypes
<1>3. TypeInv => TypeOK
  BY TypeInvImplies
<1> QED
  BY <1>1, <1>2, <1>3, PTL DEF Spec

-----------------------------------------------------------------------------
(* One connection for one body.                                            *)

\* A connection is at its body's business, and has not lost it.
Driving == {"entering", "loading", "forfeiting", "emptying", "restoring", "marking",
            "entered", "doing"}

Drives(s) ==
    /\ at[s] \in Driving \/ (at[s] = "reading" /\ state[s] = "playing")
    /\ flags[s] \cap {"closed", "displaced", "rented"} = {}

\* A body is known: the index has it, or a session has it or is about to.
Used(b) ==
    \/ byName = b
    \/ \E s \in Conns : char[s] = b \/ (at[s] = "adopting" /\ local[s].body = b)

\* The inductive invariant: a body is only known once its own login has gone to
\* the menu with it, so that no two logins come to one body by building it; who
\* is about to adopt a body is its client already, and everybody else who has it
\* is displaced; and a connection that drives a body is its client.
OwnInv ==
    /\ \A s \in Conns : "displaced" \in flags[s] => "closed" \in flags[s]
    /\ \A b \in Bodies : Used(b) => char[b] = b
    /\ \A s \in Conns : at[s] = "adopting" =>
          /\ client[local[s].body] = s
          /\ \A o \in Registered \ {s} : char[o] = local[s].body => "displaced" \in flags[o]
    /\ NoSharedBody
    /\ \A s \in Conns : Drives(s) => client[char[s]] = s

\* A step that gives nobody a body: characters and clients stay, the index gets no
\* other body than a session's, nobody is displaced, begins to drive or to adopt.
Plain ==
    /\ UNCHANGED <<char, client>>
    /\ byName' \in {byName, None} \/ \E s \in Conns : byName' = char[s]
    /\ \A s \in Conns :
          /\ "displaced" \in flags'[s] <=> "displaced" \in flags[s]
          /\ "closed" \in flags[s] => "closed" \in flags'[s]
          /\ Drives(s)' => Drives(s)
          /\ at'[s] = "adopting" => at[s] = "adopting" /\ local'[s].body = local[s].body
          /\ s \in Registered' => s \in Registered \/ char[s] = None

LEMMA PlainKeeps ==
    ASSUME TypeInv, OwnInv, Plain
    PROVE  OwnInv'
<1>1. \A s \in Conns : ("displaced" \in flags[s] => "closed" \in flags[s])'
  BY DEF OwnInv, Plain
<1>2. ASSUME NEW b \in Bodies, Used(b)' PROVE (char[b] = b)'
  <2>1. Used(b)
    <3>1. CASE byName' = b
      BY <3>1, Numbers DEF Plain, Used
    <3>2. CASE \E s \in Conns : char'[s] = b \/ (at'[s] = "adopting" /\ local'[s].body = b)
      BY <3>2 DEF Plain, Used
    <3> QED
      BY <1>2, <3>1, <3>2 DEF Used
  <2> QED
    BY <2>1 DEF OwnInv, Plain
<1>3. ASSUME NEW s \in Conns, at'[s] = "adopting"
      PROVE  /\ client'[local'[s].body] = s
             /\ \A o \in Registered' \ {s} : char'[o] = local'[s].body => "displaced" \in flags'[o]
  <2>1. at[s] = "adopting" /\ local'[s].body = local[s].body /\ local[s].body # None
    BY <1>3, Numbers DEF Plain, TypeInv, SessionSized
  <2>2. Registered' \subseteq Conns
    BY DEF Registered
  <2> QED
    BY <2>1, <2>2 DEF Plain, OwnInv
<1>4. NoSharedBody'
  <2>1. Registered' \subseteq Conns
    BY DEF Registered
  <2> QED
    BY <2>1 DEF Plain, OwnInv, NoSharedBody, Is
<1>5. \A s \in Conns : Drives(s)' => client'[char'[s]] = s
  BY DEF Plain, OwnInv
<1> QED
  BY <1>1, <1>2, <1>3, <1>4, <1>5 DEF OwnInv

\* Flags only grow, but for "extracted", and displace nobody.
Grown ==
    \A s \in Conns :
        /\ "displaced" \in flags'[s] <=> "displaced" \in flags[s]
        /\ "closed" \in flags[s] => "closed" \in flags'[s]
        /\ "rented" \in flags[s] => "rented" \in flags'[s]

\* The index keeps what it has, or loses it, or gets a session's body.
Indexed == byName' \in {byName, None} \/ \E s \in Conns : byName' = char[s]

LEMMA MarkGrows ==
    ASSUME SessionTypes, NEW ss, NEW marks, "displaced" \notin marks, Mark(ss, marks)
    PROVE  Grown
  BY DEF SessionTypes, Mark, Grown

\* One session goes somewhere, not to begin driving or adopting.
LEMMA GoingIsPlain ==
    ASSUME TypeInv, NEW s \in Conns, NEW p \in AllPlaces, Goto(s, p), at[s] # "gone",
           UNCHANGED <<char, client>>, Grown, Indexed,
           \A t \in Conns \ {s} : /\ state'[t] = "playing" => state[t] = "playing"
                                  /\ local'[t].body = local[t].body,
           p # "adopting",
           p \in Driving \cup {"reading"} =>
               at[s] \in Driving \/ (at[s] = "reading" /\ state[s] = "playing")
    PROVE  Plain
<1>1. at'[s] = p /\ \A t \in Conns \ {s} : at'[t] = at[t]
  BY DEF Goto, TypeInv, SessionTypes
<1>2. ASSUME NEW t \in Conns, Drives(t)' PROVE Drives(t)
  <2>1. flags[t] \cap {"closed", "displaced", "rented"} = {}
    BY <1>2 DEF Drives, Grown
  <2>2. CASE t = s
    BY <1>1, <1>2, <2>1, <2>2 DEF Drives
  <2>3. CASE t # s
    BY <1>1, <1>2, <2>1, <2>3 DEF Drives
  <2> QED
    BY <2>2, <2>3
<1>3. ASSUME NEW t \in Conns, at'[t] = "adopting"
      PROVE  at[t] = "adopting" /\ local'[t].body = local[t].body
  BY <1>1, <1>3
<1>4. ASSUME NEW t \in Conns, t \in Registered'
      PROVE  t \in Registered \/ char[t] = None
  <2>1. CASE t = s
    BY <2>1 DEF Registered, TypeInv, SessionSized, Bodiless
  <2>2. CASE t # s
    BY <1>1, <1>4, <2>2 DEF Registered
  <2> QED
    BY <2>1, <2>2
<1> QED
  BY <1>2, <1>3, <1>4 DEF Plain, Grown, Indexed

\* Nobody goes anywhere.
LEMMA StayingIsPlain ==
    ASSUME UNCHANGED <<at, state, char, local, client>>, Grown, Indexed
    PROVE  Plain
<1>1. ASSUME NEW t \in Conns, Drives(t)' PROVE Drives(t)
  BY <1>1 DEF Drives, Grown
<1>2. Registered' = Registered
  BY DEF Registered
<1> QED
  BY <1>1, <1>2 DEF Plain, Grown, Indexed

\* DupeCheck takes the body from everybody else who has it in one step, whether
\* or not the login that asked for it sees what was found.
LEMMA TakeOverOwn ==
    ASSUME TypeInv, OwnInv, NEW s \in Conns, NEW p \in {"fresh", "adopting"},
           at[s] = "loaded", Goto(s, p),
           Mark(Others(s), {"displaced", "closed"}),
           client' = [c \in Bodies |-> IF c = Existing(s) THEN s ELSE Freed(s)[c]],
           \A t \in Conns \ {s} : local'[t] = local[t],
           p = "adopting" => Existing(s) # None /\ local'[s].body = Existing(s),
           UNCHANGED <<state, char, rooms>>
    PROVE  OwnInv'
<1> DEFINE b == Existing(s)
<1>1. /\ char[s] = None
      /\ client' = [c \in Bodies |-> IF c = b THEN s ELSE Freed(s)[c]]
  BY DEF TypeInv, SessionSized, Bodiless
<1>2. /\ at'[s] \in {"fresh", "adopting"} /\ (at'[s] = "adopting" => b # None)
      /\ \A t \in Conns \ {s} : at'[t] = at[t]
  BY DEF Goto, TypeInv, SessionTypes
<1>3. /\ at'[s] = "adopting" => local'[s].body = b
      /\ \A t \in Conns \ {s} : local'[t] = local[t]
  BY DEF Goto, TypeInv, SessionTypes
<1>4. b \in Bodies \cup {None}
  BY ExistingIsBody DEF TypeInv
<1>5. b # None => Used(b)
  <2>1. CASE Donors(s) # {}
    BY <2>1, DonorFound DEF Existing, Used, Donors, Others, Registered
  <2>2. CASE Donors(s) = {}
    BY <2>2 DEF Existing, Used
  <2> QED
    BY <2>1, <2>2
<1>6. Registered' = Registered /\ Registered \subseteq Conns
  BY <1>1, <1>2 DEF Registered
<1>7. \A o \in Conns :
        /\ o \in Registered \ {s} /\ char[o] # None => {"displaced", "closed"} \subseteq flags'[o]
        /\ flags[o] \subseteq flags'[o]
        /\ "displaced" \in flags'[o] => "displaced" \in flags[o] \/ "closed" \in flags'[o]
  BY DEF Mark, Others, TypeInv, SessionTypes
\* Nobody about to adopt is among the others, so nothing is taken from them.
<1>8. ASSUME NEW t \in Conns \ {s}, at[t] = "adopting"
      PROVE  local[t].body # b /\ client'[local[t].body] = t
  <2>1. client[local[t].body] = t /\ local[t].body \in Bodies /\ char[t] = None
    BY <1>8 DEF OwnInv, TypeInv, SessionSized, Bodiless
  <2>2. Freed(s)[local[t].body] = t
    BY <2>1 DEF Freed, Others
  <2>3. local[t].body # b
    <3>1. CASE Donors(s) # {}
      <4>1. PICK d \in Donors(s) : b = char[d]
        BY <3>1, DonorFound DEF Existing
      <4>2. client[char[d]] = d /\ d # t
        BY <2>1, <4>1 DEF Donors, Others
      <4> QED
        BY <2>1, <4>1, <4>2
    <3>2. CASE Donors(s) = {}
      BY <2>1, <2>2, <3>2, Numbers DEF Existing
    <3> QED
      BY <3>1, <3>2
  <2> QED
    BY <1>1, <2>1, <2>2, <2>3
<1> HIDE DEF b
<1>9. \A o \in Conns : ("displaced" \in flags[o] => "closed" \in flags[o])'
  BY <1>7 DEF OwnInv
<1>10. ASSUME NEW c \in Bodies, Used(c)' PROVE (char[c] = c)'
  <2>1. Used(c)
    BY <1>1, <1>2, <1>3, <1>5, <1>10, Numbers DEF Used, rooms
  <2> QED
    BY <1>1, <2>1 DEF OwnInv
<1>11. ASSUME NEW t \in Conns, at'[t] = "adopting"
       PROVE  /\ client'[local'[t].body] = t
              /\ \A o \in Registered' \ {t} : char'[o] = local'[t].body => "displaced" \in flags'[o]
  <2>1. CASE t = s
    <3>1. local'[t].body = b /\ b \in Bodies
      BY <1>2, <1>3, <1>4, <1>11, <2>1
    <3>2. client'[b] = s
      BY <1>1, <3>1
    <3>3. \A o \in Registered \ {s} : char[o] = b => "displaced" \in flags'[o]
      BY <1>6, <1>7, <3>1, Numbers
    <3> QED
      BY <1>1, <1>6, <2>1, <3>1, <3>2, <3>3
  <2>2. CASE t # s
    BY <1>1, <1>2, <1>3, <1>6, <1>7, <1>8, <1>11, <2>2 DEF OwnInv
  <2> QED
    BY <2>1, <2>2
<1>12. NoSharedBody'
  BY <1>1, <1>6, <1>7 DEF OwnInv, NoSharedBody, Is
<1>13. ASSUME NEW t \in Conns, Drives(t)' PROVE FALSE
  <2>1. t # s /\ at'[t] \in Driving \cup {"reading"}
    BY <1>2, <1>13 DEF Drives, Driving
  <2>2. t \in Registered /\ char[t] # None
    BY <1>2, <2>1, Numbers DEF Registered, Driving, TypeInv, SessionSized, Embodied
  <2> QED
    BY <1>7, <1>13, <2>1, <2>2 DEF Drives
<1> QED
  BY <1>9, <1>10, <1>11, <1>12, <1>13 DEF OwnInv

LEMMA DupeCheckOwn ==
    ASSUME TypeInv, OwnInv, NEW s \in Conns, DupeCheck(s)
    PROVE  OwnInv'
<1> DEFINE p == IF Existing(s) = None THEN "fresh" ELSE "adopting"
<1>1. /\ Goto(s, p) /\ p \in {"fresh", "adopting"}
      /\ p = "adopting" => Existing(s) # None
  BY DEF DupeCheck
<1>2. local'[s].body = Existing(s) /\ \A t \in Conns \ {s} : local'[t] = local[t]
  BY DEF DupeCheck, TypeInv, SessionTypes
<1> HIDE DEF p
<1> QED
  BY <1>1, <1>2, TakeOverOwn DEF DupeCheck

\* Who adopts a body shares it with displaced connections only.
LEMMA AdoptOwn ==
    ASSUME TypeInv, OwnInv, NEW s \in Conns, Adopt(s)
    PROVE  OwnInv'
<1> DEFINE b == local[s].body
<1>1. /\ at[s] = "adopting" /\ char[s] = None /\ b \in Bodies /\ b # None
      /\ char' = [char EXCEPT ![s] = b]
      /\ Goto(s, "reading") /\ Forget(s)
      /\ state' = [state EXCEPT ![s] = "playing"]
      /\ UNCHANGED <<flags, rooms, client>>
  BY Numbers DEF Adopt, TypeInv, SessionSized, Bodiless, world, bodies
<1>2. /\ at'[s] = "reading" /\ \A t \in Conns \ {s} : at'[t] = at[t]
      /\ char'[s] = b /\ \A t \in Conns \ {s} : char'[t] = char[t]
      /\ \A t \in Conns \ {s} : local'[t] = local[t] /\ state'[t] = state[t]
  BY <1>1 DEF Goto, Forget, TypeInv, SessionTypes
<1>3. /\ client[b] = s
      /\ \A o \in Registered \ {s} : char[o] = b => "displaced" \in flags[o]
  BY <1>1 DEF OwnInv
<1>4. Registered' = Registered /\ s \in Registered /\ Registered \subseteq Conns
  BY <1>1, <1>2 DEF Registered
<1> HIDE DEF b
<1>5. \A o \in Conns : ("displaced" \in flags[o] => "closed" \in flags[o])'
  BY <1>1 DEF OwnInv
<1>6. ASSUME NEW c \in Bodies, Used(c)' PROVE (char[c] = c)'
  <2>1. Used(c)
    BY <1>1, <1>2, <1>6 DEF Used, rooms, b
  <2>2. char[c] = c /\ c # s
    BY <1>1, <2>1, Numbers DEF OwnInv
  <2> QED
    BY <1>2, <2>2 DEF Bodies
<1>7. ASSUME NEW t \in Conns, at'[t] = "adopting"
      PROVE  /\ client'[local'[t].body] = t
             /\ \A o \in Registered' \ {t} : char'[o] = local'[t].body => "displaced" \in flags'[o]
  <2>1. t # s /\ at[t] = "adopting" /\ local'[t] = local[t]
    BY <1>2, <1>7
  <2>2. client[local[t].body] = t
    BY <2>1 DEF OwnInv
  <2>3. local[t].body # b
    BY <1>3, <2>1, <2>2
  <2> QED
    BY <1>1, <1>2, <1>4, <2>1, <2>2, <2>3 DEF OwnInv
<1>8. NoSharedBody'
  BY <1>1, <1>2, <1>3, <1>4 DEF OwnInv, NoSharedBody, Is
<1>9. ASSUME NEW t \in Conns, Drives(t)' PROVE client'[char'[t]] = t
  <2>1. CASE t = s
    BY <1>1, <1>2, <1>3, <2>1
  <2>2. CASE t # s
    <3>1. Drives(t)
      BY <1>1, <1>2, <1>9, <2>2 DEF Drives
    <3> QED
      BY <1>1, <1>2, <2>2, <3>1 DEF OwnInv
  <2> QED
    BY <2>1, <2>2
<1> QED
  BY <1>5, <1>6, <1>7, <1>8, <1>9 DEF OwnInv

\* A login that goes to the menu brings a body nobody has heard of.
LEMMA ToMenuOwn ==
    ASSUME TypeInv, OwnInv, NEW s \in Conns, ToMenu(s)
    PROVE  OwnInv'
<1>1. /\ at[s] = "fresh" /\ char[s] = None
      /\ char' = [char EXCEPT ![s] = s]
      /\ Goto(s, "reading")
      /\ state' = [state EXCEPT ![s] = "menu"]
      /\ UNCHANGED <<flags, local, rooms, client>>
  BY DEF ToMenu, TypeInv, SessionSized, Bodiless, world, bodies
<1>2. /\ at'[s] = "reading" /\ \A t \in Conns \ {s} : at'[t] = at[t]
      /\ char'[s] = s /\ \A t \in Conns \ {s} : char'[t] = char[t]
      /\ state'[s] = "menu" /\ \A t \in Conns \ {s} : state'[t] = state[t]
  BY <1>1 DEF Goto, TypeInv, SessionTypes
<1>3. s \in Bodies /\ ~Used(s)
  BY <1>1, Numbers DEF OwnInv, Bodies
<1>4. Registered' = Registered /\ Registered \subseteq Conns
  BY <1>1, <1>2 DEF Registered
<1>5. ASSUME NEW c \in Bodies, Used(c)' PROVE (char[c] = c)'
  <2>1. CASE c = s
    BY <1>2, <2>1
  <2>2. CASE c # s
    <3>1. Used(c)
      BY <1>1, <1>2, <1>5, <2>2 DEF Used, rooms
    <3> QED
      BY <1>2, <2>2, <3>1 DEF OwnInv, Bodies
  <2> QED
    BY <2>1, <2>2
<1>6. ASSUME NEW t \in Conns, at'[t] = "adopting"
      PROVE  /\ client'[local'[t].body] = t
             /\ \A o \in Registered' \ {t} : char'[o] = local'[t].body => "displaced" \in flags'[o]
  <2>1. t # s /\ at[t] = "adopting" /\ local[t].body # s
    BY <1>2, <1>3, <1>6 DEF Used
  <2> QED
    BY <1>1, <1>2, <1>4, <2>1 DEF OwnInv
<1>7. NoSharedBody'
  <2>1. \A o \in Conns : char[o] # s
    BY <1>3 DEF Used
  <2> QED
    BY <1>1, <1>2, <1>4, <2>1 DEF OwnInv, NoSharedBody, Is
<1>8. ASSUME NEW t \in Conns, Drives(t)' PROVE client'[char'[t]] = t
  <2>1. t # s
    BY <1>2, <1>8 DEF Drives, Driving
  <2>2. Drives(t)
    BY <1>1, <1>2, <1>8, <2>1 DEF Drives
  <2> QED
    BY <1>1, <1>2, <2>1, <2>2 DEF OwnInv
<1> QED
  BY <1>1, <1>5, <1>6, <1>7, <1>8 DEF OwnInv

\* Who enters the world becomes their body's client, and whoever had the body has
\* been displaced.
LEMMA ChooseEnterOwn ==
    ASSUME TypeInv, OwnInv, NEW s \in Conns, ChooseEnter(s)
    PROVE  OwnInv'
<1>1. /\ at[s] = "reading" /\ "closed" \notin flags[s] /\ char[s] \in Bodies
      /\ client' = [client EXCEPT ![char[s]] = s]
      /\ Goto(s, "entering")
      /\ UNCHANGED <<state, char, flags, local, rooms>>
  BY DEF ChooseEnter, Is, TypeInv, SessionSized, Embodied
<1>2. at'[s] = "entering" /\ \A t \in Conns \ {s} : at'[t] = at[t]
  BY <1>1 DEF Goto, TypeInv, SessionTypes
<1>3. /\ client'[char[s]] = s
      /\ \A c \in Bodies \ {char[s]} : client'[c] = client[c]
  BY <1>1 DEF TypeInv, WorldTypes
<1>4. Registered' = Registered /\ s \in Registered /\ Registered \subseteq Conns
  BY <1>1, <1>2 DEF Registered
<1>5. "displaced" \notin flags[s]
  BY <1>1 DEF OwnInv
<1>6. ASSUME NEW c \in Bodies, Used(c)' PROVE (char[c] = c)'
  <2>1. Used(c)
    BY <1>1, <1>2, <1>6 DEF Used, rooms
  <2> QED
    BY <1>1, <2>1 DEF OwnInv
<1>7. ASSUME NEW t \in Conns, at'[t] = "adopting"
      PROVE  /\ client'[local'[t].body] = t
             /\ \A o \in Registered' \ {t} : char'[o] = local'[t].body => "displaced" \in flags'[o]
  <2>1. t # s /\ at[t] = "adopting" /\ local[t].body \in Bodies
    BY <1>2, <1>7 DEF TypeInv, SessionSized
  <2>2. char[s] # local[t].body
    BY <1>4, <1>5, <2>1 DEF OwnInv
  <2> QED
    BY <1>1, <1>3, <1>4, <2>1, <2>2 DEF OwnInv
<1>8. NoSharedBody'
  BY <1>1, <1>4 DEF OwnInv, NoSharedBody, Is
<1>9. ASSUME NEW t \in Conns, Drives(t)' PROVE client'[char'[t]] = t
  <2>1. CASE t = s
    BY <1>1, <1>3, <2>1
  <2>2. CASE t # s
    <3>1. Drives(t) /\ t \in Registered /\ char[t] \in Bodies
      BY <1>1, <1>2, <1>9, <2>2
         DEF Drives, Registered, Driving, TypeInv, SessionSized, Embodied
    <3>2. "displaced" \notin flags[t]
      BY <3>1 DEF Drives
    <3>3. char[t] # char[s]
      BY <1>1, <1>4, <1>5, <2>2, <3>1, <3>2, Numbers DEF OwnInv, NoSharedBody, Is
    <3> QED
      BY <1>1, <1>3, <3>1, <3>3 DEF OwnInv
  <2> QED
    BY <2>1, <2>2
<1> QED
  BY <1>1, <1>6, <1>7, <1>8, <1>9 DEF OwnInv

\* A teardown lets go of its own body only.
LEMMA LeaveWorldOwn ==
    ASSUME TypeInv, OwnInv, NEW s \in Conns, LeaveWorld(s)
    PROVE  OwnInv'
<1>1. /\ at[s] = "releasing" /\ char[s] \in Bodies
      /\ client' = [client EXCEPT ![char[s]] = IF @ = s THEN None ELSE @]
      /\ Goto(s, "gone")
      /\ Mark({s}, {"closed"})
      /\ byName' \in {byName, None}
      /\ UNCHANGED <<state, char, local>>
  BY DEF LeaveWorld, TypeInv, SessionSized, Embodied, WorldRemove, rooms
<1>2. at'[s] = "gone" /\ \A t \in Conns \ {s} : at'[t] = at[t]
  BY <1>1 DEF Goto, TypeInv, SessionTypes
<1>3. \A c \in Bodies : client[c] # s => client'[c] = client[c]
  BY <1>1 DEF TypeInv, WorldTypes
<1>4. Registered' = Registered \ {s} /\ Registered \subseteq Conns
  BY <1>1, <1>2 DEF Registered
<1>5. Grown
  BY <1>1, MarkGrows DEF TypeInv
<1>6. \A o \in Conns : ("displaced" \in flags[o] => "closed" \in flags[o])'
  BY <1>5 DEF OwnInv, Grown
<1>7. ASSUME NEW c \in Bodies, Used(c)' PROVE (char[c] = c)'
  <2>1. Used(c)
    BY <1>1, <1>2, <1>7, Numbers DEF Used
  <2> QED
    BY <1>1, <2>1 DEF OwnInv
<1>8. ASSUME NEW t \in Conns, at'[t] = "adopting"
      PROVE  /\ client'[local'[t].body] = t
             /\ \A o \in Registered' \ {t} : char'[o] = local'[t].body => "displaced" \in flags'[o]
  <2>1. t # s /\ at[t] = "adopting" /\ local[t].body \in Bodies
    BY <1>2, <1>8 DEF TypeInv, SessionSized
  <2> QED
    BY <1>1, <1>3, <1>4, <1>5, <2>1 DEF OwnInv, Grown
<1>9. NoSharedBody'
  BY <1>1, <1>4, <1>5 DEF OwnInv, NoSharedBody, Is, Grown
<1>10. ASSUME NEW t \in Conns, Drives(t)' PROVE client'[char'[t]] = t
  <2>1. t # s
    BY <1>2, <1>10 DEF Drives, Driving
  <2>2. Drives(t) /\ char[t] \in Bodies
    BY <1>1, <1>2, <1>5, <1>10, <2>1
       DEF Drives, Grown, Driving, TypeInv, SessionSized, Embodied
  <2> QED
    BY <1>1, <1>3, <2>1, <2>2 DEF OwnInv
<1> QED
  BY <1>6, <1>7, <1>8, <1>9, <1>10 DEF OwnInv

LEMMA LoginOwn ==
    ASSUME TypeInv, OwnInv, NEW s \in Conns, Login(s)
    PROVE  OwnInv'
<1> SessionTypes
  BY DEF TypeInv
<1> USE DEF AllPlaces, Bodiless, Embodied, Driving
<1>1. CASE Connect(s)
  <2>1. Grown
    BY <1>1 DEF Connect, Grown
  <2>2. Indexed
    BY <1>1 DEF Connect, Indexed, world, rooms
  <2>3. Plain
    BY <1>1, <2>1, <2>2, GoingIsPlain DEF Connect, world, bodies
  <2> QED
    BY <2>3, PlainKeeps
<1>2. CASE BadPassword(s)
  <2>1. Grown
    BY <1>2 DEF BadPassword, Grown
  <2>2. Indexed
    BY <1>2 DEF BadPassword, Indexed, world, rooms
  <2>3. Plain
    BY <1>2, <2>1, <2>2, GoingIsPlain DEF BadPassword, world, bodies, Read, SessionTypes
  <2> QED
    BY <2>3, PlainKeeps
<1>3. CASE TallyBadPassword(s)
  <2>1. Grown
    BY <1>3 DEF TallyBadPassword, Grown
  <2>2. Indexed
    BY <1>3 DEF TallyBadPassword, Indexed, world, rooms
  <2>3. Plain
    BY <1>3, <2>1, <2>2, GoingIsPlain
       DEF TallyBadPassword, world, bodies, Forget, SessionTypes
  <2> QED
    BY <2>3, PlainKeeps
<1>4. CASE Authenticate(s)
  <2>1. Grown
    BY <1>4 DEF Authenticate, Grown
  <2>2. Indexed
    BY <1>4 DEF Authenticate, Indexed, world, rooms
  <2>3. Plain
    BY <1>4, <2>1, <2>2, GoingIsPlain DEF Authenticate, world, bodies
  <2> QED
    BY <2>3, PlainKeeps
<1>5. CASE UpgradeCredential(s)
  <2>1. Grown
    BY <1>5 DEF UpgradeCredential, Grown
  <2>2. Indexed
    BY <1>5 DEF UpgradeCredential, Indexed, world, rooms
  <2>3. Plain
    BY <1>5, <2>1, <2>2, GoingIsPlain DEF UpgradeCredential, world, bodies
  <2> QED
    BY <2>3, PlainKeeps
<1>6. CASE Refuse(s)
  <2>1. Grown
    BY <1>6, MarkGrows DEF Refuse
  <2>2. Indexed
    BY <1>6 DEF Refuse, Indexed, world, rooms
  <2>3. Plain
    BY <1>6, <2>1, <2>2, GoingIsPlain DEF Refuse, world, bodies
  <2> QED
    BY <2>3, PlainKeeps
<1>7. CASE DupeCheck(s)
  BY <1>7, DupeCheckOwn
<1>8. CASE Adopt(s)
  BY <1>8, AdoptOwn
<1>9. CASE ToMenu(s)
  BY <1>9, ToMenuOwn
<1>10. QED
  BY <1>1, <1>2, <1>3, <1>4, <1>5, <1>6, <1>7, <1>8, <1>9 DEF Login

LEMMA EnterOwn ==
    ASSUME TypeInv, OwnInv, NEW s \in Conns, Enter(s)
    PROVE  OwnInv'
<1> SessionTypes
  BY DEF TypeInv
<1> USE DEF AllPlaces, Bodiless, Embodied, Driving
<1>1. CASE ChooseEnter(s)
  BY <1>1, ChooseEnterOwn
<1>2. CASE EnterRoom(s)
  <2>1. Grown
    BY <1>2 DEF EnterRoom, Grown
  <2>2. Indexed
    BY <1>2 DEF EnterRoom, Indexed, Extract, WorldEnter, WorldRemove, rooms
  <2>3. Plain
    BY <1>2, <2>1, <2>2, GoingIsPlain DEF EnterRoom, world, bodies
  <2> QED
    BY <2>3, PlainKeeps
<1>3. CASE LoadObjects(s)
  <2>1. Grown
    BY <1>3 DEF LoadObjects, Grown
  <2>2. Indexed
    BY <1>3 DEF LoadObjects, Indexed, world, rooms
  <2>3. Plain
    BY <1>3, <2>1, <2>2, GoingIsPlain DEF LoadObjects, world, bodies, Read, SessionTypes
  <2> QED
    BY <2>3, PlainKeeps
<1>4. CASE Forfeit(s)
  <2>1. Grown
    BY <1>4 DEF Forfeit, Grown
  <2>2. Indexed
    BY <1>4 DEF Forfeit, Indexed, world, rooms
  <2>3. Plain
    BY <1>4, <2>1, <2>2, GoingIsPlain DEF Forfeit, world, bodies, Read, SessionTypes
  <2> QED
    BY <2>3, PlainKeeps
<1>5. CASE ForfeitWrite(s)
  <2>1. Grown
    BY <1>5 DEF ForfeitWrite, Grown
  <2>2. Indexed
    BY <1>5 DEF ForfeitWrite, Indexed, world, rooms
  <2>3. Plain
    BY <1>5, <2>1, <2>2, GoingIsPlain
       DEF ForfeitWrite, world, bodies, Forget, SessionTypes
  <2> QED
    BY <2>3, PlainKeeps
<1>6. CASE RestoreObjects(s)
  <2>1. Grown
    BY <1>6 DEF RestoreObjects, Grown
  <2>2. Indexed
    BY <1>6 DEF RestoreObjects, Indexed, world, rooms
  <2>3. Plain
    BY <1>6, <2>1, <2>2, GoingIsPlain
       DEF RestoreObjects, world, bodies, Forget, SessionTypes
  <2> QED
    BY <2>3, PlainKeeps
<1>7. CASE MarkRestored(s)
  <2>1. Grown
    BY <1>7 DEF MarkRestored, Grown
  <2>2. Indexed
    BY <1>7 DEF MarkRestored, Indexed, world, rooms
  <2>3. Plain
    BY <1>7, <2>1, <2>2, GoingIsPlain DEF MarkRestored, world, bodies
  <2> QED
    BY <2>3, PlainKeeps
<1>8. CASE Entered(s)
  <2>1. Grown
    BY <1>8 DEF Entered, Grown, SessionTypes
  <2>2. Indexed
    BY <1>8 DEF Entered, Indexed, world, rooms
  <2>3. Plain
    BY <1>8, <2>1, <2>2, GoingIsPlain DEF Entered, world, bodies, SessionTypes
  <2> QED
    BY <2>3, PlainKeeps
<1>9. QED
  BY <1>1, <1>2, <1>3, <1>4, <1>5, <1>6, <1>7, <1>8 DEF Enter

LEMMA CommandOwn ==
    ASSUME TypeInv, OwnInv, NEW s \in Conns, Command(s)
    PROVE  OwnInv'
<1> SessionTypes
  BY DEF TypeInv
<1> USE DEF AllPlaces, Bodiless, Embodied, Driving
<1>1. CASE TypeCommand(s)
  <2>1. Grown
    BY <1>1 DEF TypeCommand, Grown
  <2>2. Indexed
    BY <1>1 DEF TypeCommand, Indexed, world, rooms
  <2>3. Plain
    BY <1>1, <2>1, <2>2, GoingIsPlain DEF TypeCommand, world, bodies
  <2> QED
    BY <2>3, PlainKeeps
<1>2. CASE Play(s)
  <2>1. Grown
    BY <1>2 DEF Play, Grown
  <2>2. Indexed
    BY <1>2 DEF Play, Indexed, world, rooms
  <2>3. Plain
    BY <1>2, <2>1, <2>2, GoingIsPlain DEF Play, world, bodies
  <2> QED
    BY <2>3, PlainKeeps
<1>3. CASE Look(s)
  <2>1. Grown
    BY <1>3 DEF Look, Grown
  <2>2. Indexed
    BY <1>3 DEF Look, Indexed, world, rooms
  <2>3. Plain
    BY <1>3, <2>1, <2>2, GoingIsPlain DEF Look, world, bodies
  <2> QED
    BY <2>3, PlainKeeps
<1>4. CASE Quit(s)
  <2>1. Grown
    BY <1>4, MarkGrows DEF Quit
  <2>2. Indexed
    BY <1>4 DEF Quit, Indexed, Extract, WorldEnter, WorldRemove, rooms
  <2>3. Plain
    BY <1>4, <2>1, <2>2, GoingIsPlain DEF Quit, world, bodies, SessionTypes
  <2> QED
    BY <2>3, PlainKeeps
<1>5. CASE DeathTrap(s)
  <2>1. Grown
    BY <1>5, MarkGrows DEF DeathTrap
  <2>2. Indexed
    BY <1>5 DEF DeathTrap, Indexed, Extract, WorldEnter, WorldRemove, rooms
  <2>3. Plain
    BY <1>5, <2>1, <2>2, GoingIsPlain DEF DeathTrap, world, bodies, SessionTypes
  <2> QED
    BY <2>3, PlainKeeps
<1>6. CASE Rent(s)
  <2>1. Grown
    BY <1>6, MarkGrows DEF Rent
  <2>2. Indexed
    BY <1>6 DEF Rent, Indexed, Extract, WorldEnter, WorldRemove, rooms
  <2>3. Plain
    BY <1>6, <2>1, <2>2, GoingIsPlain DEF Rent, world, bodies
  <2> QED
    BY <2>3, PlainKeeps
<1>7. QED
  BY <1>1, <1>2, <1>3, <1>4, <1>5, <1>6 DEF Command

LEMMA DepartOwn ==
    ASSUME TypeInv, OwnInv, NEW s \in Conns, Depart(s)
    PROVE  OwnInv'
<1> SessionTypes
  BY DEF TypeInv
<1> USE DEF AllPlaces, Bodiless, Embodied, Driving
<1>1. CASE ReadEnds(s)
  <2>1. Grown
    BY <1>1 DEF ReadEnds, Grown
  <2>2. Indexed
    BY <1>1 DEF ReadEnds, Indexed, world, rooms
  <2>3. Plain
    BY <1>1, <2>1, <2>2, GoingIsPlain DEF ReadEnds, world, bodies
  <2> QED
    BY <2>3, PlainKeeps
<1>2. CASE LeaveNothing(s)
  <2>1. Grown
    BY <1>2, MarkGrows DEF LeaveNothing
  <2>2. Indexed
    BY <1>2 DEF LeaveNothing, Indexed, world, rooms
  <2>3. Plain
    BY <1>2, <2>1, <2>2, GoingIsPlain DEF LeaveNothing, world, bodies
  <2> QED
    BY <2>3, PlainKeeps
<1>3. CASE Leave(s)
  <2>1. Grown
    BY <1>3 DEF Leave, Grown
  <2>2. Indexed
    BY <1>3 DEF Leave, Indexed, world, rooms
  <2>3. Plain
    BY <1>3, <2>1, <2>2, GoingIsPlain DEF Leave, world, bodies, SessionTypes
  <2> QED
    BY <2>3, PlainKeeps
<1>4. CASE LeaveSnapshot(s)
  <2>1. Grown
    BY <1>4 DEF LeaveSnapshot, Grown
  <2>2. Indexed
    BY <1>4 DEF LeaveSnapshot, Indexed, world, rooms
  <2>3. Plain
    BY <1>4, <2>1, <2>2, GoingIsPlain
       DEF LeaveSnapshot, world, bodies, Read, SessionTypes
  <2> QED
    BY <2>3, PlainKeeps
<1>5. CASE LeaveSave(s)
  <2>1. Grown
    BY <1>5 DEF LeaveSave, Grown
  <2>2. Indexed
    BY <1>5 DEF LeaveSave, Indexed, world, rooms
  <2>3. Plain
    BY <1>5, <2>1, <2>2, GoingIsPlain DEF LeaveSave, world, bodies, Forget, SessionTypes
  <2> QED
    BY <2>3, PlainKeeps
<1>6. CASE LeaveCrashFile(s)
  <2>1. Grown
    BY <1>6 DEF LeaveCrashFile, Grown
  <2>2. Indexed
    BY <1>6 DEF LeaveCrashFile, Indexed, world, rooms
  <2>3. Plain
    BY <1>6, <2>1, <2>2, GoingIsPlain
       DEF LeaveCrashFile, world, bodies, Read, SessionTypes
  <2> QED
    BY <2>3, PlainKeeps
<1>7. CASE LeaveCrashSave(s)
  <2>1. Grown
    BY <1>7 DEF LeaveCrashSave, Grown
  <2>2. Indexed
    BY <1>7 DEF LeaveCrashSave, Indexed, world, rooms
  <2>3. Plain
    BY <1>7, <2>1, <2>2, GoingIsPlain
       DEF LeaveCrashSave, world, bodies, Forget, SessionTypes
  <2> QED
    BY <2>3, PlainKeeps
<1>8. CASE LeaveWorld(s)
  BY <1>8, LeaveWorldOwn
<1>9. QED
  BY <1>1, <1>2, <1>3, <1>4, <1>5, <1>6, <1>7, <1>8 DEF Depart

\* Background writes, sweeps, purges and closings from elsewhere give nobody a body.
LEMMA ServerOwn ==
    ASSUME TypeInv, OwnInv,
           \/ Sweep
           \/ \E j \in 1..Jobs : Background(j)
           \/ \E b \in Bodies : Purge(b)
           \/ \E s \in Conns : Kick(s)
           \/ UNCHANGED vars
    PROVE  OwnInv'
<1> SessionTypes
  BY DEF TypeInv
<1> USE DEF session, world, rooms, bodies
<1>1. CASE Sweep
  BY <1>1, StayingIsPlain, PlainKeeps
     DEF Sweep, SweepSnapshot, SweepSave, SweepJudge, SweepReap, WorldRemove, Grown, Indexed
<1>2. ASSUME NEW j \in 1..Jobs, Background(j) PROVE OwnInv'
  <2>1. CASE RentClose(j)
    <3>1. Grown
      BY <2>1, MarkGrows DEF RentClose
    <3> QED
      BY <2>1, <3>1, StayingIsPlain, PlainKeeps DEF RentClose, Indexed
  <2>2. CASE ~RentClose(j)
    <3>1. UNCHANGED session /\ UNCHANGED world
      BY <1>2, <2>2
         DEF Background, QuitSave, QuitCrashSave, RentSaveObjects, RentSnapshot, RentSave
    <3> QED
      BY <3>1, StayingIsPlain, PlainKeeps DEF Grown, Indexed
  <2> QED
    BY <2>1, <2>2
<1>3. ASSUME NEW b \in Bodies, Purge(b) PROVE OwnInv'
  <2>1. Grown
    BY <1>3, MarkGrows DEF Purge
  <2> QED
    BY <1>3, <2>1, StayingIsPlain, PlainKeeps DEF Purge, WorldRemove, Indexed
<1>4. ASSUME NEW s \in Conns, Kick(s) PROVE OwnInv'
  <2>1. Grown
    BY <1>4, MarkGrows DEF Kick
  <2> QED
    BY <1>4, <2>1, StayingIsPlain, PlainKeeps DEF Kick, Indexed
<1>5. CASE UNCHANGED vars
  BY <1>5, StayingIsPlain, PlainKeeps DEF vars, Grown, Indexed
<1>6. QED
  BY <1>1, <1>2, <1>3, <1>4, <1>5

LEMMA InitOwn == Init => OwnInv
<1> SUFFICES ASSUME Init PROVE OwnInv
  OBVIOUS
<1>1. \A b \in Bodies : ~Used(b)
  BY Numbers DEF Init, Used
<1> QED
  BY <1>1 DEF Init, OwnInv, NoSharedBody, Registered, Drives, Driving

LEMMA OwnImplies == OwnInv => DrivenOnce
  BY DEF OwnInv, DrivenOnce, PlayingIsConnected, InPlay, Drives

\* One body is driven by one connection, the one it answers to, for any number of
\* connections, whatever the people about do and whichever handlers interleave:
\* that DupeCheck is one visit to the world is enough.
THEOREM OneConnectionDrives == Spec => []DrivenOnce
<1>1. Init => TypeInv /\ OwnInv
  BY InitTypes, InitOwn
<1>2. TypeInv /\ OwnInv /\ [Next]_vars => (TypeInv /\ OwnInv)'
  <2> SUFFICES ASSUME TypeInv, OwnInv, [Next]_vars PROVE (TypeInv /\ OwnInv)'
    OBVIOUS
  <2>1. TypeInv'
    BY StepTypes
  <2>2. OwnInv'
    BY ServerOwn, LoginOwn, EnterOwn, CommandOwn, DepartOwn DEF Next
  <2> QED
    BY <2>1, <2>2
<1>3. OwnInv => DrivenOnce
  BY OwnImplies
<1> QED
  BY <1>1, <1>2, <1>3, PTL DEF Spec

-----------------------------------------------------------------------------
(* What ends the one account of the world.                                 *)

Lost == {"closed", "displaced", "rented"}
Leaving == {"ended", "saving", "writing", "crashing", "storing", "releasing"}
Inside == Places.enter \ {"entering"}

\* A connection that has ended and not let go of its body yet.
Lingers(s) ==
    /\ at[s] \in Leaving /\ state[s] = "playing" /\ char[s] # None
    /\ flags[s] \cap Lost = {}

\* It is still its body's client, as one is that drives it.
Attends == \A s \in Conns : Lingers(s) => client[char[s]] = s

\* A body that a connection claims has that connection as its client.
LEMMA ClaimHeld ==
    ASSUME TypeInv, OwnInv, Attends, NEW s \in Conns, Claims(s) # None
    PROVE  Claims(s) \in Bodies /\ client[Claims(s)] = s
<1>1. s \in Registered /\ flags[s] \cap Lost = {}
  BY DEF Claims, Lost
<1>2. CASE at[s] = "adopting"
  BY <1>1, <1>2 DEF Claims, Lost, OwnInv, TypeInv, SessionSized
<1>3. CASE at[s] # "adopting"
  <2>1. /\ Claims(s) = char[s] /\ char[s] # None
        /\ state[s] = "playing" \/ at[s] \in Inside
    BY <1>1, <1>3 DEF Claims, Lost, Inside
  <2>2. char[s] \in Bodies /\ at[s] \in Embodied \cup {"ended"}
    BY <1>1, <2>1 DEF TypeInv, SessionTypes, SessionSized, AllPlaces, Registered
  <2>3. CASE at[s] \in Leaving
    BY <1>1, <2>1, <2>2, <2>3 DEF Attends, Lingers, Leaving, Inside, Places
  <2>4. CASE at[s] \notin Leaving
    <3>1. Drives(s)
      BY <1>1, <2>1, <2>2, <2>4
         DEF Drives, Driving, Leaving, Inside, Places, Embodied, Lost
    <3> QED
      BY <2>1, <2>2, <3>1 DEF OwnInv
  <2> QED
    BY <2>3, <2>4
<1> QED
  BY <1>2, <1>3

\* Nobody's claim but grows old: what a step is not about.
LEMMA ClaimFades ==
    ASSUME NEW t \in Conns, at'[t] = at[t], char'[t] = char[t],
           local'[t].body = local[t].body,
           state'[t] = "playing" => state[t] = "playing",
           flags[t] \cap Lost \subseteq flags'[t]
    PROVE  Claims(t)' \in {Claims(t), None} /\ (Lingers(t)' => Lingers(t))
<1>1. flags'[t] \cap Lost = {} => flags[t] \cap Lost = {}
  BY DEF Lost
<1>2. t \in Registered' <=> t \in Registered
  BY DEF Registered
<1>3. Lingers(t)' => Lingers(t)
  BY <1>1 DEF Lingers
<1>4. Claims(t)' \in {Claims(t), None}
  BY <1>1, <1>2 DEF Claims, Lost
<1> QED
  BY <1>3, <1>4

\* When nothing moves in the rooms, and claims are kept or given up.
LEMMA AccountKept ==
    ASSUME UNCHANGED rooms, \A t \in Conns : Claims(t)' \in {Claims(t), None}, OneAccount
    PROVE  OneAccount'
  BY DEF OneAccount, IndexAgrees, rooms

\* Whoever lingers did so before, or drove the body.
LEMMA AttendsKept ==
    ASSUME OwnInv, Attends, UNCHANGED <<char, client>>,
           \A t \in Conns : Lingers(t)' => Lingers(t) \/ Drives(t)
    PROVE  Attends'
  BY DEF Attends, OwnInv

\* One session goes somewhere and neither its body nor its state changes.
LEMMA GoingKeeps ==
    ASSUME TypeInv, OwnInv, Attends, NEW s \in Conns, NEW p \in AllPlaces, Goto(s, p),
           at[s] \notin {"gone", "adopting"},
           UNCHANGED <<state, char, client, rooms>>, Grown,
           \A t \in Conns \ {s} : local'[t].body = local[t].body,
           p # "adopting",
           p \in Inside => at[s] \in Inside,
           p \in Leaving => at[s] \in Leaving \cup {"reading"} \cup Bodiless
    PROVE  Attends' /\ (OneAccount => OneAccount')
<1>1. at'[s] = p /\ \A t \in Conns \ {s} : at'[t] = at[t]
  BY DEF Goto, TypeInv, SessionTypes
<1>2. \A t \in Conns : flags[t] \cap Lost \subseteq flags'[t]
  BY DEF Grown, Lost
<1>3. \A t \in Conns \ {s} :
        Claims(t)' \in {Claims(t), None} /\ (Lingers(t)' => Lingers(t))
  BY <1>1, <1>2, ClaimFades
<1>4. Claims(s)' \in {Claims(s), None}
  <2>1. CASE char[s] = None
    BY <1>1, <2>1 DEF Claims
  <2>2. CASE char[s] # None
    <3>1. s \in Registered
      BY <2>2 DEF Registered, TypeInv, SessionSized, Bodiless
    <3> QED
      BY <1>1, <1>2, <3>1 DEF Claims, Lost, Inside
  <2> QED
    BY <2>1, <2>2
<1>5. Lingers(s)' => Lingers(s) \/ Drives(s)
  <2> SUFFICES ASSUME Lingers(s)' PROVE Lingers(s) \/ Drives(s)
    OBVIOUS
  <2>1. /\ p \in Leaving /\ state[s] = "playing" /\ char[s] # None
        /\ flags[s] \cap Lost = {}
    BY <1>1, <1>2 DEF Lingers
  <2>2. at[s] \in Leaving \cup {"reading"}
    BY <2>1 DEF TypeInv, SessionSized
  <2> QED
    BY <2>1, <2>2 DEF Lingers, Drives, Lost
<1> QED
  BY <1>3, <1>4, <1>5, AttendsKept, AccountKept

\* Nobody goes anywhere.
LEMMA StayingKeeps ==
    ASSUME TypeInv, OwnInv, Attends, UNCHANGED <<at, char, local, client>>, Grown,
           \A t \in Conns : state'[t] = "playing" => state[t] = "playing"
    PROVE  /\ Attends'
           /\ \A t \in Conns : Claims(t)' \in {Claims(t), None}
           /\ UNCHANGED rooms => (OneAccount => OneAccount')
<1>1. \A t \in Conns : flags[t] \cap Lost \subseteq flags'[t]
  BY DEF Grown, Lost
<1>2. \A t \in Conns :
        Claims(t)' \in {Claims(t), None} /\ (Lingers(t)' => Lingers(t))
  BY <1>1, ClaimFades
<1> QED
  BY <1>2, AttendsKept, AccountKept

\* A body is removed of which nobody makes a claim any more.
LEMMA RemovalKeeps ==
    ASSUME TypeInv, OwnInv, Attends, OneAccount, NEW b \in inWorld, WorldRemove(b),
           \A t \in Conns : Claims(t)' \in {Claims(t), None},
           \A t \in Conns : client[b] = t => Claims(t)' = None
    PROVE  OneAccount'
<1>1. inWorld = {b} /\ b \in Bodies
  BY DEF OneAccount, IndexAgrees, TypeInv, WorldTypes
<1>2. inWorld' = {} /\ byName' = None
  BY <1>1 DEF WorldRemove
<1>3. ASSUME NEW t \in Conns PROVE Claims(t)' = None
  <2>1. CASE Claims(t) = None
    BY <2>1
  <2>2. CASE Claims(t) # None
    <3>1. Claims(t) = b
      BY <1>1, <2>2 DEF OneAccount
    <3> QED
      BY <2>2, <3>1, ClaimHeld
  <2> QED
    BY <2>1, <2>2
<1> QED
  BY <1>2, <1>3 DEF OneAccount, IndexAgrees

\* DupeCheck finds a body in the world, unless it finds one checked in at an inn.
LEMMA DupeCheckLate ==
    ASSUME TypeInv, OwnInv, Attends, NEW s \in Conns, DupeCheck(s)
    PROVE  /\ Attends'
           /\ OneAccount => OneAccount' \/ LateTakeOver(s)
<1> DEFINE b == Existing(s)
<1>1. /\ at[s] = "loaded" /\ char[s] = None /\ UNCHANGED <<state, char, rooms>>
      /\ \A t \in Conns \ {s} : at'[t] = at[t] /\ local'[t] = local[t]
      /\ at'[s] \in {"fresh", "adopting"} /\ (at'[s] = "adopting" => b # None)
      /\ local'[s].body = b
      /\ client' = [c \in Bodies |-> IF c = b THEN s ELSE Freed(s)[c]]
  BY DEF DupeCheck, Goto, TypeInv, SessionTypes, SessionSized, Bodiless
<1>2. \A t \in Conns : /\ flags[t] \subseteq flags'[t]
                       /\ t \in Others(s) => {"displaced", "closed"} \subseteq flags'[t]
  BY DEF DupeCheck, Mark, TypeInv, SessionTypes
<1>3. \A t \in Conns \ {s} :
        Claims(t)' \in {Claims(t), None} /\ (Lingers(t)' => Lingers(t))
  BY <1>1, <1>2, ClaimFades
<1>4. Attends'
  <2> SUFFICES ASSUME NEW t \in Conns, Lingers(t)' PROVE FALSE
    BY DEF Attends
  <2>1. t # s /\ char[t] # None /\ at[t] \in Leaving
    BY <1>1 DEF Lingers, Leaving
  <2>2. t \in Others(s)
    BY <2>1 DEF Others, Registered, Leaving
  <2> QED
    BY <1>2, <2>1, <2>2 DEF Lingers, Lost
<1>5. ASSUME OneAccount, at'[s] = "adopting", b \notin inWorld
      PROVE  LateTakeOver(s)
  <2>1. Donors(s) # {}
    BY <1>1, <1>5 DEF Existing, OneAccount, IndexAgrees
  <2>2. PICK d \in Donors(s) : b = char[d]
    BY <2>1, DonorFound DEF Existing
  <2>3. /\ d \in Registered /\ d \in Conns /\ char[d] # None /\ state[d] = "playing"
        /\ "closed" \notin flags[d]
    BY <2>2 DEF Donors, Others, Registered, Is
  <2>4. "displaced" \notin flags[d] /\ at[d] # "adopting"
    BY <2>3 DEF OwnInv, TypeInv, SessionSized, Bodiless
  <2>5. "rented" \in flags[d]
    <3> SUFFICES ASSUME "rented" \notin flags[d] PROVE FALSE
      OBVIOUS
    <3>1. Claims(d) = char[d]
      BY <2>3, <2>4 DEF Claims
    <3> QED
      BY <1>5, <2>2, <2>3, <3>1 DEF OneAccount
  <2> QED
    BY <1>1, <1>5, <2>2, <2>3, <2>5 DEF LateTakeOver, Goes, Is
<1>6. Claims(s)' \in {b, None}
  BY <1>1 DEF Claims, Places
<1>7. Claims(s)' # None => at'[s] = "adopting"
  BY <1>1 DEF Claims, Places
<1>8. ASSUME OneAccount, ~LateTakeOver(s) PROVE OneAccount'
  <2>1. \A t \in Conns : Claims(t)' \in inWorld \cup {None}
    BY <1>3, <1>5, <1>6, <1>7, <1>8 DEF OneAccount
  <2> QED
    BY <1>1, <1>8, <2>1 DEF OneAccount, IndexAgrees, rooms
<1> QED
  BY <1>4, <1>8

LEMMA LoginLate ==
    ASSUME TypeInv, OwnInv, Attends, NEW s \in Conns, Login(s)
    PROVE  /\ Attends'
           /\ OneAccount => OneAccount' \/ LateTakeOver(s)
<1> SessionTypes
  BY DEF TypeInv
<1> USE DEF AllPlaces, Bodiless, Embodied, Leaving, Inside, Places
<1>1. CASE Connect(s)
  BY <1>1, GoingKeeps DEF Connect, world, rooms, bodies, Grown
<1>2. CASE BadPassword(s)
  BY <1>2, GoingKeeps DEF BadPassword, world, rooms, bodies, Grown, Read, SessionTypes
<1>3. CASE TallyBadPassword(s)
  BY <1>3, GoingKeeps DEF TallyBadPassword, world, rooms, bodies, Grown, Forget, SessionTypes
<1>4. CASE Authenticate(s)
  <2>1. PICK p \in {"loaded", "upgrading"} : Goto(s, p)
    BY <1>4 DEF Authenticate
  <2> QED
    BY <1>4, <2>1, GoingKeeps DEF Authenticate, rooms, Grown
<1>5. CASE UpgradeCredential(s)
  BY <1>5, GoingKeeps DEF UpgradeCredential, world, rooms, bodies, Grown
<1>6. CASE Refuse(s)
  <2>1. Grown
    BY <1>6, MarkGrows DEF Refuse
  <2> QED
    BY <1>6, <2>1, GoingKeeps DEF Refuse, world, rooms, bodies
<1>7. CASE DupeCheck(s)
  BY <1>7, DupeCheckLate
<1>8. CASE Adopt(s) \/ ToMenu(s)
  <2>1. /\ at[s] \in {"adopting", "fresh"} /\ at'[s] = "reading"
        /\ UNCHANGED <<flags, rooms, client>>
        /\ \A t \in Conns \ {s} : /\ at'[t] = at[t] /\ char'[t] = char[t]
                                  /\ local'[t] = local[t] /\ state'[t] = state[t]
    BY <1>8 DEF Adopt, ToMenu, Goto, Forget, SessionTypes, world, bodies
  <2>2. \A t \in Conns \ {s} :
          Claims(t)' \in {Claims(t), None} /\ (Lingers(t)' => Lingers(t))
    BY <2>1, ClaimFades
  <2>3. Claims(s)' \in {Claims(s), None}
    <3>1. CASE Adopt(s)
      BY <2>1, <3>1 DEF Adopt, Claims, SessionTypes, Registered
    <3>2. CASE ToMenu(s)
      BY <2>1, <3>2 DEF ToMenu, Claims, SessionTypes
    <3> QED
      BY <1>8, <3>1, <3>2
  <2>4. \A t \in Conns : Lingers(t)' => Lingers(t) /\ char'[t] = char[t]
    BY <2>1, <2>2 DEF Lingers
  <2>5. Attends'
    BY <2>1, <2>4 DEF Attends
  <2> QED
    BY <2>1, <2>2, <2>3, <2>5, AccountKept
<1> QED
  BY <1>1, <1>2, <1>3, <1>4, <1>5, <1>6, <1>7, <1>8 DEF Login

LEMMA EnterLate ==
    ASSUME TypeInv, OwnInv, Attends, NEW s \in Conns, Enter(s)
    PROVE  /\ Attends'
           /\ OneAccount => OneAccount' \/ LateEntry(s)
<1> SessionTypes
  BY DEF TypeInv
<1> USE DEF AllPlaces, Bodiless, Embodied, Leaving, Inside, Places
<1>1. CASE ChooseEnter(s)
  <2>1. /\ at[s] = "reading" /\ state[s] = "menu" /\ "closed" \notin flags[s]
        /\ UNCHANGED <<state, char, flags, local, rooms>>
        /\ at'[s] = "entering" /\ \A t \in Conns \ {s} : at'[t] = at[t]
        /\ client' = [client EXCEPT ![char[s]] = s]
    BY <1>1 DEF ChooseEnter, Goto, SessionTypes, Is
  <2>2. \A t \in Conns \ {s} :
          Claims(t)' \in {Claims(t), None} /\ (Lingers(t)' => Lingers(t))
    BY <2>1, ClaimFades
  <2>3. Claims(s)' = None
    BY <2>1 DEF Claims
  <2>4. ASSUME NEW t \in Conns, Lingers(t)' PROVE client'[char[t]] = t
    <3>1. t # s /\ Lingers(t) /\ client[char[t]] = t
      BY <2>1, <2>2, <2>4 DEF Lingers, Attends
    <3>2. char[t] # char[s]
      <4>1. {s, t} \subseteq Registered
        BY <2>1, <3>1 DEF Registered, Lingers
      <4>2. "displaced" \notin flags[t] /\ "displaced" \notin flags[s]
        BY <2>1, <3>1 DEF Lingers, Lost, OwnInv
      <4> QED
        BY <3>1, <4>1, <4>2 DEF OwnInv, NoSharedBody, Is, Lingers
    <3> QED
      BY <2>1, <3>1, <3>2 DEF Lingers, TypeInv, WorldTypes
  <2>5. Attends'
    BY <2>1, <2>4 DEF Attends
  <2> QED
    BY <2>1, <2>2, <2>3, <2>5, AccountKept
<1>2. CASE EnterRoom(s)
  <2>1. /\ at[s] = "entering" /\ at'[s] = "loading"
        /\ \A t \in Conns \ {s} : at'[t] = at[t]
        /\ UNCHANGED <<state, char, flags, local, client>>
        /\ inWorld' = inWorld \cup {char[s]} /\ byName' = char[s]
    BY <1>2 DEF EnterRoom, WorldEnter, Goto, SessionTypes, bodies
  <2>2. \A t \in Conns \ {s} :
          Claims(t)' \in {Claims(t), None} /\ (Lingers(t)' => Lingers(t))
    BY <2>1, ClaimFades
  <2>3. Claims(s)' \in {char[s], None} /\ ~Lingers(s)'
    BY <2>1 DEF Claims, Lingers
  <2>4. Attends'
    BY <2>1, <2>2, <2>3 DEF Attends
  <2>5. ASSUME OneAccount, ~LateEntry(s) PROVE OneAccount'
    <3>1. inWorld' = {char[s]} /\ char[s] # None
      BY <2>1, <2>5, Numbers DEF LateEntry, Goes, TypeInv, SessionSized
    <3> QED
      BY <2>1, <2>2, <2>3, <2>5, <3>1 DEF OneAccount, IndexAgrees
  <2> QED
    BY <2>4, <2>5
<1>3. CASE LoadObjects(s)
  <2>1. PICK p \in {"entered", "restoring", "forfeiting"} : Goto(s, p)
    BY <1>3 DEF LoadObjects
  <2> QED
    BY <1>3, <2>1, GoingKeeps DEF LoadObjects, world, rooms, bodies, Grown, Read
<1>4. CASE Forfeit(s)
  BY <1>4, GoingKeeps DEF Forfeit, rooms, Grown, Read
<1>5. CASE ForfeitWrite(s)
  BY <1>5, GoingKeeps DEF ForfeitWrite, world, rooms, bodies, Grown, Forget, SessionTypes
<1>6. CASE RestoreObjects(s)
  BY <1>6, GoingKeeps DEF RestoreObjects, rooms, Grown, Forget, SessionTypes
<1>7. CASE MarkRestored(s)
  BY <1>7, GoingKeeps DEF MarkRestored, world, rooms, bodies, Grown
<1>8. CASE Entered(s)
  <2>1. /\ at[s] = "entered" /\ at'[s] = "reading"
        /\ \A t \in Conns \ {s} : at'[t] = at[t] /\ state'[t] = state[t]
        /\ UNCHANGED <<char, local, client, rooms>>
        /\ \A t \in Conns : flags[t] \cap Lost \subseteq flags'[t]
    BY <1>8 DEF Entered, Goto, SessionTypes, Lost, world, bodies
  <2>2. \A t \in Conns \ {s} :
          Claims(t)' \in {Claims(t), None} /\ (Lingers(t)' => Lingers(t))
    BY <2>1, ClaimFades
  <2>3. Claims(s)' \in {Claims(s), None} /\ ~Lingers(s)'
    BY <2>1 DEF Claims, Lingers, Lost, Registered
  <2> QED
    BY <2>1, <2>2, <2>3, AttendsKept, AccountKept
<1> QED
  BY <1>1, <1>2, <1>3, <1>4, <1>5, <1>6, <1>7, <1>8 DEF Enter

\* A command that removes its body: its connection gives the claim up.
LEMMA CommandLate ==
    ASSUME TypeInv, OwnInv, Attends, NEW s \in Conns, Command(s)
    PROVE  /\ Attends'
           /\ OneAccount => OneAccount' \/ LateRemoval(s)
<1> SessionTypes
  BY DEF TypeInv
<1> USE DEF AllPlaces, Bodiless, Embodied, Leaving, Inside, Places
<1>1. CASE TypeCommand(s)
  BY <1>1, GoingKeeps DEF TypeCommand, world, rooms, bodies, Grown
<1>2. CASE Play(s)
  BY <1>2, GoingKeeps DEF Play, rooms, Grown
<1>3. CASE Look(s)
  BY <1>3, GoingKeeps DEF Look, world, rooms, bodies, Grown
<1>4. CASE Quit(s) \/ DeathTrap(s) \/ Rent(s)
  <2>1. /\ at[s] = "doing" /\ at'[s] = "reading" /\ char[s] \in Bodies
        /\ \A t \in Conns \ {s} : at'[t] = at[t]
        /\ UNCHANGED <<char, local, client>> /\ WorldRemove(char[s])
    BY <1>4 DEF Quit, DeathTrap, Rent, Extract, Goto, TypeInv, SessionTypes, SessionSized,
                bodies
  <2>2. \A t \in Conns : /\ flags[t] \subseteq flags'[t]
                         /\ state'[t] = "playing" => state[t] = "playing"
    BY <1>4 DEF Quit, DeathTrap, Rent, Mark, SessionTypes
  <2>3. \A t \in Conns \ {s} :
          Claims(t)' \in {Claims(t), None} /\ (Lingers(t)' => Lingers(t))
    BY <2>1, <2>2, ClaimFades
  <2>4. Claims(s)' \in {Claims(s), None} /\ ~Lingers(s)'
    BY <2>1, <2>2 DEF Claims, Lingers, Registered
  <2>5. Attends'
    BY <2>1, <2>3, <2>4, AttendsKept
  <2>6. client[char[s]] = s => Claims(s)' = None
    <3>1. client[char[s]] = s => state'[s] = "menu" \/ "rented" \in flags'[s]
      BY <1>4 DEF Quit, DeathTrap, Rent, Mark, SessionTypes
    <3> QED
      BY <2>1, <3>1 DEF Claims
  <2>7. ASSUME OneAccount, ~LateRemoval(s) PROVE OneAccount'
    <3>1. CASE UNCHANGED rooms
      BY <2>3, <2>4, <2>7, <3>1, AccountKept
    <3>2. CASE ~UNCHANGED rooms
      <4>1. client[char[s]] = s /\ char[s] \in inWorld
        BY <2>1, <2>7, <3>2 DEF LateRemoval, Goes
      <4> QED
        BY <2>1, <2>3, <2>4, <2>6, <2>7, <4>1, RemovalKeeps
    <3> QED
      BY <3>1, <3>2
  <2> QED
    BY <2>5, <2>7
<1> QED
  BY <1>1, <1>2, <1>3, <1>4 DEF Command

LEMMA DepartLate ==
    ASSUME TypeInv, OwnInv, Attends, NEW s \in Conns, Depart(s)
    PROVE  /\ Attends'
           /\ OneAccount => OneAccount' \/ LateRemoval(s)
<1> SessionTypes
  BY DEF TypeInv
<1> USE DEF AllPlaces, Bodiless, Embodied, Leaving, Inside, Places
<1>1. CASE ReadEnds(s)
  BY <1>1, GoingKeeps DEF ReadEnds, world, rooms, bodies, Grown
<1>2. CASE LeaveNothing(s)
  <2>1. Grown
    BY <1>2, MarkGrows DEF LeaveNothing
  <2> QED
    BY <1>2, <2>1, GoingKeeps DEF LeaveNothing, world, rooms, bodies
<1>3. CASE Leave(s)
  BY <1>3, GoingKeeps DEF Leave, world, rooms, bodies, Grown, SessionTypes
<1>4. CASE LeaveSnapshot(s)
  BY <1>4, GoingKeeps DEF LeaveSnapshot, world, rooms, bodies, Grown, Read
<1>5. CASE LeaveSave(s)
  BY <1>5, GoingKeeps DEF LeaveSave, world, rooms, bodies, Grown, Forget,
                          SessionTypes
<1>6. CASE LeaveCrashFile(s)
  BY <1>6, GoingKeeps DEF LeaveCrashFile, world, rooms, bodies, Grown, Read
<1>7. CASE LeaveCrashSave(s)
  BY <1>7, GoingKeeps DEF LeaveCrashSave, world, rooms, bodies, Grown, Forget,
                               SessionTypes
<1>8. CASE LeaveWorld(s)
  <2>1. /\ at[s] = "releasing" /\ at'[s] = "gone" /\ char[s] \in Bodies
        /\ \A t \in Conns \ {s} : at'[t] = at[t]
        /\ UNCHANGED <<state, char, local>>
        /\ client' = [client EXCEPT ![char[s]] = IF @ = s THEN None ELSE @]
    BY <1>8 DEF LeaveWorld, Goto, TypeInv, SessionTypes, SessionSized
  <2>2. \A t \in Conns : flags[t] \subseteq flags'[t]
    BY <1>8 DEF LeaveWorld, Mark, SessionTypes
  <2>3. \A t \in Conns \ {s} :
          Claims(t)' \in {Claims(t), None} /\ (Lingers(t)' => Lingers(t))
    BY <2>1, <2>2, ClaimFades
  <2>4. Claims(s)' = None /\ ~Lingers(s)'
    BY <2>1 DEF Claims, Lingers, Registered
  <2>5. Attends'
    BY <2>1, <2>3, <2>4 DEF Attends, Lingers, TypeInv, WorldTypes
  <2>6. ASSUME OneAccount, ~LateRemoval(s) PROVE OneAccount'
    <3>1. CASE UNCHANGED rooms
      BY <2>3, <2>4, <2>6, <3>1, AccountKept
    <3>2. CASE ~UNCHANGED rooms
      <4>1. client[char[s]] = s /\ char[s] \in inWorld /\ WorldRemove(char[s])
        BY <1>8, <2>1, <2>6, <3>2 DEF LateRemoval, Goes, LeaveWorld
      <4> QED
        BY <2>3, <2>4, <2>6, <4>1, RemovalKeeps
    <3> QED
      BY <3>1, <3>2
  <2> QED
    BY <2>5, <2>6
<1> QED
  BY <1>1, <1>2, <1>3, <1>4, <1>5, <1>6, <1>7, <1>8 DEF Depart

\* Background writes and closings move nothing; a purge closes whoever claims the body;
\* the sweep reaps one that nobody claims, or is late.
LEMMA ServerLate ==
    ASSUME TypeInv, OwnInv, Attends,
           \/ Sweep
           \/ \E j \in 1..Jobs : Background(j)
           \/ \E b \in Bodies : Purge(b)
           \/ \E s \in Conns : Kick(s)
           \/ UNCHANGED vars
    PROVE  /\ Attends'
           /\ OneAccount => OneAccount' \/ LateReaping
<1> SessionTypes
  BY DEF TypeInv
<1> USE DEF session, world, bodies
<1>1. CASE SweepReap
  <2>1. /\ UNCHANGED <<at, state, char, local, flags, client>>
        /\ sweep.step = "reaping" /\ WorldRemove(sweep.body) /\ Grown
    BY <1>1 DEF SweepReap, Grown
  <2>2. Attends' /\ \A t \in Conns : Claims(t)' \in {Claims(t), None}
    BY <2>1, StayingKeeps
  <2>3. ASSUME OneAccount, ~LateReaping PROVE OneAccount'
    <3>1. CASE UNCHANGED rooms
      BY <2>2, <2>3, <3>1, AccountKept
    <3>2. CASE ~UNCHANGED rooms
      <4>1. client[sweep.body] = None /\ sweep.body \in inWorld
        BY <2>1, <2>3, <3>2 DEF LateReaping
      <4>2. \A t \in Conns : client[sweep.body] # t
        BY <4>1, Numbers
      <4> QED
        BY <2>1, <2>2, <2>3, <4>1, <4>2, RemovalKeeps
    <3> QED
      BY <3>1, <3>2
  <2> QED
    BY <2>2, <2>3
<1>2. CASE SweepSnapshot \/ SweepSave \/ SweepJudge
  BY <1>2, StayingKeeps DEF SweepSnapshot, SweepSave, SweepJudge, Grown
<1>3. ASSUME NEW j \in 1..Jobs, Background(j)
      PROVE  Attends' /\ (OneAccount => OneAccount')
  <2>1. CASE RentClose(j)
    <3>1. Grown
      BY <2>1, MarkGrows DEF RentClose
    <3> QED
      BY <2>1, <3>1, StayingKeeps DEF RentClose
  <2>2. CASE ~RentClose(j)
    <3>1. UNCHANGED session /\ UNCHANGED world
      BY <1>3, <2>2
         DEF Background, QuitSave, QuitCrashSave, RentSaveObjects, RentSnapshot, RentSave
    <3> QED
      BY <3>1, StayingKeeps DEF Grown
  <2> QED
    BY <2>1, <2>2
<1>4. ASSUME NEW b \in Bodies, Purge(b) PROVE Attends' /\ (OneAccount => OneAccount')
  <2>1. Grown
    BY <1>4, MarkGrows DEF Purge
  <2>2. Attends' /\ \A t \in Conns : Claims(t)' \in {Claims(t), None}
    BY <1>4, <2>1, StayingKeeps DEF Purge
  <2>3. \A t \in Conns : client[b] = t => Claims(t)' = None
    BY <1>4 DEF Purge, Mark, Claims
  <2> QED
    BY <1>4, <2>2, <2>3, RemovalKeeps DEF Purge
<1>5. ASSUME NEW s \in Conns, Kick(s) PROVE Attends' /\ (OneAccount => OneAccount')
  <2>1. Grown
    BY <1>5, MarkGrows DEF Kick
  <2> QED
    BY <1>5, <2>1, StayingKeeps DEF Kick
<1>6. CASE UNCHANGED vars
  BY <1>6, StayingKeeps DEF vars, Grown
<1> QED
  BY <1>1, <1>2, <1>3, <1>4, <1>5, <1>6 DEF Sweep

\* The rooms, the index and the connections have one account of who is in the world
\* until an entry, a removal, a takeover or a reaping comes late, and nothing else ends
\* it: for any number of connections, whatever the people about do and whichever handlers
\* interleave (Live.Enter, Live.Remove, DupeCheck and RunAutosave of the Go server).
THEOREM TheAccountIsLostLate == Spec => LostByLateSteps
<1>1. Init => TypeInv /\ OwnInv /\ Attends
  BY InitTypes, InitOwn DEF Init, Attends, Lingers, Leaving
<1>2. TypeInv /\ OwnInv /\ Attends /\ [Next]_vars => (TypeInv /\ OwnInv /\ Attends)'
  <2> SUFFICES ASSUME TypeInv, OwnInv, Attends, [Next]_vars
               PROVE  (TypeInv /\ OwnInv /\ Attends)'
    OBVIOUS
  <2>1. TypeInv'
    BY StepTypes
  <2>2. OwnInv'
    BY ServerOwn, LoginOwn, EnterOwn, CommandOwn, DepartOwn DEF Next
  <2>3. Attends'
    BY ServerLate, LoginLate, EnterLate, CommandLate, DepartLate DEF Next
  <2> QED
    BY <2>1, <2>2, <2>3
<1> DEFINE Overtaken == \/ LateReaping
                        \/ \E s \in Conns : LateEntry(s) \/ LateRemoval(s) \/ LateTakeOver(s)
<1>3. TypeInv /\ OwnInv /\ Attends /\ [Next]_vars => [OneAccount => OneAccount' \/ Overtaken]_vars
  <2> SUFFICES ASSUME TypeInv, OwnInv, Attends, Next, OneAccount
               PROVE  OneAccount' \/ Overtaken
    OBVIOUS
  <2> QED
    BY ServerLate, LoginLate, EnterLate, CommandLate, DepartLate DEF Next
<1> QED
  BY <1>1, <1>2, <1>3, PTL DEF Spec, LostByLateSteps

-----------------------------------------------------------------------------
(* One account of who is in the world.                                     *)

\* The overlaps a run of the server has room for here: teardowns and sweeps, but
\* no teardown that takes a body with it, and no sweep that does; and nobody who
\* quits plays on over the same connection.
Orderly ==
    /\ Overlap \subseteq {"leave", "sweep"}
    /\ "again" \notin May
    /\ "leave" \in Overlap => "rent" \notin May
    /\ "sweep" \in Overlap => "reap" \notin May

\* A connection is in the middle of a handler nothing may interrupt.
Busy(s) ==
    \/ at[s] \in Places.login \cup Places.enter \cup Places.command
    \/ "leave" \notin Overlap /\ at[s] \in Places.leave

\* Background is writing.
Writing == \E j \in 1..Jobs : job[j] # Idle

\* The sweep is under way and may not be interrupted.
Sweeping == "sweep" \notin Overlap /\ sweep.step # "none"

\* Handlers that may not be interrupted are not.
Solo ==
    /\ \A s, t \in Conns : Busy(s) /\ Busy(t) => s = t
    /\ \A j, k \in 1..Jobs : job[j] # Idle /\ job[k] # Idle => j = k
    /\ Writing \/ Sweeping => \A s \in Conns : ~Busy(s)
    /\ ~(Writing /\ Sweeping)

\* A handler that waits for others finds nobody else in the middle of anything.
LEMMA FreeMeans ==
    ASSUME Orderly, NEW ss \in SUBSET Conns, Free(ss)
    PROVE  /\ \A t \in ss : ~Busy(t)
           /\ ~Writing /\ ~Sweeping
<1>1. ASSUME NEW t \in ss PROVE ~Busy(t)
  BY DEF Free, Orderly, Busy, Places
<1>2. ~Writing /\ ~Sweeping
  BY DEF Free, Orderly, Writing, Sweeping, Rest
<1> QED
  BY <1>1, <1>2

\* Nor does a session that begins one.
LEMMA TurnMeans ==
    ASSUME Orderly, NEW s \in Conns, Turn(s)
    PROVE  /\ \A t \in Conns \ {s} : ~Busy(t)
           /\ ~Writing /\ ~Sweeping
  BY FreeMeans DEF Turn

\* One session goes somewhere: at rest, or in its turn, or in the middle of what
\* it is doing.
LEMMA SoloGoes ==
    ASSUME Orderly, TypeInv, Solo, NEW s \in Conns, NEW p, Goto(s, p),
           UNCHANGED <<job, sweep>>,
           \/ Turn(s)
           \/ Busy(s)
           \/ p \in Places.idle
           \/ at[s] \in Places.leave /\ p \in Places.leave
    PROVE  Solo'
<1>1. at'[s] = p /\ \A t \in Conns \ {s} : at'[t] = at[t]
  BY DEF Goto, TypeInv, SessionTypes
<1>2. /\ \A t \in Conns \ {s} : Busy(t)' <=> Busy(t)
      /\ Writing' <=> Writing
      /\ Sweeping' <=> Sweeping
  BY <1>1 DEF Busy, Writing, Sweeping
<1>3. CASE Turn(s)
  BY <1>2, <1>3, TurnMeans DEF Solo
<1>4. CASE Busy(s)' => Busy(s)
  BY <1>2, <1>4 DEF Solo
<1>5. ASSUME Busy(s)', ~Busy(s), ~Turn(s) PROVE FALSE
  BY <1>1, <1>5 DEF Busy, Places
<1> QED
  BY <1>3, <1>4, <1>5

\* One session is done with its handler, and a write is begun.
LEMMA SoloBegins ==
    ASSUME Orderly, TypeInv, Solo, NEW s \in Conns, Busy(s), Goto(s, "reading"),
           NEW f, Begin(f), UNCHANGED sweep
    PROVE  Solo'
<1>1. at'[s] = "reading" /\ \A t \in Conns \ {s} : at'[t] = at[t]
  BY DEF Goto, TypeInv, SessionTypes
<1>2. /\ \A t \in Conns \ {s} : Busy(t)' <=> Busy(t)
      /\ ~Busy(s)'
      /\ Sweeping' <=> Sweeping
  BY <1>1 DEF Busy, Sweeping, Places
<1>3. \A t \in Conns \ {s} : ~Busy(t)
  BY DEF Solo
<1>4. ~Writing /\ ~Sweeping
  BY DEF Solo
<1>5. \E i \in 1..Jobs : \A j \in 1..Jobs \ {i} : job'[j] = Idle
  BY <1>4 DEF Begin, Writing, TypeInv, ServerTypes
<1> QED
  BY <1>2, <1>3, <1>4, <1>5 DEF Solo

\* A write goes on, or the sweep, or neither, and nobody goes anywhere.
LEMMA SoloStays ==
    ASSUME Solo, UNCHANGED at,
           \A j \in 1..Jobs : job'[j] = Idle \/ job[j] # Idle,
           \/ Sweeping' => Sweeping
           \/ ~Writing' /\ \A s \in Conns : ~Busy(s)
    PROVE  Solo'
<1>1. \A s \in Conns : Busy(s)' <=> Busy(s)
  BY DEF Busy
<1>2. Writing' => Writing
  BY DEF Writing
<1> QED
  BY <1>1, <1>2 DEF Solo, Writing

\* No step comes between those of a handler that may not be interrupted.
LEMMA SoloStep ==
    ASSUME Orderly, TypeInv, Solo, [Next]_vars
    PROVE  Solo'
<1>1. ASSUME NEW s \in Conns, Login(s) PROVE Solo'
  BY <1>1, SoloGoes
     DEF Login, Connect, BadPassword, TallyBadPassword, Authenticate, UpgradeCredential, Refuse,
         DupeCheck, Adopt, ToMenu, Busy, Places, server
<1>2. ASSUME NEW s \in Conns, Enter(s) PROVE Solo'
  BY <1>2, SoloGoes
     DEF Enter, ChooseEnter, EnterRoom, LoadObjects, Forfeit, ForfeitWrite, RestoreObjects,
         MarkRestored, Entered, Busy, Places, server
<1>3. ASSUME NEW s \in Conns, Command(s) PROVE Solo'
  <2>1. CASE TypeCommand(s) \/ Play(s) \/ Look(s)
    BY <2>1, SoloGoes DEF TypeCommand, Play, Look, Busy, Places, server
  <2>2. CASE Quit(s)
    BY <2>2, SoloBegins DEF Quit, Extract, Busy, Places
  <2>3. CASE DeathTrap(s)
    BY <2>3, SoloBegins DEF DeathTrap, Extract, Busy, Places
  <2>4. CASE Rent(s)
    BY <2>4, SoloBegins DEF Rent, Busy, Places
  <2> QED
    BY <1>3, <2>1, <2>2, <2>3, <2>4 DEF Command
<1>4. ASSUME NEW s \in Conns, Depart(s) PROVE Solo'
  BY <1>4, SoloGoes
     DEF Depart, ReadEnds, LeaveNothing, Leave, LeaveSnapshot, LeaveSave, LeaveCrashFile,
         LeaveCrashSave, LeaveWorld, Busy, Places, server
<1>5. CASE UNCHANGED vars \/ (\E b \in Bodies : Purge(b)) \/ (\E s \in Conns : Kick(s))
  BY <1>5, SoloStays DEF vars, session, server, Purge, Kick, Sweeping
<1>6. ASSUME NEW j \in 1..Jobs, Background(j) PROVE Solo'
  <2>1. UNCHANGED at /\ UNCHANGED sweep
    BY <1>6 DEF Background, QuitSave, QuitCrashSave, RentSaveObjects, RentSnapshot, RentSave,
                RentClose, JobStep, session
  <2>2. job[j].step # "none"
    BY <1>6 DEF Background, QuitSave, QuitCrashSave, RentSaveObjects, RentSnapshot, RentSave,
                RentClose, JobStep
  <2>3. job[j] # Idle
    BY <2>2 DEF Idle
  <2>4. \A k \in 1..Jobs \ {j} : job'[k] = job[k]
    <3>1. \E f : job' = [job EXCEPT ![j] = f]
      BY <1>6 DEF Background, QuitSave, QuitCrashSave, RentSaveObjects, RentSnapshot, RentSave,
                  RentClose, JobStep
    <3> QED
      BY <3>1 DEF TypeInv, ServerTypes
  <2> QED
    BY <2>1, <2>3, <2>4, SoloStays DEF Sweeping
<1>7. CASE Sweep
  <2>1. UNCHANGED at /\ UNCHANGED job
    BY <1>7 DEF Sweep, SweepSnapshot, SweepSave, SweepJudge, SweepReap, session
  <2>2. CASE SweepSnapshot
    <3>1. ~Writing /\ \A s \in Conns : ~Busy(s)
      BY <2>2, FreeMeans DEF SweepSnapshot
    <3> QED
      BY <2>1, <3>1, SoloStays DEF Writing
  <2>3. CASE ~SweepSnapshot
    <3>1. Sweeping' => Sweeping
      BY <1>7, <2>3 DEF Sweep, SweepSave, SweepJudge, SweepReap, Sweeping, Rest
    <3> QED
      BY <2>1, <3>1, SoloStays DEF Writing
  <2> QED
    BY <2>2, <2>3
<1>8. QED
  BY <1>1, <1>2, <1>3, <1>4, <1>5, <1>6, <1>7 DEF Next

-----------------------------------------------------------------------------
(* What a connection's flags say.                                          *)

Ending  == {"saving", "writing", "crashing", "storing", "releasing"}
\* The steps of a write that was left at an inn; and those of a teardown's saving.
Renting == {"rentObjects", "rentSnapshot", "rentRecord", "rentClose"}

\* Its rent is still being written.
RentPending(s) == \E j \in 1..Jobs : job[j].step \in Renting /\ job[j].leaver = s

\* A session without a character has nothing but its end to note; one that is back
\* at the menu ends there; what it quit by is one of the two; who has checked in
\* is closed once the rent is written; a teardown that will take the body away is
\* of somebody who checked in; and what drives a body is its client.
Marked(s) ==
    /\ char[s] = None => flags[s] \subseteq {"closed"} /\ state[s] = "login"
    /\ Is(s, "extracted") => state[s] = "menu" /\ at[s] \in {"reading", "ended", "gone"}
    /\ Is(s, "quit") => Is(s, "extracted") \/ Is(s, "rented")
    /\ Is(s, "rented") => /\ "rent" \in May /\ state[s] = "playing"
                          /\ Is(s, "closed") \/ RentPending(s)
    /\ at[s] \in Ending /\ "leave" \notin Overlap => ~Is(s, "displaced")
    /\ local[s].quit => at[s] \in Ending \cup {"gone"}
    /\ at[s] \in Ending /\ local[s].quit => Is(s, "rented")
    /\ at[s] \in Driving => client[char[s]] = s /\ ~Is(s, "displaced")
    /\ at[s] \in Places.enter => state[s] = "menu"
    /\ at[s] = "doing" => state[s] = "playing" /\ ~Is(s, "rented")

Marks == \A s \in Conns : Marked(s)

\* Nothing is written while a session is busy.
LEMMA NoRentPending ==
    ASSUME Solo, NEW s \in Conns, Busy(s), NEW t
    PROVE  ~RentPending(t)
  BY DEF Solo, Writing, RentPending, Renting, Idle

\* What is done elsewhere leaves a session's marks in order.
LEMMA MarkedKept ==
    ASSUME NEW s \in Conns, Marked(s),
           at'[s] = at[s], state'[s] = state[s], char'[s] = char[s],
           local'[s].quit = local[s].quit,
           flags'[s] = flags[s] \/ flags'[s] = flags[s] \cup {"closed"},
           at[s] \in Driving /\ client[char[s]] = s => client'[char[s]] = s,
           RentPending(s) => RentPending(s)' \/ Is(s, "closed")'
    PROVE  Marked(s)'
  BY DEF Marked, Is

\* One session goes somewhere and changes nothing of the others.
LEMMA MarksGo ==
    ASSUME TypeInv, Marks, NEW s \in Conns, NEW p, Goto(s, p),
           \A t \in Conns \ {s} : RentPending(t) => RentPending(t)',
           \A t \in Conns \ {s} : /\ state'[t] = state[t] /\ char'[t] = char[t]
                                  /\ local'[t].quit = local[t].quit
                                  /\ flags'[t] = flags[t]
                                  /\ at[t] \in Driving /\ client[char[t]] = t =>
                                        client'[char[t]] = t,
           Marked(s)'
    PROVE  Marks'
<1>1. \A t \in Conns \ {s} : at'[t] = at[t]
  BY DEF Goto, TypeInv, SessionTypes
<1>2. ASSUME NEW t \in Conns \ {s} PROVE Marked(t)'
  BY <1>1, <1>2, MarkedKept DEF Marks
<1> QED
  BY <1>2 DEF Marks

\* The session's own side of it, when it keeps its flags and its character.
LEMMA OwnMark ==
    ASSUME TypeInv, NEW s \in Conns, NEW p, Goto(s, p),
           Marked(s), UNCHANGED <<job, char, client>>, flags'[s] = flags[s],
           state'[s] = state[s],
           local'[s].quit = local[s].quit,
           Is(s, "extracted") => p \in {"reading", "ended", "gone"},
           p \in Ending => at[s] \in Ending,
           p \in Driving => at[s] \in Driving,
           p \in Places.enter => at[s] \in Places.enter,
           p = "doing" => at[s] = "doing",
           at[s] # "gone", at[s] \in Ending => p \in Ending
    PROVE  Marked(s)'
<1>1. at'[s] = p
  BY DEF Goto, TypeInv, SessionTypes
<1>2. RentPending(s)' <=> RentPending(s)
  BY DEF RentPending
<1> QED
  BY <1>1, <1>2 DEF Marked, Is

\* What a handler reads and forgets is not how it ends.
LEMMA QuitKept ==
    ASSUME TypeInv, NEW s \in Conns,
           \/ \E n : Read(s, n)
           \/ Forget(s)
           \/ \E b : local' = [local EXCEPT ![s].body = b]
           \/ UNCHANGED local
    PROVE  \A t \in Conns : local'[t].quit = local[t].quit
  BY DEF Read, Forget, TypeInv, SessionTypes

\* Whose rent is still being written depends on the writes alone.
LEMMA PendingKept ==
    ASSUME UNCHANGED job
    PROVE  \A t : RentPending(t)' <=> RentPending(t)
  BY DEF RentPending

\* A plain move: the session only goes, reads and forgets.
LEMMA MarksMove ==
    ASSUME TypeInv, Marks, NEW s \in Conns, NEW p, Goto(s, p),
           UNCHANGED <<job, state, char, flags, client>>,
           \A t \in Conns : local'[t].quit = local[t].quit,
           Is(s, "extracted") => p \in {"reading", "ended", "gone"},
           p \in Ending => at[s] \in Ending,
           p \in Driving => at[s] \in Driving,
           p \in Places.enter => at[s] \in Places.enter,
           p = "doing" => at[s] = "doing",
           at[s] # "gone", at[s] \in Ending => p \in Ending
    PROVE  Marks'
<1>1. Marked(s)'
  BY OwnMark DEF Marks
<1> QED
  BY <1>1, MarksGo, PendingKept

\* The dupe check displaces other sessions, and marks them closed with it.
LEMMA DupeCheckMarks ==
    ASSUME Orderly, TypeInv, OwnInv, Solo, Marks, NEW s \in Conns, DupeCheck(s)
    PROVE  Marks'
<1>1. /\ at[s] = "loaded"
      /\ Mark(Others(s), {"displaced", "closed"})
      /\ local' = [local EXCEPT ![s].body = Existing(s)]
      /\ UNCHANGED <<state, char, job>>
  BY DEF DupeCheck, server
<1>2. at'[s] \in {"fresh", "adopting"} /\ \A t \in Conns \ {s} : at'[t] = at[t]
  BY DEF DupeCheck, Goto, TypeInv, SessionTypes
<1>3. \A t \in Conns : local'[t].quit = local[t].quit
  BY <1>1, QuitKept
<1>4. \A t \in Conns \ {s} : ~Busy(t) /\ ~RentPending(t)
  BY <1>1, NoRentPending DEF Solo, Busy, Places
<1>5. Marked(s)'
  <2>1. char[s] = None /\ Marked(s)
    BY <1>1 DEF TypeInv, SessionSized, Bodiless, Marks
  <2>2. flags'[s] = flags[s]
    BY <1>1, <2>1 DEF Mark, Others, TypeInv, SessionTypes
  <2> QED
    BY <1>1, <1>2, <1>3, <2>1, <2>2 DEF Marked, Is, Ending, Driving, Places
<1>6. ASSUME NEW t \in Conns \ {s} PROVE Marked(t)'
  <2>1. Marked(t) /\ at'[t] = at[t] /\ local'[t].quit = local[t].quit
    BY <1>2, <1>3 DEF Marks
  <2>2. \/ flags'[t] = flags[t]
        \/ char[t] # None /\ flags'[t] = flags[t] \cup {"displaced", "closed"}
    BY <1>1 DEF Mark, Others, TypeInv, SessionTypes
  <2>3. at[t] \notin Driving /\ at[t] \notin Places.enter /\ at[t] # "doing"
    BY <1>4 DEF Busy, Places, Driving
  <2>4. at[t] \in Ending => "leave" \in Overlap
    BY <1>4 DEF Busy, Places, Ending
  <2> QED
    BY <1>1, <2>1, <2>2, <2>3, <2>4 DEF Marked, Is, RentPending
<1> QED
  BY <1>5, <1>6 DEF Marks

\* A login marks nobody but whom it displaces.
LEMMA LoginMarks ==
    ASSUME Orderly, TypeInv, OwnInv, Solo, Marks, NEW s \in Conns, Login(s)
    PROVE  Marks'
<1> USE DEF Ending, Driving, Places
<1>1. char[s] = None \/ at[s] \notin Bodiless
  BY DEF TypeInv, SessionSized
<1>2. char[s] = None => ~Is(s, "extracted")
  BY DEF Marks, Marked, Is
<1>3. CASE Connect(s)
  BY <1>1, <1>2, <1>3, MarksMove DEF Connect, Bodiless, world, bodies, server
<1>4. CASE BadPassword(s)
  BY <1>1, <1>2, <1>4, MarksMove, QuitKept DEF BadPassword, Bodiless, world, bodies, server
<1>5. CASE TallyBadPassword(s)
  BY <1>1, <1>2, <1>5, MarksMove, QuitKept DEF TallyBadPassword, Bodiless, world, bodies, server
<1>6. CASE Authenticate(s)
  BY <1>1, <1>2, <1>6, MarksMove DEF Authenticate, Bodiless, server
<1>7. CASE UpgradeCredential(s)
  BY <1>1, <1>2, <1>7, MarksMove DEF UpgradeCredential, Bodiless, world, bodies, server
<1>8. CASE Refuse(s)
  <2>1. /\ at[s] = "loaded" /\ Goto(s, "ended") /\ char[s] = None
        /\ \A t \in Conns \ {s} : flags'[t] = flags[t]
        /\ flags'[s] = flags[s] \cup {"closed"}
        /\ UNCHANGED <<state, char, local, client, job>>
    BY <1>1, <1>8 DEF Refuse, Bodiless, Mark, TypeInv, SessionTypes, world, bodies, server
  <2>2. at'[s] = "ended"
    BY <2>1 DEF Goto, TypeInv, SessionTypes
  <2>3. Marked(s)'
    BY <2>1, <2>2 DEF Marks, Marked, Is
  <2> QED
    BY <2>1, <2>3, MarksGo, PendingKept
<1>9. CASE DupeCheck(s)
  BY <1>9, DupeCheckMarks
<1>10. CASE Adopt(s)
  <2>1. /\ at[s] = "adopting" /\ Goto(s, "reading") /\ char[s] = None
        /\ \A t \in Conns \ {s} : state'[t] = state[t] /\ char'[t] = char[t]
        /\ char'[s] # None /\ state'[s] = "playing"
        /\ UNCHANGED <<flags, client, job>>
    BY <1>1, <1>10, Numbers
       DEF Adopt, Bodiless, TypeInv, SessionTypes, SessionSized, world, bodies, server
  <2>2. at'[s] = "reading"
    BY <2>1 DEF Goto, TypeInv, SessionTypes
  <2>3. \A t \in Conns : local'[t].quit = local[t].quit
    BY <1>10, QuitKept DEF Adopt
  <2>4. Marked(s)'
    BY <2>1, <2>2, <2>3 DEF Marks, Marked, Is
  <2> QED
    BY <2>1, <2>3, <2>4, MarksGo, PendingKept
<1>11. CASE ToMenu(s)
  <2>1. /\ at[s] = "fresh" /\ Goto(s, "reading") /\ char[s] = None
        /\ \A t \in Conns \ {s} : state'[t] = state[t] /\ char'[t] = char[t]
        /\ char'[s] # None /\ state'[s] = "menu"
        /\ UNCHANGED <<flags, local, client, job>>
    BY <1>1, <1>11, Numbers
       DEF ToMenu, Bodiless, TypeInv, SessionTypes, SessionSized, world, bodies, server, Bodies
  <2>2. at'[s] = "reading"
    BY <2>1 DEF Goto, TypeInv, SessionTypes
  <2>4. Marked(s)'
    BY <2>1, <2>2 DEF Marks, Marked, Is
  <2> QED
    BY <2>1, <2>4, MarksGo, PendingKept
<1>12. QED
  BY <1>3, <1>4, <1>5, <1>6, <1>7, <1>8, <1>9, <1>10, <1>11 DEF Login

\* Entering the world leaves everybody's marks in order.
LEMMA EnterMarks ==
    ASSUME Orderly, TypeInv, OwnInv, Solo, Marks, NEW s \in Conns, Enter(s)
    PROVE  Marks'
<1> USE DEF Ending, Driving, Places
<1>1. /\ at[s] \in Driving \cup {"reading"} => char[s] \in Bodies
      /\ Is(s, "extracted") => at[s] \in {"reading", "ended", "gone"}
  BY DEF TypeInv, SessionSized, Embodied, Marks, Marked
<1>2. CASE ChooseEnter(s)
  <2>1. /\ at[s] = "reading" /\ state[s] = "menu" /\ ~Is(s, "closed") /\ ~Is(s, "extracted")
        /\ Goto(s, "entering") /\ client' = [client EXCEPT ![char[s]] = s]
        /\ UNCHANGED <<state, char, flags, local, job>>
    BY <1>2 DEF ChooseEnter, Orderly, server
  <2>2. at'[s] = "entering"
    BY <2>1 DEF Goto, TypeInv, SessionTypes
  <2>3. client'[char[s]] = s
    BY <1>1, <2>1 DEF TypeInv, WorldTypes
  <2>4. \A t \in Conns \ {s} : at[t] \notin Driving
    BY <1>2, TurnMeans DEF ChooseEnter, Busy
  <2>5. ~Is(s, "displaced")
    BY <2>1 DEF OwnInv, Is
  <2>6. Marked(s)'
    BY <1>1, <2>1, <2>2, <2>3, <2>5, Numbers, PendingKept DEF Marks, Marked, Is
  <2> QED
    BY <2>1, <2>4, <2>6, MarksGo, PendingKept
<1>3. CASE EnterRoom(s)
  BY <1>1, <1>3, MarksMove DEF EnterRoom, bodies, server
<1>4. CASE LoadObjects(s)
  BY <1>1, <1>4, MarksMove, QuitKept DEF LoadObjects, world, bodies, server
<1>5. CASE Forfeit(s)
  BY <1>1, <1>5, MarksMove, QuitKept DEF Forfeit, server
<1>6. CASE ForfeitWrite(s)
  BY <1>1, <1>6, MarksMove, QuitKept DEF ForfeitWrite, world, bodies, server
<1>7. CASE RestoreObjects(s)
  BY <1>1, <1>7, MarksMove, QuitKept DEF RestoreObjects, server
<1>8. CASE MarkRestored(s)
  BY <1>1, <1>8, MarksMove DEF MarkRestored, world, bodies, server
<1>9. CASE Entered(s)
  <2>1. /\ at[s] = "entered" /\ Goto(s, "reading") /\ char[s] # None
        /\ \A t \in Conns \ {s} : state'[t] = state[t] /\ flags'[t] = flags[t]
        /\ state'[s] = "playing" /\ flags'[s] = flags[s] \ {"extracted"}
        /\ UNCHANGED <<char, local, client, job>>
    BY <1>1, <1>9, Numbers DEF Entered, TypeInv, SessionTypes, world, bodies, server
  <2>2. at'[s] = "reading"
    BY <2>1 DEF Goto, TypeInv, SessionTypes
  <2>3. Marked(s)'
    BY <1>1, <2>1, <2>2, PendingKept DEF Marks, Marked, Is
  <2> QED
    BY <2>1, <2>3, MarksGo, PendingKept
<1>10. QED
  BY <1>2, <1>3, <1>4, <1>5, <1>6, <1>7, <1>8, <1>9 DEF Enter

\* Whoever is doing something has the body they do it with.
LEMMA Doing ==
    ASSUME TypeInv, Marks, NEW s \in Conns, at[s] = "doing"
    PROVE  /\ char[s] \in Bodies /\ client[char[s]] = s
           /\ ~Is(s, "displaced") /\ ~Is(s, "rented") /\ ~Is(s, "extracted") /\ ~Is(s, "quit")
           /\ state[s] = "playing" /\ ~local[s].quit
  BY DEF Marks, Marked, Driving, Ending, Is, TypeInv, SessionSized, Embodied

\* A command marks its own session only, as leaving the world or as checked in.
LEMMA CommandMarks ==
    ASSUME Orderly, TypeInv, OwnInv, Solo, Marks, NEW s \in Conns, Command(s)
    PROVE  Marks'
<1> USE DEF Ending, Driving, Places
<1>1. CASE TypeCommand(s)
  <2>1. /\ at[s] = "reading" /\ state[s] = "playing" /\ ~Is(s, "closed")
        /\ Goto(s, "doing") /\ char[s] \in Bodies
        /\ UNCHANGED <<state, char, flags, local, client, job>>
    BY <1>1 DEF TypeCommand, world, bodies, server, TypeInv, SessionSized, Embodied
  <2>2. at'[s] = "doing"
    BY <2>1 DEF Goto, TypeInv, SessionTypes
  <2>3. ~RentPending(s)
    BY <1>1, TurnMeans DEF TypeCommand, Writing, RentPending, Renting, Idle
  <2>4. ~Is(s, "rented") /\ ~Is(s, "displaced") /\ ~Is(s, "extracted")
    BY <2>1, <2>3 DEF Marks, Marked, OwnInv, Is
  <2>5. client[char[s]] = s
    BY <2>1, <2>4 DEF OwnInv, Drives, Is
  <2>6. Marked(s)'
    BY <2>1, <2>2, <2>4, <2>5, Numbers, PendingKept DEF Marks, Marked, Is
  <2> QED
    BY <2>1, <2>6, MarksGo, PendingKept
<1>2. CASE Play(s)
  BY <1>2, MarksMove DEF Play, server
<1>3. CASE Look(s)
  BY <1>3, MarksMove DEF Look, world, bodies, server
<1>4. ASSUME at[s] = "doing" PROVE \A t \in Conns : ~RentPending(t)
  BY <1>4, NoRentPending DEF Busy
<1>5. CASE Quit(s)
  <2>1. /\ at[s] = "doing" /\ Goto(s, "reading")
        /\ Mark({s}, {"quit", "extracted"}) /\ state' = [state EXCEPT ![s] = "menu"]
        /\ UNCHANGED <<char, local, client>>
    BY <1>5 DEF Quit, bodies
  <2>2. at'[s] = "reading" /\ state'[s] = "menu" /\ flags'[s] = flags[s] \cup {"quit", "extracted"}
    BY <2>1 DEF Goto, Mark, TypeInv, SessionTypes
  <2>3. \A t \in Conns \ {s} : flags'[t] = flags[t] /\ state'[t] = state[t]
    BY <2>1 DEF Mark, TypeInv, SessionTypes
  <2>4. Marked(s)'
    BY <2>1, <2>2, Doing, Numbers DEF Marked, Is
  <2> QED
    BY <1>4, <2>1, <2>3, <2>4, MarksGo
<1>6. CASE DeathTrap(s)
  <2>1. /\ at[s] = "doing" /\ Goto(s, "reading") /\ client[char[s]] = s
        /\ Mark({s}, {"extracted"}) /\ state' = [t \in Conns |-> IF t = s THEN "menu" ELSE state[t]]
        /\ UNCHANGED <<char, local, client>>
    BY <1>6, Doing DEF DeathTrap
  <2>2. at'[s] = "reading" /\ state'[s] = "menu" /\ flags'[s] = flags[s] \cup {"extracted"}
    BY <2>1 DEF Goto, Mark, TypeInv, SessionTypes
  <2>3. \A t \in Conns \ {s} : flags'[t] = flags[t] /\ state'[t] = state[t]
    BY <2>1 DEF Mark, TypeInv, SessionTypes
  <2>4. Marked(s)'
    BY <2>1, <2>2, Doing, Numbers DEF Marked, Is
  <2> QED
    BY <1>4, <2>1, <2>3, <2>4, MarksGo
<1>7. CASE Rent(s)
  <2>1. /\ at[s] = "doing" /\ Goto(s, "reading") /\ client[char[s]] = s /\ "rent" \in May
        /\ Mark({s}, {"quit", "rented"})
        /\ UNCHANGED <<state, char, local, client>>
    BY <1>7, Doing DEF Rent
  <2>2. at'[s] = "reading" /\ flags'[s] = flags[s] \cup {"quit", "rented"}
    BY <2>1 DEF Goto, Mark, TypeInv, SessionTypes
  <2>3. \A t \in Conns \ {s} : flags'[t] = flags[t]
    BY <2>1 DEF Mark, TypeInv, SessionTypes
  <2>4. RentPending(s)'
    <3>1. PICK f : Begin(f) /\ f.step = "rentObjects" /\ f.leaver = s
      BY <1>7, <2>1 DEF Rent
    <3>2. PICK i \in 1..Jobs : job' = [job EXCEPT ![i] = f]
      <4> DEFINE free == {j \in 1..Jobs : job[j] = Idle}
      <4>1. free \subseteq Nat /\ free # {} /\ job' = [job EXCEPT ![Min(free)] = f]
        BY <3>1, PresenceAssumption DEF Begin
      <4>2. Min(free) \in 1..Jobs
        BY <4>1, MinElement
      <4> QED
        BY <4>1, <4>2
    <3> QED
      BY <3>1, <3>2 DEF RentPending, Renting, TypeInv, ServerTypes
  <2>5. Marked(s)'
    BY <2>1, <2>2, <2>4, Doing, Numbers DEF Marked, Is
  <2> QED
    BY <1>4, <2>1, <2>3, <2>5, MarksGo
<1>8. QED
  BY <1>1, <1>2, <1>3, <1>5, <1>6, <1>7 DEF Command

\* A teardown forgets its session's marks once it is out of the registry.
LEMMA DepartMarks ==
    ASSUME Orderly, TypeInv, OwnInv, Solo, Marks, NEW s \in Conns, Depart(s)
    PROVE  Marks'
<1> USE DEF Ending, Driving, Places
<1>1. /\ Is(s, "extracted") => at[s] \in {"reading", "ended", "gone"}
      /\ char[s] = None => ~Is(s, "extracted")
  BY DEF Marks, Marked, Is
<1>2. CASE ReadEnds(s)
  BY <1>1, <1>2, MarksMove DEF ReadEnds, world, bodies, server
<1>3. CASE LeaveNothing(s)
  <2>1. /\ at[s] = "ended" /\ Goto(s, "gone") /\ Mark({s}, {"closed"})
        /\ UNCHANGED <<state, char, local, client, job>>
    BY <1>3 DEF LeaveNothing, world, bodies, server
  <2>2. at'[s] = "gone" /\ flags'[s] = flags[s] \cup {"closed"}
    BY <2>1 DEF Goto, Mark, TypeInv, SessionTypes
  <2>3. \A t \in Conns \ {s} : flags'[t] = flags[t]
    BY <2>1 DEF Mark, TypeInv, SessionTypes
  <2>4. Marked(s)'
    BY <2>1, <2>2, PendingKept DEF Marks, Marked, Is
  <2> QED
    BY <2>1, <2>3, <2>4, MarksGo, PendingKept
<1>4. CASE Leave(s)
  <2>1. /\ at[s] = "ended" /\ Goto(s, "saving") /\ ~Is(s, "displaced") /\ ~Is(s, "extracted")
        /\ char[s] # None
        /\ UNCHANGED <<state, char, flags, client, job>>
    BY <1>4 DEF Leave, world, bodies, server
  <2>2. at'[s] = "saving"
    BY <2>1 DEF Goto, TypeInv, SessionTypes
  <2>3. /\ local'[s].quit => Is(s, "quit")
        /\ \A t \in Conns \ {s} : local'[t] = local[t]
    BY <1>4 DEF Leave, TypeInv, SessionTypes
  <2>4. Marked(s)'
    BY <2>1, <2>2, <2>3, PendingKept DEF Marks, Marked, Is
  <2> QED
    BY <2>1, <2>3, <2>4, MarksGo, PendingKept
<1>5. CASE LeaveSnapshot(s)
  BY <1>1, <1>5, MarksMove, QuitKept DEF LeaveSnapshot, world, bodies, server
<1>6. CASE LeaveSave(s)
  BY <1>1, <1>6, MarksMove, QuitKept DEF LeaveSave, world, bodies, server
<1>7. CASE LeaveCrashFile(s)
  BY <1>1, <1>7, MarksMove, QuitKept DEF LeaveCrashFile, world, bodies, server
<1>8. CASE LeaveCrashSave(s)
  BY <1>1, <1>8, MarksMove, QuitKept DEF LeaveCrashSave, world, bodies, server
<1>9. CASE LeaveWorld(s)
  <2>1. /\ at[s] = "releasing" /\ Goto(s, "gone") /\ Mark({s}, {"closed"})
        /\ client' = [client EXCEPT ![char[s]] = IF @ = s THEN None ELSE @]
        /\ char[s] \in Bodies
        /\ UNCHANGED <<state, char, local, job>>
    BY <1>9 DEF LeaveWorld, server, TypeInv, SessionSized, Embodied
  <2>2. at'[s] = "gone" /\ flags'[s] = flags[s] \cup {"closed"}
    BY <2>1 DEF Goto, Mark, TypeInv, SessionTypes
  <2>3. \A t \in Conns \ {s} : flags'[t] = flags[t]
    BY <2>1 DEF Mark, TypeInv, SessionTypes
  <2>4. \A t \in Conns \ {s} : client[char[t]] = t => client'[char[t]] = t
    BY <2>1, Numbers DEF TypeInv, WorldTypes, SessionTypes
  <2>5. Marked(s)'
    BY <2>1, <2>2, PendingKept, Numbers DEF Marks, Marked, Is
  <2> QED
    BY <2>1, <2>3, <2>4, <2>5, MarksGo, PendingKept
<1>10. QED
  BY <1>2, <1>3, <1>4, <1>5, <1>6, <1>7, <1>8, <1>9 DEF Depart

\* A write of rent goes on for the same leaver until it closes them.
LEMMA BackgroundPending ==
    ASSUME TypeInv, NEW j \in 1..Jobs, Background(j), NEW t \in Conns, RentPending(t)
    PROVE  RentPending(t)' \/ (RentClose(j) /\ job[j].leaver = t)
<1>1. PICK k \in 1..Jobs : job[k].step \in Renting /\ job[k].leaver = t
  BY DEF RentPending
<1>2. \E f : job' = [job EXCEPT ![j] = f]
  BY DEF Background, QuitSave, QuitCrashSave, RentSaveObjects, RentSnapshot, RentSave,
         RentClose, JobStep
<1>3. CASE k # j
  BY <1>1, <1>2, <1>3 DEF RentPending, TypeInv, ServerTypes
<1>4. CASE k = j /\ ~RentClose(j)
  <2>1. job[j] \in JobType
    BY DEF TypeInv, ServerTypes
  <2>2. job'[j].step \in Renting /\ job'[j].leaver = job[j].leaver
    <3>1. CASE QuitSave(j) \/ QuitCrashSave(j)
      BY <1>1, <1>4, <3>1 DEF QuitSave, QuitCrashSave, JobStep, Renting
    <3>2. CASE RentSaveObjects(j)
      BY <2>1, <3>2 DEF RentSaveObjects, JobStep, Renting, JobType, TypeInv, ServerTypes
    <3>3. CASE RentSnapshot(j)
      BY <2>1, <3>3 DEF RentSnapshot, Renting, JobType, TypeInv, ServerTypes
    <3>4. CASE RentSave(j)
      BY <2>1, <3>4 DEF RentSave, JobStep, Renting, JobType, TypeInv, ServerTypes
    <3> QED
      BY <1>4, <3>1, <3>2, <3>3, <3>4 DEF Background
  <2> QED
    BY <1>1, <1>4, <2>2 DEF RentPending
<1> QED
  BY <1>1, <1>3, <1>4

\* Neither background(), nor the sweep, nor a kick or purge puts a mark out of order.
LEMMA ServerMarks ==
    ASSUME TypeInv, Marks,
           \/ Sweep
           \/ \E j \in 1..Jobs : Background(j)
           \/ \E b \in Bodies : Purge(b)
           \/ \E s \in Conns : Kick(s)
           \/ UNCHANGED vars
    PROVE  Marks'
<1> USE DEF session, world, rooms, bodies, server
<1>1. CASE Sweep \/ UNCHANGED vars
  <2>1. UNCHANGED <<session, bodies, job>>
    BY <1>1 DEF Sweep, SweepSnapshot, SweepSave, SweepJudge, SweepReap, vars
  <2> QED
    BY <2>1, MarkedKept, PendingKept DEF Marks
<1>2. ASSUME NEW j \in 1..Jobs, Background(j) PROVE Marks'
  <2>1. UNCHANGED <<at, state, char, local, world>>
    BY <1>2 DEF Background, QuitSave, QuitCrashSave, RentSaveObjects, RentSnapshot, RentSave,
                RentClose
  <2>2. ASSUME NEW t \in Conns
        PROVE  /\ flags'[t] = flags[t] \/ flags'[t] = flags[t] \cup {"closed"}
               /\ RentPending(t) => RentPending(t)' \/ Is(t, "closed")'
    <3>1. CASE RentClose(j)
      BY <1>2, <3>1, BackgroundPending DEF RentClose, Mark, Is, TypeInv, SessionTypes
    <3>2. CASE ~RentClose(j)
      <4>1. UNCHANGED flags
        BY <1>2, <3>2 DEF Background, QuitSave, QuitCrashSave, RentSaveObjects, RentSnapshot,
                          RentSave
      <4> QED
        BY <1>2, <3>2, <4>1, BackgroundPending
    <3> QED
      BY <3>1, <3>2
  <2>3. ASSUME NEW t \in Conns PROVE Marked(t)'
    BY <2>1, <2>2, MarkedKept DEF Marks
  <2> QED
    BY <2>3 DEF Marks
<1>3. CASE (\E b \in Bodies : Purge(b)) \/ (\E s \in Conns : Kick(s))
  <2>1. UNCHANGED <<at, state, char, local, client, job>>
    BY <1>3 DEF Purge, Kick
  <2>2. \A t \in Conns : flags'[t] = flags[t] \/ flags'[t] = flags[t] \cup {"closed"}
    BY <1>3 DEF Purge, Kick, Mark, TypeInv, SessionTypes
  <2>3. ASSUME NEW t \in Conns PROVE Marked(t)'
    BY <2>1, <2>2, MarkedKept, PendingKept DEF Marks
  <2> QED
    BY <2>3 DEF Marks
<1>4. QED
  BY <1>1, <1>2, <1>3

\* No step puts a mark out of order.
LEMMA MarksStep ==
    ASSUME Orderly, TypeInv, OwnInv, Solo, Marks, [Next]_vars
    PROVE  Marks'
  BY LoginMarks, EnterMarks, CommandMarks, DepartMarks, ServerMarks DEF Next

-----------------------------------------------------------------------------
(* Who has the player's body, and where it is.                             *)

\* A connection has a body, one it was given or built or plays, and has not lost
\* it to a later login.
Holder(s) ==
    /\ s \in Registered /\ ~Is(s, "displaced")
    /\ char[s] # None \/ at[s] \in {"adopting", "fresh"}

\* The body it has.
Owned(s) ==
    IF at[s] = "adopting" THEN local[s].body ELSE IF at[s] = "fresh" THEN s ELSE char[s]

\* Its body is out of the world: not entered yet, or back at the menu, or at an inn.
Out(s) ==
    \/ at[s] \in {"fresh", "entering"}
    \/ state[s] = "menu" /\ at[s] \notin Places.enter
    \/ Is(s, "rented")

\* At most one connection holds a body; a body in the world that has a client is
\* that connection's; and there is no other in the world than the holder's, nor
\* that one while the holder is out.
OneHolder == \A s, t \in Conns : Holder(s) /\ Holder(t) => s = t

Standing ==
    \A b \in inWorld : client[b] # None => Holder(client[b]) /\ Owned(client[b]) = b

Holding ==
    \A s \in Conns : Holder(s) =>
        /\ inWorld \subseteq {Owned(s)}
        /\ Out(s) => inWorld = {}
        /\ ~Out(s) /\ ~Is(s, "closed") /\ client[Owned(s)] = s => Owned(s) \in inWorld

\* Unless a god purges them, whoever is not out has their body in the world.
Attached ==
    "purge" \notin May =>
        \A s \in Conns : Holder(s) /\ ~Out(s) => client[Owned(s)] = s /\ Owned(s) \in inWorld

Rooms == OneHolder /\ Standing /\ Holding /\ Attached /\ IndexAgrees

\* A session is as it was, as far as its body goes.
Alike(s) ==
    /\ Holder(s)' <=> Holder(s)
    /\ Holder(s) => /\ Owned(s)' = Owned(s)
                    /\ Out(s)' <=> Out(s)
                    /\ Is(s, "closed") => Is(s, "closed")'

\* When nobody's body comes or goes the rooms stay as they are.
LEMMA RoomsAlike ==
    ASSUME TypeInv, Rooms, UNCHANGED <<inWorld, byName, client>>, \A s \in Conns : Alike(s)
    PROVE  Rooms'
<1>1. OneHolder'
  BY DEF Rooms, OneHolder, Alike
<1>2. Standing'
  <2> SUFFICES ASSUME NEW b \in inWorld, client[b] # None
               PROVE  Holder(client[b])' /\ Owned(client[b])' = b
    BY DEF Standing
  <2>1. client[b] \in Conns
    BY DEF TypeInv, WorldTypes
  <2>2. PICK c \in Conns : c = client[b]
    BY <2>1
  <2>3. Holder(c) /\ Owned(c) = b
    BY <2>2 DEF Rooms, Standing
  <2>4. Holder(c)' /\ Owned(c)' = b
    BY <2>3 DEF Alike
  <2>5. client'[b] = c
    BY <2>2
  <2> QED
    BY <2>2, <2>4, <2>5 DEF Holder, Owned, Registered, Is
<1>3. Holding'
  BY DEF Rooms, Holding, Alike
<1>4. Attached'
  BY DEF Rooms, Attached, Alike
<1> QED
  BY <1>1, <1>2, <1>3, <1>4 DEF Rooms, IndexAgrees

\* A session that no step is about is as it was, even if it is closed.
LEMMA AlikeElsewhere ==
    ASSUME NEW t \in Conns, at'[t] = at[t], char'[t] = char[t], state'[t] = state[t],
           local'[t].body = local[t].body,
           flags'[t] = flags[t] \/ flags'[t] = flags[t] \cup {"closed"}
    PROVE  Alike(t)
  BY DEF Alike, Holder, Owned, Out, Registered, Is

\* One session goes somewhere and its body is where it was.
LEMMA RoomsMove ==
    ASSUME TypeInv, Rooms, NEW s \in Conns, NEW p, Goto(s, p),
           UNCHANGED <<inWorld, byName, client, char, state>>,
           \A t \in Conns : flags'[t] = flags[t] \/ flags'[t] = flags[t] \cup {"closed"},
           \A t \in Conns \ {s} : local'[t].body = local[t].body,
           \/ char[s] = None /\ {at[s], p} \cap {"adopting", "fresh"} = {}
           \/ /\ char[s] # None /\ {at[s], p} \cap {"off", "gone", "adopting", "fresh"} = {}
              /\ p = "entering" <=> at[s] = "entering"
              /\ state[s] = "menu" => (p \in Places.enter <=> at[s] \in Places.enter)
    PROVE  Rooms'
<1>1. at'[s] = p /\ \A t \in Conns \ {s} : at'[t] = at[t]
  BY DEF Goto, TypeInv, SessionTypes
<1>2. \A t \in Conns \ {s} : Alike(t)
  BY <1>1, AlikeElsewhere
<1>3. /\ Is(s, "displaced")' <=> Is(s, "displaced")
      /\ Is(s, "rented")' <=> Is(s, "rented")
      /\ Is(s, "closed") => Is(s, "closed")'
  BY DEF Is
<1>4. ASSUME char[s] = None, {at[s], p} \cap {"adopting", "fresh"} = {}
      PROVE  Alike(s)
  BY <1>1, <1>4 DEF Alike, Holder
<1>5. ASSUME char[s] # None, {at[s], p} \cap {"off", "gone", "adopting", "fresh"} = {},
             p = "entering" <=> at[s] = "entering",
             state[s] = "menu" => (p \in Places.enter <=> at[s] \in Places.enter)
      PROVE  Alike(s)
  <2>1. s \in Registered /\ s \in Registered'
    BY <1>1, <1>5 DEF Registered
  <2>2. Holder(s)' <=> Holder(s)
    BY <1>3, <1>5, <2>1 DEF Holder
  <2>3. Owned(s)' = Owned(s)
    BY <1>1, <1>5 DEF Owned
  <2>4. Out(s)' <=> Out(s)
    BY <1>1, <1>3, <1>5, Numbers DEF Out
  <2> QED
    BY <1>3, <2>2, <2>3, <2>4 DEF Alike
<1> QED
  BY <1>2, <1>4, <1>5, RoomsAlike

\* Nobody is in the world, and whoever holds a body without being out has ended
\* or is not its client.
LEMMA RoomsEmpty ==
    ASSUME inWorld' = {}, byName' = None, OneHolder',
           \A t \in Conns : (Holder(t) /\ ~Out(t))' =>
               "purge" \in May /\ (~Is(t, "closed")' => client'[Owned(t)'] # t)
    PROVE  Rooms'
  BY DEF Rooms, Standing, Holding, Attached, IndexAgrees

\* No step of one session makes holders of others.
LEMMA HoldersElsewhere ==
    ASSUME TypeInv, NEW s \in Conns, NEW p, Goto(s, p),
           UNCHANGED char, Grown
    PROVE  \A t \in Conns \ {s} : Holder(t)' => Holder(t)
  BY DEF Grown, Goto, TypeInv, SessionTypes, Holder, Registered, Is

\* No two bodies are in the world, and the index has it.
LEMMA InWorldIsIndexed ==
    ASSUME TypeInv, Rooms, NEW b \in inWorld
    PROVE  byName = b /\ inWorld = {b}
  BY DEF Rooms, IndexAgrees

\* Whoever is not in the middle of a login has no body but its character.
LEMMA OwnedIsChar ==
    ASSUME NEW s, Holder(s), ~Busy(s)
    PROVE  Owned(s) = char[s] /\ char[s] # None /\ at[s] \notin {"adopting", "fresh", "entering"}
  BY DEF Holder, Owned, Busy, Places

\* What DupeCheck finds is the body that is in the world, if there is one, and it
\* leaves nobody else holding a body.
LEMMA DupeCheckFinds ==
    ASSUME Orderly, TypeInv, OwnInv, Solo, Marks, Rooms, NEW s \in Conns, DupeCheck(s)
    PROVE  /\ inWorld = (IF Existing(s) = None THEN {} ELSE {Existing(s)})
           /\ \A t \in Conns \ {s} : ~Holder(t)'
<1> DEFINE e == Existing(s)
<1>1. at[s] = "loaded" /\ char[s] = None /\ UNCHANGED char
  BY DEF DupeCheck, TypeInv, SessionSized, Bodiless
<1>2. \A t \in Conns \ {s} : at'[t] = at[t]
  BY DEF DupeCheck, Goto, TypeInv, SessionTypes
<1>3. Busy(s) /\ \A t \in Conns \ {s} : ~Busy(t)
  BY <1>1 DEF Solo, Busy, Places
<1>4. \A t : ~RentPending(t)
  BY <1>3, NoRentPending
<1>5. ASSUME NEW t \in Conns \ {s} PROVE ~Holder(t)'
  <2>1. at'[t] \notin {"adopting", "fresh"}
    BY <1>2, <1>3 DEF Busy, Places
  <2>2. ASSUME Holder(t)', t \in Others(s) PROVE FALSE
    BY <2>2 DEF DupeCheck, Mark, Holder, Is, TypeInv, SessionTypes
  <2>3. Holder(t)' => t \in Others(s)
    BY <1>1, <1>2, <2>1 DEF Holder, Others, Registered
  <2> QED
    BY <2>2, <2>3
<1>6. ~Holder(s)
  BY <1>1 DEF Holder
\* A body in the world is the index's, and DupeCheck's first pass frees it.
<1>7. ASSUME NEW b \in inWorld PROVE b = byName /\ b \in Bodies /\ Freed(s)[b] = None
  <2>1. b = byName /\ b \in Bodies
    BY <1>7, InWorldIsIndexed DEF TypeInv, WorldTypes
  <2>2. ASSUME client[b] # None PROVE client[b] \in Others(s) /\ char[client[b]] = b
    <3>1. PICK c \in Conns : c = client[b]
      BY <2>1, <2>2 DEF TypeInv, WorldTypes
    <3>2. Holder(c) /\ Owned(c) = b
      BY <1>7, <2>2, <3>1 DEF Rooms, Standing
    <3>3. c # s
      BY <1>6, <3>2
    <3>4. char[c] = b /\ char[c] # None
      BY <1>3, <3>2, <3>3, OwnedIsChar
    <3> QED
      BY <3>1, <3>2, <3>3, <3>4 DEF Others, Holder
  <2>3. Freed(s)[b] = None
    BY <2>1, <2>2 DEF Freed
  <2> QED
    BY <2>1, <2>3
<1>8. byName \in inWorld \/ inWorld = {}
  BY DEF Rooms, IndexAgrees
<1>9. CASE Donors(s) # {}
  <2>1. PICK d \in Donors(s) : e = char[d]
    BY <1>9, DonorFound DEF Existing
  <2>2. /\ d \in Registered /\ d \in Conns /\ d # s /\ char[d] # None
        /\ state[d] = "playing" /\ client[char[d]] = d /\ ~Is(d, "closed")
    BY DEF Donors, Others, Registered
  <2>3. ~Is(d, "displaced")
    BY <2>2 DEF OwnInv, Is
  <2>4. Holder(d)
    BY <2>2, <2>3 DEF Holder
  <2>5. Owned(d) = e /\ at[d] \notin {"fresh", "entering"}
    BY <1>3, <2>1, <2>2, <2>4, OwnedIsChar
  <2>6. ~Out(d)
    BY <1>4, <2>2, <2>5 DEF Out, Marks, Marked
  <2>7. inWorld = {e} /\ e # None
    BY <2>1, <2>2, <2>4, <2>5, <2>6 DEF Rooms, Holding
  <2> QED
    BY <1>5, <2>7
<1>10. CASE Donors(s) = {}
  <2>1. e = IF byName # None /\ Freed(s)[byName] = None THEN byName ELSE None
    BY <1>10 DEF Existing
  <2>2. inWorld = IF e = None THEN {} ELSE {e}
    BY <1>7, <1>8, <2>1, Numbers DEF Rooms, IndexAgrees
  <2> QED
    BY <1>5, <2>2
<1> QED
  BY <1>9, <1>10

\* So the login is the only holder, of that body.
LEMMA DupeCheckRooms ==
    ASSUME Orderly, TypeInv, OwnInv, Solo, Marks, Rooms, NEW s \in Conns, DupeCheck(s)
    PROVE  Rooms'
<1> DEFINE e == Existing(s)
<1>1. /\ at[s] = "loaded" /\ char[s] = None
      /\ client' = [b \in Bodies |-> IF b = e THEN s ELSE Freed(s)[b]]
      /\ UNCHANGED <<state, char, inWorld, byName>>
  BY DEF DupeCheck, rooms, TypeInv, SessionSized, Bodiless
<1>2. /\ at'[s] = IF e = None THEN "fresh" ELSE "adopting"
      /\ local'[s].body = e
  BY DEF DupeCheck, Goto, TypeInv, SessionTypes
<1>3. /\ inWorld = (IF e = None THEN {} ELSE {e})
      /\ \A t \in Conns \ {s} : ~Holder(t)'
  BY DupeCheckFinds
<1>4. e \in Bodies \cup {None}
  BY ExistingIsBody DEF TypeInv
<1>5. ~Is(s, "displaced") /\ ~Is(s, "rented") /\ state[s] = "login"
  BY <1>1 DEF Marks, Marked, Is
<1>6. flags'[s] = flags[s]
  BY <1>1 DEF DupeCheck, Mark, Others, TypeInv, SessionTypes
<1>7. Holder(s)'
  BY <1>2, <1>5, <1>6 DEF Holder, Registered, Is
<1> HIDE DEF e
<1>8. OneHolder'
  BY <1>3 DEF OneHolder
<1>9. IndexAgrees'
  BY <1>1 DEF Rooms, IndexAgrees
<1>10. CASE e = None
  BY <1>1, <1>2, <1>3, <1>8, <1>9, <1>10 DEF Rooms, Standing, Holding, Attached, Out
<1>11. CASE e # None
  <2>1. Owned(s)' = e /\ at'[s] = "adopting"
    BY <1>2, <1>11 DEF Owned
  <2>2. ~Out(s)'
    BY <1>1, <1>5, <1>6, <2>1 DEF Out, Is
  <2>3. client'[e] = s
    BY <1>1, <1>4, <1>11
  <2>4. Standing'
    BY <1>1, <1>3, <1>7, <1>11, <2>1, <2>3 DEF Standing
  <2>5. Holding'
    BY <1>1, <1>3, <1>11, <2>1, <2>2 DEF Holding
  <2>6. Attached'
    BY <1>1, <1>3, <1>11, <2>1, <2>3 DEF Attached
  <2> QED
    BY <1>8, <1>9, <2>4, <2>5, <2>6 DEF Rooms
<1> QED
  BY <1>10, <1>11

\* What a handler reads and forgets is not the body it was given.
LEMMA BodiesKept ==
    ASSUME TypeInv, NEW s \in Conns,
           \/ \E n : Read(s, n)
           \/ Forget(s)
           \/ UNCHANGED local
    PROVE  \A t \in Conns \ {s} : local'[t].body = local[t].body
  BY DEF Read, Forget, TypeInv, SessionTypes

\* A login that adopts the body it was given, or goes to the menu with its own, had
\* it already.
LEMMA TakesItsBody ==
    ASSUME TypeInv, Marks, NEW s \in Conns, Adopt(s) \/ ToMenu(s)
    PROVE  \A t \in Conns : Alike(t)
<1>1. /\ at[s] \in {"adopting", "fresh"} /\ char[s] = None
      /\ Goto(s, "reading")
      /\ char' = [char EXCEPT ![s] = Owned(s)]
      /\ state'[s] = IF at[s] = "fresh" THEN "menu" ELSE "playing"
      /\ \A t \in Conns \ {s} : state'[t] = state[t] /\ local'[t].body = local[t].body
      /\ UNCHANGED flags
  BY BodiesKept
     DEF Adopt, ToMenu, Owned, Bodiless, TypeInv, SessionTypes, SessionSized
<1>2. at'[s] = "reading" /\ \A t \in Conns \ {s} : at'[t] = at[t]
  BY <1>1 DEF Goto, TypeInv, SessionTypes
<1>3. Owned(s) # None
  BY <1>1, Numbers DEF Owned, TypeInv, SessionSized, Bodies
<1>4. char'[s] = Owned(s) /\ \A t \in Conns \ {s} : char'[t] = char[t]
  BY <1>1 DEF TypeInv, SessionTypes
<1>5. \A t \in Conns \ {s} : Alike(t)
  BY <1>1, <1>2, <1>4, AlikeElsewhere
<1>6. Holder(s)' <=> Holder(s)
  BY <1>1, <1>2, <1>3, <1>4 DEF Holder, Registered, Is
<1>7. Owned(s)' = Owned(s)
  BY <1>2, <1>4 DEF Owned
<1>8. state[s] = "login" /\ ~Is(s, "rented")
  BY <1>1 DEF Marks, Marked, Is
<1>9. Out(s)' <=> Out(s)
  BY <1>1, <1>2, <1>8 DEF Out, Is, Places
<1>10. Alike(s)
  BY <1>1, <1>6, <1>7, <1>9 DEF Alike, Is
<1> QED
  BY <1>5, <1>10

\* A login comes to have a body by the dupe check, and no other way.
LEMMA LoginRooms ==
    ASSUME Orderly, TypeInv, OwnInv, Solo, Marks, Rooms, NEW s \in Conns, Login(s)
    PROVE  Rooms'
<1> USE DEF Places
<1>1. at[s] \in Bodiless => char[s] = None
  BY DEF TypeInv, SessionSized
<1>2. CASE Connect(s)
  BY <1>1, <1>2, RoomsMove DEF Connect, Bodiless, world, rooms, bodies
<1>3. CASE BadPassword(s)
  BY <1>1, <1>3, RoomsMove, BodiesKept DEF BadPassword, Bodiless, world, rooms, bodies
<1>4. CASE TallyBadPassword(s)
  BY <1>1, <1>4, RoomsMove, BodiesKept DEF TallyBadPassword, Bodiless, world, rooms, bodies
<1>5. CASE Authenticate(s)
  BY <1>1, <1>5, RoomsMove DEF Authenticate, Bodiless, rooms
<1>6. CASE UpgradeCredential(s)
  BY <1>1, <1>6, RoomsMove DEF UpgradeCredential, Bodiless, world, rooms, bodies
<1>7. CASE Refuse(s)
  <2>1. \A t \in Conns : flags'[t] = flags[t] \/ flags'[t] = flags[t] \cup {"closed"}
    BY <1>7 DEF Refuse, Mark, TypeInv, SessionTypes
  <2> QED
    BY <1>1, <1>7, <2>1, RoomsMove DEF Refuse, Bodiless, world, rooms, bodies
<1>8. CASE DupeCheck(s)
  BY <1>8, DupeCheckRooms
<1>9. CASE Adopt(s) \/ ToMenu(s)
  <2>1. \A t \in Conns : Alike(t)
    BY <1>9, TakesItsBody
  <2> QED
    BY <1>9, <2>1, RoomsAlike DEF Adopt, ToMenu, world, rooms, bodies
<1>10. QED
  BY <1>2, <1>3, <1>4, <1>5, <1>6, <1>7, <1>8, <1>9 DEF Login

\* Entering puts the holder's body in the world, and no other.
LEMMA EnterRooms ==
    ASSUME Orderly, TypeInv, OwnInv, Solo, Marks, Rooms, NEW s \in Conns, Enter(s)
    PROVE  Rooms'
<1> USE DEF Places
<1>1. /\ at[s] \in Embodied => char[s] \in Bodies /\ char[s] # None
      /\ Marked(s)
  BY Numbers DEF TypeInv, SessionSized, Marks
<1>2. CASE ChooseEnter(s)
  <2>1. /\ at[s] = "reading" /\ state[s] = "menu" /\ ~Is(s, "closed")
        /\ Goto(s, "entering") /\ client' = [client EXCEPT ![char[s]] = s]
        /\ UNCHANGED <<state, char, flags, local, inWorld, byName>>
    BY <1>2 DEF ChooseEnter, rooms
  <2>2. Holder(s)
    BY <1>1, <2>1 DEF Holder, Registered, OwnInv, Is, Embodied
  <2>3. inWorld = {}
    BY <2>1, <2>2 DEF Rooms, Holding, Out
  <2>4. byName = None
    BY <2>3, Numbers DEF Rooms, IndexAgrees
  <2>5. Grown
    BY <2>1 DEF Grown
  <2>6. \A t \in Conns \ {s} : ~Holder(t)'
    BY <2>1, <2>2, <2>5, HoldersElsewhere DEF Rooms, OneHolder
  <2>7. Out(s)'
    BY <2>1 DEF Out, Goto, TypeInv, SessionTypes
  <2>8. OneHolder'
    BY <2>6 DEF OneHolder
  <2> QED
    BY <2>1, <2>3, <2>4, <2>6, <2>7, <2>8, RoomsEmpty
<1>3. CASE EnterRoom(s)
  <2>1. /\ at[s] = "entering" /\ Goto(s, "loading")
        /\ inWorld' = inWorld \cup {char[s]} /\ byName' = char[s]
        /\ UNCHANGED <<state, char, flags, local, client>>
    BY <1>3 DEF EnterRoom, WorldEnter, bodies
  <2>2. char[s] # None /\ client[char[s]] = s /\ ~Is(s, "displaced") /\ ~Is(s, "rented")
        /\ state[s] = "menu"
    BY <1>1, <2>1 DEF Marked, Driving, Embodied
  <2>3. Holder(s)
    BY <2>1, <2>2 DEF Holder, Registered
  <2>4. inWorld = {}
    BY <2>1, <2>3 DEF Rooms, Holding, Out
  <2>5. Grown
    BY <2>1 DEF Grown
  <2>6. \A t \in Conns \ {s} : ~Holder(t)'
    BY <2>1, <2>3, <2>5, HoldersElsewhere DEF Rooms, OneHolder
  <2>7. at'[s] = "loading"
    BY <2>1 DEF Goto, TypeInv, SessionTypes
  <2>8. Holder(s)' /\ Owned(s)' = char[s] /\ ~Out(s)'
    BY <2>1, <2>2, <2>7 DEF Holder, Owned, Out, Registered, Is
  <2>9. OneHolder'
    BY <2>6 DEF OneHolder
  <2>10. Standing'
    BY <2>1, <2>2, <2>4, <2>8 DEF Standing
  <2>11. Holding'
    BY <2>1, <2>4, <2>6, <2>8 DEF Holding
  <2>12. Attached'
    BY <2>1, <2>2, <2>6, <2>8 DEF Attached
  <2> QED
    BY <2>1, <2>2, <2>4, <2>9, <2>10, <2>11, <2>12 DEF Rooms, IndexAgrees
<1>4. CASE LoadObjects(s)
  BY <1>1, <1>4, RoomsMove, BodiesKept DEF LoadObjects, Embodied, world, rooms, bodies
<1>5. CASE Forfeit(s)
  BY <1>1, <1>5, RoomsMove, BodiesKept DEF Forfeit, Embodied, rooms
<1>6. CASE ForfeitWrite(s)
  BY <1>1, <1>6, RoomsMove, BodiesKept DEF ForfeitWrite, Embodied, world, rooms, bodies
<1>7. CASE RestoreObjects(s)
  BY <1>1, <1>7, RoomsMove, BodiesKept DEF RestoreObjects, Embodied, rooms
<1>8. CASE MarkRestored(s)
  BY <1>1, <1>8, RoomsMove DEF MarkRestored, Embodied, world, rooms, bodies
<1>9. CASE Entered(s)
  <2>1. /\ at[s] = "entered" /\ Goto(s, "reading") /\ char[s] # None /\ state[s] = "menu"
        /\ ~Is(s, "rented")
        /\ \A t \in Conns \ {s} : state'[t] = state[t] /\ flags'[t] = flags[t]
        /\ state'[s] = "playing" /\ flags'[s] = flags[s] \ {"extracted"}
        /\ UNCHANGED <<char, local, inWorld, byName, client>>
    BY <1>1, <1>9
       DEF Entered, Marked, Embodied, TypeInv, SessionTypes, world, rooms, bodies
  <2>2. at'[s] = "reading" /\ \A t \in Conns \ {s} : at'[t] = at[t]
    BY <2>1 DEF Goto, TypeInv, SessionTypes
  <2>3. \A t \in Conns \ {s} : Alike(t)
    BY <2>1, <2>2, AlikeElsewhere
  <2>4. Alike(s)
    BY <2>1, <2>2 DEF Alike, Holder, Owned, Out, Registered, Is
  <2> QED
    BY <2>1, <2>3, <2>4, RoomsAlike
<1>10. QED
  BY <1>2, <1>3, <1>4, <1>5, <1>6, <1>7, <1>8, <1>9 DEF Enter

\* Whoever does something that takes their body out of the world is out.
LEMMA RoomsLeft ==
    ASSUME TypeInv, Marks, Rooms, NEW s \in Conns,
           at[s] = "doing", Goto(s, "reading"), WorldRemove(char[s]),
           UNCHANGED <<char, client>>, Grown,
           state'[s] = "menu" \/ Is(s, "rented")'
    PROVE  Rooms'
<1>1. char[s] # None /\ ~Is(s, "displaced")
  BY Doing, Numbers
<1>2. Holder(s) /\ Owned(s) = char[s]
  BY <1>1 DEF Holder, Owned, Registered
<1>3. inWorld' = {} /\ byName' = None
  BY <1>2 DEF Rooms, Holding, WorldRemove
<1>4. \A t \in Conns \ {s} : ~Holder(t)'
  BY <1>2, HoldersElsewhere DEF Rooms, OneHolder
<1>5. Out(s)'
  BY DEF Out, Places, Goto, TypeInv, SessionTypes
<1>6. OneHolder'
  BY <1>4 DEF OneHolder
<1> QED
  BY <1>3, <1>4, <1>5, <1>6, RoomsEmpty

\* A command takes no body out of the world but the session's own.
LEMMA CommandRooms ==
    ASSUME Orderly, TypeInv, OwnInv, Solo, Marks, Rooms, NEW s \in Conns, Command(s)
    PROVE  Rooms'
<1> USE DEF Places
<1>1. at[s] \in Embodied => char[s] # None
  BY Numbers DEF TypeInv, SessionSized
<1>2. CASE TypeCommand(s)
  BY <1>1, <1>2, RoomsMove DEF TypeCommand, Embodied, world, rooms, bodies
<1>3. ASSUME at[s] = "doing" PROVE state[s] = "playing"
  BY <1>3, Doing
<1>4. CASE Play(s)
  BY <1>1, <1>3, <1>4, RoomsMove DEF Play, Embodied, rooms
<1>5. CASE Look(s)
  BY <1>1, <1>3, <1>5, RoomsMove DEF Look, Embodied, world, rooms, bodies
<1>6. CASE Quit(s)
  <2>1. Grown
    BY <1>6, MarkGrows DEF Quit, TypeInv
  <2>2. state'[s] = "menu"
    BY <1>6 DEF Quit, TypeInv, SessionTypes
  <2> QED
    BY <1>6, <2>1, <2>2, RoomsLeft DEF Quit, Extract, bodies
<1>7. CASE DeathTrap(s)
  <2>1. Grown
    BY <1>7, MarkGrows DEF DeathTrap, TypeInv
  <2>2. state'[s] = "menu"
    BY <1>7, Doing DEF DeathTrap, TypeInv, SessionTypes
  <2> QED
    BY <1>7, <2>1, <2>2, RoomsLeft DEF DeathTrap, Extract
<1>8. CASE Rent(s)
  <2>1. Grown
    BY <1>8, MarkGrows DEF Rent, TypeInv
  <2>2. Is(s, "rented")'
    BY <1>8, Doing DEF Rent, Is, Mark, TypeInv, SessionTypes
  <2> QED
    BY <1>8, <2>1, <2>2, RoomsLeft DEF Rent
<1>9. QED
  BY <1>2, <1>4, <1>5, <1>6, <1>7, <1>8 DEF Command

\* A session that is gone leaves no body behind that it is the client of.
LEMMA RoomsGone ==
    ASSUME TypeInv, Rooms, NEW s \in Conns, Goto(s, "gone"), Mark({s}, {"closed"}),
           UNCHANGED <<state, char, local, inWorld, byName>>,
           \A b \in Bodies : client'[b] \in {client[b], None},
           \A b \in Bodies : client[b] # s => client'[b] = client[b],
           \A b \in inWorld : client'[b] # s
    PROVE  Rooms'
<1>1. at'[s] = "gone" /\ \A t \in Conns \ {s} : at'[t] = at[t]
  BY DEF Goto, TypeInv, SessionTypes
<1>2. ~Holder(s)'
  BY <1>1 DEF Holder, Registered
<1>3. \A t \in Conns \ {s} : Alike(t)
  <2>1. \A t \in Conns \ {s} : flags'[t] = flags[t]
    BY DEF Mark, TypeInv, SessionTypes
  <2> QED
    BY <1>1, <2>1, AlikeElsewhere
<1>4. OneHolder'
  BY <1>2, <1>3 DEF Rooms, OneHolder, Alike
<1>5. Standing'
  <2>1. ASSUME NEW b \in inWorld, client'[b] # None
        PROVE  \E c \in Conns : client'[b] = c /\ Holder(c)' /\ Owned(c)' = b
    <3>1. b \in Bodies
      BY DEF TypeInv, WorldTypes
    <3>2. PICK c \in Conns : c = client[b] /\ client'[b] = c /\ c # s
      BY <2>1, <3>1 DEF TypeInv, WorldTypes
    <3>3. Holder(c) /\ Owned(c) = b
      BY <3>2, Numbers DEF Rooms, Standing
    <3> QED
      BY <1>3, <3>2, <3>3 DEF Alike
  <2> QED
    BY <2>1 DEF Standing, Holder, Owned, Registered, Is
<1>6. Holding'
  <2> SUFFICES ASSUME NEW t \in Conns, Holder(t)'
               PROVE  /\ inWorld \subseteq {Owned(t)'}
                      /\ Out(t)' => inWorld = {}
                      /\ ~Out(t)' /\ ~Is(t, "closed")' /\ client'[Owned(t)'] = t =>
                            Owned(t)' \in inWorld
    BY DEF Holding
  <2>1. t # s
    BY <1>2
  <2>2. Holder(t) /\ Owned(t)' = Owned(t) /\ (Out(t)' <=> Out(t))
        /\ (Is(t, "closed") => Is(t, "closed")')
    BY <1>3, <2>1 DEF Alike
  <2>3. Owned(t) \in Bodies
    BY <2>2 DEF Holder, Owned, TypeInv, SessionTypes, SessionSized, Bodies, Registered
  <2>4. client'[Owned(t)] = t => client[Owned(t)] = t
    BY <2>3, Numbers
  <2> QED
    BY <2>2, <2>4 DEF Rooms, Holding
<1>7. Attached'
  <2> SUFFICES ASSUME "purge" \notin May, NEW t \in Conns, Holder(t)', ~Out(t)'
               PROVE  client'[Owned(t)'] = t /\ Owned(t)' \in inWorld
    BY DEF Attached
  <2>1. t # s
    BY <1>2
  <2>2. Holder(t) /\ Owned(t)' = Owned(t) /\ ~Out(t)
    BY <1>3, <2>1 DEF Alike
  <2>3. Owned(t) \in inWorld /\ client[Owned(t)] = t
    BY <2>2 DEF Rooms, Attached
  <2> QED
    BY <2>1, <2>2, <2>3 DEF TypeInv, WorldTypes
<1> QED
  BY <1>4, <1>5, <1>6, <1>7 DEF Rooms, IndexAgrees

\* A teardown takes nothing out of the world that is still in it.
LEMMA LeaveWorldStays ==
    ASSUME Orderly, TypeInv, Marks, Rooms, NEW s \in Conns, LeaveWorld(s)
    PROVE  UNCHANGED <<inWorld, byName>>
<1>1. at[s] = "releasing" /\ char[s] # None
  BY Numbers DEF LeaveWorld, Embodied, TypeInv, SessionSized
<1>2. CASE local[s].quit
  <2>1. Is(s, "rented") /\ ~Is(s, "displaced")
    BY <1>1, <1>2 DEF Marks, Marked, Ending, Orderly
  <2>2. Holder(s)
    BY <1>1, <2>1 DEF Holder, Registered
  <2>3. inWorld = {}
    BY <2>1, <2>2 DEF Rooms, Holding, Out
  <2>4. byName = None
    BY <2>3 DEF Rooms, IndexAgrees
  <2> QED
    BY <1>2, <2>3, <2>4 DEF LeaveWorld, WorldRemove
<1>3. CASE ~local[s].quit
  BY <1>3 DEF LeaveWorld, rooms
<1> QED
  BY <1>2, <1>3

\* A teardown takes no body out of the world that another connection has come to.
LEMMA DepartRooms ==
    ASSUME Orderly, TypeInv, OwnInv, Solo, Marks, Rooms, NEW s \in Conns, Depart(s)
    PROVE  Rooms'
<1> USE DEF Places
<1>1. /\ at[s] \in Embodied => char[s] \in Bodies /\ char[s] # None
      /\ at[s] = "prompt" => char[s] = None
  BY Numbers DEF TypeInv, SessionSized, Bodiless
<1>2. CASE ReadEnds(s)
  BY <1>1, <1>2, RoomsMove DEF ReadEnds, Embodied, world, rooms, bodies
<1>3. CASE LeaveNothing(s)
  <2>1. /\ at[s] = "ended"
        /\ char[s] = None \/ Is(s, "displaced") \/ Is(s, "extracted")
        /\ UNCHANGED <<client, inWorld, byName>>
    BY <1>3 DEF LeaveNothing, world, rooms, bodies
  <2>2. ASSUME NEW b \in inWorld, client[b] = s PROVE FALSE
    <3>1. Holder(s)
      BY <2>2, Numbers DEF Rooms, Standing
    <3>2. Is(s, "extracted")
      BY <2>1, <3>1 DEF Holder
    <3>3. Out(s)
      BY <2>1, <3>2 DEF Marks, Marked, Out
    <3> QED
      BY <2>2, <3>1, <3>3 DEF Rooms, Holding
  <2> QED
    BY <1>3, <2>1, <2>2, RoomsGone DEF LeaveNothing
<1>4. CASE Leave(s)
  <2>1. \A t \in Conns \ {s} : local'[t].body = local[t].body
    BY <1>4 DEF Leave, TypeInv, SessionTypes
  <2> QED
    BY <1>4, <2>1, RoomsMove DEF Leave, world, rooms, bodies
<1>5. CASE LeaveSnapshot(s)
  BY <1>1, <1>5, RoomsMove, BodiesKept DEF LeaveSnapshot, Embodied, world, rooms, bodies
<1>6. CASE LeaveSave(s)
  BY <1>1, <1>6, RoomsMove, BodiesKept DEF LeaveSave, Embodied, world, rooms, bodies
<1>7. CASE LeaveCrashFile(s)
  BY <1>1, <1>7, RoomsMove, BodiesKept DEF LeaveCrashFile, Embodied, world, rooms, bodies
<1>8. CASE LeaveCrashSave(s)
  BY <1>1, <1>8, RoomsMove, BodiesKept DEF LeaveCrashSave, Embodied, world, rooms, bodies
<1>9. CASE LeaveWorld(s)
  <2>1. /\ at[s] = "releasing" /\ char[s] \in Bodies /\ char[s] # None
        /\ client' = [client EXCEPT ![char[s]] = IF @ = s THEN None ELSE @]
    BY <1>1, <1>9 DEF LeaveWorld, Embodied
  <2>2. UNCHANGED <<inWorld, byName>>
    BY <1>9, LeaveWorldStays
  <2>3. \A b \in Bodies : client'[b] \in {client[b], None}
    BY <2>1 DEF TypeInv, WorldTypes
  <2>5. \A b \in Bodies : client[b] # s => client'[b] = client[b]
    BY <2>1 DEF TypeInv, WorldTypes
  <2>4. ASSUME NEW b \in inWorld PROVE client'[b] # s
    <3>1. b \in Bodies
      BY DEF TypeInv, WorldTypes
    <3>2. CASE client[b] = s
      <4>1. Owned(s) = b
        BY <3>2, Numbers DEF Rooms, Standing
      <4>2. char[s] = b
        BY <2>1, <4>1 DEF Owned
      <4> QED
        BY <2>1, <3>1, <3>2, <4>2, Numbers DEF TypeInv, WorldTypes
    <3>3. CASE client[b] # s
      BY <2>5, <3>1, <3>3
    <3> QED
      BY <3>2, <3>3
  <2> QED
    BY <1>9, <2>2, <2>3, <2>4, <2>5, RoomsGone DEF LeaveWorld
<1>10. QED
  BY <1>2, <1>3, <1>4, <1>5, <1>6, <1>7, <1>8, <1>9 DEF Depart

\* A sweep that removes bodies has seen the only one in the world, and seen
\* whether it has a client; no login comes before it acts on that.
SweepSees ==
    /\ sweep.step = "reaping" => "reap" \in May /\ ~sweep.linked
    /\ Sweeping => /\ inWorld \subseteq {sweep.body}
                   /\ ~sweep.linked => client[sweep.body] = None

\* A session's step while the sweep may not be interrupted gives nobody a body.
LEMMA SweepingStep ==
    ASSUME Orderly, TypeInv, Solo, Sweeping, NEW s \in Conns,
           Login(s) \/ Enter(s) \/ Command(s) \/ Depart(s)
    PROVE  inWorld' \subseteq inWorld /\ \A b \in Bodies : client'[b] \in {client[b], None}
<1>1. ~Busy(s) /\ ~Turn(s)
  BY TurnMeans DEF Solo
<1>2. at[s] \in {"off"} \cup Places.leave \/ \E p : Goto(s, p) /\ UNCHANGED <<inWorld, client>>
  BY <1>1 DEF Login, Connect, BadPassword, TallyBadPassword, Authenticate, UpgradeCredential,
              Refuse, DupeCheck, Adopt, ToMenu, Enter, ChooseEnter, EnterRoom, LoadObjects,
              Forfeit, ForfeitWrite, RestoreObjects, MarkRestored, Entered, Command,
              TypeCommand, Play, Look, Quit, DeathTrap, Rent, Depart, ReadEnds, LeaveNothing,
              Leave, LeaveSnapshot, LeaveSave, LeaveCrashFile, LeaveCrashSave, LeaveWorld,
              Busy, Places
<1>3. CASE LeaveWorld(s)
  BY <1>3 DEF LeaveWorld, WorldRemove, rooms, TypeInv, WorldTypes
<1>4. ASSUME at[s] \in {"off"} \cup Places.leave, ~LeaveWorld(s)
      PROVE  UNCHANGED <<inWorld, client>>
  <2>1. Connect(s) \/ Depart(s)
    BY <1>4
       DEF Login, Connect, BadPassword, TallyBadPassword, Authenticate, UpgradeCredential,
           Refuse, DupeCheck, Adopt, ToMenu, Enter, ChooseEnter, EnterRoom, LoadObjects,
           Forfeit, ForfeitWrite, RestoreObjects, MarkRestored, Entered, Command,
           TypeCommand, Play, Look, Quit, DeathTrap, Rent, Places
  <2> QED
    BY <1>4, <2>1
       DEF Connect, Depart, ReadEnds, LeaveNothing, Leave, LeaveSnapshot, LeaveSave,
           LeaveCrashFile, LeaveCrashSave, world, rooms, bodies
<1> QED
  BY <1>2, <1>3, <1>4

\* No step that may come between the sweep's makes it wrong about its body.
LEMMA SweepSeesStep ==
    ASSUME Orderly, TypeInv, Solo, Rooms, SweepSees, [Next]_vars
    PROVE  SweepSees'
\* What keeps the sweep's account while it has one.
<1>1. ASSUME UNCHANGED sweep, Sweeping => inWorld' \subseteq inWorld,
             Sweeping => \A b \in Bodies : client'[b] \in {client[b], None}
      PROVE  SweepSees'
  <2>1. Sweeping => sweep.body \in Bodies
    BY DEF Sweeping, TypeInv, ServerTypes
  <2> QED
    BY <1>1, <2>1 DEF SweepSees, Sweeping
<1>2. ASSUME NEW s \in Conns, Login(s) \/ Enter(s) \/ Command(s) \/ Depart(s) PROVE SweepSees'
  <2>1. UNCHANGED sweep
    BY <1>2
       DEF Login, Connect, BadPassword, TallyBadPassword, Authenticate, UpgradeCredential,
           Refuse, DupeCheck, Adopt, ToMenu, Enter, ChooseEnter, EnterRoom, LoadObjects,
           Forfeit, ForfeitWrite, RestoreObjects, MarkRestored, Entered, Command,
           TypeCommand, Play, Look, Quit, DeathTrap, Rent, Depart, ReadEnds, LeaveNothing,
           Leave, LeaveSnapshot, LeaveSave, LeaveCrashFile, LeaveCrashSave, LeaveWorld,
           server
  <2> QED
    BY <1>1, <1>2, <2>1, SweepingStep
<1>3. CASE UNCHANGED vars \/ \E s \in Conns : Kick(s)
  BY <1>1, <1>3 DEF vars, world, rooms, bodies, server, Kick
<1>4. ASSUME NEW b \in Bodies, Purge(b) PROVE SweepSees'
  BY <1>1, <1>4 DEF Purge, WorldRemove, server
<1>5. ASSUME NEW j \in 1..Jobs, Background(j) PROVE SweepSees'
  <2>1. UNCHANGED sweep /\ UNCHANGED world
    BY <1>5 DEF Background, QuitSave, QuitCrashSave, RentSaveObjects, RentSnapshot, RentSave,
                RentClose, JobStep
  <2> QED
    BY <1>1, <2>1 DEF world, rooms, bodies
<1>6. CASE SweepSnapshot
  <2>1. /\ byName # None /\ byName \in Bodies /\ UNCHANGED <<inWorld, client>>
        /\ sweep' = [step |-> "swept", body |-> byName, rec |-> rec[byName],
                     linked |-> client[byName] # None]
    BY <1>6 DEF SweepSnapshot, world, rooms, bodies, TypeInv, WorldTypes
  <2>2. inWorld = {byName}
    BY <2>1 DEF Rooms, IndexAgrees
  <2>3. sweep'.step = "swept" /\ sweep'.body = byName /\ (~sweep'.linked => client[byName] = None)
    BY <2>1
  <2> QED
    BY <2>1, <2>2, <2>3 DEF SweepSees
<1>7. CASE SweepSave
  <2>1. /\ sweep.step = "swept" /\ sweep' = [sweep EXCEPT !.step = "judging"]
        /\ UNCHANGED <<inWorld, client>>
    BY <1>7 DEF SweepSave, world, rooms, bodies
  <2>2. sweep'.step = "judging" /\ sweep'.body = sweep.body /\ sweep'.linked = sweep.linked
    BY <2>1 DEF TypeInv, ServerTypes
  <2>3. Sweeping' => Sweeping
    BY <2>1 DEF Sweeping, Rest
  <2> QED
    BY <2>1, <2>2, <2>3 DEF SweepSees
<1>8. CASE SweepJudge
  <2>1. UNCHANGED <<inWorld, client>> /\ sweep.step \in {"swept", "judging"}
    BY <1>8 DEF SweepJudge, world, rooms, bodies
  <2>2. CASE sweep' = Rest
    BY <2>2 DEF SweepSees, Sweeping, Rest
  <2>3. CASE ~sweep.linked /\ "reap" \in May /\ sweep' = [sweep EXCEPT !.step = "reaping"]
    <3>1. sweep'.body = sweep.body /\ sweep'.linked = sweep.linked
      BY <2>3 DEF TypeInv, ServerTypes
    <3>2. Sweeping' => Sweeping
      BY <2>1 DEF Sweeping, Rest
    <3> QED
      BY <2>1, <2>3, <3>1, <3>2 DEF SweepSees
  <2> QED
    BY <1>8, <2>2, <2>3 DEF SweepJudge
<1>9. CASE SweepReap
  BY <1>9 DEF SweepReap, SweepSees, Sweeping, Rest
<1>10. QED
  BY <1>2, <1>3, <1>4, <1>5, <1>6, <1>7, <1>8, <1>9 DEF Next, Sweep

\* Background writes and closings from elsewhere leave bodies where they are; a
\* purge takes one from whoever it closes, and the sweep from nobody.
LEMMA ServerRooms ==
    ASSUME Orderly, TypeInv, Rooms, SweepSees,
           \/ Sweep
           \/ \E j \in 1..Jobs : Background(j)
           \/ \E b \in Bodies : Purge(b)
           \/ \E s \in Conns : Kick(s)
           \/ UNCHANGED vars
    PROVE  Rooms'
<1> USE DEF session, world, rooms, bodies, server
\* Whatever only closes sessions.
<1>1. ASSUME UNCHANGED <<at, state, char, local, inWorld, byName, client>>,
             \A t \in Conns : flags'[t] = flags[t] \/ flags'[t] = flags[t] \cup {"closed"}
      PROVE  Rooms'
  BY <1>1, AlikeElsewhere, RoomsAlike
<1>2. ASSUME NEW j \in 1..Jobs, Background(j) PROVE Rooms'
  <2>1. CASE RentClose(j)
    <3>1. \A t \in Conns : flags'[t] = flags[t] \/ flags'[t] = flags[t] \cup {"closed"}
      BY <2>1 DEF RentClose, Mark, TypeInv, SessionTypes
    <3> QED
      BY <1>1, <2>1, <3>1 DEF RentClose
  <2>2. CASE ~RentClose(j)
    <3>1. UNCHANGED session /\ UNCHANGED world
      BY <1>2, <2>2 DEF Background, QuitSave, QuitCrashSave, RentSaveObjects, RentSnapshot,
                        RentSave
    <3> QED
      BY <1>1, <3>1
  <2> QED
    BY <2>1, <2>2
<1>3. ASSUME NEW s \in Conns, Kick(s) PROVE Rooms'
  <2>1. \A t \in Conns : flags'[t] = flags[t] \/ flags'[t] = flags[t] \cup {"closed"}
    BY <1>3 DEF Kick, Mark, TypeInv, SessionTypes
  <2> QED
    BY <1>1, <1>3, <2>1 DEF Kick
<1>4. CASE UNCHANGED vars \/ SweepSnapshot \/ SweepSave \/ SweepJudge
  BY <1>1, <1>4 DEF vars, SweepSnapshot, SweepSave, SweepJudge
\* A body is taken out of the world by neither it nor its client.
<1>5. ASSUME NEW b, inWorld \subseteq {b}, WorldRemove(b),
             UNCHANGED <<at, state, char, local, client>>,
             \A t \in Conns : flags'[t] = flags[t] \/ flags'[t] = flags[t] \cup {"closed"},
             \A t \in Conns : client[b] = t => Is(t, "closed")',
             "purge" \in May \/ client[b] = None
      PROVE  Rooms'
  <2>1. \A t \in Conns : Alike(t)
    BY <1>5, AlikeElsewhere
  <2>2. inWorld' = {} /\ byName' = None
    BY <1>5 DEF WorldRemove
  <2>3. OneHolder'
    BY <2>1 DEF Rooms, OneHolder, Alike
  <2>4. ASSUME NEW t \in Conns, (Holder(t) /\ ~Out(t))'
        PROVE  "purge" \in May /\ (~Is(t, "closed")' => client'[Owned(t)'] # t)
    <3>1. Holder(t) /\ ~Out(t) /\ Owned(t)' = Owned(t)
      BY <2>1, <2>4 DEF Alike
    <3>2. "purge" \in May
      BY <1>5, <3>1, Numbers DEF Rooms, Attached
    <3>3. ~Is(t, "closed")' => ~Is(t, "closed")
      BY <1>5 DEF Is
    <3>4. client[Owned(t)] = t /\ ~Is(t, "closed") => Owned(t) = b
      BY <1>5, <3>1 DEF Rooms, Holding
    <3> QED
      BY <1>5, <2>4, <3>1, <3>2, <3>3, <3>4
  <2> QED
    BY <2>2, <2>3, <2>4, RoomsEmpty
<1>6. ASSUME NEW b \in Bodies, Purge(b) PROVE Rooms'
  <2>1. inWorld = {b}
    BY <1>6, InWorldIsIndexed DEF Purge
  <2>2. /\ \A t \in Conns : flags'[t] = flags[t] \/ flags'[t] = flags[t] \cup {"closed"}
        /\ \A t \in Conns : client[b] = t => Is(t, "closed")'
    BY <1>6 DEF Purge, Mark, Is, TypeInv, SessionTypes
  <2> QED
    BY <1>5, <1>6, <2>1, <2>2 DEF Purge
<1>7. CASE SweepReap
  <2>1. sweep.step = "reaping" /\ WorldRemove(sweep.body) /\ UNCHANGED <<session, bodies>>
    BY <1>7 DEF SweepReap
  <2>2. Sweeping /\ ~sweep.linked
    BY <2>1 DEF SweepSees, Sweeping, Orderly, Rest
  <2>3. inWorld \subseteq {sweep.body} /\ client[sweep.body] = None
    BY <2>2 DEF SweepSees
  <2> QED
    BY <1>5, <2>1, <2>3, Numbers
<1>8. QED
  BY <1>2, <1>3, <1>4, <1>6, <1>7 DEF Sweep

\* The inductive invariant: handlers are alone where they have to be, marks are in
\* order, and sessions, rooms and the sweep have one account of the bodies.
WorldInv == Solo /\ Marks /\ Rooms /\ SweepSees

\* At first nobody is connected and nobody is in the world.
LEMMA InitWorldInv == Init => WorldInv
  BY Numbers
     DEF Init, WorldInv, Solo, Busy, Writing, Sweeping, Marks, Marked, Is, Driving, Ending,
         Places, Idle, Rest, NoLocals, Rooms, OneHolder, Standing, Holding, Attached, Holder,
         Registered, IndexAgrees, SweepSees, Bodies

\* Every step keeps the one account.
LEMMA WorldInvStep ==
    ASSUME Orderly, TypeInv, OwnInv, WorldInv, [Next]_vars
    PROVE  WorldInv'
<1>1. Solo'
  BY SoloStep DEF WorldInv
<1>2. Marks'
  BY MarksStep DEF WorldInv
<1>3. Rooms'
  BY LoginRooms, EnterRooms, CommandRooms, DepartRooms, ServerRooms DEF WorldInv, Next
<1>4. SweepSees'
  BY SweepSeesStep DEF WorldInv
<1> QED
  BY <1>1, <1>2, <1>3, <1>4 DEF WorldInv

\* And the types and the one driver it rests on.
LEMMA WorldStep ==
    ASSUME Orderly, TypeInv, OwnInv, WorldInv, [Next]_vars
    PROVE  (TypeInv /\ OwnInv /\ WorldInv)'
<1>1. TypeInv'
  BY StepTypes
<1>2. OwnInv'
  BY ServerOwn, LoginOwn, EnterOwn, CommandOwn, DepartOwn DEF Next
<1>3. WorldInv'
  BY WorldInvStep
<1> QED
  BY <1>1, <1>2, <1>3

\* The one account is what the runs check.
LEMMA RoomsAgree ==
    ASSUME TypeInv, OwnInv, Rooms
    PROVE  WorldAgrees
<1>1. ASSUME NEW s \in Conns, InPlay(s) PROVE char[s] \in inWorld
  <2>1. /\ at[s] = "reading" /\ state[s] = "playing" /\ char[s] # None
        /\ ~Is(s, "closed") /\ ~Is(s, "displaced") /\ ~Is(s, "rented")
    BY <1>1, Numbers DEF InPlay, Is, TypeInv, SessionSized, Embodied
  <2>2. Holder(s) /\ Owned(s) = char[s] /\ ~Out(s)
    BY <2>1 DEF Holder, Owned, Out, Registered
  <2>3. client[char[s]] = s
    BY <2>1 DEF OwnInv, Drives, Is
  <2> QED
    BY <2>1, <2>2, <2>3 DEF Rooms, Holding
<1> QED
  BY <1>1 DEF WorldAgrees, Rooms, PlayingInWorld

\* WorldAgrees, unless a handler that may take somebody else's body (a login, a
\* teardown of somebody at an inn, a sweep that reaps) comes between another's steps:
\* whoever is playing is in the world, and the index by name knows who is in the
\* rooms (world.go's players and rooms, the session's char: never two accounts).
LEMMA OneAccountOfTheWorld ==
    ASSUME Orderly PROVE Spec => []WorldAgrees
<1>1. Init => TypeInv /\ OwnInv /\ WorldInv
  BY InitTypes, InitOwn, InitWorldInv
<1>2. TypeInv /\ OwnInv /\ WorldInv /\ [Next]_vars => (TypeInv /\ OwnInv /\ WorldInv)'
  BY WorldStep
<1>3. TypeInv /\ OwnInv /\ WorldInv => WorldAgrees
  BY RoomsAgree DEF WorldInv
<1> QED
  BY <1>1, <1>2, <1>3, PTL DEF Spec

-----------------------------------------------------------------------------
(* The record.                                                             *)

\* One handler at a time, nobody who quits plays on over the same connection, and
\* no god purges a player.
Undisturbed == Overlap = {} /\ {"again", "purge"} \cap May = {}

\* One handler at a time is in order.
LEMMA UndisturbedIsOrderly == Undisturbed => Orderly
  BY DEF Undisturbed, Orderly

\* A write of the body's record has been left to background() and is not done.
Owing(b) ==
    \E j \in 1..Jobs :
        /\ job[j].step \in {"quitRecord", "rentObjects", "rentSnapshot", "rentRecord"}
        /\ job[j].body = b

\* A body is no further than the file unless somebody is playing it, or its save is
\* on the way.
Kept ==
    \A b \in Bodies :
        rec[b] <= file.rec \/ (b \in inWorld /\ client[b] # None) \/ Owing(b)

\* The file is no further than the bodies that may still be saved.
Ahead ==
    /\ \A b \in inWorld : file.rec <= rec[b]
    /\ \A s \in Conns : Holder(s) => file.rec <= rec[Owned(s)]
    /\ \A j \in 1..Jobs : job[j].step # "none" => file.rec <= rec[job[j].body]

\* A write that was left to background() is of the body its holder is out with.
JobsHold ==
    \A j \in 1..Jobs : job[j].step # "none" =>
        /\ inWorld = {}
        /\ \A s \in Conns : Holder(s) => Owned(s) = job[j].body
        /\ job[j].step \in {"quitRecord", "rentRecord"} => job[j].rec = rec[job[j].body]

\* What the sweep is about to save is what the body in the world has.
SweepHolds ==
    sweep.step = "swept" => inWorld = {sweep.body} /\ sweep.rec = rec[sweep.body]

\* A handler's copy of the record is as good as the file or the body it is from.
Fresh(s) ==
    /\ at[s] \in {"upgrading", "loaded", "fresh"} => rec[s] = file.rec
    /\ at[s] = "tallying" => local[s].read = file.rec
    /\ at[s] = "writing" => local[s].read = rec[char[s]]
    /\ at[s] \in {"crashing", "storing", "releasing"} => rec[char[s]] <= file.rec

\* The inductive invariant of the record.
RecInv == Kept /\ Ahead /\ JobsHold /\ SweepHolds /\ \A s \in Conns : Fresh(s)

\* Nobody comes by a body but by the dupe check.
LEMMA MoveHolders ==
    ASSUME TypeInv, NEW s \in Conns, NEW p, Goto(s, p), UNCHANGED char, Grown,
           \A t \in Conns \ {s} : local'[t].body = local[t].body,
           {at[s], p} \cap {"adopting", "fresh"} = {},
           at[s] \notin {"off", "gone"} \/ char[s] = None
    PROVE  \A t \in Conns : Holder(t)' => Holder(t) /\ Owned(t)' = Owned(t)
<1>1. at'[s] = p /\ \A t \in Conns \ {s} : at'[t] = at[t]
  BY DEF Goto, TypeInv, SessionTypes
<1>2. \A t \in Conns : Is(t, "displaced")' <=> Is(t, "displaced")
  BY DEF Grown, Is
<1>3. Holder(s)' => Holder(s) /\ Owned(s)' = Owned(s)
  BY <1>1, <1>2 DEF Holder, Owned, Registered
<1>4. ASSUME NEW t \in Conns \ {s}, Holder(t)' PROVE Holder(t) /\ Owned(t)' = Owned(t)
  BY <1>1, <1>2, <1>4 DEF Holder, Owned, Registered
<1> QED
  BY <1>3, <1>4

\* What a holder has is a body.
LEMMA HolderBody ==
    ASSUME TypeInv, NEW s \in Conns, Holder(s)
    PROVE  Owned(s) \in Bodies
  BY DEF Holder, Owned, TypeInv, SessionTypes, SessionSized, Bodies, Registered

\* A step of one session that leaves records, bodies and writes alone.
LEMMA RecordMove ==
    ASSUME TypeInv, RecInv, NEW s \in Conns, NEW p, Goto(s, p),
           UNCHANGED <<rec, inWorld, client, job, sweep>>, file'.rec = file.rec,
           \A t \in Conns \ {s} : char'[t] = char[t] /\ local'[t].read = local[t].read,
           \A t \in Conns : Holder(t)' => Holder(t) /\ Owned(t)' = Owned(t),
           Fresh(s)'
    PROVE  RecInv'
<1>1. \A t \in Conns \ {s} : at'[t] = at[t]
  BY DEF Goto, TypeInv, SessionTypes
<1>2. ASSUME NEW t \in Conns \ {s} PROVE Fresh(t)'
  BY <1>1 DEF RecInv, Fresh
<1>3. Kept'
  BY DEF RecInv, Kept, Owing
<1>4. Ahead'
  BY DEF RecInv, Ahead
<1>5. JobsHold' /\ SweepHolds'
  BY DEF RecInv, JobsHold, SweepHolds
<1> QED
  BY <1>2, <1>3, <1>4, <1>5 DEF RecInv

\* Whoever is at something, or begins it, has the file to themselves.
LEMMA AloneMeans ==
    ASSUME Undisturbed, Solo, NEW s \in Conns, Busy(s) \/ Turn(s)
    PROVE  /\ \A t \in Conns \ {s} : ~Busy(t)
           /\ \A j \in 1..Jobs : job[j].step = "none"
           /\ sweep.step = "none"
           /\ \A b : ~Owing(b)
<1>1. (\A t \in Conns \ {s} : ~Busy(t)) /\ ~Writing /\ ~Sweeping
  BY TurnMeans, UndisturbedIsOrderly DEF Solo
<1>2. \A j \in 1..Jobs : job[j].step = "none"
  BY <1>1 DEF Writing, Idle
<1>3. sweep.step = "none"
  BY <1>1 DEF Sweeping, Undisturbed
<1> QED
  BY <1>1, <1>2, <1>3 DEF Owing

\* A session that is at nothing has no copy to be out of date.
LEMMA NotBusyFresh ==
    ASSUME Undisturbed, NEW t, ~Busy(t)
    PROVE  Fresh(t)
  BY DEF Undisturbed, Busy, Fresh, Places

\* A step of one session that is at something: what it writes is all that changes.
LEMMA RecordAlone ==
    ASSUME Undisturbed, TypeInv, Solo, NEW s \in Conns, NEW p, Goto(s, p),
           Busy(s) \/ Turn(s), UNCHANGED <<job, sweep>>,
           Kept', \A b \in inWorld' : file'.rec <= rec'[b],
           \A t \in Conns : Holder(t)' => file'.rec <= rec'[Owned(t)'],
           Fresh(s)'
    PROVE  RecInv'
<1>1. \A t \in Conns \ {s} : at'[t] = at[t]
  BY DEF Goto, TypeInv, SessionTypes
<1>2. \A t \in Conns \ {s} : ~Busy(t)'
  BY <1>1, AloneMeans DEF Busy
<1>3. \A t \in Conns \ {s} : Fresh(t)'
  BY <1>2 DEF Undisturbed, Busy, Fresh, Places
<1>4. JobsHold' /\ SweepHolds'
  BY AloneMeans DEF JobsHold, SweepHolds
<1>5. Ahead'
  BY AloneMeans DEF Ahead
<1> QED
  BY <1>3, <1>4, <1>5 DEF RecInv

\* The body a login comes to has all that the file has.
LEMMA DupeCheckRecord ==
    ASSUME Undisturbed, TypeInv, OwnInv, WorldInv, RecInv, NEW s \in Conns, DupeCheck(s)
    PROVE  RecInv'
<1> DEFINE e == Existing(s)
<1>1. /\ at[s] = "loaded" /\ Busy(s)
      /\ client' = [b \in Bodies |-> IF b = e THEN s ELSE Freed(s)[b]]
      /\ UNCHANGED <<char, inWorld, byName, rec, file, job, sweep>>
  BY DEF DupeCheck, rooms, server, Busy, Places
<1>2. /\ at'[s] = IF e = None THEN "fresh" ELSE "adopting"
      /\ local'[s].body = e
  BY DEF DupeCheck, Goto, TypeInv, SessionTypes
<1>3. e \in Bodies \cup {None}
  BY ExistingIsBody DEF TypeInv
<1>4. PICK p : Goto(s, p)
  BY DEF DupeCheck
<1>5. inWorld = (IF e = None THEN {} ELSE {e}) /\ \A t \in Conns \ {s} : ~Holder(t)'
  BY DupeCheckFinds, UndisturbedIsOrderly DEF WorldInv
<1>6. rec[s] = file.rec
  BY <1>1 DEF RecInv, Fresh
<1> HIDE DEF e
<1>7. Kept'
  <2>1. ASSUME NEW b \in inWorld PROVE client'[b] # None
    BY <1>1, <1>3, <1>5, <2>1, Numbers
  <2> QED
    BY <1>1, <2>1 DEF RecInv, Kept, Owing
<1>8. Fresh(s)'
  BY <1>1, <1>2, <1>6 DEF Fresh
<1>9. Owned(s)' = (IF e = None THEN s ELSE e)
  BY <1>2 DEF Owned
<1>10. file.rec <= rec[IF e = None THEN s ELSE e]
  <2>1. CASE e = None
    BY <1>6, <2>1 DEF TypeInv, FileTypes
  <2>2. CASE e # None
    BY <1>5, <2>2 DEF RecInv, Ahead
  <2> QED
    BY <2>1, <2>2
<1>11. \A t \in Conns : Holder(t)' => file'.rec <= rec'[Owned(t)']
  BY <1>1, <1>5, <1>9, <1>10
<1>12. \A b \in inWorld' : file'.rec <= rec'[b]
  BY <1>1 DEF RecInv, Ahead
<1> QED
  BY <1>1, <1>4, <1>7, <1>8, <1>11, <1>12, RecordAlone DEF WorldInv

\* A login writes the record it has just read, and builds its body from the file.
LEMMA LoginRecord ==
    ASSUME Undisturbed, TypeInv, OwnInv, WorldInv, RecInv, NEW s \in Conns, Login(s)
    PROVE  RecInv'
<1> USE DEF world, rooms, bodies, server
<1>1. /\ at[s] \in Bodiless => char[s] = None
      /\ Fresh(s) /\ rec[s] \in 0..MaxRec /\ file.rec \in 0..MaxRec
  BY DEF TypeInv, SessionSized, RecInv, WorldTypes, FileTypes, Bodies
<1>2. CASE Connect(s)
  <2>1. /\ at[s] = "off" /\ Goto(s, "prompt") /\ Grown
        /\ UNCHANGED <<char, local, rec, file, inWorld, client, job, sweep>>
    BY <1>2 DEF Connect, Grown
  <2>2. at'[s] = "prompt"
    BY <2>1 DEF Goto, TypeInv, SessionTypes
  <2>3. Fresh(s)'
    BY <2>2 DEF Fresh
  <2>4. \A t \in Conns : Holder(t)' => Holder(t) /\ Owned(t)' = Owned(t)
    BY <1>1, <2>1, MoveHolders DEF Bodiless
  <2> QED
    BY <2>1, <2>3, <2>4, RecordMove
<1>3. CASE BadPassword(s)
  <2>1. /\ at[s] = "prompt" /\ Goto(s, "tallying") /\ Grown /\ Read(s, file.rec)
        /\ UNCHANGED <<char, rec, file, inWorld, client, job, sweep>>
    BY <1>3 DEF BadPassword, Grown
  <2>2. at'[s] = "tallying" /\ local'[s].read = file.rec
    BY <2>1 DEF Goto, Read, TypeInv, SessionTypes
  <2>3. Fresh(s)'
    BY <2>1, <2>2 DEF Fresh
  <2>4. \A t \in Conns \ {s} : local'[t] = local[t]
    BY <2>1 DEF Read, TypeInv, SessionTypes
  <2>5. \A t \in Conns : Holder(t)' => Holder(t) /\ Owned(t)' = Owned(t)
    BY <1>1, <2>1, <2>4, MoveHolders DEF Bodiless
  <2> QED
    BY <2>1, <2>3, <2>4, <2>5, RecordMove
<1>4. CASE TallyBadPassword(s)
  <2>1. /\ at[s] = "tallying" /\ Goto(s, "prompt") /\ Grown
        /\ UNCHANGED <<char, rec, inWorld, client, job, sweep>>
    BY <1>4 DEF TallyBadPassword, Grown
  <2>2. at'[s] = "prompt"
    BY <2>1 DEF Goto, TypeInv, SessionTypes
  <2>3. file'.rec = file.rec
    BY <1>1, <1>4, <2>1 DEF TallyBadPassword, Save, Fresh, TypeInv, FileTypes
  <2>4. Fresh(s)'
    BY <2>2 DEF Fresh
  <2>5. \A t \in Conns \ {s} : local'[t] = local[t]
    BY <1>4, Forgotten DEF TallyBadPassword, TypeInv
  <2>6. \A t \in Conns : Holder(t)' => Holder(t) /\ Owned(t)' = Owned(t)
    BY <1>1, <2>1, <2>5, MoveHolders DEF Bodiless
  <2> QED
    BY <2>1, <2>3, <2>4, <2>5, <2>6, RecordMove
<1>5. CASE Authenticate(s)
  <2>1. /\ at[s] = "prompt" /\ Turn(s) /\ Grown
        /\ rec' = [rec EXCEPT ![s] = file.rec]
        /\ UNCHANGED <<char, local, file, inWorld, client, job, sweep>>
    BY <1>5 DEF Authenticate, Grown
  <2>2. PICK p \in {"loaded", "upgrading"} : Goto(s, p)
    BY <1>5 DEF Authenticate
  <2>3. rec'[s] = file.rec /\ \A b \in Bodies \ {s} : rec'[b] = rec[b]
    BY <2>1 DEF TypeInv, WorldTypes, Bodies
  <2>4. at'[s] = p
    BY <2>2 DEF Goto, TypeInv, SessionTypes
  <2>5. Fresh(s)'
    BY <2>1, <2>2, <2>3, <2>4 DEF Fresh
  <2>6. \A t \in Conns : Holder(t)' => Holder(t) /\ Owned(t)' = Owned(t)
    BY <1>1, <2>1, <2>2, MoveHolders DEF Bodiless
  <2>7. Kept'
    <3>1. ASSUME NEW b \in Bodies
          PROVE  rec'[b] <= file.rec \/ (b \in inWorld /\ client[b] # None) \/ Owing(b)
      <4>1. CASE b = s
        BY <1>1, <2>3, <4>1
      <4>2. CASE b # s
        BY <2>3, <4>2 DEF RecInv, Kept
      <4> QED
        BY <4>1, <4>2
    <3> QED
      BY <2>1, <3>1 DEF Kept, Owing
  <2>8. ASSUME NEW b \in Bodies, file.rec <= rec[b] PROVE file.rec <= rec'[b]
    BY <1>1, <2>3, <2>8
  <2>9. \A b \in inWorld : file.rec <= rec'[b]
    BY <2>8 DEF RecInv, Ahead, TypeInv, WorldTypes
  <2>10. ASSUME NEW t \in Conns, Holder(t)' PROVE file.rec <= rec'[Owned(t)']
    <3>1. Holder(t) /\ Owned(t)' = Owned(t)
      BY <2>6, <2>10
    <3>2. Owned(t) \in Bodies
      BY <3>1, HolderBody
    <3> QED
      BY <2>8, <3>1, <3>2 DEF RecInv, Ahead
  <2> QED
    BY <2>1, <2>2, <2>5, <2>7, <2>9, <2>10, RecordAlone DEF WorldInv
<1>6. CASE UpgradeCredential(s)
  <2>1. /\ at[s] = "upgrading" /\ Goto(s, "loaded") /\ Grown
        /\ UNCHANGED <<char, local, rec, inWorld, client, job, sweep>>
    BY <1>6 DEF UpgradeCredential, Grown
  <2>2. at'[s] = "loaded"
    BY <2>1 DEF Goto, TypeInv, SessionTypes
  <2>3. file'.rec = file.rec /\ rec[s] = file.rec
    BY <1>1, <1>6, <2>1 DEF UpgradeCredential, Save, Fresh, TypeInv, FileTypes
  <2>4. Fresh(s)'
    BY <2>1, <2>2, <2>3 DEF Fresh
  <2>5. \A t \in Conns : Holder(t)' => Holder(t) /\ Owned(t)' = Owned(t)
    BY <1>1, <2>1, MoveHolders DEF Bodiless
  <2> QED
    BY <2>1, <2>3, <2>4, <2>5, RecordMove
<1>7. CASE Refuse(s)
  <2>1. /\ at[s] = "loaded" /\ Goto(s, "ended")
        /\ UNCHANGED <<char, local, rec, file, inWorld, client, job, sweep>>
    BY <1>7 DEF Refuse
  <2>2. at'[s] = "ended"
    BY <2>1 DEF Goto, TypeInv, SessionTypes
  <2>3. Fresh(s)'
    BY <2>2 DEF Fresh
  <2>4. Grown
    BY <1>7, MarkGrows DEF Refuse, TypeInv
  <2>5. \A t \in Conns : Holder(t)' => Holder(t) /\ Owned(t)' = Owned(t)
    BY <1>1, <2>1, <2>4, MoveHolders DEF Bodiless
  <2> QED
    BY <2>1, <2>3, <2>5, RecordMove
<1>8. CASE DupeCheck(s)
  BY <1>8, DupeCheckRecord
<1>9. CASE Adopt(s) \/ ToMenu(s)
  <2>1. /\ Goto(s, "reading") /\ \A t \in Conns \ {s} : char'[t] = char[t] /\ local'[t] = local[t]
        /\ UNCHANGED <<rec, file, inWorld, client, job, sweep>>
    BY <1>9, Forgotten DEF Adopt, ToMenu, TypeInv, SessionTypes
  <2>2. at'[s] = "reading"
    BY <2>1 DEF Goto, TypeInv, SessionTypes
  <2>3. Fresh(s)'
    BY <2>2 DEF Fresh
  <2>4. \A t \in Conns : Holder(t)' => Holder(t) /\ Owned(t)' = Owned(t)
    BY <1>9, TakesItsBody DEF Alike, WorldInv
  <2> QED
    BY <2>1, <2>3, <2>4, RecordMove
<1>10. QED
  BY <1>2, <1>3, <1>4, <1>5, <1>6, <1>7, <1>8, <1>9 DEF Login

\* Entering the world takes no record further and writes none.
LEMMA EnterRecord ==
    ASSUME Undisturbed, TypeInv, OwnInv, WorldInv, RecInv, NEW s \in Conns, Enter(s)
    PROVE  RecInv'
<1> USE DEF world, rooms, bodies, server
<1>1. /\ at[s] \in Embodied => char[s] \in Bodies
      /\ at[s] \in Places.enter => Busy(s) /\ client[char[s]] = s /\ ~Is(s, "displaced")
      /\ file.rec \in 0..MaxRec
  <2>1. at[s] \in Places.enter => at[s] \in Driving
    BY DEF Places, Driving
  <2> QED
    BY <2>1 DEF TypeInv, SessionSized, FileTypes, WorldInv, Marks, Marked, Busy
<1>2. CASE ChooseEnter(s)
  <2>1. /\ at[s] = "reading" /\ state[s] = "menu" /\ Turn(s) /\ Goto(s, "entering")
        /\ client' = [client EXCEPT ![char[s]] = s]
        /\ UNCHANGED <<char, local, flags, rec, file, inWorld, job, sweep>>
    BY <1>2 DEF ChooseEnter
  <2>2. at'[s] = "entering" /\ \A t \in Conns \ {s} : at'[t] = at[t]
    BY <2>1 DEF Goto, TypeInv, SessionTypes
  <2>3. Fresh(s)'
    BY <2>2 DEF Fresh
  <2>4. char[s] \in Bodies /\ char[s] # None
    BY <1>1, <2>1, Numbers DEF Embodied
  <2>5. Grown /\ UNCHANGED local
    BY <2>1 DEF Grown
  <2>6. \A t \in Conns : Holder(t)' => Holder(t) /\ Owned(t)' = Owned(t)
    BY <2>1, <2>5, MoveHolders
  <2>7. s # None
    BY Numbers
  <2>8. \A b \in Bodies : client[b] # None => client'[b] # None
    BY <2>1, <2>4, <2>7 DEF TypeInv, WorldTypes
  <2>9. Kept'
    BY <2>1, <2>8 DEF RecInv, Kept, Owing
  <2>10. \A b \in inWorld' : file'.rec <= rec'[b]
    BY <2>1 DEF RecInv, Ahead
  <2>11. \A t \in Conns : Holder(t)' => file'.rec <= rec'[Owned(t)']
    BY <2>1, <2>6 DEF RecInv, Ahead
  <2> QED
    BY <2>1, <2>3, <2>9, <2>10, <2>11, RecordAlone DEF WorldInv
<1>3. CASE EnterRoom(s)
  <2>1. /\ at[s] = "entering" /\ Goto(s, "loading") /\ inWorld' = inWorld \cup {char[s]}
        /\ UNCHANGED <<char, local, flags, rec, file, client, job, sweep>>
    BY <1>3 DEF EnterRoom, WorldEnter
  <2>2. at'[s] = "loading"
    BY <2>1 DEF Goto, TypeInv, SessionTypes
  <2>3. Fresh(s)'
    BY <2>2 DEF Fresh
  <2>4. char[s] \in Bodies /\ char[s] # None /\ Busy(s) /\ ~Is(s, "displaced")
    BY <1>1, <2>1, Numbers DEF Embodied, Places
  <2>5. Grown
    BY <2>1 DEF Grown
  <2>6. \A t \in Conns : Holder(t)' => Holder(t) /\ Owned(t)' = Owned(t)
    BY <2>1, <2>5, MoveHolders
  <2>7. Kept'
    BY <2>1 DEF RecInv, Kept, Owing
  <2>8. Holder(s) /\ Owned(s) = char[s]
    BY <2>1, <2>4 DEF Holder, Owned, Registered
  <2>9. \A b \in inWorld' : file'.rec <= rec'[b]
    BY <2>1, <2>8 DEF RecInv, Ahead
  <2>10. \A t \in Conns : Holder(t)' => file'.rec <= rec'[Owned(t)']
    BY <2>1, <2>6 DEF RecInv, Ahead
  <2> QED
    BY <2>1, <2>3, <2>4, <2>7, <2>9, <2>10, RecordAlone DEF WorldInv
<1>4. CASE LoadObjects(s) \/ Forfeit(s) \/ ForfeitWrite(s)
           \/ RestoreObjects(s) \/ MarkRestored(s) \/ Entered(s)
  <2>1. /\ at[s] \in Places.enter /\ at[s] # "entering"
        /\ \E p \in {"entered", "restoring", "forfeiting", "emptying", "marking", "reading"} :
              Goto(s, p)
        /\ UNCHANGED <<char, rec, inWorld, client, job, sweep>>
    BY <1>4 DEF LoadObjects, Forfeit, ForfeitWrite, RestoreObjects, MarkRestored, Entered, Places
  <2>2. PICK p \in {"entered", "restoring", "forfeiting", "emptying", "marking", "reading"} :
            Goto(s, p)
    BY <2>1
  <2>3. at'[s] = p
    BY <2>2 DEF Goto, TypeInv, SessionTypes
  <2>4. Fresh(s)'
    BY <2>2, <2>3 DEF Fresh
  <2>5. file'.rec = file.rec
    BY <1>4 DEF LoadObjects, Forfeit, ForfeitWrite, RestoreObjects, MarkRestored, Entered,
           WriteCrashFile, DeleteObjects, SaveObjects, MarkCrashed, TypeInv, FileTypes
  <2>6. \A t \in Conns \ {s} : local'[t] = local[t]
    <3>1. \/ \E n : Read(s, n)
          \/ Forget(s)
          \/ UNCHANGED local
      BY <1>4 DEF LoadObjects, Forfeit, ForfeitWrite, RestoreObjects, MarkRestored, Entered
    <3> QED
      BY <3>1, Forgotten DEF Read, TypeInv, SessionTypes
  <2>7. \A t \in Conns : Is(t, "displaced")' <=> Is(t, "displaced")
    <3>1. UNCHANGED flags \/ flags' = [flags EXCEPT ![s] = @ \ {"extracted"}]
      BY <1>4 DEF LoadObjects, Forfeit, ForfeitWrite, RestoreObjects, MarkRestored, Entered
    <3> QED
      BY <3>1 DEF Is, TypeInv, SessionTypes
  <2>8. \A t \in Conns \ {s} : at'[t] = at[t]
    BY <2>2 DEF Goto, TypeInv, SessionTypes
  <2>9. \A t \in Conns : Holder(t)' => Holder(t) /\ Owned(t)' = Owned(t)
    <3>1. Holder(s)' => Holder(s) /\ Owned(s)' = Owned(s)
      BY <2>1, <2>2, <2>3, <2>7 DEF Holder, Owned, Registered, Places
    <3>2. ASSUME NEW t \in Conns \ {s}, Holder(t)' PROVE Holder(t) /\ Owned(t)' = Owned(t)
      BY <2>1, <2>6, <2>7, <2>8, <3>2 DEF Holder, Owned, Registered
    <3> QED
      BY <3>1, <3>2
  <2> QED
    BY <2>1, <2>2, <2>4, <2>5, <2>6, <2>9, RecordMove
<1>5. QED
  BY <1>2, <1>3, <1>4 DEF Enter

\* Whoever leaves the world with a write left to background() has the only body.
LEMMA RecordLeft ==
    ASSUME Undisturbed, TypeInv, OwnInv, WorldInv, RecInv, NEW s \in Conns,
           at[s] = "doing", Goto(s, "reading"), WorldRemove(char[s]),
           UNCHANGED <<char, local, rec, file, client, sweep>>, Grown,
           NEW f, Begin(f), f.step \in {"quitRecord", "rentObjects"}, f.body = char[s],
           f.step = "quitRecord" => f.rec = rec[char[s]]
    PROVE  RecInv'
<1> DEFINE free == {k \in 1..Jobs : job[k] = Idle}
<1>1. PICK j \in 1..Jobs : job' = [job EXCEPT ![j] = f]
  <2>1. free \subseteq Nat /\ free # {}
    BY DEF Begin
  <2>2. Min(free) \in free
    BY <2>1, MinElement
  <2> QED
    BY <2>2 DEF Begin
<1>2. job'[j] = f /\ \A k \in 1..Jobs \ {j} : job'[k] = job[k]
  BY <1>1 DEF TypeInv, ServerTypes
<1> HIDE DEF free
<1>3. /\ \A t \in Conns \ {s} : ~Busy(t)
      /\ \A k \in 1..Jobs : job[k].step = "none"
      /\ sweep.step = "none" /\ \A b : ~Owing(b)
  BY AloneMeans DEF WorldInv, Busy, Places
<1>4. char[s] \in Bodies /\ char[s] # None /\ ~Is(s, "displaced")
  BY Doing, Numbers DEF WorldInv
<1>5. Holder(s) /\ Owned(s) = char[s]
  BY <1>4 DEF Holder, Owned, Registered
<1>6. inWorld \subseteq {char[s]} /\ inWorld' = {}
  BY <1>5 DEF WorldInv, Rooms, Holding, WorldRemove
<1>7. \A t \in Conns : Holder(t)' => t = s /\ Owned(t)' = char[s]
  <2>1. \A t \in Conns : Holder(t)' => Holder(t) /\ Owned(t)' = Owned(t)
    BY MoveHolders
  <2>2. \A t \in Conns : Holder(t) => t = s
    BY <1>5 DEF WorldInv, Rooms, OneHolder
  <2> QED
    BY <1>5, <2>1, <2>2
<1>8. file.rec <= rec[char[s]]
  BY <1>5 DEF RecInv, Ahead
<1>9. Kept'
  <2>1. Owing(char[s])'
    BY <1>2 DEF Owing
  <2>2. ASSUME NEW b \in Bodies, b # char[s] PROVE rec[b] <= file.rec
    BY <1>3, <1>6, <2>2 DEF RecInv, Kept
  <2>3. ASSUME NEW b \in Bodies
        PROVE  rec[b] <= file.rec \/ Owing(b)'
    <3>1. CASE b = char[s]
      BY <2>1, <3>1
    <3>2. CASE b # char[s]
      BY <2>2, <3>2
    <3> QED
      BY <3>1, <3>2
  <2> QED
    BY <2>3 DEF Kept, Owing
<1>10. Ahead'
  <2>1. \A t \in Conns : Holder(t)' => file'.rec <= rec'[Owned(t)']
    BY <1>7, <1>8
  <2>2. \A k \in 1..Jobs : job'[k].step # "none" => file'.rec <= rec'[job'[k].body]
    BY <1>2, <1>3, <1>8
  <2> QED
    BY <1>6, <2>1, <2>2 DEF Ahead
<1>11. JobsHold'
  <2>1. \A k \in 1..Jobs : job'[k].step # "none" => k = j
    BY <1>2, <1>3
  <2> QED
    BY <1>2, <1>6, <1>7, <2>1 DEF JobsHold
<1>12. SweepHolds'
  BY <1>3 DEF SweepHolds
<1>13. \A t \in Conns : Fresh(t)'
  <2>1. at'[s] = "reading" /\ \A t \in Conns \ {s} : at'[t] = at[t]
    BY DEF Goto, TypeInv, SessionTypes
  <2>2. Fresh(s)'
    BY <2>1 DEF Fresh
  <2>3. \A t \in Conns \ {s} : Fresh(t)'
    BY <2>1 DEF RecInv, Fresh
  <2> QED
    BY <2>2, <2>3
<1> QED
  BY <1>9, <1>10, <1>11, <1>12, <1>13 DEF RecInv

\* What a command adds to the record is the body's to save, or is left to background().
LEMMA CommandRecord ==
    ASSUME Undisturbed, TypeInv, OwnInv, WorldInv, RecInv, NEW s \in Conns, Command(s)
    PROVE  RecInv'
<1>1. CASE TypeCommand(s) \/ Look(s)
  <2>1. PICK p \in {"doing", "reading"} :
            /\ at[s] \in {"reading", "doing"} /\ Goto(s, p)
            /\ UNCHANGED <<char, local, flags, rec, file, inWorld, client, job, sweep>>
    BY <1>1 DEF TypeCommand, Look, world, rooms, bodies, server
  <2>2. at'[s] = p
    BY <2>1 DEF Goto, TypeInv, SessionTypes
  <2>3. Fresh(s)'
    BY <2>2 DEF Fresh
  <2>4. Grown /\ UNCHANGED local
    BY <2>1 DEF Grown
  <2>5. \A t \in Conns : Holder(t)' => Holder(t) /\ Owned(t)' = Owned(t)
    BY <2>1, <2>4, MoveHolders
  <2> QED
    BY <2>1, <2>3, <2>5, RecordMove
<1>2. CASE Play(s)
  <2> DEFINE b == char[s]
  <2>1. /\ at[s] = "doing" /\ Goto(s, "reading") /\ rec' = [rec EXCEPT ![b] = @ + 1]
        /\ UNCHANGED <<char, local, flags, file, inWorld, client, job, sweep>>
    BY <1>2 DEF Play, rooms, server
  <2>2. b \in Bodies /\ b # None /\ client[b] = s /\ ~Is(s, "displaced") /\ ~Is(s, "rented")
        /\ state[s] = "playing"
    BY <2>1, Doing, Numbers DEF WorldInv
  <2>3. Holder(s) /\ Owned(s) = b /\ ~Out(s)
    BY <2>1, <2>2 DEF Holder, Owned, Registered, Out
  <2>4. b \in inWorld
    BY <2>3 DEF WorldInv, Rooms, Attached, Undisturbed
  <2>5. rec'[b] = rec[b] + 1 /\ \A c \in Bodies \ {b} : rec'[c] = rec[c]
    BY <2>1, <2>2 DEF TypeInv, WorldTypes
  <2>6. rec[b] \in Nat /\ file.rec \in Nat
    BY <2>2 DEF TypeInv, WorldTypes, FileTypes
  <2>7. Busy(s) /\ s # None
    BY <2>1, Numbers DEF Busy, Places
  <2>8. at'[s] = "reading"
    BY <2>1 DEF Goto, TypeInv, SessionTypes
  <2>9. Fresh(s)'
    BY <2>8 DEF Fresh
  <2>10. Grown /\ UNCHANGED local
    BY <2>1 DEF Grown
  <2>11. \A t \in Conns : Holder(t)' => Holder(t) /\ Owned(t)' = Owned(t)
    BY <2>1, <2>10, MoveHolders
  <2> HIDE DEF b
  <2>12. Kept'
    <3>1. ASSUME NEW c \in Bodies
          PROVE  rec'[c] <= file.rec \/ (c \in inWorld /\ client[c] # None) \/ Owing(c)
      <4>1. CASE c = b
        BY <2>2, <2>4, <2>7, <4>1
      <4>2. CASE c # b
        BY <2>5, <4>2 DEF RecInv, Kept
      <4> QED
        BY <4>1, <4>2
    <3> QED
      BY <2>1, <3>1 DEF Kept, Owing
  <2>13. ASSUME NEW c \in Bodies, file.rec <= rec[c] PROVE file.rec <= rec'[c]
    BY <2>5, <2>6, <2>13
  <2>14. \A c \in inWorld' : file'.rec <= rec'[c]
    BY <2>1, <2>13 DEF RecInv, Ahead, TypeInv, WorldTypes
  <2>15. ASSUME NEW t \in Conns, Holder(t)' PROVE file'.rec <= rec'[Owned(t)']
    <3>1. Holder(t) /\ Owned(t)' = Owned(t)
      BY <2>11, <2>15
    <3>2. Owned(t) \in Bodies
      BY <3>1, HolderBody
    <3> QED
      BY <2>1, <2>13, <3>1, <3>2 DEF RecInv, Ahead
  <2> QED
    BY <2>1, <2>7, <2>9, <2>12, <2>14, <2>15, RecordAlone DEF WorldInv
<1>3. CASE Quit(s)
  <2>1. Grown
    BY <1>3, MarkGrows DEF Quit, TypeInv
  <2> QED
    BY <1>3, <2>1, RecordLeft DEF Quit, Extract, bodies
<1>4. CASE DeathTrap(s)
  <2>1. Grown
    BY <1>4, MarkGrows DEF DeathTrap, TypeInv
  <2> QED
    BY <1>4, <2>1, RecordLeft DEF DeathTrap, Extract
<1>5. CASE Rent(s)
  <2>1. Grown
    BY <1>5, MarkGrows DEF Rent, TypeInv
  <2> QED
    BY <1>5, <2>1, RecordLeft DEF Rent
<1>6. QED
  BY <1>1, <1>2, <1>3, <1>4, <1>5 DEF Command

\* A teardown writes what its body has, and lets go of it only when that is on file.
LEMMA DepartRecord ==
    ASSUME Undisturbed, TypeInv, OwnInv, WorldInv, RecInv, NEW s \in Conns, Depart(s)
    PROVE  RecInv'
<1>1. /\ at[s] \in Embodied => char[s] \in Bodies /\ char[s] # None
      /\ at[s] \in Ending => at[s] \in Embodied /\ Busy(s) /\ ~Is(s, "displaced")
      /\ Fresh(s)
  BY Numbers DEF TypeInv, SessionSized, WorldInv, Marks, Marked, Busy, Ending, Embodied, Places,
                 Undisturbed, RecInv
<1>2. ASSUME at[s] \in Ending PROVE Holder(s) /\ Owned(s) = char[s]
  BY <1>1, <1>2 DEF Holder, Owned, Registered, Ending
<1>3. CASE \/ ReadEnds(s) \/ LeaveNothing(s) \/ Leave(s)
           \/ LeaveSnapshot(s) \/ LeaveCrashFile(s) \/ LeaveCrashSave(s)
  <2>1. /\ at[s] \in {"prompt", "reading", "ended", "saving", "crashing", "storing"}
        /\ UNCHANGED <<char, rec, inWorld, client, job, sweep>>
        /\ \E p \in {"ended", "gone", "saving", "writing", "storing", "releasing"} :
              /\ Goto(s, p)
              /\ p = "writing" => Read(s, rec[char[s]])
              /\ p \in {"storing", "releasing"} => at[s] \in {"crashing", "storing"}
    BY <1>3 DEF ReadEnds, LeaveNothing, Leave, LeaveSnapshot, LeaveCrashFile, LeaveCrashSave,
           world, rooms, bodies, server
  <2>2. PICK p \in {"ended", "gone", "saving", "writing", "storing", "releasing"} :
              /\ Goto(s, p)
              /\ p = "writing" => Read(s, rec[char[s]])
              /\ p \in {"storing", "releasing"} => at[s] \in {"crashing", "storing"}
    BY <2>1
  <2>3. at'[s] = p
    BY <2>2 DEF Goto, TypeInv, SessionTypes
  <2>4. file'.rec = file.rec
    BY <1>3 DEF ReadEnds, LeaveNothing, Leave, LeaveSnapshot, LeaveCrashFile, LeaveCrashSave,
           WriteCrashFile, DeleteObjects, SaveObjects, TypeInv, FileTypes
  <2>5. Fresh(s)'
    <3>1. p = "writing" => local'[s].read = rec[char[s]]
      BY <2>2 DEF Read, TypeInv, SessionTypes
    <3>2. p \in {"storing", "releasing"} => rec[char[s]] <= file.rec
      BY <1>1, <2>2 DEF Fresh
    <3> QED
      BY <2>1, <2>3, <2>4, <3>1, <3>2 DEF Fresh
  <2>6. \A t \in Conns \ {s} : local'[t] = local[t]
    <3>1. \/ \E n : Read(s, n)
          \/ Forget(s)
          \/ \E q : local' = [local EXCEPT ![s].quit = q]
          \/ UNCHANGED local
      BY <1>3 DEF ReadEnds, LeaveNothing, Leave, LeaveSnapshot, LeaveCrashFile, LeaveCrashSave
    <3> QED
      BY <3>1, Forgotten DEF Read, TypeInv, SessionTypes
  <2>7. Grown
    BY <1>3, MarkGrows DEF ReadEnds, LeaveNothing, Leave, LeaveSnapshot, LeaveCrashFile,
           LeaveCrashSave, TypeInv, Grown
  <2>8. \A t \in Conns : Holder(t)' => Holder(t) /\ Owned(t)' = Owned(t)
    BY <2>1, <2>2, <2>6, <2>7, MoveHolders
  <2> QED
    BY <2>1, <2>2, <2>4, <2>5, <2>6, <2>8, RecordMove
<1>4. CASE LeaveSave(s)
  <2>1. /\ at[s] = "writing" /\ at[s] \in Ending /\ Forget(s)
        /\ file' = [file EXCEPT !.rec = local[s].read]
        /\ UNCHANGED <<char, flags, rec, inWorld, client, job, sweep>>
    BY <1>4 DEF LeaveSave, Save, Ending, world, rooms, bodies, server
  <2>2. PICK p \in {"releasing", "crashing"} : Goto(s, p)
    BY <1>4 DEF LeaveSave
  <2>3. at'[s] = p
    BY <2>2 DEF Goto, TypeInv, SessionTypes
  <2>4. file'.rec = rec[char[s]]
    BY <1>1, <2>1 DEF Fresh, TypeInv, FileTypes
  <2>5. /\ Holder(s) /\ Owned(s) = char[s] /\ Busy(s) /\ char[s] \in Bodies
    BY <1>1, <1>2, <2>1
  <2>6. /\ file.rec <= rec[char[s]] /\ inWorld \subseteq {char[s]}
        /\ \A t \in Conns : Holder(t) => t = s
    BY <2>5 DEF RecInv, Ahead, WorldInv, Rooms, Holding, OneHolder
  <2>7. \A t \in Conns \ {s} : local'[t] = local[t]
    BY <2>1, Forgotten DEF TypeInv
  <2>8. Grown
    BY <2>1 DEF Grown
  <2>9. \A t \in Conns : Holder(t)' => t = s /\ Owned(t)' = char[s]
    <3>1. \A t \in Conns : Holder(t)' => Holder(t) /\ Owned(t)' = Owned(t)
      BY <2>1, <2>2, <2>7, <2>8, MoveHolders
    <3> QED
      BY <2>5, <2>6, <3>1
  <2>10. \A b \in Bodies : rec[b] \in Nat
    BY DEF TypeInv, WorldTypes
  <2>11. file.rec \in Nat
    BY DEF TypeInv, FileTypes
  <2>12. Kept'
    <3>1. ASSUME NEW b \in Bodies, rec[b] <= file.rec PROVE rec[b] <= file'.rec
      BY <2>4, <2>5, <2>6, <2>10, <2>11, <3>1
    <3> QED
      BY <2>1, <3>1 DEF RecInv, Kept, Owing
  <2>13. rec[char[s]] <= rec[char[s]]
    BY <2>5, <2>10
  <2>14. Fresh(s)'
    BY <2>1, <2>3, <2>4, <2>13 DEF Fresh
  <2>15. \A b \in inWorld' : file'.rec <= rec'[b]
    BY <2>1, <2>4, <2>6, <2>13
  <2>16. \A t \in Conns : Holder(t)' => file'.rec <= rec'[Owned(t)']
    BY <2>1, <2>4, <2>9, <2>13
  <2> QED
    BY <2>1, <2>2, <2>5, <2>12, <2>14, <2>15, <2>16, RecordAlone DEF WorldInv
<1>5. CASE LeaveWorld(s)
  <2>1. /\ at[s] = "releasing" /\ at[s] \in Ending /\ Goto(s, "gone")
        /\ client' = [client EXCEPT ![char[s]] = IF @ = s THEN None ELSE @]
        /\ UNCHANGED <<char, local, rec, file, job, sweep>>
    BY <1>5 DEF LeaveWorld, Ending, server
  <2>2. inWorld' = inWorld
    BY <1>5, LeaveWorldStays, UndisturbedIsOrderly DEF WorldInv
  <2>3. char[s] \in Bodies /\ Busy(s) /\ rec[char[s]] <= file.rec
    BY <1>1, <2>1 DEF Fresh
  <2>4. at'[s] = "gone"
    BY <2>1 DEF Goto, TypeInv, SessionTypes
  <2>5. Fresh(s)'
    BY <2>4 DEF Fresh
  <2>6. Grown
    BY <1>5, MarkGrows DEF LeaveWorld, TypeInv
  <2>7. \A t \in Conns : Holder(t)' => Holder(t) /\ Owned(t)' = Owned(t)
    BY <2>1, <2>6, MoveHolders
  <2>8. Kept'
    <3>1. \A b \in Bodies \ {char[s]} : client'[b] = client[b]
      BY <2>1 DEF TypeInv, WorldTypes
    <3>2. ASSUME NEW b \in Bodies
          PROVE  rec[b] <= file.rec \/ (b \in inWorld /\ client'[b] # None) \/ Owing(b)
      <4>1. CASE b = char[s]
        BY <2>3, <4>1
      <4>2. CASE b # char[s]
        BY <3>1, <4>2 DEF RecInv, Kept
      <4> QED
        BY <4>1, <4>2
    <3> QED
      BY <2>1, <2>2, <3>2 DEF Kept, Owing
  <2>9. \A b \in inWorld' : file'.rec <= rec'[b]
    BY <2>1, <2>2 DEF RecInv, Ahead
  <2>10. \A t \in Conns : Holder(t)' => file'.rec <= rec'[Owned(t)']
    BY <2>1, <2>7 DEF RecInv, Ahead
  <2> QED
    BY <2>1, <2>3, <2>5, <2>8, <2>9, <2>10, RecordAlone DEF WorldInv
<1>6. QED
  BY <1>3, <1>4, <1>5 DEF Depart

\* While something is written, nobody is at anything else.
LEMMA WritingMeans ==
    ASSUME Undisturbed, TypeInv, Solo, NEW j \in 1..Jobs, job[j].step # "none"
    PROVE  /\ \A t \in Conns : ~Busy(t)
           /\ \A k \in 1..Jobs \ {j} : job[k].step = "none"
           /\ sweep.step = "none"
<1>1. job[j] # Idle
  BY DEF Idle
<1>2. Writing
  BY <1>1 DEF Writing
<1>3. \A k \in 1..Jobs \ {j} : job[k] = Idle
  BY <1>1 DEF Solo
<1> QED
  BY <1>2, <1>3 DEF Solo, Sweeping, Idle, Undisturbed

\* A write that was left to background() goes on: what goes to the file is the record
\* of its body, and it is not done with before that is on file.
LEMMA RecordWritten ==
    ASSUME Undisturbed, TypeInv, WorldInv, RecInv, NEW j \in 1..Jobs, job[j].step # "none",
           UNCHANGED <<at, char, local, inWorld, client, rec, sweep>>,
           \A t \in Conns : flags'[t] = flags[t] \/ flags'[t] = flags[t] \cup {"closed"},
           file'.rec \in {file.rec, rec[job[j].body]},
           NEW f, job' = [job EXCEPT ![j] = f],
           f.step = "none" \/ f.body = job[j].body,
           f.step \in {"quitRecord", "rentRecord"} => f.rec = rec[job[j].body],
           \/ job[j].step \in {"quitCrash", "rentClose"}
           \/ f.step \in {"quitRecord", "rentObjects", "rentSnapshot", "rentRecord"}
           \/ rec[job[j].body] <= file'.rec
    PROVE  RecInv'
<1>1. PICK b \in Bodies : b = job[j].body
  BY DEF TypeInv, ServerTypes
<1>2. /\ \A t \in Conns : ~Busy(t)
      /\ \A k \in 1..Jobs \ {j} : job[k].step = "none"
      /\ sweep.step = "none"
  BY WritingMeans DEF WorldInv
<1>3. job'[j] = f /\ \A k \in 1..Jobs \ {j} : job'[k].step = "none"
  BY <1>2 DEF TypeInv, ServerTypes
<1>4. inWorld = {} /\ file.rec <= rec[b] /\ \A s \in Conns : Holder(s) => Owned(s) = b
  BY <1>1 DEF RecInv, JobsHold, Ahead
<1>5. file.rec \in Nat /\ file'.rec \in Nat /\ \A c \in Bodies : rec[c] \in Nat
  BY <1>1 DEF TypeInv, FileTypes, WorldTypes
<1>6. file.rec <= file'.rec /\ file'.rec <= rec[b]
  BY <1>1, <1>4, <1>5
<1>7. \A s \in Conns : Holder(s)' => Holder(s) /\ Owned(s)' = Owned(s)
  BY DEF Holder, Owned, Registered, Is
<1>8. Kept'
  <2>1. ASSUME NEW c \in Bodies PROVE rec[c] <= file'.rec \/ Owing(c)'
    <3>1. CASE Owing(c)
      <4>1. c = b /\ job[j].step \notin {"quitCrash", "rentClose"}
        BY <1>1, <1>2, <3>1 DEF Owing
      <4>2. CASE f.step \in {"quitRecord", "rentObjects", "rentSnapshot", "rentRecord"}
        <5>1. f.body = c
          BY <1>1, <4>1, <4>2
        <5> QED
          BY <1>3, <4>2, <5>1 DEF Owing
      <4>3. CASE rec[b] <= file'.rec
        BY <4>1, <4>3
      <4> QED
        BY <1>1, <4>1, <4>2, <4>3
    <3>2. CASE ~Owing(c)
      <4>1. rec[c] <= file.rec
        BY <1>4, <3>2 DEF RecInv, Kept
      <4> QED
        BY <1>5, <1>6, <4>1
    <3> QED
      BY <3>1, <3>2
  <2> QED
    BY <2>1 DEF Kept, Owing
<1>9. Ahead'
  <2>1. \A s \in Conns : Holder(s)' => file'.rec <= rec'[Owned(s)']
    BY <1>4, <1>6, <1>7
  <2>2. \A k \in 1..Jobs : job'[k].step # "none" => file'.rec <= rec'[job'[k].body]
    BY <1>1, <1>3, <1>6
  <2> QED
    BY <1>4, <2>1, <2>2 DEF Ahead
<1>10. JobsHold'
  <2>1. ASSUME NEW k \in 1..Jobs, job'[k].step # "none"
        PROVE  k = j /\ job'[k] = f /\ f.body = b
    BY <1>1, <1>3, <2>1
  <2> QED
    BY <1>1, <1>4, <1>7, <2>1 DEF JobsHold
<1>11. SweepHolds'
  BY <1>2 DEF SweepHolds
<1>12. \A t \in Conns : Fresh(t)'
  BY <1>2 DEF Fresh, Busy, Places, Undisturbed
<1> QED
  BY <1>8, <1>9, <1>10, <1>11, <1>12 DEF RecInv

\* A step of a write that is not its last keeps what it is about.
LEMMA JobGoesOn ==
    ASSUME TypeInv, NEW j \in 1..Jobs, NEW from, NEW to, JobStep(j, from, to)
    PROVE  /\ job[j].step = from /\ UNCHANGED sweep
           /\ \E f : /\ job' = [job EXCEPT ![j] = f]
                     /\ to = "none" => f.step = "none"
                     /\ to # "none" => f.step = to /\ f.body = job[j].body
<1>1. job[j] \in JobType
  BY DEF TypeInv, ServerTypes
<1>2. CASE to = "none"
  <2>1. job' = [job EXCEPT ![j] = Idle] /\ Idle.step = "none"
    BY <1>2 DEF JobStep, Idle
  <2> QED
    BY <1>2, <2>1 DEF JobStep
<1>3. CASE to # "none"
  <2> DEFINE f == [job[j] EXCEPT !.step = to]
  <2>1. job' = [job EXCEPT ![j] = f]
    BY <1>3 DEF JobStep
  <2>2. f.step = to /\ f.body = job[j].body
    BY <1>1 DEF JobType
  <2> HIDE DEF f
  <2> QED
    BY <1>3, <2>1, <2>2 DEF JobStep
<1> QED
  BY <1>2, <1>3

\* Background writes the record of whoever it was left by, and no older one.
LEMMA BackgroundRecord ==
    ASSUME Undisturbed, TypeInv, WorldInv, RecInv, NEW j \in 1..Jobs, Background(j)
    PROVE  RecInv'
<1> USE DEF session, world, rooms, bodies
<1>1. /\ job[j].step \in {"quitRecord", "rentRecord"} => job[j].rec = rec[job[j].body]
      /\ file.rec \in Nat /\ \A b \in Bodies : rec[b] <= rec[b]
      /\ job[j].step # "none" => job[j].body \in Bodies
  BY DEF RecInv, JobsHold, TypeInv, FileTypes, WorldTypes, ServerTypes
<1>2. CASE QuitSave(j) \/ RentSave(j)
  <2>1. PICK from \in {"quitRecord", "rentRecord"}, to \in {"quitCrash", "rentClose"} :
            JobStep(j, from, to)
    BY <1>2 DEF QuitSave, RentSave
  <2>2. job[j].step = from /\ UNCHANGED sweep
    BY <2>1, JobGoesOn
  <2>3. PICK f : job' = [job EXCEPT ![j] = f] /\ f.step = to /\ f.body = job[j].body
    BY <2>1, JobGoesOn
  <2>4. file'.rec = rec[job[j].body]
    BY <1>1, <1>2, <2>2 DEF QuitSave, RentSave, Save, TypeInv, FileTypes
  <2> QED
    BY <1>1, <1>2, <2>1, <2>2, <2>3, <2>4, RecordWritten DEF QuitSave, RentSave
<1>3. CASE QuitCrashSave(j)
  <2>1. JobStep(j, "quitCrash", "none")
    BY <1>3 DEF QuitCrashSave
  <2>2. job[j].step = "quitCrash" /\ UNCHANGED sweep
    BY <2>1, JobGoesOn
  <2>3. PICK f : job' = [job EXCEPT ![j] = f] /\ f.step = "none"
    BY <2>1, JobGoesOn
  <2>4. file'.rec = file.rec
    BY <1>3 DEF QuitCrashSave, WriteCrashFile, DeleteObjects, SaveObjects, TypeInv, FileTypes
  <2> QED
    BY <1>3, <2>2, <2>3, <2>4, RecordWritten DEF QuitCrashSave
<1>4. CASE RentSaveObjects(j)
  <2>1. JobStep(j, "rentObjects", "rentSnapshot")
    BY <1>4 DEF RentSaveObjects
  <2>2. job[j].step = "rentObjects" /\ UNCHANGED sweep
    BY <2>1, JobGoesOn
  <2>3. PICK f : /\ job' = [job EXCEPT ![j] = f]
                 /\ f.step = "rentSnapshot" /\ f.body = job[j].body
    BY <2>1, JobGoesOn
  <2>4. file'.rec = file.rec
    BY <1>4 DEF RentSaveObjects, SaveObjects, TypeInv, FileTypes
  <2> QED
    BY <1>4, <2>2, <2>3, <2>4, RecordWritten DEF RentSaveObjects
<1>5. CASE RentSnapshot(j)
  <2> DEFINE f == [job[j] EXCEPT !.step = "rentRecord", !.rec = rec[job[j].body]]
  <2>1. /\ job[j].step = "rentSnapshot" /\ job' = [job EXCEPT ![j] = f]
        /\ UNCHANGED <<at, char, local, flags, inWorld, client, rec, file, sweep>>
    BY <1>5 DEF RentSnapshot
  <2>2. f.step = "rentRecord" /\ f.body = job[j].body /\ f.rec = rec[job[j].body]
    BY DEF TypeInv, ServerTypes, JobType
  <2> HIDE DEF f
  <2> QED
    BY <2>1, <2>2, RecordWritten
<1>6. CASE RentClose(j)
  <2>1. JobStep(j, "rentClose", "none")
    BY <1>6 DEF RentClose
  <2>2. job[j].step = "rentClose" /\ UNCHANGED sweep
    BY <2>1, JobGoesOn
  <2>3. PICK f : job' = [job EXCEPT ![j] = f] /\ f.step = "none"
    BY <2>1, JobGoesOn
  <2>4. \A t \in Conns : flags'[t] = flags[t] \/ flags'[t] = flags[t] \cup {"closed"}
    BY <1>6 DEF RentClose, Mark, TypeInv, SessionTypes
  <2> QED
    BY <1>6, <2>2, <2>3, <2>4, RecordWritten DEF RentClose
<1>7. QED
  BY <1>2, <1>3, <1>4, <1>5, <1>6 DEF Background

\* The sweep writes what the body in the world has, and removes none that somebody
\* is playing.
LEMMA SweepRecord ==
    ASSUME Undisturbed, TypeInv, WorldInv, RecInv, Sweep
    PROVE  RecInv'
<1> USE DEF session, world, rooms, bodies
<1>1. /\ UNCHANGED <<at, char, local, flags, client, rec, job>>
      /\ \A s \in Conns : (Holder(s)' <=> Holder(s)) /\ Owned(s)' = Owned(s)
  <2>1. UNCHANGED <<at, char, local, flags, client, rec, job>>
    BY DEF Sweep, SweepSnapshot, SweepSave, SweepJudge, SweepReap
  <2> QED
    BY <2>1 DEF Holder, Owned, Registered, Is
<1>2. \A t \in Conns : UNCHANGED file => Fresh(t)'
  BY <1>1 DEF RecInv, Fresh
<1>3. CASE SweepSnapshot
  <2>1. /\ UNCHANGED <<inWorld, file>> /\ byName # None
        /\ sweep' = [step |-> "swept", body |-> byName, rec |-> rec[byName],
                     linked |-> client[byName] # None]
    BY <1>3 DEF SweepSnapshot
  <2>2. inWorld = {byName}
    BY <2>1 DEF WorldInv, Rooms, IndexAgrees
  <2>3. sweep'.body = byName /\ sweep'.rec = rec[byName]
    BY <2>1
  <2>4. SweepHolds'
    BY <1>1, <2>1, <2>2, <2>3 DEF SweepHolds
  <2>5. Kept' /\ Ahead' /\ JobsHold'
    BY <1>1, <2>1 DEF RecInv, Kept, Ahead, JobsHold, Owing
  <2> QED
    BY <1>2, <2>1, <2>4, <2>5 DEF RecInv
<1>4. CASE SweepJudge
  <2>1. /\ UNCHANGED <<inWorld, file>>
        /\ sweep' = Rest \/ sweep' = [sweep EXCEPT !.step = "reaping"]
    BY <1>4 DEF SweepJudge
  <2>2. sweep'.step # "swept"
    BY <2>1 DEF Rest, TypeInv, ServerTypes
  <2>3. SweepHolds'
    BY <2>2 DEF SweepHolds
  <2>4. Kept' /\ Ahead' /\ JobsHold'
    BY <1>1, <2>1 DEF RecInv, Kept, Ahead, JobsHold, Owing
  <2> QED
    BY <1>2, <2>1, <2>3, <2>4 DEF RecInv
<1>5. ASSUME sweep.step # "none"
      PROVE  /\ \A t \in Conns : ~Busy(t)
             /\ \A j \in 1..Jobs : job[j].step = "none"
             /\ \A b : ~Owing(b)
  <2>1. Sweeping
    BY <1>5 DEF Sweeping, Undisturbed
  <2>2. ~Writing /\ \A t \in Conns : ~Busy(t)
    BY <2>1 DEF WorldInv, Solo
  <2> QED
    BY <2>2 DEF Writing, Idle, Owing
<1>6. CASE SweepSave
  <2> DEFINE b == sweep.body
  <2>1. /\ sweep.step = "swept" /\ file' = [file EXCEPT !.rec = sweep.rec]
        /\ sweep' = [sweep EXCEPT !.step = "judging"] /\ UNCHANGED inWorld
    BY <1>6 DEF SweepSave, Save
  <2>2. inWorld = {b} /\ sweep.rec = rec[b] /\ b \in Bodies
    BY <2>1 DEF RecInv, SweepHolds, TypeInv, ServerTypes
  <2>3. file'.rec = rec[b] /\ sweep'.step = "judging"
    BY <2>1, <2>2 DEF TypeInv, FileTypes, ServerTypes
  <2>4. file.rec <= rec[b]
    BY <2>2 DEF RecInv, Ahead
  <2>5. file.rec \in Nat /\ \A c \in Bodies : rec[c] \in Nat
    BY DEF TypeInv, FileTypes, WorldTypes
  <2>6. \A s \in Conns : Holder(s) => Owned(s) = b
    BY <2>2 DEF WorldInv, Rooms, Holding
  <2> HIDE DEF b
  <2>7. Kept'
    <3>1. ASSUME NEW c \in Bodies, rec[c] <= file.rec PROVE rec[c] <= file'.rec
      BY <2>2, <2>3, <2>4, <2>5, <3>1
    <3> QED
      BY <1>1, <2>1, <3>1 DEF RecInv, Kept, Owing
  <2>8. rec[b] <= rec[b]
    BY <2>2, <2>5
  <2>9. Ahead'
    <3>1. \A s \in Conns : Holder(s)' => file'.rec <= rec'[Owned(s)']
      BY <1>1, <2>3, <2>6, <2>8
    <3> QED
      BY <1>1, <1>5, <2>1, <2>2, <2>3, <2>8, <3>1 DEF Ahead
  <2>10. JobsHold' /\ SweepHolds'
    BY <1>1, <1>5, <2>1, <2>3 DEF JobsHold, SweepHolds
  <2>11. \A t \in Conns : Fresh(t)'
    BY <1>1, <1>5, <2>1 DEF Fresh, Busy, Places, Undisturbed
  <2> QED
    BY <2>7, <2>9, <2>10, <2>11 DEF RecInv
<1>7. CASE SweepReap
  <2>1. /\ sweep.step = "reaping" /\ UNCHANGED file /\ sweep' = Rest
        /\ inWorld' = inWorld \ {sweep.body}
    BY <1>7 DEF SweepReap, WorldRemove
  <2>2. inWorld \subseteq {sweep.body} /\ client[sweep.body] = None
    BY <2>1 DEF WorldInv, SweepSees, Sweeping, Undisturbed
  <2>3. inWorld' = {} /\ sweep'.step = "none"
    BY <2>1, <2>2 DEF Rest
  <2>4. Kept'
    BY <1>1, <2>1, <2>2, <2>3 DEF RecInv, Kept, Owing
  <2>5. Ahead'
    BY <1>1, <2>1, <2>3 DEF RecInv, Ahead
  <2>6. JobsHold' /\ SweepHolds'
    BY <1>1, <1>5, <2>1, <2>3 DEF JobsHold, SweepHolds
  <2> QED
    BY <1>2, <2>1, <2>4, <2>5, <2>6 DEF RecInv
<1>8. QED
  BY <1>3, <1>4, <1>6, <1>7 DEF Sweep

\* Every step keeps what the record is saved by.
LEMMA RecordStep ==
    ASSUME Undisturbed, TypeInv, OwnInv, WorldInv, RecInv, [Next]_vars
    PROVE  RecInv'
<1>1. ASSUME \/ UNCHANGED vars
             \/ \E s \in Conns : Kick(s)
      PROVE  RecInv'
  <2>1. /\ UNCHANGED <<at, char, local, inWorld, client, rec, file, job, sweep>>
        /\ \A t \in Conns : flags'[t] = flags[t] \/ flags'[t] = flags[t] \cup {"closed"}
    BY <1>1 DEF vars, session, world, rooms, bodies, server, Kick, Mark, TypeInv, SessionTypes
  <2>2. \A s \in Conns : (Holder(s)' <=> Holder(s)) /\ Owned(s)' = Owned(s)
    BY <2>1 DEF Holder, Owned, Registered, Is
  <2>3. \A t \in Conns : Fresh(t)'
    BY <2>1 DEF RecInv, Fresh
  <2>4. Kept' /\ SweepHolds'
    BY <2>1 DEF RecInv, Kept, SweepHolds, Owing
  <2>5. Ahead' /\ JobsHold'
    BY <2>1, <2>2 DEF RecInv, Ahead, JobsHold
  <2> QED
    BY <2>3, <2>4, <2>5 DEF RecInv
<1>2. \A b \in Bodies : ~Purge(b)
  BY DEF Purge, Undisturbed
<1> QED
  BY <1>1, <1>2, LoginRecord, EnterRecord, CommandRecord, DepartRecord, BackgroundRecord,
     SweepRecord DEF Next

\* At first nothing has been done that is to be saved.
LEMMA InitRecord == Init => RecInv
<1> SUFFICES ASSUME Init PROVE RecInv
  OBVIOUS
<1>1. Kept
  BY DEF Init, Kept, Bodies
<1>2. Ahead /\ JobsHold /\ SweepHolds
  BY DEF Init, Ahead, JobsHold, SweepHolds, Holder, Registered, Idle, Rest
<1>3. \A s \in Conns : Fresh(s)
  BY DEF Init, Fresh
<1> QED
  BY <1>1, <1>2, <1>3 DEF RecInv

\* When all is quiet nobody is playing a body and no save is on the way.
LEMMA QuietKept ==
    ASSUME WorldInv, RecInv
    PROVE  RecordKept
<1> SUFFICES ASSUME AtRest, NEW b \in Bodies PROVE rec[b] <= file.rec
  BY DEF RecordKept
<1>1. ~Owing(b)
  BY DEF AtRest, Owing, Idle
<1>2. \A s \in Conns : ~Holder(s)
  BY DEF AtRest, Holder, Registered
<1>3. ~(b \in inWorld /\ client[b] # None)
  BY <1>2 DEF WorldInv, Rooms, Standing, Holder, Registered
<1> QED
  BY <1>1, <1>3 DEF RecInv, Kept

\* RecordKept, when one handler runs at a time, nobody who has quit enters again over
\* the same connection and no god purges a player: when all is quiet the file is as far on
\* as any body has been, so no save of the teardown, background() or the sweep was
\* forgotten and none was of an older copy than one before it.
LEMMA NoSaveLost ==
    ASSUME Undisturbed PROVE Spec => []RecordKept
<1>1. Init => TypeInv /\ OwnInv /\ WorldInv /\ RecInv
  BY InitTypes, InitOwn, InitWorldInv, InitRecord
<1>2. TypeInv /\ OwnInv /\ WorldInv /\ RecInv /\ [Next]_vars =>
        (TypeInv /\ OwnInv /\ WorldInv /\ RecInv)'
  BY WorldStep, RecordStep, UndisturbedIsOrderly
<1>3. TypeInv /\ OwnInv /\ WorldInv /\ RecInv => RecordKept
  BY QuietKept
<1> QED
  BY <1>1, <1>2, <1>3, PTL DEF Spec

-----------------------------------------------------------------------------
(* The belongings.                                                         *)

\* Nobody's connection ends at the menu they logged in to, either.
Settled == Undisturbed /\ "menuHangup" \notin May

\* The body is in the world and its belongings are not in its hands yet.
Loading == {"loading", "restoring", "forfeiting"}

\* At the menu, and not back there from the world.
Waiting(s) == state[s] = "menu" /\ at[s] \notin Places.enter /\ ~Is(s, "extracted")

\* Until they are parted with the belongings are in the file, whoever has another copy
\* to write there; once they are parted with, the file is emptied.
Stored ==
    /\ parted \in {0, 1}
    /\ parted = 0 => file.items = 1
    /\ parted = 1 => \/ file.items = 0
                     \/ \E s \in Conns : at[s] = "emptying"
                     \/ \E j \in 1..Jobs : job[j].step \in {"quitRecord", "quitCrash"}

\* A body in the world has them all or is about to.
InHand ==
    \A b \in inWorld :
        carrying[b] = 1 - parted \/ \E s \in Conns : at[s] \in Loading /\ char[s] = b

\* A body that has not been in the world has none of them.
EmptyHanded(s) ==
    /\ char[s] = None => carrying[s] = 0
    /\ Holder(s) /\ (at[s] \in {"entering"} \cup Loading \/ Waiting(s)) =>
          carrying[Owned(s)] = 0

\* Who has just logged in stays till they enter.
Staying(s) ==
    /\ at[s] \in {"upgrading", "loaded", "adopting", "fresh"} => ~Is(s, "closed")
    /\ Holder(s) /\ Waiting(s) => at[s] = "reading" /\ ~Is(s, "closed")

\* What a handler has read of them is what there is.
Counted(s) ==
    /\ at[s] \in {"restoring", "forfeiting"} => local[s].read = 1 /\ parted = 0
    /\ at[s] = "emptying" => local[s].read = 0 /\ parted = 1
    /\ at[s] = "storing" => local[s].read = 1 - parted
    /\ at[s] \in {"crashing", "storing"} => ~Is(s, "rented")

\* So is what was left to background() to write.
JobsCount ==
    \A j \in 1..Jobs :
        /\ job[j].step \in {"quitRecord", "quitCrash"} => job[j].items = 1 - parted
        /\ job[j].step = "rentObjects" => job[j].items = 1 /\ parted = 0
        /\ job[j].step \in Renting => job[j].leaver \in Conns /\ Is(job[j].leaver, "rented")

\* The inductive invariant of the belongings.
ItemsInv ==
    /\ Stored /\ InHand /\ JobsCount
    /\ \A s \in Conns : EmptyHanded(s) /\ Staying(s) /\ Counted(s)

\* Nothing and one of a thing make one.
LEMMA PlusZero ==
    /\ Plus(0, 0) = 0 /\ Plus(0, 1) = 1 /\ Plus(1, 0) = 1
<1>1. /\ {0 + 0, Many} \subseteq Nat /\ {0 + 0, Many} # {}
      /\ {0 + 1, Many} \subseteq Nat /\ {0 + 1, Many} # {}
      /\ Many \in Nat /\ Many > 1
  BY PresenceAssumption
<1>2. Min({0 + 0, Many}) = 0
  BY <1>1 DEF Min
<1>3. Min({0 + 1, Many}) = 1
  BY <1>1 DEF Min
<1> QED
  BY <1>1, <1>2, <1>3 DEF Plus

\* Whoever is at something, or begins it, has the belongings to themselves.
LEMMA ItemsAlone ==
    ASSUME Settled, Solo, ItemsInv, NEW s \in Conns, Busy(s) \/ Turn(s)
    PROVE  /\ at[s] # "emptying" /\ parted = 1 => file.items = 0
           /\ at[s] \notin Loading => \A b \in inWorld : carrying[b] = 1 - parted
<1>1. /\ \A t \in Conns \ {s} : ~Busy(t)
      /\ \A j \in 1..Jobs : job[j].step = "none"
  BY AloneMeans DEF Settled
<1>2. \A t \in Conns \ {s} : at[t] \notin Loading \cup {"emptying"}
  BY <1>1 DEF Busy, Places, Loading
<1> QED
  BY <1>1, <1>2 DEF ItemsInv, Stored, InHand

\* Their step leaves the others as they were.
LEMMA OthersKept ==
    ASSUME Settled, TypeInv, Solo, ItemsInv, NEW s \in Conns, NEW p, Goto(s, p),
           Busy(s) \/ Turn(s),
           \A t \in Conns \ {s} :
              /\ char'[t] = char[t] /\ state'[t] = state[t]
              /\ char[t] = None => carrying'[t] = carrying[t],
           \A t \in Conns \ {s} : Holder(t)' =>
              /\ Holder(t) /\ Owned(t)' = Owned(t)
              /\ flags'[t] = flags[t] /\ carrying'[Owned(t)] = carrying[Owned(t)]
    PROVE  \A t \in Conns \ {s} : EmptyHanded(t)' /\ Staying(t)' /\ Counted(t)'
<1> SUFFICES ASSUME NEW t \in Conns \ {s}
             PROVE  EmptyHanded(t)' /\ Staying(t)' /\ Counted(t)'
  OBVIOUS
<1>1. at'[t] = at[t]
  BY DEF Goto, TypeInv, SessionTypes
<1>2. at[t] \notin Places.login \cup Places.enter \cup Places.leave
  BY AloneMeans DEF Busy, Settled, Undisturbed
<1>3. Holder(t)' => (Waiting(t)' <=> Waiting(t)) /\ (Is(t, "closed")' <=> Is(t, "closed"))
  BY <1>1 DEF Waiting, Is
<1>4. EmptyHanded(t) /\ Staying(t)
  BY DEF ItemsInv
<1>5. EmptyHanded(t)'
  <2>1. char'[t] = None => carrying'[t] = 0
    BY <1>4 DEF EmptyHanded
  <2>2. ASSUME Holder(t)', at'[t] \in {"entering"} \cup Loading \/ Waiting(t)'
        PROVE  carrying'[Owned(t)'] = 0
    BY <1>1, <1>3, <1>4, <2>2 DEF EmptyHanded
  <2> QED
    BY <2>1, <2>2 DEF EmptyHanded
<1>6. Staying(t)'
  BY <1>1, <1>2, <1>3, <1>4 DEF Staying, Places
<1>7. Counted(t)'
  BY <1>1, <1>2 DEF Counted, Places
<1> QED
  BY <1>5, <1>6, <1>7

\* A step of one session that is at something: where the belongings are then.
LEMMA ItemsStep ==
    ASSUME Settled, TypeInv, Solo, ItemsInv, NEW s \in Conns, NEW p, Goto(s, p),
           Busy(s) \/ Turn(s), UNCHANGED job,
           \A t \in Conns \ {s} :
              /\ char'[t] = char[t] /\ state'[t] = state[t]
              /\ char[t] = None => carrying'[t] = carrying[t],
           \A t \in Conns \ {s} : Holder(t)' =>
              /\ Holder(t) /\ Owned(t)' = Owned(t)
              /\ flags'[t] = flags[t] /\ carrying'[Owned(t)] = carrying[Owned(t)],
           Stored', InHand', EmptyHanded(s)', Staying(s)', Counted(s)'
    PROVE  ItemsInv'
<1>1. JobsCount'
  <2>1. \A j \in 1..Jobs : job[j].step = "none"
    BY AloneMeans DEF Settled
  <2> QED
    BY <2>1 DEF JobsCount, Renting
<1>2. \A t \in Conns \ {s} : EmptyHanded(t)' /\ Staying(t)' /\ Counted(t)'
  BY OthersKept
<1> QED
  BY <1>1, <1>2 DEF ItemsInv

\* A step of one session that leaves belongings and bodies alone.
LEMMA ItemsMove ==
    ASSUME Settled, TypeInv, Solo, ItemsInv, NEW s \in Conns, NEW p, Goto(s, p),
           Busy(s) \/ Turn(s), UNCHANGED <<job, parted, carrying, inWorld>>,
           file'.items = file.items, at[s] \notin Loading \cup {"emptying"},
           \A t \in Conns \ {s} : char'[t] = char[t] /\ state'[t] = state[t],
           \A t \in Conns \ {s} : Holder(t)' =>
              Holder(t) /\ Owned(t)' = Owned(t) /\ flags'[t] = flags[t],
           EmptyHanded(s)', Staying(s)', Counted(s)'
    PROVE  ItemsInv'
<1>1. Stored'
  BY ItemsAlone DEF ItemsInv, Stored
<1>2. InHand'
  BY ItemsAlone DEF InHand
<1> QED
  BY <1>1, <1>2, ItemsStep

\* A login comes with nothing.
LEMMA LoginItems ==
    ASSUME Settled, TypeInv, OwnInv, WorldInv, ItemsInv, NEW s \in Conns, Login(s)
    PROVE  ItemsInv'
<1> USE DEF world, rooms, bodies, server
<1>1. /\ at[s] \in Bodiless => char[s] = None
      /\ char[s] = None => flags[s] \subseteq {"closed"} /\ state[s] = "login"
      /\ EmptyHanded(s) /\ Staying(s) /\ Solo
  BY DEF TypeInv, SessionSized, ItemsInv, WorldInv, Marks, Marked
<1>2. CASE Connect(s)
  <2>1. /\ at[s] = "off" /\ Goto(s, "prompt") /\ char[s] = None
        /\ UNCHANGED <<char, state, flags, local, carrying, parted, file, inWorld, job>>
    BY <1>1, <1>2 DEF Connect, Bodiless
  <2>2. at'[s] = "prompt" /\ \A t \in Conns \ {s} : at'[t] = at[t]
    BY <2>1 DEF Goto, TypeInv, SessionTypes
  <2>3. /\ ~Holder(s)' /\ ~Holder(s)
        /\ \A t \in Conns \ {s} : (Holder(t)' <=> Holder(t)) /\ Owned(t)' = Owned(t)
    BY <2>1, <2>2 DEF Holder, Owned, Registered, Is
  <2>4. Stored' /\ InHand' /\ JobsCount'
    BY <2>1, <2>2 DEF ItemsInv, Stored, InHand, JobsCount, Loading, Is
  <2>5. EmptyHanded(s)' /\ Staying(s)' /\ Counted(s)'
    BY <1>1, <2>1, <2>2, <2>3 DEF EmptyHanded, Staying, Counted
  <2>6. ASSUME NEW t \in Conns \ {s} PROVE EmptyHanded(t)' /\ Staying(t)' /\ Counted(t)'
    BY <2>1, <2>2, <2>3 DEF ItemsInv, EmptyHanded, Staying, Counted, Waiting, Is
  <2> QED
    BY <2>4, <2>5, <2>6 DEF ItemsInv
\* The steps before the dupe check.
<1>3. CASE \/ BadPassword(s) \/ TallyBadPassword(s) \/ Authenticate(s)
           \/ UpgradeCredential(s) \/ Refuse(s)
  <2>1. /\ at[s] \in {"prompt", "tallying", "upgrading", "loaded"} /\ char[s] = None
        /\ UNCHANGED <<char, state, carrying, parted, inWorld, job>>
        /\ Busy(s) \/ Turn(s)
    BY <1>1, <1>3 DEF BadPassword, TallyBadPassword, Authenticate, UpgradeCredential, Refuse,
           Bodiless, Busy, Places
  <2>2. PICK p \in {"prompt", "tallying", "upgrading", "loaded", "ended"} :
            /\ Goto(s, p)
            /\ p \in {"upgrading", "loaded"} =>
                  flags'[s] = flags[s] /\ (at[s] = "upgrading" \/ ~Is(s, "closed"))
    BY <1>3 DEF BadPassword, TallyBadPassword, Authenticate, UpgradeCredential, Refuse
  <2>3. at'[s] = p
    BY <2>2 DEF Goto, TypeInv, SessionTypes
  <2>4. file'.items = file.items
    BY <1>3 DEF BadPassword, TallyBadPassword, Authenticate, UpgradeCredential, Refuse, Save,
           TypeInv, FileTypes
  <2>5. \A t \in Conns \ {s} : local'[t] = local[t]
    BY <1>3, Forgotten DEF BadPassword, TallyBadPassword, Authenticate, UpgradeCredential, Refuse,
           Read, TypeInv, SessionTypes
  <2>6. Grown
    BY <1>3, MarkGrows DEF BadPassword, TallyBadPassword, Authenticate, UpgradeCredential, Refuse,
           TypeInv, Grown
  <2>7. \A t \in Conns : Holder(t)' => Holder(t) /\ Owned(t)' = Owned(t)
    BY <2>1, <2>2, <2>5, <2>6, MoveHolders
  <2>8. \A t \in Conns \ {s} : flags'[t] = flags[t]
    BY <1>3 DEF BadPassword, TallyBadPassword, Authenticate, UpgradeCredential, Refuse, Mark,
           TypeInv, SessionTypes
  <2>9. ~Holder(s)
    BY <2>1 DEF Holder
  <2>10. EmptyHanded(s)'
    BY <1>1, <2>1, <2>7, <2>9 DEF EmptyHanded
  <2>11. Staying(s)'
    BY <1>1, <2>2, <2>3, <2>7, <2>9 DEF Staying, Is
  <2>12. Counted(s)'
    BY <2>3 DEF Counted
  <2> QED
    BY <1>1, <2>1, <2>2, <2>4, <2>7, <2>8, <2>10, <2>11, <2>12, ItemsMove DEF Loading
<1>4. CASE DupeCheck(s)
  <2>1. /\ at[s] = "loaded" /\ char[s] = None /\ Busy(s)
        /\ UNCHANGED <<char, state, carrying, parted, inWorld, file, job>>
        /\ Mark(Others(s), {"displaced", "closed"})
    BY <1>1, <1>4 DEF DupeCheck, Bodiless, Busy, Places
  <2>2. PICK p \in {"fresh", "adopting"} : Goto(s, p)
    BY <1>4 DEF DupeCheck
  <2>3. at'[s] = p
    BY <2>2 DEF Goto, TypeInv, SessionTypes
  <2>4. \A t \in Conns \ {s} : ~Holder(t)'
    BY <1>4, DupeCheckFinds, UndisturbedIsOrderly DEF WorldInv, Settled
  <2>5. flags'[s] = flags[s]
    BY <2>1 DEF Mark, Others, TypeInv, SessionTypes
  <2>6. ~Waiting(s)'
    BY <1>1, <2>1 DEF Waiting
  <2>7. EmptyHanded(s)'
    BY <1>1, <2>1, <2>3, <2>6 DEF EmptyHanded, Loading
  <2>8. Staying(s)'
    BY <1>1, <2>1, <2>5, <2>6 DEF Staying, Is
  <2>9. Counted(s)'
    BY <2>3 DEF Counted
  <2> QED
    BY <1>1, <2>1, <2>2, <2>4, <2>7, <2>8, <2>9, ItemsMove DEF Loading
<1>5. CASE Adopt(s) \/ ToMenu(s)
  <2>1. /\ at[s] \in {"adopting", "fresh"} /\ char[s] = None /\ Busy(s) /\ Goto(s, "reading")
        /\ UNCHANGED <<flags, carrying, parted, inWorld, file, job>>
    BY <1>1, <1>5 DEF Adopt, ToMenu, Bodiless, Busy, Places
  <2>2. at'[s] = "reading"
    BY <2>1 DEF Goto, TypeInv, SessionTypes
  <2>3. \A t \in Conns \ {s} : char'[t] = char[t] /\ state'[t] = state[t]
    BY <1>5 DEF Adopt, ToMenu, TypeInv, SessionTypes
  <2>4. \A t \in Conns : Holder(t)' => Holder(t) /\ Owned(t)' = Owned(t)
    BY <1>5, TakesItsBody DEF Alike, WorldInv
  <2>5. ~Is(s, "closed")'
    BY <1>1, <2>1 DEF Staying, Is
  <2>6. Staying(s)' /\ Counted(s)'
    BY <2>2, <2>5 DEF Staying, Counted
  <2>7. Waiting(s)' => at[s] = "fresh" /\ char'[s] = s
    BY <1>5 DEF Adopt, ToMenu, Waiting, TypeInv, SessionTypes
  <2>8. char'[s] # None
    BY <1>5, Numbers DEF Adopt, ToMenu, TypeInv, SessionTypes, SessionSized
  <2>9. EmptyHanded(s)'
    BY <1>1, <2>1, <2>2, <2>7, <2>8 DEF EmptyHanded, Owned, Loading
  <2> QED
    BY <1>1, <2>1, <2>3, <2>4, <2>6, <2>9, ItemsMove DEF Loading
<1>6. QED
  BY <1>2, <1>3, <1>4, <1>5 DEF Login

\* What a body comes to have is what the file has, or it is parted with.
LEMMA EnterItems ==
    ASSUME Settled, TypeInv, OwnInv, WorldInv, ItemsInv, NEW s \in Conns, Enter(s)
    PROVE  ItemsInv'
<1> USE DEF world, rooms, bodies, server
<1> DEFINE b == char[s]
<1>1. /\ at[s] \in Places.enter \cup {"reading"} => b \in Bodies /\ b # None
      /\ at[s] \in Places.enter => /\ Busy(s) /\ ~Is(s, "displaced") /\ state[s] = "menu"
                                   /\ Holder(s) /\ Owned(s) = b
      /\ EmptyHanded(s) /\ Staying(s) /\ Counted(s) /\ Solo /\ Stored /\ InHand
  <2>1. at[s] \in Places.enter \cup {"reading"} => at[s] \in Embodied
    BY DEF Places, Embodied
  <2>2. at[s] \in Places.enter => at[s] \in Driving
    BY DEF Places, Driving
  <2>3. at[s] \in Places.enter => ~Is(s, "displaced") /\ state[s] = "menu"
    BY <2>2 DEF WorldInv, Marks, Marked
  <2>4. at[s] \in Places.enter \cup {"reading"} => b \in Bodies /\ b # None
    BY <2>1, Numbers DEF TypeInv, SessionSized
  <2>5. at[s] \in Places.enter => Holder(s) /\ Owned(s) = b
    BY <2>3, <2>4 DEF Holder, Owned, Registered, Places
  <2> QED
    BY <2>3, <2>4, <2>5 DEF Busy, ItemsInv, WorldInv
<1>2. CASE ChooseEnter(s)
  <2>1. /\ at[s] = "reading" /\ state[s] = "menu" /\ Turn(s) /\ Goto(s, "entering")
        /\ ~Is(s, "extracted") /\ ~Is(s, "closed")
        /\ UNCHANGED <<char, state, flags, local, carrying, parted, inWorld, file, job>>
    BY <1>2 DEF ChooseEnter, Settled, Undisturbed
  <2>2. at'[s] = "entering"
    BY <2>1 DEF Goto, TypeInv, SessionTypes
  <2>3. Grown
    BY <2>1 DEF Grown
  <2>4. \A t \in Conns : Holder(t)' => Holder(t) /\ Owned(t)' = Owned(t)
    BY <2>1, <2>3, MoveHolders
  <2>5. Staying(s)' /\ Counted(s)'
    BY <2>2 DEF Staying, Counted, Waiting, Places
  <2>6. Waiting(s)
    BY <2>1 DEF Waiting, Places
  <2>7. EmptyHanded(s)'
    BY <1>1, <2>1, <2>4, <2>6 DEF EmptyHanded
  <2> QED
    BY <1>1, <2>1, <2>4, <2>5, <2>7, ItemsMove DEF Loading
\* From there on the body is the only one in the world.
<1>3. ASSUME at[s] \in Places.enter
      PROVE  inWorld \subseteq {b} /\ \A t \in Conns \ {s} : ~Holder(t)
  BY <1>1, <1>3 DEF WorldInv, Rooms, Holding, OneHolder
<1>4. ASSUME at[s] \in Places.enter, NEW p, Goto(s, p), UNCHANGED char,
             \A t \in Conns : Is(t, "displaced")' <=> Is(t, "displaced")
      PROVE  \A t \in Conns \ {s} : ~Holder(t)'
  <2>1. \A t \in Conns \ {s} : at'[t] = at[t]
    BY <1>4 DEF Goto, TypeInv, SessionTypes
  <2> QED
    BY <1>3, <1>4, <2>1 DEF Holder, Registered
<1>5. at[s] \in Loading \cup {"entering"} => carrying[b] = 0
  BY <1>1 DEF EmptyHanded, Loading, Places
<1>6. at[s] # "emptying" /\ at[s] \in Places.enter /\ parted = 1 => file.items = 0
  BY <1>1, ItemsAlone
<1>7. at[s] \in Places.enter \ Loading => \A c \in inWorld : carrying[c] = 1 - parted
  BY <1>1, ItemsAlone
<1>8. /\ carrying \in [Bodies -> 0..Many] /\ file.items \in 0..Many /\ parted \in {0, 1}
      /\ (file.code = "none") <=> (file.items = 0)
  BY <1>1 DEF TypeInv, WorldTypes, FileTypes, Stored
<1>9. CASE EnterRoom(s)
  <2>1. /\ at[s] = "entering" /\ Goto(s, "loading") /\ inWorld' = inWorld \cup {b}
        /\ UNCHANGED <<char, state, flags, local, carrying, parted, file, job>>
    BY <1>9 DEF EnterRoom, WorldEnter
  <2>2. at'[s] = "loading" /\ at[s] \in Places.enter
    BY <2>1 DEF Goto, Places, TypeInv, SessionTypes
  <2>3. \A t \in Conns \ {s} : ~Holder(t)'
    BY <1>4, <2>1, <2>2 DEF Is
  <2>4. Staying(s)' /\ Counted(s)'
    BY <2>2 DEF Staying, Counted, Waiting, Places
  <2>5. EmptyHanded(s)'
    BY <1>1, <1>5, <2>1, <2>2 DEF EmptyHanded, Owned
  <2>6. InHand'
    BY <1>3, <2>1, <2>2 DEF InHand, Loading
  <2>7. Stored'
    BY <1>1, <1>6, <2>1, <2>2 DEF Stored
  <2> QED
    BY <1>1, <2>1, <2>2, <2>3, <2>4, <2>5, <2>6, <2>7, ItemsStep
<1>10. CASE LoadObjects(s)
  <2>1. /\ at[s] = "loading" /\ Read(s, file.items)
        /\ UNCHANGED <<char, state, flags, inWorld, carrying, parted, file, job>>
    BY <1>10 DEF LoadObjects
  <2>2. PICK p \in {"entered", "restoring", "forfeiting"} :
            /\ Goto(s, p)
            /\ p = "entered" <=> file.code = "none"
    BY <1>10 DEF LoadObjects
  <2>3. at'[s] = p /\ at[s] \in Places.enter /\ local'[s].read = file.items
    BY <2>1, <2>2 DEF Goto, Read, Places, TypeInv, SessionTypes
  <2>4. \A t \in Conns \ {s} : ~Holder(t)'
    BY <1>4, <2>1, <2>2, <2>3 DEF Is
  <2>5. Staying(s)'
    BY <2>3 DEF Staying, Waiting, Places
  <2>6. EmptyHanded(s)'
    BY <1>1, <1>5, <2>1, <2>3 DEF EmptyHanded, Owned, Loading
  <2>7. p # "entered" => parted = 0 /\ file.items = 1
    BY <1>1, <1>6, <1>8, <2>1, <2>2, <2>3 DEF Stored
  <2>8. Counted(s)'
    BY <2>1, <2>3, <2>7 DEF Counted
  <2>9. p = "entered" => parted = 1
    BY <1>1, <1>8, <2>2 DEF Stored
  <2>10. InHand'
    <3>1. CASE p = "entered"
      BY <1>3, <1>5, <2>1, <2>3, <2>9, <3>1 DEF InHand, Loading
    <3>2. CASE p # "entered"
      BY <1>3, <2>1, <2>3, <3>2 DEF InHand, Loading
    <3> QED
      BY <3>1, <3>2
  <2>11. Stored'
    BY <1>1, <1>6, <2>1, <2>3 DEF Stored
  <2> QED
    BY <1>1, <2>1, <2>2, <2>3, <2>4, <2>5, <2>6, <2>8, <2>10, <2>11, ItemsStep
<1>11. CASE Forfeit(s)
  <2>1. /\ at[s] = "forfeiting" /\ parted' = Plus(parted, local[s].read)
        /\ Read(s, carrying[b]) /\ Goto(s, "emptying")
        /\ UNCHANGED <<char, state, flags, inWorld, carrying, file, job>>
    BY <1>11 DEF Forfeit
  <2>2. parted' = 1 /\ at[s] \in Places.enter /\ carrying[b] = 0
    BY <1>1, <1>5, <2>1, PlusZero DEF Counted, Loading, Places
  <2>3. at'[s] = "emptying" /\ local'[s].read = 0
    BY <2>1, <2>2 DEF Goto, Read, TypeInv, SessionTypes
  <2>4. \A t \in Conns \ {s} : ~Holder(t)'
    BY <1>4, <2>1, <2>2 DEF Is
  <2>5. Staying(s)' /\ Counted(s)'
    BY <2>2, <2>3 DEF Staying, Waiting, Counted, Places
  <2>6. EmptyHanded(s)'
    BY <1>1, <2>1, <2>2, <2>3 DEF EmptyHanded, Waiting, Loading, Places
  <2>7. InHand'
    BY <1>3, <2>1, <2>2 DEF InHand
  <2>8. Stored'
    BY <2>2, <2>3 DEF Stored
  <2> QED
    BY <1>1, <2>1, <2>2, <2>4, <2>5, <2>6, <2>7, <2>8, ItemsStep
<1>12. CASE ForfeitWrite(s)
  <2>1. /\ at[s] = "emptying" /\ WriteCrashFile(local[s].read) /\ Goto(s, "entered")
        /\ UNCHANGED <<char, state, flags, inWorld, carrying, parted, job>>
    BY <1>12 DEF ForfeitWrite
  <2>2. at'[s] = "entered" /\ at[s] \in Places.enter /\ at[s] \notin Loading
    BY <2>1 DEF Goto, Places, Loading, TypeInv, SessionTypes
  <2>3. parted = 1 /\ file'.items = 0
    BY <1>1, <2>1 DEF Counted, WriteCrashFile, DeleteObjects, SaveObjects, TypeInv, FileTypes
  <2>4. \A t \in Conns \ {s} : ~Holder(t)'
    BY <1>4, <2>1, <2>2 DEF Is
  <2>5. Staying(s)' /\ Counted(s)'
    BY <2>2 DEF Staying, Waiting, Counted, Places
  <2>6. EmptyHanded(s)'
    BY <1>1, <2>1, <2>2 DEF EmptyHanded, Waiting, Loading, Places
  <2>7. InHand'
    BY <1>7, <2>1, <2>2 DEF InHand
  <2>8. Stored'
    BY <2>1, <2>3 DEF Stored
  <2> QED
    BY <1>1, <2>1, <2>2, <2>4, <2>5, <2>6, <2>7, <2>8, ItemsStep
<1>13. CASE RestoreObjects(s)
  <2>1. /\ at[s] = "restoring" /\ Goto(s, "marking")
        /\ carrying' = [carrying EXCEPT ![b] = Plus(@, local[s].read)]
        /\ UNCHANGED <<char, state, flags, inWorld, parted, file, job>>
    BY <1>13 DEF RestoreObjects
  <2>2. /\ at'[s] = "marking" /\ at[s] \in Places.enter
        /\ b \in Bodies /\ b # None /\ local[s].read = 1 /\ parted = 0
    BY <1>1, <2>1 DEF Goto, Places, Counted, TypeInv, SessionTypes
  <2>3. carrying'[b] = 1 /\ \A c \in Bodies \ {b} : carrying'[c] = carrying[c]
    BY <1>5, <1>8, <2>1, <2>2, PlusZero DEF Loading
  <2>4. \A t \in Conns \ {s} : ~Holder(t)'
    BY <1>4, <2>1, <2>2 DEF Is
  <2>5. Staying(s)' /\ Counted(s)'
    BY <2>2 DEF Staying, Waiting, Counted, Places
  <2>6. EmptyHanded(s)'
    BY <2>1, <2>2 DEF EmptyHanded, Waiting, Loading, Places
  <2>7. InHand'
    BY <1>3, <2>1, <2>2, <2>3 DEF InHand
  <2>8. Stored'
    BY <1>1, <1>6, <2>1, <2>2 DEF Stored
  <2>9. char[b] = b
    BY <2>2 DEF OwnInv, Used
  <2>10. \A t \in Conns : char[t] = None => carrying'[t] = carrying[t]
    BY <2>2, <2>3, <2>9 DEF Bodies
  <2> QED
    BY <1>1, <2>1, <2>2, <2>4, <2>5, <2>6, <2>7, <2>8, <2>10, ItemsStep
<1>14. CASE MarkRestored(s) \/ Entered(s)
  <2>1. /\ at[s] \in {"marking", "entered"} /\ UNCHANGED <<char, inWorld, carrying, parted, job>>
        /\ \A t \in Conns : Is(t, "displaced")' <=> Is(t, "displaced")
        /\ \A t \in Conns \ {s} : state'[t] = state[t]
    BY <1>14 DEF MarkRestored, Entered, Is, TypeInv, SessionTypes
  <2>2. PICK p \in {"entered", "reading"} : Goto(s, p) /\ (p = "reading" <=> Entered(s))
    BY <1>14 DEF MarkRestored, Entered
  <2>3. at'[s] = p /\ at[s] \in Places.enter /\ at[s] \notin Loading
    BY <2>1, <2>2 DEF Goto, Places, Loading, TypeInv, SessionTypes
  <2>4. \A t \in Conns \ {s} : ~Holder(t)'
    BY <1>4, <2>1, <2>2, <2>3
  <2>5. file'.items = file.items
    BY <1>14 DEF MarkRestored, Entered, MarkCrashed, TypeInv, FileTypes
  <2>6. ~Waiting(s)'
    <3>1. CASE p = "entered"
      BY <2>3, <3>1 DEF Waiting, Places
    <3>2. CASE p = "reading"
      <4>1. state'[s] = "playing"
        BY <2>2, <3>2 DEF Entered, TypeInv, SessionTypes
      <4> QED
        BY <4>1 DEF Waiting
    <3> QED
      BY <3>1, <3>2
  <2>7. Staying(s)' /\ Counted(s)'
    BY <2>3, <2>6 DEF Staying, Counted
  <2>8. EmptyHanded(s)'
    BY <1>1, <2>1, <2>3, <2>6 DEF EmptyHanded, Loading
  <2> QED
    BY <1>1, <2>1, <2>2, <2>3, <2>4, <2>5, <2>7, <2>8, ItemsMove
<1>15. QED
  BY <1>2, <1>9, <1>10, <1>11, <1>12, <1>13, <1>14 DEF Enter

\* Background has one write, what a command has begun.
LEMMA BeginOne ==
    ASSUME Undisturbed, TypeInv, Solo, NEW s \in Conns, Busy(s), NEW f, Begin(f)
    PROVE  \A j \in 1..Jobs : job'[j].step = "none" \/ job'[j] = f
<1> DEFINE free == {k \in 1..Jobs : job[k] = Idle}
<1>1. free \subseteq Nat /\ free # {}
  BY DEF Begin
<1>2. Min(free) \in 1..Jobs
  BY <1>1, MinElement
<1>3. PICK i \in 1..Jobs : job' = [job EXCEPT ![i] = f]
  BY <1>2 DEF Begin
<1>4. \A j \in 1..Jobs : job[j].step = "none"
  BY AloneMeans
<1> HIDE DEF free
<1> QED
  BY <1>3, <1>4 DEF TypeInv, ServerTypes

\* Whoever is playing has the belongings, unless they were parted with.
LEMMA DoingHas ==
    ASSUME Settled, TypeInv, WorldInv, ItemsInv, NEW s \in Conns, at[s] = "doing"
    PROVE  /\ char[s] \in Bodies /\ char[s] # None /\ client[char[s]] = s
           /\ state[s] = "playing" /\ ~Is(s, "rented") /\ ~Is(s, "extracted") /\ Busy(s)
           /\ Holder(s) /\ Owned(s) = char[s] /\ inWorld = {char[s]}
           /\ carrying[char[s]] = 1 - parted
           /\ \A t \in Conns \ {s} : ~Holder(t)
<1>1. /\ char[s] \in Bodies /\ char[s] # None /\ client[char[s]] = s
      /\ state[s] = "playing" /\ ~Is(s, "rented") /\ ~Is(s, "displaced") /\ ~Is(s, "extracted")
  BY Doing, Numbers DEF WorldInv
<1>2. Holder(s) /\ Owned(s) = char[s] /\ ~Out(s)
  BY <1>1 DEF Holder, Owned, Registered, Out
<1>3. Busy(s) /\ at[s] \notin Loading
  BY DEF Busy, Places, Loading
<1>4. inWorld = {char[s]} /\ \A t \in Conns \ {s} : ~Holder(t)
  BY <1>2 DEF WorldInv, Rooms, Attached, Holding, OneHolder, Settled, Undisturbed
<1>5. carrying[char[s]] = 1 - parted
  BY <1>3, <1>4, ItemsAlone DEF WorldInv
<1> QED
  BY <1>1, <1>2, <1>3, <1>4, <1>5

\* What leaves the world with somebody is as much as they had, or is parted with.
LEMMA ItemsLeft ==
    ASSUME Settled, TypeInv, OwnInv, WorldInv, ItemsInv, NEW s \in Conns,
           at[s] = "doing", Goto(s, "reading"), WorldRemove(char[s]),
           UNCHANGED <<char, local, file>>, Grown,
           \A t \in Conns \ {s} : state'[t] = state[t],
           \/ state'[s] = "menu" /\ Is(s, "extracted")'
           \/ state'[s] = "playing",
           NEW f, Begin(f), f.step \in {"quitRecord", "rentObjects"},
           f.step = "quitRecord" => f.items = 1 - parted',
           f.step = "rentObjects" => /\ f.items = 1 /\ parted' = 0
                                     /\ f.leaver = s /\ Is(s, "rented")',
           parted' \in {0, 1}, parted <= parted',
           parted < parted' => f.step = "quitRecord",
           \A b \in Bodies : carrying'[b] = carrying[b] \/ b = char[s]
    PROVE  ItemsInv'
<1>1. /\ char[s] \in Bodies /\ char[s] # None /\ Busy(s) /\ inWorld = {char[s]}
      /\ \A t \in Conns \ {s} : ~Holder(t)
  BY DoingHas
<1>2. at'[s] = "reading" /\ \A t \in Conns \ {s} : at'[t] = at[t]
  BY DEF Goto, TypeInv, SessionTypes
<1>3. \A t \in Conns \ {s} : ~Holder(t)'
  BY <1>1, <1>2 DEF Holder, Registered, Is, Grown
<1>4. \A j \in 1..Jobs : job'[j].step = "none" \/ job'[j] = f
  BY <1>1, BeginOne DEF WorldInv, Settled
<1>5. \E j \in 1..Jobs : job'[j] = f
  <2> DEFINE free == {k \in 1..Jobs : job[k] = Idle}
  <2>1. free \subseteq Nat /\ free # {}
    BY DEF Begin
  <2>2. Min(free) \in 1..Jobs
    BY <2>1, MinElement
  <2>3. PICK i \in 1..Jobs : job' = [job EXCEPT ![i] = f]
    BY <2>2 DEF Begin
  <2> HIDE DEF free
  <2> QED
    BY <2>3 DEF TypeInv, ServerTypes
<1>6. char[char[s]] = char[s]
  BY <1>1 DEF OwnInv, Used
<1>7. \A t \in Conns : char[t] = None => carrying'[t] = carrying[t]
  BY <1>1, <1>6 DEF Bodies
<1>8. \A t \in Conns \ {s} : EmptyHanded(t)' /\ Staying(t)' /\ Counted(t)'
  BY <1>1, <1>3, <1>7, OthersKept DEF WorldInv
<1>9. EmptyHanded(s)' /\ Staying(s)' /\ Counted(s)'
  BY <1>1, <1>2 DEF EmptyHanded, Staying, Counted, Waiting, Loading
<1>10. InHand'
  BY <1>1 DEF InHand, WorldRemove
<1>11. parted = 1 => file.items = 0
  BY <1>1, ItemsAlone DEF WorldInv
<1>12. parted \in {0, 1} /\ (parted = 0 => file.items = 1)
  BY DEF ItemsInv, Stored
<1>13. Stored'
  <2>1. CASE parted' = parted
    BY <1>11, <1>12, <2>1 DEF Stored
  <2>2. CASE parted' # parted
    <3>1. parted' = 1 /\ f.step = "quitRecord"
      BY <1>12, <2>2
    <3> QED
      BY <1>5, <3>1 DEF Stored
  <2> QED
    BY <2>1, <2>2
<1>14. JobsCount'
  BY <1>4 DEF JobsCount, Renting
<1> QED
  BY <1>8, <1>9, <1>10, <1>13, <1>14 DEF ItemsInv

\* A command parts with the belongings, or takes them out of the world with the body.
LEMMA CommandItems ==
    ASSUME Settled, TypeInv, OwnInv, WorldInv, ItemsInv, NEW s \in Conns, Command(s)
    PROVE  ItemsInv'
<1> USE DEF world, rooms, bodies, server
<1> DEFINE b == char[s]
<1>1. /\ Solo /\ parted \in {0, 1} /\ EmptyHanded(s)
      /\ at[s] = "doing" =>
            /\ b \in Bodies /\ client[b] = s /\ state[s] = "playing"
            /\ carrying[b] = 1 - parted /\ Busy(s)
  BY DoingHas DEF WorldInv, ItemsInv, Stored
<1>2. CASE TypeCommand(s) \/ Play(s) \/ Look(s)
  <2>1. /\ at[s] \in {"reading", "doing"} /\ state[s] = "playing"
        /\ UNCHANGED <<char, state, flags, local, carrying, parted, inWorld, file, job>>
    BY <1>1, <1>2 DEF TypeCommand, Play, Look
  <2>2. PICK p \in {"reading", "doing"} : Goto(s, p)
    BY <1>2 DEF TypeCommand, Play, Look
  <2>3. at'[s] = p
    BY <2>2 DEF Goto, TypeInv, SessionTypes
  <2>4. Grown
    BY <2>1 DEF Grown
  <2>5. \A t \in Conns : Holder(t)' => Holder(t) /\ Owned(t)' = Owned(t)
    BY <2>1, <2>2, <2>4, MoveHolders
  <2>6. ~Waiting(s)'
    BY <1>2, <1>1 DEF TypeCommand, Play, Look, Waiting
  <2>7. EmptyHanded(s)' /\ Staying(s)' /\ Counted(s)'
    BY <1>1, <2>1, <2>3, <2>6 DEF EmptyHanded, Staying, Counted, Loading
  <2>8. Busy(s) \/ Turn(s)
    BY <1>1, <1>2 DEF TypeCommand, Play, Look
  <2> QED
    BY <1>1, <2>1, <2>2, <2>5, <2>7, <2>8, ItemsMove DEF Loading
<1>3. CASE Quit(s)
  <2>1. Grown
    BY <1>3, MarkGrows DEF Quit, TypeInv
  <2>2. /\ at[s] = "doing" /\ Goto(s, "reading") /\ WorldRemove(b)
        /\ UNCHANGED <<char, local, carrying, parted, file>>
        /\ Begin([step |-> "quitRecord", body |-> b, rec |-> rec[b], items |-> carrying[b],
                  leaver |-> None])
    BY <1>3 DEF Quit, Extract
  <2>3. /\ state'[s] = "menu" /\ Is(s, "extracted")'
        /\ \A t \in Conns \ {s} : state'[t] = state[t]
    BY <1>3 DEF Quit, Mark, Is, TypeInv, SessionTypes
  <2> HIDE DEF b
  <2> QED
    BY <1>1, <2>1, <2>2, <2>3, ItemsLeft DEF b
<1>4. CASE DeathTrap(s)
  <2>1. Grown
    BY <1>4, MarkGrows DEF DeathTrap, TypeInv
  <2>2. /\ at[s] = "doing" /\ Goto(s, "reading") /\ WorldRemove(b)
        /\ UNCHANGED <<char, local, file>>
        /\ carrying' = [carrying EXCEPT ![b] = 0] /\ parted' = Plus(parted, carrying[b])
        /\ Begin([step |-> "quitRecord", body |-> b, rec |-> rec[b], items |-> 0,
                  leaver |-> None])
    BY <1>4 DEF DeathTrap, Extract
  <2>3. /\ state'[s] = "menu" /\ Is(s, "extracted")'
        /\ \A t \in Conns \ {s} : state'[t] = state[t]
    BY <1>1, <1>4 DEF DeathTrap, Mark, Is, TypeInv, SessionTypes
  <2>4. parted' = 1
    <3>1. CASE parted = 0
      BY <1>1, <2>2, <3>1, PlusZero
    <3>2. CASE parted = 1
      BY <1>1, <2>2, <3>2, PlusZero
    <3> QED
      BY <1>1, <3>1, <3>2
  <2>5. \A c \in Bodies : carrying'[c] = carrying[c] \/ c = b
    BY <2>2 DEF TypeInv, WorldTypes
  <2> HIDE DEF b
  <2> QED
    BY <1>1, <2>1, <2>2, <2>3, <2>4, <2>5, ItemsLeft DEF b
<1>5. CASE Rent(s)
  <2>1. Grown
    BY <1>5, MarkGrows DEF Rent, TypeInv
  <2>2. /\ at[s] = "doing" /\ Goto(s, "reading") /\ WorldRemove(b)
        /\ UNCHANGED <<char, local, parted, file, state>> /\ carrying[b] > 0
        /\ carrying' = [carrying EXCEPT ![b] = 0]
        /\ Begin([step |-> "rentObjects", body |-> b, rec |-> 0, items |-> carrying[b],
                  leaver |-> client[b]])
    BY <1>5 DEF Rent
  <2>3. client[b] = s /\ parted = 0 /\ carrying[b] = 1 /\ state[s] = "playing"
    BY <1>1, <2>2
  <2>4. Is(s, "rented")'
    BY <1>5, <2>3 DEF Rent, Mark, Is, TypeInv, SessionTypes
  <2>5. \A c \in Bodies : carrying'[c] = carrying[c] \/ c = b
    BY <2>2 DEF TypeInv, WorldTypes
  <2> HIDE DEF b
  <2> QED
    BY <1>1, <2>1, <2>2, <2>3, <2>4, <2>5, ItemsLeft DEF b
<1>6. QED
  BY <1>2, <1>3, <1>4, <1>5 DEF Command

\* A teardown stores what its body has, which is all there is.
LEMMA DepartItems ==
    ASSUME Settled, TypeInv, OwnInv, WorldInv, ItemsInv, NEW s \in Conns, Depart(s)
    PROVE  ItemsInv'
<1> USE DEF world, rooms, bodies, server
<1>1. /\ EmptyHanded(s) /\ Staying(s) /\ Counted(s) /\ Solo /\ Stored /\ InHand
      /\ parted \in {0, 1}
  BY DEF ItemsInv, WorldInv, Stored
<1>2. at[s] \in Places.leave => Busy(s)
  BY DEF Busy, Settled, Undisturbed
<1>3. at[s] \notin {"reading"} => ~(Holder(s) /\ Waiting(s))
  BY <1>1 DEF Staying
\* The steps that leave what is stored alone.
<1>4. CASE ReadEnds(s) \/ LeaveNothing(s) \/ Leave(s) \/ LeaveSnapshot(s) \/ LeaveSave(s)
           \/ LeaveCrashFile(s) \/ LeaveWorld(s)
  <2>1. /\ at[s] \in {"prompt", "reading", "ended", "saving", "writing", "crashing", "releasing"}
        /\ Busy(s) \/ Turn(s)
        /\ UNCHANGED <<char, state, carrying, parted, job>>
    BY <1>2, <1>4 DEF ReadEnds, LeaveNothing, Leave, LeaveSnapshot, LeaveSave, LeaveCrashFile,
           LeaveWorld, Places
  <2>2. UNCHANGED inWorld
    <3>1. CASE LeaveWorld(s)
      BY <3>1, LeaveWorldStays, UndisturbedIsOrderly DEF WorldInv, Settled
    <3> QED
      BY <1>4, <3>1 DEF ReadEnds, LeaveNothing, Leave, LeaveSnapshot, LeaveSave, LeaveCrashFile
  <2>3. PICK p \in {"ended", "gone", "saving", "writing", "crashing", "storing", "releasing"} :
            /\ Goto(s, p)
            /\ p = "crashing" => ~Is(s, "rented") /\ UNCHANGED flags
            /\ p = "storing" <=> LeaveCrashFile(s)
            /\ at[s] \in {"prompt", "reading"} => ReadEnds(s)
    BY <1>4 DEF ReadEnds, LeaveNothing, Leave, LeaveSnapshot, LeaveSave, LeaveCrashFile,
           LeaveWorld
  <2>4. at'[s] = p
    BY <2>3 DEF Goto, TypeInv, SessionTypes
  <2>5. file'.items = file.items
    BY <1>4 DEF ReadEnds, LeaveNothing, Leave, LeaveSnapshot, LeaveSave, LeaveCrashFile,
           LeaveWorld, Save, TypeInv, FileTypes
  <2>6. \A t \in Conns \ {s} : local'[t] = local[t] /\ flags'[t] = flags[t]
    <3>1. \/ \E n : Read(s, n)
          \/ Forget(s)
          \/ \E q : local' = [local EXCEPT ![s].quit = q]
          \/ UNCHANGED local
      BY <1>4 DEF ReadEnds, LeaveNothing, Leave, LeaveSnapshot, LeaveSave, LeaveCrashFile,
             LeaveWorld
    <3>2. \A t \in Conns \ {s} : local'[t] = local[t]
      BY <3>1, Forgotten DEF Read, TypeInv, SessionTypes
    <3>3. UNCHANGED flags \/ Mark({s}, {"closed"})
      BY <1>4 DEF ReadEnds, LeaveNothing, Leave, LeaveSnapshot, LeaveSave, LeaveCrashFile,
             LeaveWorld
    <3>4. \A t \in Conns \ {s} : flags'[t] = flags[t]
      BY <3>3 DEF Mark, TypeInv, SessionTypes
    <3> QED
      BY <3>2, <3>4
  <2>7. Grown /\ (Is(s, "extracted")' <=> Is(s, "extracted"))
    <3>1. UNCHANGED flags \/ Mark({s}, {"closed"})
      BY <1>4 DEF ReadEnds, LeaveNothing, Leave, LeaveSnapshot, LeaveSave, LeaveCrashFile,
             LeaveWorld
    <3> QED
      BY <3>1, MarkGrows DEF Grown, Mark, Is, TypeInv, SessionTypes
  <2>8. \A t \in Conns : Holder(t)' => Holder(t) /\ Owned(t)' = Owned(t)
    BY <2>1, <2>3, <2>6, <2>7, MoveHolders
  <2>9. ~(Holder(s)' /\ Waiting(s)')
    <3>1. CASE at[s] \in {"prompt", "reading"}
      <4>1. ReadEnds(s) /\ (Is(s, "closed") \/ MayEnd(s))
        BY <2>3, <3>1 DEF ReadEnds
      <4>2. ~(Holder(s) /\ Waiting(s))
        BY <1>1, <4>1 DEF Staying, Waiting, MayEnd, Settled
      <4> QED
        BY <2>1, <2>7, <2>8, <3>1, <4>2 DEF Waiting, Places
    <3>2. CASE at[s] \notin {"prompt", "reading"}
      BY <1>3, <2>1, <2>7, <2>8, <3>2 DEF Waiting, Places
    <3> QED
      BY <3>1, <3>2
  <2>10. Staying(s)'
    BY <2>4, <2>9 DEF Staying
  <2>11. EmptyHanded(s)'
    BY <1>1, <2>1, <2>4, <2>9 DEF EmptyHanded, Loading
  <2>12. p = "storing" => /\ at[s] = "crashing" /\ UNCHANGED flags
                          /\ local'[s].read = carrying[char[s]] /\ char[s] \in Bodies
    BY <2>3 DEF LeaveCrashFile, Read, TypeInv, SessionTypes, SessionSized, Embodied
  <2>13. ASSUME p = "storing" PROVE carrying[char[s]] = 1 - parted
    <3>1. at[s] = "crashing" /\ char[s] # None /\ Busy(s)
      BY <1>2, <2>12, <2>13, Numbers DEF Places
    <3>2. ~Is(s, "displaced") /\ ~Is(s, "extracted") /\ ~Is(s, "rented")
      BY <1>1, <3>1 DEF WorldInv, Marks, Marked, Ending, Counted, Settled, Undisturbed
    <3>3. Holder(s) /\ Owned(s) = char[s]
      BY <3>1, <3>2 DEF Holder, Owned, Registered
    <3>4. ~Out(s)
      BY <1>3, <3>1, <3>2, <3>3 DEF Out, Waiting
    <3>5. char[s] \in inWorld
      BY <3>3, <3>4 DEF WorldInv, Rooms, Attached, Settled, Undisturbed
    <3> QED
      BY <1>1, <3>1, <3>5, ItemsAlone DEF Loading
  <2>14. Counted(s)'
    BY <1>1, <2>1, <2>3, <2>4, <2>12, <2>13 DEF Counted, Is
  <2> QED
    BY <1>1, <2>1, <2>2, <2>3, <2>5, <2>6, <2>8, <2>10, <2>11, <2>14, ItemsMove DEF Loading
<1>5. CASE LeaveCrashSave(s)
  <2>1. /\ at[s] = "storing" /\ WriteCrashFile(local[s].read) /\ Goto(s, "releasing") /\ Forget(s)
        /\ UNCHANGED <<char, state, flags, inWorld, carrying, parted, job>>
    BY <1>5 DEF LeaveCrashSave
  <2>2. at'[s] = "releasing" /\ Busy(s)
    BY <1>2, <2>1 DEF Goto, Places, TypeInv, SessionTypes
  <2>3. local[s].read = 1 - parted /\ file'.items = local[s].read
    BY <1>1, <2>1 DEF Counted, WriteCrashFile, DeleteObjects, SaveObjects, TypeInv, FileTypes
  <2>4. \A t \in Conns \ {s} : local'[t] = local[t]
    BY <2>1, Forgotten DEF TypeInv
  <2>5. Grown
    BY <2>1 DEF Grown
  <2>6. \A t \in Conns : Holder(t)' => Holder(t) /\ Owned(t)' = Owned(t)
    BY <2>1, <2>4, <2>5, MoveHolders
  <2>7. ~(Holder(s)' /\ Waiting(s)')
    BY <1>3, <2>1, <2>6 DEF Waiting, Is, Places
  <2>8. Staying(s)' /\ Counted(s)'
    BY <2>2, <2>7 DEF Staying, Counted
  <2>9. EmptyHanded(s)'
    BY <1>1, <2>1, <2>2, <2>7 DEF EmptyHanded, Loading
  <2>10. Stored'
    BY <1>1, <2>1, <2>3 DEF Stored
  <2>11. InHand'
    BY <1>1, <2>1, <2>2, ItemsAlone DEF InHand, Loading
  <2> QED
    BY <1>1, <2>1, <2>2, <2>6, <2>8, <2>9, <2>10, <2>11, ItemsStep
<1>6. QED
  BY <1>4, <1>5 DEF Depart

\* A write that was left to background() goes on, about as many as there are.
LEMMA ItemsWritten ==
    ASSUME Settled, TypeInv, WorldInv, ItemsInv, NEW j \in 1..Jobs, job[j].step # "none",
           UNCHANGED <<at, state, char, local, inWorld, carrying, parted>>,
           \A t \in Conns : \/ flags'[t] = flags[t]
                            \/ flags'[t] = flags[t] \cup {"closed"} /\ Is(t, "rented"),
           NEW f, job' = [job EXCEPT ![j] = f],
           f.step \in {"quitRecord", "quitCrash"} => f.items = 1 - parted,
           f.step = "rentObjects" => f.items = 1 /\ parted = 0,
           f.step \in Renting => f.leaver \in Conns /\ Is(f.leaver, "rented"),
           parted = 0 => file'.items = 1,
           parted = 1 => f.step \in {"quitRecord", "quitCrash"} \/ file'.items = 0
    PROVE  ItemsInv'
<1>1. /\ \A t \in Conns : ~Busy(t)
      /\ \A k \in 1..Jobs \ {j} : job[k].step = "none"
  BY WritingMeans DEF WorldInv, Settled
<1>2. job'[j] = f /\ \A k \in 1..Jobs \ {j} : job'[k].step = "none"
  BY <1>1 DEF TypeInv, ServerTypes
<1>3. Stored'
  BY <1>2 DEF ItemsInv, Stored
<1>4. InHand'
  BY DEF ItemsInv, InHand
<1>5. JobsCount'
  <2>1. \A t \in Conns : Is(t, "rented") => "rented" \in flags'[t]
    BY DEF Is
  <2>2. ASSUME NEW k \in 1..Jobs, job'[k].step # "none" PROVE job'[k] = f
    BY <1>2, <2>2
  <2>3. \A k \in 1..Jobs : job'[k].step \in Renting =>
            job'[k].leaver \in Conns /\ "rented" \in flags'[job'[k].leaver]
    BY <2>1, <2>2 DEF Renting
  <2>4. \A k \in 1..Jobs :
            /\ job'[k].step \in {"quitRecord", "quitCrash"} => job'[k].items = 1 - parted
            /\ job'[k].step = "rentObjects" => job'[k].items = 1 /\ parted = 0
    BY <2>2
  <2> QED
    BY <2>3, <2>4 DEF JobsCount, Is
<1>6. ASSUME NEW t \in Conns PROVE EmptyHanded(t)' /\ Staying(t)' /\ Counted(t)'
  <2>1. (Holder(t)' <=> Holder(t)) /\ Owned(t)' = Owned(t) /\ (Waiting(t)' <=> Waiting(t))
    BY DEF Holder, Owned, Registered, Waiting, Is
  <2>2. at[t] \notin Places.login \cup Places.leave
    BY <1>1 DEF Busy, Settled, Undisturbed
  <2>3. Is(t, "rented") => state[t] = "playing"
    BY DEF WorldInv, Marks, Marked
  <2>4. EmptyHanded(t) /\ Staying(t) /\ Counted(t)
    BY DEF ItemsInv
  <2>5. EmptyHanded(t)'
    BY <2>1, <2>4 DEF EmptyHanded
  <2>6. Waiting(t) => flags'[t] = flags[t]
    BY <2>3 DEF Waiting
  <2>7. Staying(t)'
    BY <2>1, <2>2, <2>4, <2>6 DEF Staying, Is, Places
  <2>8. Counted(t)'
    BY <2>2, <2>4 DEF Counted, Places
  <2> QED
    BY <2>5, <2>7, <2>8
<1> QED
  BY <1>3, <1>4, <1>5, <1>6 DEF ItemsInv

\* A step of a write carries on with what it was given.
LEMMA JobCarries ==
    ASSUME TypeInv, NEW j \in 1..Jobs, NEW from, NEW to, JobStep(j, from, to)
    PROVE  /\ job[j].step = from
           /\ \E f : /\ job' = [job EXCEPT ![j] = f] /\ f.step = to
                     /\ to # "none" => f.items = job[j].items /\ f.leaver = job[j].leaver
<1>1. job[j] \in JobType
  BY DEF TypeInv, ServerTypes
<1>2. CASE to = "none"
  <2>1. job' = [job EXCEPT ![j] = Idle] /\ Idle.step = "none"
    BY <1>2 DEF JobStep, Idle
  <2> QED
    BY <1>2, <2>1 DEF JobStep
<1>3. CASE to # "none"
  <2> DEFINE f == [job[j] EXCEPT !.step = to]
  <2>1. job' = [job EXCEPT ![j] = f]
    BY <1>3 DEF JobStep
  <2>2. f.step = to /\ f.items = job[j].items /\ f.leaver = job[j].leaver
    BY <1>1 DEF JobType
  <2> HIDE DEF f
  <2> QED
    BY <1>3, <2>1, <2>2 DEF JobStep
<1> QED
  BY <1>2, <1>3

\* Background stores or empties what it was left, as often as there is a step of it.
LEMMA BackgroundItems ==
    ASSUME Settled, TypeInv, WorldInv, ItemsInv, NEW j \in 1..Jobs, Background(j)
    PROVE  ItemsInv'
<1> USE DEF session, world, rooms, bodies
<1>1. /\ job[j].step \in {"quitRecord", "quitCrash"} => job[j].items = 1 - parted
      /\ job[j].step = "rentObjects" => job[j].items = 1 /\ parted = 0
      /\ job[j].step \in Renting => job[j].leaver \in Conns /\ Is(job[j].leaver, "rented")
      /\ parted \in {0, 1} /\ (parted = 0 => file.items = 1)
  BY DEF ItemsInv, JobsCount, Stored
<1>2. ASSUME job[j].step # "none", job[j].step \notin {"quitRecord", "quitCrash"}, parted = 1
      PROVE  file.items = 0
  <2>1. /\ \A t \in Conns : ~Busy(t)
        /\ \A k \in 1..Jobs \ {j} : job[k].step = "none"
    BY <1>2, WritingMeans DEF WorldInv, Settled
  <2> QED
    BY <1>2, <2>1 DEF ItemsInv, Stored, Busy, Places
<1>3. CASE QuitSave(j) \/ RentSave(j)
  <2>1. PICK from \in {"quitRecord", "rentRecord"}, to \in {"quitCrash", "rentClose"} :
            /\ JobStep(j, from, to)
            /\ from = "quitRecord" <=> to = "quitCrash"
    BY <1>3 DEF QuitSave, RentSave
  <2>2. job[j].step = from
    BY <2>1, JobCarries
  <2>3. PICK f : /\ job' = [job EXCEPT ![j] = f] /\ f.step = to
                 /\ f.items = job[j].items /\ f.leaver = job[j].leaver
    BY <2>1, JobCarries
  <2>4. file'.items = file.items
    BY <1>3 DEF QuitSave, RentSave, Save, TypeInv, FileTypes
  <2> QED
    BY <1>1, <1>2, <1>3, <2>1, <2>2, <2>3, <2>4, ItemsWritten DEF QuitSave, RentSave, Renting
<1>4. CASE QuitCrashSave(j)
  <2>1. JobStep(j, "quitCrash", "none")
    BY <1>4 DEF QuitCrashSave
  <2>2. job[j].step = "quitCrash"
    BY <2>1, JobCarries
  <2>3. PICK f : job' = [job EXCEPT ![j] = f] /\ f.step = "none"
    BY <2>1, JobCarries
  <2>4. file'.items = 1 - parted
    BY <1>1, <1>4, <2>2 DEF QuitCrashSave, WriteCrashFile, DeleteObjects, SaveObjects, TypeInv,
           FileTypes
  <2>5. (parted = 0 => file'.items = 1) /\ (parted = 1 => file'.items = 0)
    BY <2>4
  <2>6. /\ UNCHANGED <<at, state, char, local, flags, inWorld, carrying, parted>>
        /\ f.step \notin Renting \cup {"quitRecord", "quitCrash", "rentObjects"}
    BY <1>4, <2>3 DEF QuitCrashSave, Renting
  <2> QED
    BY <2>2, <2>3, <2>5, <2>6, ItemsWritten
<1>5. CASE RentSaveObjects(j)
  <2>1. JobStep(j, "rentObjects", "rentSnapshot")
    BY <1>5 DEF RentSaveObjects
  <2>2. job[j].step = "rentObjects"
    BY <2>1, JobCarries
  <2>3. PICK f : /\ job' = [job EXCEPT ![j] = f] /\ f.step = "rentSnapshot"
                 /\ f.items = job[j].items /\ f.leaver = job[j].leaver
    BY <2>1, JobCarries
  <2>4. file'.items = 1 /\ parted = 0
    BY <1>1, <1>5, <2>2 DEF RentSaveObjects, SaveObjects, TypeInv, FileTypes
  <2> QED
    BY <1>1, <1>5, <2>2, <2>3, <2>4, ItemsWritten DEF RentSaveObjects, Renting
<1>6. CASE RentSnapshot(j)
  <2> DEFINE f == [job[j] EXCEPT !.step = "rentRecord", !.rec = rec[job[j].body]]
  <2>1. /\ job[j].step = "rentSnapshot" /\ job' = [job EXCEPT ![j] = f]
        /\ UNCHANGED <<at, state, char, local, flags, inWorld, carrying, parted, file>>
    BY <1>6 DEF RentSnapshot
  <2>2. f.step = "rentRecord" /\ f.leaver = job[j].leaver
    BY DEF TypeInv, ServerTypes, JobType
  <2> HIDE DEF f
  <2> QED
    BY <1>1, <1>2, <2>1, <2>2, ItemsWritten DEF Renting
<1>7. CASE RentClose(j)
  <2>1. JobStep(j, "rentClose", "none")
    BY <1>7 DEF RentClose
  <2>2. job[j].step = "rentClose" /\ Is(job[j].leaver, "rented")
    BY <1>1, <2>1, JobCarries DEF Renting
  <2>3. PICK f : job' = [job EXCEPT ![j] = f] /\ f.step = "none"
    BY <2>1, JobCarries
  <2>4. \A t \in Conns : \/ flags'[t] = flags[t]
                         \/ flags'[t] = flags[t] \cup {"closed"} /\ Is(t, "rented")
    BY <1>7, <2>2 DEF RentClose, Mark, TypeInv, SessionTypes
  <2> QED
    BY <1>1, <1>2, <1>7, <2>2, <2>3, <2>4, ItemsWritten DEF RentClose, Renting
<1>8. QED
  BY <1>3, <1>4, <1>5, <1>6, <1>7 DEF Background

\* The sweep has nothing to do with belongings, and nobody is closed at the menu.
LEMMA ServerItems ==
    ASSUME Settled, TypeInv, WorldInv, ItemsInv,
           \/ Sweep
           \/ \E s \in Conns : Kick(s)
           \/ UNCHANGED vars
    PROVE  ItemsInv'
<1> USE DEF session, world, rooms, bodies, server
<1>1. /\ UNCHANGED <<at, state, char, local, carrying, parted, job>>
      /\ file'.items = file.items /\ inWorld' \subseteq inWorld
  BY DEF Sweep, SweepSnapshot, SweepSave, SweepJudge, SweepReap, Kick, vars, Save, WorldRemove,
         TypeInv, FileTypes
<1>2. \A t \in Conns : \/ flags'[t] = flags[t]
                       \/ /\ flags'[t] = flags[t] \cup {"closed"}
                          /\ MayEnd(t)
  <2>1. CASE Sweep \/ UNCHANGED vars
    BY <2>1 DEF Sweep, SweepSnapshot, SweepSave, SweepJudge, SweepReap, vars
  <2>2. ASSUME NEW s \in Conns, Kick(s)
        PROVE  \A t \in Conns : \/ flags'[t] = flags[t]
                                \/ flags'[t] = flags[t] \cup {"closed"} /\ MayEnd(t)
    BY <2>2 DEF Kick, Mark, TypeInv, SessionTypes
  <2> QED
    BY <2>1, <2>2
<1>3. Stored' /\ InHand' /\ JobsCount'
  <2>1. \A j \in 1..Jobs : job[j].leaver \in Conns /\ Is(job[j].leaver, "rented") =>
            "rented" \in flags'[job[j].leaver]
    BY <1>2 DEF Is
  <2>2. JobsCount'
    BY <1>1, <2>1 DEF ItemsInv, JobsCount, Is
  <2> QED
    BY <1>1, <2>2 DEF ItemsInv, Stored, InHand
<1>4. ASSUME NEW t \in Conns PROVE EmptyHanded(t)' /\ Staying(t)' /\ Counted(t)'
  <2>1. (Holder(t)' <=> Holder(t)) /\ Owned(t)' = Owned(t) /\ (Waiting(t)' <=> Waiting(t))
    BY <1>1, <1>2 DEF Holder, Owned, Registered, Waiting, Is
  <2>2. EmptyHanded(t) /\ Staying(t) /\ Counted(t)
    BY DEF ItemsInv
  <2>3. EmptyHanded(t)' /\ Counted(t)'
    BY <1>1, <1>2, <2>1, <2>2 DEF EmptyHanded, Counted, Is
  <2>4. at[t] \in {"upgrading", "loaded", "adopting", "fresh"} => ~MayEnd(t)
    BY DEF MayEnd, Settled, TypeInv, SessionSized, Bodiless, WorldInv, Marks, Marked, Is
  <2>5. Waiting(t) /\ at[t] = "reading" => ~MayEnd(t)
    BY DEF MayEnd, Waiting, Settled
  <2>6. Staying(t)'
    BY <1>1, <1>2, <2>1, <2>2, <2>4, <2>5 DEF Staying, Is
  <2> QED
    BY <2>3, <2>6
<1> QED
  BY <1>3, <1>4 DEF ItemsInv

\* Every step keeps the belongings together.
LEMMA ItemsInvStep ==
    ASSUME Settled, TypeInv, OwnInv, WorldInv, ItemsInv, [Next]_vars
    PROVE  ItemsInv'
<1>1. \A b \in Bodies : ~Purge(b)
  BY DEF Purge, Settled, Undisturbed
<1> QED
  BY <1>1, LoginItems, EnterItems, CommandItems, DepartItems, BackgroundItems, ServerItems
     DEF Next

\* At first they are in the file.
LEMMA InitItems == Init => ItemsInv
<1> SUFFICES ASSUME Init PROVE ItemsInv
  OBVIOUS
<1>1. Stored /\ InHand
  BY DEF Init, Stored, InHand
<1>2. JobsCount
  BY DEF Init, JobsCount, Idle, Renting
<1>3. \A s \in Conns : EmptyHanded(s) /\ Staying(s) /\ Counted(s)
  BY DEF Init, EmptyHanded, Staying, Counted, Holder, Registered, Bodies
<1> QED
  BY <1>1, <1>2, <1>3 DEF ItemsInv

-----------------------------------------------------------------------------
(* What is carried.                                                        *)

\* Among finite sets there is one that holds no other of them.
LEMMA MinimalSet ==
    ASSUME NEW S, IsFiniteSet(S), NEW F, F \subseteq SUBSET S, F # {}
    PROVE  \E s \in F : \A t \in SUBSET s : t # s => t \notin F
<1> DEFINE N == {Cardinality(s) : s \in F}
<1>1. \A s \in F : IsFiniteSet(s) /\ Cardinality(s) \in Nat
  BY FS_Subset, FS_CardinalityType
<1>2. N \subseteq Nat /\ N # {}
  BY <1>1
<1>3. Min(N) \in N /\ \A m \in N : Min(N) <= m
  <2> HIDE DEF N
  <2> QED
    BY <1>2, MinElement
<1>4. PICK s \in F : Min(N) = Cardinality(s)
  BY <1>3
<1>5. ASSUME NEW t \in SUBSET s, t # s PROVE t \notin F
  <2>1. /\ Cardinality(t) \in Nat /\ Min(N) \in Nat /\ Cardinality(t) <= Min(N)
        /\ Min(N) = Cardinality(t) => s = t
    BY <1>1, <1>4, <1>5, FS_Subset, FS_CardinalityType
  <2>2. ~(Min(N) <= Cardinality(t))
    BY <1>5, <2>1
  <2>3. Cardinality(t) \notin N
    BY <1>3, <2>2
  <2> QED
    BY <2>3
<1> QED
  BY <1>4, <1>5

\* The sums of f over the subsets of S, as SumFunction takes them.
First(s) == CHOOSE x \in s : TRUE
Sums(f, S, g) ==
    g = [s \in SUBSET S |-> IF s = {} THEN 0 ELSE f[First(s)] + g[s \ {First(s)}]]

\* A sum is of its only number, if all others are 0.
LEMMA SumOfOne ==
    ASSUME NEW S, IsFiniteSet(S), NEW f \in [S -> Nat], NEW b \in S,
           \A x \in S : x # b => f[x] = 0
    PROVE  SumFunction(f) = f[b]
<1> DEFINE h == [s \in SUBSET S |-> IF b \in s THEN f[b] ELSE 0]
           g == CHOOSE k : Sums(f, S, k)
           F == {s \in SUBSET S : g[s] # h[s]}
<1>1. \A s : s # {} => First(s) \in s
  BY DEF First
<1>2. ASSUME NEW s \in SUBSET S, s # {} PROVE h[s] = f[First(s)] + h[s \ {First(s)}]
  <2>1. First(s) \in s /\ First(s) \in S /\ s \ {First(s)} \in SUBSET S
    BY <1>1, <1>2
  <2>2. CASE First(s) = b
    BY <2>1, <2>2
  <2>3. CASE First(s) # b
    BY <2>1, <2>3
  <2> QED
    BY <2>2, <2>3
<1>3. Sums(f, S, h)
  <2>1. h[{}] = 0
    OBVIOUS
  <2> QED
    BY <1>2, <2>1 DEF Sums
<1>4. Sums(f, S, g)
  BY <1>3
<1>5. F = {}
  <2> SUFFICES ASSUME F # {} PROVE FALSE
    OBVIOUS
  <2>1. F \subseteq SUBSET S
    OBVIOUS
  <2>2. PICK s \in F : \A t \in SUBSET s : t # s => t \notin F
    <3> HIDE DEF F
    <3> QED
      BY <2>1, MinimalSet
  <2> HIDE DEF g
  <2>3. s \in SUBSET S /\ g[s] = (IF s = {} THEN 0 ELSE f[First(s)] + g[s \ {First(s)}])
    BY <1>4, <2>2 DEF Sums
  <2>4. CASE s = {}
    BY <2>2, <2>3, <2>4
  <2>5. CASE s # {}
    <3>1. s \ {First(s)} \in SUBSET S /\ s \ {First(s)} \notin F
      BY <1>1, <2>2, <2>5
    <3>2. g[s \ {First(s)}] = h[s \ {First(s)}]
      BY <3>1
    <3>3. g[s] = h[s]
      <4> HIDE DEF h
      <4> QED
        BY <1>2, <2>3, <2>5, <3>2
    <3> QED
      BY <2>2, <3>3
  <2> QED
    BY <2>4, <2>5
<1>6. SumFunction(f) = g[S]
  <2>1. DOMAIN f = S
    OBVIOUS
  <2> QED
    BY <2>1 DEF SumFunction, SumFunctionOnSet, FoldFunctionOnSet, MapThenFoldSet, Sums, First
<1>7. g[S] = h[S]
  <2> HIDE DEF g, h
  <2> QED
    BY <1>5
<1> QED
  BY <1>6, <1>7

\* What is carried about in the world is what its one body carries.
LEMMA CarriedByOne ==
    ASSUME TypeInv, Rooms
    PROVE  \/ inWorld = {} /\ Carried = 0
           \/ \E b \in Bodies : inWorld = {b} /\ Carried = carrying[b]
<1> DEFINE f == [b \in Bodies |-> IF b \in inWorld THEN carrying[b] ELSE 0]
<1>1. IsFiniteSet(Bodies) /\ Bodies # {}
  <2>1. 1 \in Int /\ Last \in Int /\ 1 \in 1..Last
    BY PresenceAssumption
  <2>2. IsFiniteSet(1..Last)
    BY <2>1, FS_Interval
  <2> QED
    BY <2>1, <2>2 DEF Bodies, Conns
<1>2. f \in [Bodies -> Nat]
  BY DEF TypeInv, WorldTypes
<1>3. Carried = SumFunction(f)
  BY DEF Carried
<1>4. CASE inWorld = {}
  <2>1. PICK b \in Bodies : TRUE
    BY <1>1
  <2>2. f[b] = 0 /\ \A x \in Bodies : f[x] = 0
    BY <1>4
  <2> HIDE DEF f
  <2>3. SumFunction(f) = f[b]
    BY <1>1, <1>2, <2>2, SumOfOne
  <2> QED
    BY <1>3, <1>4, <2>2, <2>3
<1>5. CASE inWorld # {}
  <2>1. PICK b \in inWorld : TRUE
    BY <1>5
  <2>2. b \in Bodies /\ inWorld = {b}
    BY InWorldIsIndexed DEF TypeInv, WorldTypes
  <2>3. f[b] = carrying[b] /\ \A x \in Bodies : x # b => f[x] = 0
    BY <2>2
  <2> HIDE DEF f
  <2>4. SumFunction(f) = f[b]
    BY <1>1, <1>2, <2>2, <2>3, SumOfOne
  <2> QED
    BY <1>3, <2>2, <2>3, <2>4
<1> QED
  BY <1>4, <1>5

\* The belongings are where the runs look for them.
LEMMA ItemsSound ==
    ASSUME TypeInv, WorldInv, ItemsInv
    PROVE  BelongingsSound
<1>1. /\ parted \in {0, 1} /\ (parted = 0 => file.items = 1)
      /\ file.items \in Nat /\ carrying \in [Bodies -> 0..Many]
  BY DEF ItemsInv, Stored, TypeInv, FileTypes, WorldTypes
<1>2. \A b \in inWorld : carrying[b] \in {0, 1 - parted}
  <2>1. ASSUME NEW b \in inWorld, NEW s \in Conns, at[s] \in Loading, char[s] = b
        PROVE  carrying[b] = 0
    <3>1. Holder(s) /\ Owned(s) = b
      <4>1. at[s] \in Driving
        BY <2>1 DEF Loading, Driving
      <4>2. ~Is(s, "displaced")
        BY <4>1 DEF WorldInv, Marks, Marked
      <4>3. b # None
        BY Numbers DEF TypeInv, WorldTypes
      <4> QED
        BY <2>1, <4>2, <4>3 DEF Holder, Owned, Registered, Loading
    <3> QED
      BY <2>1, <3>1 DEF ItemsInv, EmptyHanded
  <2> QED
    BY <2>1 DEF ItemsInv, InHand
<1>3. Carried \in {0, 1 - parted}
  BY <1>2, CarriedByOne DEF WorldInv
<1>4. NoDuplication
  BY <1>1, <1>3 DEF NoDuplication
<1>5. BelongingsKept
  BY <1>1, <1>3 DEF BelongingsKept
<1> QED
  BY <1>4, <1>5 DEF BelongingsSound

\* BelongingsSound, if besides no connection ends at the menu it has logged in to:
\* the belongings are never twice about in the world, and when all is quiet they are
\* in the file or in the world or were parted with, however often their owner quits,
\* checks in at an inn, is cut off, reaped, or comes back.
LEMMA BelongingsInOnePlace ==
    ASSUME Settled PROVE Spec => []BelongingsSound
<1>1. Init => TypeInv /\ OwnInv /\ WorldInv /\ ItemsInv
  BY InitTypes, InitOwn, InitWorldInv, InitItems
<1>2. TypeInv /\ OwnInv /\ WorldInv /\ ItemsInv /\ [Next]_vars =>
        (TypeInv /\ OwnInv /\ WorldInv /\ ItemsInv)'
  BY WorldStep, ItemsInvStep, UndisturbedIsOrderly DEF Settled
<1>3. TypeInv /\ OwnInv /\ WorldInv /\ ItemsInv => BelongingsSound
  BY ItemsSound
<1> QED
  BY <1>1, <1>2, <1>3, PTL DEF Spec

-----------------------------------------------------------------------------
(* Through a shutdown.                                                     *)

\* run() has read what it is about to write.
MainInv ==
    /\ main \in [step : Steps, todo : SUBSET Bodies, read : Nat]
    /\ main.step = "writing" => main.read <= MaxRec
    /\ main.step = "storing" => main.read <= Many
    /\ calm \in BOOLEAN

StopInv == TypeInv /\ OwnInv /\ MainInv

-----------------------------------------------------------------------------
(* The way down.                                                           *)

LEMMA SignalInv ==
    ASSUME StopInv, Signal
    PROVE  StopInv'
<1>1. TypeInv' /\ OwnInv'
  BY StepTypes, ServerOwn DEF Signal, StopInv
<1> DEFINE c == \A s \in Conns : at[s] \in Places.idle \cup Places.leave
<1>2. c \in BOOLEAN /\ calm' = c
  BY DEF Signal
<1>3. main' = [main EXCEPT !.step = "collecting"]
  BY DEF Signal, Go
<1> HIDE DEF c
<1>4. MainInv'
  BY <1>2, <1>3 DEF StopInv, MainInv, Steps
<1> QED
  BY <1>1, <1>4 DEF StopInv

LEMMA DescendInv ==
    ASSUME StopInv, Descend
    PROVE  StopInv'
<1> TypeInv /\ OwnInv /\ MainInv
  BY DEF StopInv
<1> SessionTypes /\ SessionSized /\ WorldTypes /\ FileTypes /\ ServerTypes
  BY DEF TypeInv
<1>1. UNCHANGED <<session, world, server, calm>>
  BY DEF Descend, Main, Collect, CollectPlayers, CollectAgain, SaveSnapshot, SaveWrite, Saved,
         CrashSnapshot, CrashWrite, CrashSaved, WaitForWrites, StopWorld, Exit
<1>2. OwnInv'
  BY <1>1, StayingIsPlain, PlainKeeps DEF Grown, Indexed, session, world, rooms, bodies
<1>3. FileTypes' /\ MainInv'
  <2>1. CASE CollectPlayers \/ CollectAgain
    BY <2>1, Untouched DEF CollectPlayers, CollectAgain, Collect, Main, MainInv, Steps, WorldTypes
  <2>2. CASE SaveSnapshot
    <3>1. PICK b \in main.todo :
            main' = [step |-> "writing", todo |-> main.todo \ {b}, read |-> rec[b]]
      BY <2>2 DEF SaveSnapshot
    <3>2. rec[b] \in Nat /\ rec[b] <= MaxRec /\ main.todo \subseteq Bodies
      BY PresenceAssumption DEF MainInv, WorldTypes
    <3> QED
      BY <1>1, <2>2, <3>1, <3>2, Untouched DEF SaveSnapshot, MainInv, Steps
  <2>3. CASE SaveWrite
    <3>1. main.read \in 0..MaxRec
      BY <2>3, PresenceAssumption DEF SaveWrite, Main, MainInv
    <3> QED
      BY <1>1, <2>3, <3>1, StoreTypes DEF SaveWrite, Go, MainInv, Steps
  <2>4. CASE CrashSnapshot
    <3>1. PICK b \in main.todo :
            main' = [step |-> "storing", todo |-> main.todo \ {b}, read |-> carrying[b]]
      BY <2>4 DEF CrashSnapshot
    <3>2. carrying[b] \in Nat /\ carrying[b] <= Many /\ main.todo \subseteq Bodies
      BY PresenceAssumption DEF MainInv, WorldTypes
    <3> QED
      BY <1>1, <2>4, <3>1, <3>2, Untouched DEF CrashSnapshot, MainInv, Steps
  <2>5. CASE CrashWrite
    <3>1. main.read \in 0..Many
      BY <2>5, PresenceAssumption DEF CrashWrite, Main, MainInv
    <3> QED
      BY <1>1, <2>5, <3>1, StoreTypes DEF CrashWrite, Go, MainInv, Steps
  <2>6. CASE Saved \/ CrashSaved \/ WaitForWrites \/ StopWorld \/ Exit
    BY <1>1, <2>6, Untouched
       DEF Saved, CrashSaved, WaitForWrites, StopWorld, Exit, Go, MainInv, Steps
  <2> QED
    BY <2>1, <2>2, <2>3, <2>4, <2>5, <2>6 DEF Descend
<1> QED
  BY <1>1, <1>2, <1>3, Untouched DEF StopInv, TypeInv

-----------------------------------------------------------------------------
(* The connections cut off.                                                *)

\* A dupe check whose result is not seen has displaced the others all the same.
LEMMA DupeGivesUpInv ==
    ASSUME TypeInv, OwnInv, NEW s \in Conns, DupeGivesUp(s)
    PROVE  TypeInv' /\ OwnInv'
<1> SessionTypes /\ SessionSized /\ WorldTypes /\ FileTypes /\ ServerTypes
  BY DEF TypeInv
<1>1. /\ at[s] = "loaded" /\ Goto(s, "fresh")
      /\ UNCHANGED <<state, char, local, rooms, carrying, rec, parted, file, server>>
  BY DEF DupeGivesUp
<1>2. CASE UNCHANGED <<flags, client>>
  <2>1. SessionTypes' /\ SessionSized'
    BY <1>1, <1>2, SessionGoes DEF AllPlaces, Bodiless, Embodied, SessionTypes
  <2>2. Plain
    BY <1>1, <1>2, GoingIsPlain DEF AllPlaces, Bodiless, Driving, Grown, Indexed, rooms
  <2> QED
    BY <1>1, <1>2, <2>1, <2>2, PlainKeeps, Untouched DEF TypeInv, world, bodies
<1>3. CASE /\ Mark(Others(s), {"displaced", "closed"})
           /\ client' = [b \in Bodies |-> IF b = Existing(s) THEN s ELSE Freed(s)[b]]
  <2>1. OwnInv'
    BY <1>1, <1>3, TakeOverOwn
  <2>2. flags' \in [Conns -> SUBSET {"closed", "quit", "rented", "extracted", "displaced"}]
    BY <1>3, MarkTypes
  <2>3. SessionTypes' /\ SessionSized'
    BY <1>1, <2>2, SessionGoes DEF AllPlaces, Bodiless, Embodied, SessionTypes
  <2>4. Freed(s) \in [Bodies -> Conns \cup {None}]
    BY DEF Freed, WorldTypes
  <2>5. WorldTypes'
    BY <1>1, <1>3, <2>4 DEF WorldTypes, rooms
  <2> QED
    BY <1>1, <2>1, <2>3, <2>5, Untouched DEF TypeInv
<1> QED
  BY <1>2, <1>3 DEF DupeGivesUp

LEMMA GivesUpInv ==
    ASSUME TypeInv, OwnInv, NEW s \in Conns, GivesUp(s) \/ CloseAtStop(s)
    PROVE  TypeInv' /\ OwnInv'
<1> SessionTypes /\ SessionSized /\ WorldTypes /\ FileTypes /\ ServerTypes
  BY DEF TypeInv
<1> USE DEF AllPlaces, Bodiless, Embodied, Driving
<1>1. CASE EnterGivesUp(s)
  <2>1. SessionTypes' /\ SessionSized'
    BY <1>1, SessionGoes, MarkTypes DEF EnterGivesUp, SessionTypes
  <2>2. WorldTypes'
    BY <1>1, RoomTypes, Untouched DEF EnterGivesUp, SessionSized, world
  <2>3. Plain
    <3>1. Grown /\ Indexed
      BY <1>1, MarkGrows DEF EnterGivesUp, Indexed, WorldEnter, rooms
    <3> QED
      BY <1>1, <3>1, GoingIsPlain DEF EnterGivesUp, bodies
  <2> QED
    BY <1>1, <2>1, <2>2, <2>3, PlainKeeps, Untouched DEF EnterGivesUp, TypeInv
<1>2. CASE RestoreGivesUp(s)
  <2>1. SessionTypes' /\ SessionSized'
    <3>1. flags' \in [Conns -> SUBSET {"closed", "quit", "rented", "extracted", "displaced"}]
      BY <1>2, MarkTypes DEF RestoreGivesUp
    <3>2. Forget(s)
      BY <1>2 DEF RestoreGivesUp
    <3>3. /\ local' \in [Conns -> [read : Nat, body : Bodies \cup {None}, quit : BOOLEAN]]
          /\ \A t \in Conns \ {s} : local'[t] = local[t]
      BY <3>2, Forgotten
    <3> QED
      BY <1>2, <3>1, <3>3, SessionSteps DEF RestoreGivesUp, SessionTypes, SessionSized
  <2>2. WorldTypes'
    <3>1. carrying[char[s]] \in Nat /\ local[s].read \in Nat
      BY <1>2, Numbers DEF RestoreGivesUp, WorldTypes, SessionTypes, SessionSized
    <3>2. Plus(carrying[char[s]], local[s].read) \in 0..Many
      BY <3>1, PlusCounts
    <3>3. \/ carrying' = [carrying EXCEPT ![char[s]] = Plus(carrying[char[s]], local[s].read)]
          \/ carrying' = carrying
      BY <1>2 DEF RestoreGivesUp
    <3>4. carrying' \in [Bodies -> 0..Many]
      BY <3>2, <3>3 DEF WorldTypes
    <3> QED
      BY <1>2, <3>4 DEF RestoreGivesUp, WorldTypes, rooms
  <2>3. Plain
    <3>1. Grown /\ Indexed
      BY <1>2, MarkGrows DEF RestoreGivesUp, Indexed, rooms
    <3> QED
      BY <1>2, <3>1, GoingIsPlain DEF RestoreGivesUp, Forget, SessionTypes
  <2> QED
    BY <1>2, <2>1, <2>2, <2>3, PlainKeeps, Untouched DEF RestoreGivesUp, TypeInv
<1>3. CASE ForfeitGivesUp(s)
  <2>1. SessionTypes' /\ SessionSized'
    BY <1>3, SessionForgets DEF ForfeitGivesUp, SessionTypes, SessionSized
  <2>2. WorldTypes'
    <3>1. parted \in Nat /\ local[s].read \in Nat
      BY Numbers DEF WorldTypes, SessionTypes
    <3>2. parted' \in 0..Many
      BY <1>3, <3>1, PlusCounts DEF ForfeitGivesUp
    <3> QED
      BY <1>3, <3>2 DEF ForfeitGivesUp, WorldTypes, rooms
  <2>3. Plain
    <3>1. Grown /\ Indexed
      BY <1>3 DEF ForfeitGivesUp, Grown, Indexed, rooms
    <3> QED
      BY <1>3, <3>1, GoingIsPlain DEF ForfeitGivesUp, Forget, SessionTypes
  <2> QED
    BY <1>3, <2>1, <2>2, <2>3, PlainKeeps, Untouched DEF ForfeitGivesUp, TypeInv
<1>4. CASE DupeGivesUp(s)
  BY <1>4, DupeGivesUpInv
<1>5. CASE CommandGivesUp(s)
  <2>1. SessionTypes' /\ SessionSized'
    BY <1>5, SessionGoes DEF CommandGivesUp, SessionTypes
  <2>2. Plain
    <3>1. Grown /\ Indexed
      BY <1>5 DEF CommandGivesUp, Grown, Indexed, world, rooms
    <3> QED
      BY <1>5, <3>1, GoingIsPlain DEF CommandGivesUp, world, bodies
  <2> QED
    BY <1>5, <2>1, <2>2, PlainKeeps, Untouched DEF CommandGivesUp, TypeInv
<1>6. CASE CloseAtStop(s)
  <2>1. SessionTypes' /\ SessionSized'
    BY <1>6, MarkTypes DEF CloseAtStop, SessionTypes, SessionSized
  <2>2. Plain
    <3>1. Grown /\ Indexed
      BY <1>6, MarkGrows DEF CloseAtStop, Indexed, world, rooms
    <3> QED
      BY <1>6, <3>1, StayingIsPlain DEF CloseAtStop, world, bodies
  <2> QED
    BY <1>6, <2>1, <2>2, PlainKeeps, Untouched DEF CloseAtStop, TypeInv
<1> QED
  BY <1>1, <1>2, <1>3, <1>4, <1>5, <1>6 DEF GivesUp

LEMMA SweepGivesUpInv ==
    ASSUME TypeInv, OwnInv, SweepGivesUp
    PROVE  TypeInv' /\ OwnInv'
<1>1. UNCHANGED <<session, world, file, job, linkdead>> /\ sweep' = Rest
  BY DEF SweepGivesUp
<1>2. ServerTypes'
  BY <1>1, Numbers DEF TypeInv, ServerTypes, Rest
<1>3. Plain
  BY <1>1, StayingIsPlain DEF Grown, Indexed, session, world, rooms, bodies
<1> QED
  BY <1>1, <1>2, <1>3, PlainKeeps, Untouched DEF TypeInv

\* Everything else that is under way is a step of Presence.
LEMMA AroundInv ==
    ASSUME StopInv, Around
    PROVE  StopInv'
<1> TypeInv /\ OwnInv /\ MainInv
  BY DEF StopInv
<1>1. ASSUME Sweeps PROVE TypeInv' /\ OwnInv'
  BY <1>1, SweepTypes, ServerOwn, SweepGivesUpInv DEF Sweeps, Sweep
<1>2. ASSUME NEW j \in 1..Jobs, Write(j) PROVE TypeInv' /\ OwnInv'
  <2>1. Background(j)
    BY <1>2 DEF Write, Background
  <2> QED
    BY <2>1, BackgroundTypes, ServerOwn
<1>3. ASSUME NEW s \in Conns, Connection(s) PROVE TypeInv' /\ OwnInv'
  <2>1. \/ Login(s) \/ Enter(s) \/ Command(s) \/ Depart(s) \/ Kick(s)
        \/ GivesUp(s) \/ CloseAtStop(s)
    BY <1>3 DEF Connection, Begins, GoesOn, Visits, Login, Enter, Command, Depart
  <2>2. CASE Kick(s)
    BY <2>2, KickTypes, ServerOwn
  <2> QED
    BY <2>1, <2>2, LoginTypes, EnterTypes, CommandTypes, DepartTypes,
       LoginOwn, EnterOwn, CommandOwn, DepartOwn, GivesUpInv
<1>4. TypeInv' /\ OwnInv'
  BY <1>1, <1>2, <1>3 DEF Around
<1> QED
  BY <1>4 DEF Around, StopInv, MainInv

-----------------------------------------------------------------------------
(* The theorems.                                                           *)

LEMMA StopInvHolds == StopSpec => []StopInv
<1>1. StopInit => StopInv
  <2> SUFFICES ASSUME StopInit PROVE StopInv
    OBVIOUS
  <2>1. MainInv
    BY DEF StopInit, MainInv, Steps
  <2> QED
    BY <2>1, InitTypes, InitOwn DEF StopInit, StopInv
<1>2. StopInv /\ [StopNext]_svars => StopInv'
  <2> SUFFICES ASSUME StopInv, [StopNext]_svars PROVE StopInv'
    OBVIOUS
  <2>1. CASE UNCHANGED svars
    BY <2>1, StepTypes, ServerOwn DEF svars, StopInv, MainInv
  <2> QED
    BY <2>1, SignalInv, DescendInv, AroundInv DEF StopNext
<1> QED
  BY <1>1, <1>2, PTL DEF StopSpec

\* Whatever the shutdown cuts short, every variable keeps its type; what run() and
\* the connections have read to be written is a record or belongings there can be.
THEOREM StopTypeCorrect == StopSpec => []StopTypeOK
<1>1. StopInv => StopTypeOK
  BY TypeInvImplies DEF StopInv, MainInv, StopTypeOK
<1> QED
  BY <1>1, StopInvHolds, PTL

\* Nor does the shutdown bring two connections to one body: not when a dupe check
\* displaces everybody and its own login never hears of it.
THEOREM StopOneConnectionDrives == StopSpec => []DrivenOnce
<1>1. StopInv => DrivenOnce
  BY OwnImplies DEF StopInv
<1> QED
  BY <1>1, StopInvHolds, PTL

-----------------------------------------------------------------------------
(* A shutdown that cuts nothing short.                                     *)

\* Unless the signal cut something short, nobody is at anything after it but ending.
Quiet == \A s \in Conns : at[s] \in Places.idle \cup Places.leave

\* run() has yet to write something.
ToWrite == main.todo # {} \/ main.step \in {"writing", "storing"}

\* From then on there is one body at most that anybody can still save or store, and
\* run() has of it what everybody else has.
Sole(b) ==
    /\ inWorld \cup main.todo \subseteq {b}
    /\ \A s \in Conns : Holder(s) => Owned(s) = b
    /\ ToWrite => /\ \A j \in 1..Jobs : job[j].step = "none"
                  /\ file.rec <= rec[b] /\ carrying[b] = 1 - parted
    /\ main.step = "writing" => main.read = rec[b]
    /\ main.step = "storing" => main.read = 1 - parted
    /\ inWorld # {} /\ main.step # "collecting" =>
          \/ rec[b] <= file.rec
          \/ main.step = "saving" /\ b \in main.todo
          \/ main.step = "writing"

\* The world is stopped with every write that was left to background() done.
JobsDone ==
    main.step \in {"stopping", "stopped", "exited"} => \A j \in 1..Jobs : job[j].step = "none"

\* The inductive invariant.
CalmInv ==
    /\ main.step = "up" => calm /\ main.todo = {}
    /\ calm => WorldInv /\ RecInv /\ ItemsInv
    /\ calm /\ main.step # "up" => Quiet /\ JobsDone /\ \E b \in Bodies : Sole(b)

\* Who is closed with nothing to lose, and a sweep that is given up, leave all three
\* invariants as they are.
LEMMA ClosingKeeps ==
    ASSUME Settled, TypeInv, WorldInv, RecInv, ItemsInv,
           UNCHANGED <<at, state, char, local, world, file, job>>,
           UNCHANGED sweep \/ sweep' = Rest,
           \A t \in Conns : \/ flags'[t] = flags[t]
                            \/ flags'[t] = flags[t] \cup {"closed"} /\ MayEnd(t)
    PROVE  (WorldInv /\ RecInv /\ ItemsInv)'
<1> USE DEF world, rooms, bodies
<1>1. \A t \in Conns : (Holder(t)' <=> Holder(t)) /\ Owned(t)' = Owned(t)
  BY DEF Holder, Owned, Registered, Is
<1>2. WorldInv'
  <2>1. Solo'
    BY SoloStays DEF WorldInv, Sweeping, Rest
  <2>2. Marks'
    <3>1. ASSUME NEW t \in Conns PROVE Marked(t)'
      BY MarkedKept, PendingKept DEF WorldInv, Marks
    <3> QED
      BY <3>1 DEF Marks
  <2>3. Rooms'
    BY AlikeElsewhere, RoomsAlike DEF WorldInv
  <2>4. SweepSees'
    BY DEF WorldInv, SweepSees, Sweeping, Rest
  <2> QED
    BY <2>1, <2>2, <2>3, <2>4 DEF WorldInv
<1>3. RecInv'
  <2>1. Kept' /\ SweepHolds'
    BY DEF RecInv, Kept, SweepHolds, Owing, Rest
  <2>2. Ahead' /\ JobsHold'
    BY <1>1 DEF RecInv, Ahead, JobsHold
  <2>3. \A t \in Conns : Fresh(t)'
    BY DEF RecInv, Fresh
  <2> QED
    BY <2>1, <2>2, <2>3 DEF RecInv
<1>4. ItemsInv'
  <2>1. JobsCount'
    <3>1. \A j \in 1..Jobs : job[j].leaver \in Conns /\ Is(job[j].leaver, "rented") =>
              "rented" \in flags'[job[j].leaver]
      BY DEF Is
    <3> QED
      BY <3>1 DEF ItemsInv, JobsCount, Is
  <2>2. Stored' /\ InHand'
    BY DEF ItemsInv, Stored, InHand
  <2>3. ASSUME NEW t \in Conns PROVE EmptyHanded(t)' /\ Staying(t)' /\ Counted(t)'
    <3>1. Waiting(t)' <=> Waiting(t)
      BY DEF Waiting, Is
    <3>2. EmptyHanded(t) /\ Staying(t) /\ Counted(t)
      BY DEF ItemsInv
    <3>3. EmptyHanded(t)' /\ Counted(t)'
      BY <1>1, <3>1, <3>2 DEF EmptyHanded, Counted, Is
    <3>4. at[t] \in {"upgrading", "loaded", "adopting", "fresh"} => ~MayEnd(t)
      BY DEF MayEnd, Settled, TypeInv, SessionSized, Bodiless, WorldInv, Marks, Marked, Is
    <3>5. Waiting(t) /\ at[t] = "reading" => ~MayEnd(t)
      BY DEF MayEnd, Waiting, Settled
    <3>6. Staying(t)'
      BY <1>1, <3>1, <3>2, <3>4, <3>5 DEF Staying, Is
    <3> QED
      BY <3>3, <3>6
  <2> QED
    BY <2>1, <2>2, <2>3 DEF ItemsInv
<1> QED
  BY <1>2, <1>3, <1>4

\* What run() writes is no older than the file, nor than what anybody else has; and
\* it stores the belongings unless they were parted with.
LEMMA WritingKeeps ==
    ASSUME TypeInv, WorldInv, RecInv, ItemsInv, Quiet, UNCHANGED <<session, world, server>>,
           file'.rec \in 0..MaxRec, file.rec <= file'.rec,
           file'.rec # file.rec => /\ \A b \in inWorld : file'.rec <= rec[b]
                                   /\ \A s \in Conns : Holder(s) => file'.rec <= rec[Owned(s)]
                                   /\ \A j \in 1..Jobs : job[j].step = "none",
           file'.items = file.items \/ file'.items = 1 - parted
    PROVE  (WorldInv /\ RecInv /\ ItemsInv)'
<1> USE DEF session, world, rooms, bodies, server
<1>1. WorldInv'
  BY DEF WorldInv, Solo, Busy, Writing, Sweeping, Marks, Marked, Is, RentPending, Rooms, OneHolder,
         Standing, Holding, Attached, Holder, Owned, Out, Registered, IndexAgrees, SweepSees
<1>2. RecInv'
  <2>1. file.rec \in 0..MaxRec /\ \A b \in Bodies : rec[b] \in 0..MaxRec
    BY DEF TypeInv, FileTypes, WorldTypes
  <2>2. Kept' /\ SweepHolds' /\ JobsHold'
    <3>1. ASSUME NEW b \in Bodies, rec[b] <= file.rec PROVE rec[b] <= file'.rec
      BY <2>1, <3>1, PresenceAssumption
    <3>2. Kept'
      BY <3>1 DEF RecInv, Kept, Owing
    <3> QED
      BY <3>2 DEF RecInv, SweepHolds, JobsHold, Holder, Owned, Registered, Is
  <2>3. Ahead'
    BY DEF RecInv, Ahead, Holder, Owned, Registered, Is
  <2>4. ASSUME NEW t \in Conns PROVE Fresh(t)'
    <3>1. at[t] \in Places.idle \cup Places.leave /\ Fresh(t)
      BY DEF Quiet, RecInv
    <3>2. at[t] \in {"crashing", "storing", "releasing"} => rec[char[t]] <= file'.rec
      <4>1. at[t] \in {"crashing", "storing", "releasing"} =>
              char[t] \in Bodies /\ rec[char[t]] <= file.rec
        BY <3>1 DEF Fresh, TypeInv, SessionSized, Embodied
      <4> QED
        BY <2>1, <4>1, PresenceAssumption
    <3> QED
      BY <3>1, <3>2 DEF Fresh, Places
  <2> QED
    BY <2>2, <2>3, <2>4 DEF RecInv
<1>3. ItemsInv'
  <2>1. Stored'
    BY DEF ItemsInv, Stored
  <2> QED
    BY <2>1 DEF ItemsInv, InHand, JobsCount, EmptyHanded, Staying, Counted, Waiting, Holder, Owned,
                Registered, Is
<1> QED
  BY <1>1, <1>2, <1>3

\* Every step of Presence keeps all three.
LEMMA SettledStep ==
    ASSUME Settled, TypeInv, OwnInv, WorldInv, RecInv, ItemsInv, [Next]_vars
    PROVE  (WorldInv /\ RecInv /\ ItemsInv)'
  BY WorldStep, RecordStep, ItemsInvStep, UndisturbedIsOrderly DEF Settled

\* No two bodies are anybody's at once.
LEMMA OneLeft ==
    ASSUME TypeInv, WorldInv
    PROVE  \E b \in Bodies : inWorld \subseteq {b} /\ \A s \in Conns : Holder(s) => Owned(s) = b
<1>1. CASE \E s \in Conns : Holder(s)
  <2>1. PICK s \in Conns : Holder(s)
    BY <1>1
  <2>2. Owned(s) \in Bodies
    BY <2>1, HolderBody
  <2> QED
    BY <2>1, <2>2 DEF WorldInv, Rooms, OneHolder, Holding
<1>2. CASE (\A s \in Conns : ~Holder(s)) /\ inWorld = {}
  <2>1. 1 \in Bodies
    BY PresenceAssumption DEF Bodies, Conns
  <2> QED
    BY <1>2, <2>1
<1>3. CASE (\A s \in Conns : ~Holder(s)) /\ inWorld # {}
  <2>1. PICK b \in inWorld : TRUE
    BY <1>3
  <2>2. inWorld = {b} /\ b \in Bodies
    BY InWorldIsIndexed DEF WorldInv, TypeInv, WorldTypes
  <2> QED
    BY <1>3, <2>2
<1> QED
  BY <1>1, <1>2, <1>3

\* The signal, when it cuts nothing short.
LEMMA SignalCalm ==
    ASSUME Settled, StopInv, CalmInv, Signal
    PROVE  CalmInv'
<1>1. /\ TypeInv /\ OwnInv /\ MainInv
      /\ main.step = "up" /\ main.todo = {} /\ calm /\ UNCHANGED vars
      /\ main' = [main EXCEPT !.step = "collecting"]
      /\ calm' = Quiet
  BY DEF StopInv, CalmInv, Signal, Up, Go, Quiet
<1>2. main'.step = "collecting" /\ main'.todo = {}
  BY <1>1 DEF MainInv
<1>3. WorldInv /\ RecInv /\ ItemsInv
  BY <1>1 DEF CalmInv
<1>4. (WorldInv /\ RecInv /\ ItemsInv)'
  BY <1>1, <1>3, SettledStep
<1>5. Quiet' <=> Quiet
  BY <1>1 DEF Quiet, vars, session
<1>6. JobsDone'
  BY <1>2 DEF JobsDone
<1>7. \E b \in Bodies : Sole(b)'
  <2>1. PICK b \in Bodies : inWorld \subseteq {b} /\ \A s \in Conns : Holder(s) => Owned(s) = b
    BY <1>1, <1>3, OneLeft
  <2>2. Sole(b)'
    BY <1>1, <1>2, <2>1
       DEF Sole, ToWrite, vars, session, world, rooms, Holder, Owned, Registered, Is
  <2> QED
    BY <2>2
<1> QED
  BY <1>1, <1>2, <1>4, <1>5, <1>6, <1>7 DEF CalmInv

\* run() reads what there is to write, and what it writes is that.
LEMMA DescendCalm ==
    ASSUME Settled, StopInv, CalmInv, Descend
    PROVE  CalmInv'
<1> TypeInv /\ OwnInv /\ MainInv
  BY DEF StopInv
<1> USE DEF session, world, rooms, bodies, server
<1>1. /\ UNCHANGED <<session, world, server, calm>>
      /\ main.step # "up" /\ main'.step # "up"
      /\ WaitForWrites \/ (JobsDone => JobsDone')
  <2>1. UNCHANGED <<session, world, server, calm>>
    BY DEF Descend, Main, Collect, CollectPlayers, CollectAgain, SaveSnapshot, SaveWrite, Saved,
           CrashSnapshot, CrashWrite, CrashSaved, WaitForWrites, StopWorld, Exit
  <2>2. /\ main.step # "up" /\ main'.step # "up"
        /\ WaitForWrites \/ main.step \in {"stopping", "stopped"}
             \/ main'.step \notin {"stopping", "stopped", "exited"}
    <3>1. CASE CollectPlayers \/ CollectAgain
      BY <3>1 DEF CollectPlayers, CollectAgain, Collect, Main, MainInv
    <3>2. CASE SaveSnapshot \/ CrashSnapshot
      BY <3>2 DEF SaveSnapshot, CrashSnapshot, Main
    <3>3. CASE SaveWrite \/ CrashWrite \/ Saved \/ CrashSaved
      BY <3>3 DEF SaveWrite, CrashWrite, Saved, CrashSaved, Main, Go, MainInv
    <3>4. CASE WaitForWrites \/ StopWorld \/ Exit
      BY <3>4 DEF WaitForWrites, StopWorld, Exit, Main, Go, MainInv
    <3> QED
      BY <3>1, <3>2, <3>3, <3>4 DEF Descend
  <2> QED
    BY <2>1, <2>2 DEF JobsDone
<1>2. CASE ~calm
  BY <1>1, <1>2 DEF CalmInv
<1>3. CASE calm
  <2>1. WorldInv /\ RecInv /\ ItemsInv /\ Quiet /\ JobsDone
    BY <1>1, <1>3 DEF CalmInv
  <2>2. PICK b \in Bodies : Sole(b)
    BY <1>1, <1>3 DEF CalmInv
  <2>3. /\ file \in [rec : 0..MaxRec, code : Codes, items : 0..Many]
        /\ rec[b] \in 0..MaxRec /\ carrying[b] \in 0..Many /\ parted \in {0, 1}
    BY <2>1 DEF TypeInv, FileTypes, WorldTypes, ItemsInv, Stored
  <2>4. Quiet' /\ \A s \in Conns : (Holder(s)' <=> Holder(s)) /\ Owned(s)' = Owned(s)
    BY <1>1, <2>1 DEF Quiet, Holder, Owned, Registered, Is
  <2>5. inWorld # {} => /\ \A j \in 1..Jobs : job[j].step = "none"
                        /\ file.rec <= rec[b] /\ carrying[b] = 1 - parted
    <3>1. inWorld # {} => inWorld = {b}
      BY <2>2 DEF Sole
    <3>2. \A s \in Conns : at[s] \notin Loading
      BY <2>1 DEF Quiet, Loading, Places
    <3> QED
      BY <2>1, <3>1, <3>2 DEF RecInv, JobsHold, Ahead, ItemsInv, InHand
  \* What is left to show of each step.
  <2>6. ASSUME file'.rec = file.rec \/ (file'.rec = rec[b] /\ ToWrite),
               file'.items = file.items \/ file'.items = 1 - parted,
               Sole(b)', JobsDone'
        PROVE  CalmInv'
    <3>1. file'.rec \in 0..MaxRec /\ file.rec <= file'.rec
      BY <2>2, <2>3, <2>6, PresenceAssumption DEF Sole
    <3>2. file'.rec # file.rec =>
            /\ \A x \in inWorld : file'.rec <= rec[x]
            /\ \A s \in Conns : Holder(s) => file'.rec <= rec[Owned(s)]
            /\ \A j \in 1..Jobs : job[j].step = "none"
      BY <2>2, <2>3, <2>6 DEF Sole
    <3>3. (WorldInv /\ RecInv /\ ItemsInv)'
      BY <1>1, <2>1, <2>6, <3>1, <3>2, WritingKeeps
    <3> QED
      BY <1>1, <1>3, <2>4, <2>6, <3>3 DEF CalmInv
  <2>7. CASE UNCHANGED file /\ ~WaitForWrites
    <3>1. JobsDone'
      BY <1>1, <2>1, <2>7
    <3>2. CASE CollectPlayers \/ CollectAgain
      <4>1. /\ main'.todo = inWorld /\ main'.step \in {"saving", "crashing"}
            /\ main'.step = "crashing" => main.step = "collectingAgain"
        BY <3>2 DEF CollectPlayers, CollectAgain, Collect, Main, MainInv
      <4>2. Sole(b)'
        BY <1>1, <2>2, <2>4, <2>5, <2>7, <4>1 DEF Sole, ToWrite
      <4> QED
        BY <2>6, <2>7, <3>1, <4>2
    <3>3. CASE SaveSnapshot
      <4>1. main'.todo = {} /\ main'.step = "writing" /\ main'.read = rec[b] /\ ToWrite
        BY <2>2, <3>3 DEF SaveSnapshot, Sole, ToWrite
      <4>2. Sole(b)'
        BY <1>1, <2>2, <2>4, <2>7, <4>1 DEF Sole, ToWrite
      <4> QED
        BY <2>6, <2>7, <3>1, <4>2
    <3>4. CASE CrashSnapshot
      <4>1. /\ main'.todo = {} /\ main'.step = "storing" /\ main'.read = carrying[b] /\ ToWrite
            /\ main.step = "crashing"
        BY <2>2, <3>4 DEF CrashSnapshot, Sole, ToWrite, Main
      <4>2. Sole(b)'
        BY <1>1, <2>2, <2>4, <2>7, <4>1 DEF Sole, ToWrite
      <4> QED
        BY <2>6, <2>7, <3>1, <4>2
    <3>5. CASE Saved \/ CrashSaved \/ StopWorld \/ Exit
      <4>1. /\ main'.todo = main.todo
            /\ main.step \in {"saving", "crashing", "stopping", "stopped"}
            /\ main.step = "saving" => main.todo = {}
            /\ main'.step \in {"collectingAgain", "waiting", "stopped", "exited"}
        BY <3>5 DEF Saved, CrashSaved, StopWorld, Exit, Main, Go, MainInv
      <4>2. Sole(b)'
        BY <1>1, <2>2, <2>4, <2>7, <4>1 DEF Sole, ToWrite
      <4> QED
        BY <2>6, <2>7, <3>1, <4>2
    <3>6. CASE SaveWrite \/ CrashWrite
      <4>1. /\ main'.todo = main.todo
            /\ \/ main.step = "writing" /\ main'.step = "saving" /\ file.rec = main.read
               \/ main.step = "storing" /\ main'.step = "crashing"
        BY <2>3, <2>7, <3>6 DEF SaveWrite, CrashWrite, Save, Main, Go, MainInv
      <4>2. Sole(b)'
        BY <1>1, <2>2, <2>3, <2>4, <2>7, <4>1 DEF Sole, ToWrite
      <4> QED
        BY <2>6, <2>7, <3>1, <4>2
    <3> QED
      BY <2>7, <3>2, <3>3, <3>4, <3>5, <3>6 DEF Descend
  <2>8. CASE SaveWrite
    <3>1. /\ main.step = "writing" /\ main'.step = "saving" /\ main'.todo = main.todo
          /\ file'.rec = main.read /\ file'.items = file.items
      BY <2>3, <2>8 DEF SaveWrite, Save, Main, Go, MainInv
    <3>2. file'.rec = rec[b] /\ ToWrite
      BY <2>2, <3>1 DEF Sole, ToWrite
    <3>3. Sole(b)' /\ JobsDone'
      BY <1>1, <2>2, <2>3, <2>4, <3>1, <3>2 DEF Sole, ToWrite, JobsDone
    <3> QED
      BY <2>6, <3>1, <3>2, <3>3
  <2>9. CASE CrashWrite
    <3>1. /\ main.step = "storing" /\ main'.step = "crashing" /\ main'.todo = main.todo
          /\ file'.rec = file.rec /\ file'.items = main.read
      BY <2>3, <2>9 DEF CrashWrite, WriteCrashFile, DeleteObjects, SaveObjects, Main, Go, MainInv
    <3>2. Sole(b)' /\ JobsDone'
      BY <1>1, <2>2, <2>4, <3>1 DEF Sole, ToWrite, JobsDone
    <3> QED
      BY <2>2, <2>6, <3>1, <3>2 DEF Sole
  <2>10. CASE WaitForWrites
    <3>1. /\ main.step = "waiting" /\ main'.step = "stopping" /\ main'.todo = main.todo
          /\ UNCHANGED file /\ \A j \in 1..Jobs : job[j] = Idle
      BY <2>10 DEF WaitForWrites, Main, Go, MainInv
    <3>2. Sole(b)'
      BY <1>1, <2>2, <2>4, <3>1 DEF Sole, ToWrite
    <3>3. JobsDone'
      BY <1>1, <3>1 DEF JobsDone, Idle
    <3> QED
      BY <2>6, <3>1, <3>2, <3>3
  <2>11. UNCHANGED file \/ SaveWrite \/ CrashWrite
    BY DEF Descend, Collect, CollectPlayers, CollectAgain, SaveSnapshot, Saved,
           CrashSnapshot, CrashSaved, WaitForWrites, StopWorld, Exit
  <2> QED
    BY <2>7, <2>8, <2>9, <2>10, <2>11
<1> QED
  BY <1>2, <1>3 DEF MainInv

\* What one body is left with while nobody plays and run() does nothing.
LEMMA SoleKept ==
    ASSUME TypeInv, RecInv, UNCHANGED <<main, rec, carrying, parted>>, NEW b \in Bodies, Sole(b),
           inWorld' \subseteq inWorld,
           \A s \in Conns : Holder(s)' => Holder(s) /\ Owned(s)' = Owned(s),
           \A j \in 1..Jobs : job[j].step = "none" => job'[j].step = "none",
           \/ file'.rec = file.rec \/ file'.rec = rec[b]
           \/ \E j \in 1..Jobs : job[j].step # "none"
    PROVE  Sole(b)'
<1>1. rec[b] \in Nat
  BY Numbers DEF TypeInv, WorldTypes
<1>2. ToWrite' <=> ToWrite
  BY DEF ToWrite
<1>3. inWorld # {} \/ ToWrite => \A j \in 1..Jobs : job[j].step = "none"
  BY DEF RecInv, JobsHold, Sole
<1>4. inWorld # {} \/ ToWrite => file'.rec = file.rec \/ file'.rec = rec[b]
  BY <1>3
<1>5. ToWrite => /\ \A j \in 1..Jobs : job'[j].step = "none"
                 /\ file'.rec <= rec[b] /\ carrying[b] = 1 - parted
  BY <1>1, <1>3, <1>4 DEF Sole
<1>6. inWorld' # {} /\ main.step # "collecting" =>
          \/ rec[b] <= file'.rec
          \/ main.step = "saving" /\ b \in main.todo
          \/ main.step = "writing"
  BY <1>1, <1>4 DEF Sole
<1> QED
  BY <1>2, <1>5, <1>6 DEF Sole

\* What can still happen: connections end, what was begun goes on.
LEMMA CalmAround ==
    ASSUME Late = FALSE, Around, ~Up, Quiet
    PROVE  \/ \E s \in Conns : Depart(s)
           \/ \E s \in Conns : Kick(s) \/ CloseAtStop(s)
           \/ \E j \in 1..Jobs : Background(j)
           \/ SweepSave \/ SweepJudge \/ SweepReap \/ SweepGivesUp
<1>1. CASE Sweeps
  BY <1>1 DEF Sweeps
<1>2. ASSUME NEW j \in 1..Jobs, Write(j) PROVE Background(j)
  BY <1>2 DEF Write, Background
<1>3. ASSUME NEW s \in Conns, Connection(s) PROVE Depart(s) \/ Kick(s) \/ CloseAtStop(s)
  <2>1. GoesOn(s) \/ Visits(s) \/ GivesUp(s)
    BY <1>3 DEF Connection
  <2>2. at[s] \in Places.idle \cup Places.leave
    BY DEF Quiet
  <2>3. CASE GoesOn(s)
    BY <2>2, <2>3 DEF GoesOn, Depart, TallyBadPassword, UpgradeCredential, Refuse, Adopt, ToMenu,
                      LoadObjects, ForfeitWrite, MarkRestored, Entered, Places
  <2>4. CASE Visits(s)
    BY <2>2, <2>4 DEF Visits, Depart, DupeCheck, EnterRoom, Forfeit, RestoreObjects, Play, Look,
                      Quit, DeathTrap, Rent, Places
  <2>5. CASE GivesUp(s)
    BY <2>2, <2>5 DEF GivesUp, EnterGivesUp, RestoreGivesUp, ForfeitGivesUp, DupeGivesUp,
                      CommandGivesUp, Places
  <2> QED
    BY <2>1, <2>3, <2>4, <2>5
<1> QED
  BY <1>1, <1>2, <1>3 DEF Around

\* A teardown saves what the one body has.
LEMMA DepartSole ==
    ASSUME Settled, TypeInv, WorldInv, RecInv, Quiet, UNCHANGED main,
           NEW b \in Bodies, Sole(b), NEW s \in Conns, Depart(s)
    PROVE  Sole(b)' /\ Quiet' /\ UNCHANGED job
<1> USE DEF world, rooms, bodies, server
<1>1. /\ UNCHANGED <<char, rec, carrying, parted, job>> /\ inWorld' \subseteq inWorld
      /\ \A t \in Conns \ {s} : local'[t].body = local[t].body
      /\ at[s] \in Places.leave \cup {"prompt", "reading"}
  BY DEF Depart, ReadEnds, LeaveNothing, Leave, LeaveSnapshot, LeaveSave, LeaveCrashFile,
         LeaveCrashSave, LeaveWorld, WorldRemove, Read, Forget, Places, TypeInv, SessionTypes
<1>2. PICK p \in Places.leave \cup {"gone"} : Goto(s, p)
  BY DEF Depart, ReadEnds, LeaveNothing, Leave, LeaveSnapshot, LeaveSave, LeaveCrashFile,
         LeaveCrashSave, LeaveWorld, Places
<1>3. Grown
  <2>1. UNCHANGED flags \/ Mark({s}, {"closed"})
    BY DEF Depart, ReadEnds, LeaveNothing, Leave, LeaveSnapshot, LeaveSave, LeaveCrashFile,
           LeaveCrashSave, LeaveWorld
  <2> QED
    BY <2>1, MarkGrows DEF Grown, TypeInv
<1>4. \A t \in Conns : Holder(t)' => Holder(t) /\ Owned(t)' = Owned(t)
  BY <1>1, <1>2, <1>3, MoveHolders DEF Places
<1>5. file'.rec = file.rec \/ file'.rec = rec[b]
  <2>1. CASE LeaveSave(s)
    <3>1. at[s] = "writing" /\ file'.rec = local[s].read
      BY <2>1 DEF LeaveSave, Save, TypeInv, FileTypes
    <3>2. local[s].read = rec[char[s]]
      BY <3>1 DEF RecInv, Fresh
    <3>3. Holder(s) /\ Owned(s) = char[s]
      BY <3>1, Numbers DEF Holder, Owned, Registered, TypeInv, SessionSized, Embodied, WorldInv,
                           Marks, Marked, Ending, Settled, Undisturbed, Bodies
    <3> QED
      BY <3>1, <3>2, <3>3 DEF Sole
  <2>2. CASE ~LeaveSave(s)
    BY <2>2 DEF Depart, ReadEnds, LeaveNothing, Leave, LeaveSnapshot, LeaveCrashFile,
                LeaveCrashSave, LeaveWorld, WriteCrashFile, DeleteObjects, SaveObjects, TypeInv,
                FileTypes
  <2> QED
    BY <2>1, <2>2
<1>6. Sole(b)'
  BY <1>1, <1>4, <1>5, SoleKept
<1>7. Quiet'
  BY <1>2 DEF Quiet, Goto, Places, TypeInv, SessionTypes
<1> QED
  BY <1>1, <1>6, <1>7

\* So do the other goroutines.
LEMMA OthersSole ==
    ASSUME Settled, TypeInv, RecInv, Quiet, UNCHANGED main, NEW b \in Bodies, Sole(b),
           \/ \E s \in Conns : Kick(s) \/ CloseAtStop(s)
           \/ \E j \in 1..Jobs : Background(j)
           \/ SweepSave \/ SweepJudge \/ SweepReap \/ SweepGivesUp
    PROVE  /\ Sole(b)' /\ Quiet'
           /\ \A j \in 1..Jobs : job[j].step = "none" => job'[j].step = "none"
<1> USE DEF session, world, rooms, bodies, server
<1>1. /\ UNCHANGED <<at, char, local, rec, carrying, parted>> /\ inWorld' \subseteq inWorld
      /\ UNCHANGED flags \/ \E ss : Mark(ss, {"closed"})
  <2>1. CASE \E s \in Conns : Kick(s) \/ CloseAtStop(s)
    BY <2>1 DEF Kick, CloseAtStop
  <2>2. CASE \E j \in 1..Jobs : Background(j)
    BY <2>2 DEF Background, QuitSave, QuitCrashSave, RentSaveObjects, RentSnapshot, RentSave,
                RentClose
  <2>3. CASE SweepSave \/ SweepJudge \/ SweepReap \/ SweepGivesUp
    BY <2>3 DEF SweepSave, SweepJudge, SweepReap, SweepGivesUp, WorldRemove
  <2> QED
    BY <2>1, <2>2, <2>3
<1>2. \A t \in Conns : "displaced" \in flags'[t] <=> "displaced" \in flags[t]
  BY <1>1, MarkGrows DEF Grown, TypeInv
<1>3. \A t \in Conns : Holder(t)' => Holder(t) /\ Owned(t)' = Owned(t)
  BY <1>1, <1>2 DEF Holder, Owned, Registered, Is
<1>4. /\ \A j \in 1..Jobs : job[j].step = "none" => job'[j].step = "none"
      /\ \/ file'.rec = file.rec \/ file'.rec = rec[b]
         \/ \E j \in 1..Jobs : job[j].step # "none"
  <2>1. CASE \E s \in Conns : Kick(s) \/ CloseAtStop(s)
    BY <2>1 DEF Kick, CloseAtStop
  <2>2. ASSUME NEW j \in 1..Jobs, Background(j)
        PROVE  job[j].step # "none" /\ \A k \in 1..Jobs \ {j} : job'[k] = job[k]
    BY <2>2 DEF Background, QuitSave, QuitCrashSave, RentSaveObjects, RentSnapshot, RentSave,
                RentClose, JobStep, TypeInv, ServerTypes
  <2>3. CASE SweepJudge \/ SweepReap \/ SweepGivesUp
    BY <2>3 DEF SweepJudge, SweepReap, SweepGivesUp
  <2>4. CASE SweepSave
    <3>1. sweep.step = "swept" /\ file'.rec = sweep.rec /\ UNCHANGED job
      BY <2>4 DEF SweepSave, Save, TypeInv, FileTypes
    <3>2. sweep.rec = rec[b]
      BY <3>1 DEF RecInv, SweepHolds, Sole
    <3> QED
      BY <3>1, <3>2
  <2> QED
    BY <2>1, <2>2, <2>3, <2>4
<1>5. Sole(b)'
  BY <1>1, <1>3, <1>4, SoleKept
<1>6. Quiet'
  BY <1>1 DEF Quiet
<1> QED
  BY <1>4, <1>5, <1>6

\* Whatever the connections and the other goroutines do meanwhile.
LEMMA AroundCalm ==
    ASSUME Settled, Late = FALSE, StopInv, CalmInv, Around
    PROVE  CalmInv'
<1> TypeInv /\ OwnInv /\ MainInv /\ UNCHANGED <<main, calm>>
  BY DEF StopInv, Around
<1>1. CASE ~calm
  BY <1>1 DEF CalmInv
<1>2. CASE calm /\ main.step = "up"
  <2>1. Next
    <3>1. CASE Sweeps
      BY <1>2, <3>1 DEF Sweeps, Up, Sweep, Next
    <3>2. ASSUME NEW j \in 1..Jobs, Write(j) PROVE Background(j)
      BY <3>2 DEF Write, Background
    <3>3. ASSUME NEW s \in Conns, Connection(s)
          PROVE  Login(s) \/ Enter(s) \/ Command(s) \/ Depart(s) \/ Kick(s)
      BY <1>2, <3>3 DEF Connection, Up, Begins, GoesOn, Visits, CloseAtStop, Login, Enter,
                        Command, Depart
    <3> QED
      BY <3>1, <3>2, <3>3 DEF Around, Next
  <2>2. (WorldInv /\ RecInv /\ ItemsInv)'
    BY <1>2, <2>1, SettledStep DEF CalmInv
  <2> QED
    BY <1>2, <2>2 DEF CalmInv
<1>3. CASE calm /\ main.step # "up"
  <2>1. WorldInv /\ RecInv /\ ItemsInv /\ Quiet /\ JobsDone
    BY <1>3 DEF CalmInv
  <2>2. PICK b \in Bodies : Sole(b)
    BY <1>3 DEF CalmInv
  <2>3. \/ \E s \in Conns : Depart(s)
        \/ \E s \in Conns : Kick(s) \/ CloseAtStop(s)
        \/ \E j \in 1..Jobs : Background(j)
        \/ SweepSave \/ SweepJudge \/ SweepReap \/ SweepGivesUp
    BY <1>3, <2>1, CalmAround DEF Up
  <2>4. /\ Sole(b)' /\ Quiet'
        /\ \A j \in 1..Jobs : job[j].step = "none" => job'[j].step = "none"
    BY <2>1, <2>2, <2>3, DepartSole, OthersSole
  <2>5. JobsDone'
    BY <2>1, <2>4 DEF JobsDone
  <2>6. (WorldInv /\ RecInv /\ ItemsInv)'
    <3>1. CASE \/ \E s \in Conns : CloseAtStop(s)
               \/ SweepGivesUp
      <4>1. /\ UNCHANGED <<at, state, char, local, world, file, job>>
            /\ UNCHANGED sweep \/ sweep' = Rest
            /\ \A t \in Conns : \/ flags'[t] = flags[t]
                                \/ flags'[t] = flags[t] \cup {"closed"} /\ MayEnd(t)
        BY <3>1 DEF CloseAtStop, SweepGivesUp, session, server, Mark, TypeInv, SessionTypes
      <4> QED
        BY <2>1, <4>1, ClosingKeeps
    <3>2. CASE Next
      BY <2>1, <3>2, SettledStep
    <3> QED
      BY <2>3, <3>1, <3>2 DEF Next, Sweep
  <2> QED
    BY <1>3, <2>2, <2>4, <2>5, <2>6 DEF CalmInv
<1> QED
  BY <1>1, <1>2, <1>3 DEF MainInv

\* When the process ends, everything that was to be written is on file.
LEMMA CalmLosesNothing ==
    ASSUME StopInv, CalmInv
    PROVE  StopKeeps
<1> SUFFICES ASSUME calm, main.step = "exited" PROVE NothingLost
  BY DEF StopKeeps, NothingLost
<1>1. TypeInv /\ RecInv /\ ItemsInv /\ JobsDone
  BY DEF CalmInv, StopInv
<1>2. PICK b \in Bodies : Sole(b)
  BY DEF CalmInv
<1>3. ASSUME NEW x \in Bodies PROVE rec[x] <= file.rec
  <2>1. ~Owing(x)
    BY <1>1 DEF JobsDone, Owing
  <2>2. x \in inWorld => x = b /\ rec[b] <= file.rec
    BY <1>2 DEF Sole
  <2> QED
    BY <1>1, <2>1, <2>2 DEF RecInv, Kept
<1>4. file.items + parted >= 1
  BY <1>1 DEF ItemsInv, Stored, TypeInv, FileTypes
<1> QED
  BY <1>3, <1>4 DEF NothingLost

\* StopKeeps: where belongings and record are safe while the server runs, and once the
\* signal has come no line begins anything, a shutdown that cuts no login, entry or
\* command short loses neither: SaveEverything, the writes of background(), the last
\* sweep and the teardowns write one body, in any order, and none an older copy of it.
LEMMA CalmStopLosesNothing ==
    ASSUME Settled, Late = FALSE PROVE StopSpec => []StopKeeps
<1>1. StopInit => CalmInv
  BY InitWorldInv, InitRecord, InitItems DEF StopInit, CalmInv
<1>2. StopInv /\ CalmInv /\ [StopNext]_svars => CalmInv'
  <2> SUFFICES ASSUME StopInv, CalmInv, [StopNext]_svars PROVE CalmInv'
    OBVIOUS
  <2>1. CASE UNCHANGED svars
    <3>1. UNCHANGED vars /\ UNCHANGED <<main, calm>>
      BY <2>1 DEF svars
    <3>2. calm => (WorldInv /\ RecInv /\ ItemsInv)'
      BY <3>1, SettledStep DEF CalmInv, StopInv
    <3>3. (Quiet' <=> Quiet) /\ (JobsDone' <=> JobsDone) /\ \A b \in Bodies : Sole(b)' <=> Sole(b)
      BY <3>1 DEF vars, session, world, rooms, bodies, server, Quiet, JobsDone, Sole, ToWrite,
                  Holder, Owned, Registered, Is
    <3> QED
      BY <3>1, <3>2, <3>3 DEF CalmInv
  <2> QED
    BY <2>1, SignalCalm, DescendCalm, AroundCalm DEF StopNext
<1>3. StopInv /\ CalmInv => StopKeeps
  BY CalmLosesNothing
<1> QED
  BY <1>1, <1>2, <1>3, StopInvHolds, PTL DEF StopSpec
=============================================================================

---------------------------- MODULE BoardsProofs ----------------------------
(***************************************************************************)
(* What Boards promises for any number of authors, boards and messages,    *)
(* whatever becomes of an author who has the editor open.                  *)
(***************************************************************************)
EXTENDS Boards, ListFacts

-----------------------------------------------------------------------------
(* The inductive invariant *)

Entry == [slot : Slots, board : Boards, id : 1..MaxPosts]
Text == UNION {[1..n -> 1..MaxPosts] : n \in 0..MaxLines}
Message == [id : 1..MaxPosts, text : Text \union {Null}]

Types ==
  /\ storage \in [Slots -> Text \union {Null}]
  /\ taken \in [Slots -> BOOLEAN]
  /\ index \in [Boards -> Seq(Entry)]
  /\ \A b \in Boards : Len(index[b]) <= MaxMessages
  /\ file \in [Boards -> Seq(Message)]
  /\ \A b \in Boards : Len(file[b]) <= MaxMessages
  /\ state \in [Authors -> {"playing", "menu", "closing"}]
  /\ str \in [Authors -> Entry \union {Nobody}]
  /\ heard \subseteq Authors
  /\ posts \in 0..MaxPosts /\ ended \subseteq 1..posts /\ left \subseteq 1..posts

\* An entry knows its board, was begun, and is listed at one position.
Listed ==
  \A b \in Boards :
    /\ \A m \in Entries(b) : m.board = b /\ m.id <= posts
    /\ \A i, j \in DOMAIN index[b] : index[b][i].slot = index[b][j].slot => i = j

\* A message is listed once, so what a file says of it is said of one entry.
IdsOnce ==
  \A b, c \in Boards : \A m \in Entries(b), n \in Entries(c) : m.id = n.id => m = n

\* A slot to be given away holds only what somebody wrote who had left.
FreeLines == \A s \in Slots : ~taken[s] => ToSet(TextOf(storage[s])) \subseteq left

\* Who writes does so on a message of their own that is not ended.  While they play it
\* is on its board, where Board_remove_msg looks for them; if not, they have left it.
Writers ==
  \A a \in Authors : str[a] # Nobody =>
    /\ str[a].id \notin ended /\ str[a].id <= posts
    /\ IF state[a] = "playing" THEN str[a] \in Entries(str[a].board) ELSE str[a].id \in left
    /\ \A o \in Authors : str[o] # Nobody /\ str[o].id = str[a].id => o = a

\* What a start reads: each message once, with lines of its author and of who had left.
FileSound ==
  \A b \in Boards :
    /\ \A i, j \in DOMAIN file[b] : file[b][i].id = file[b][j].id => i = j
    /\ \A f \in Range(file[b]) : ToSet(TextOf(f.text)) \subseteq {f.id} \union left

Inv ==
  /\ Types /\ Listed /\ SlotsHeldOnce /\ IdsOnce /\ FreeLines /\ Writers
  /\ EndedIsSaved /\ FileSound

-----------------------------------------------------------------------------
(* Lists of messages *)

LEMMA Counted ==
  /\ Slots \subseteq Nat /\ Boards \subseteq Nat /\ 0 \notin Slots
  /\ Nobody \notin Entry /\ INDEX_SIZE \in Nat
<1>1. NumBoards * MaxMessages \in Nat
  BY BoardsAssumption
<1> QED
  BY <1>1, BoardsAssumption DEF Slots, Boards, INDEX_SIZE, Nobody, Entry

LEMMA AppendEntries ==
  ASSUME NEW S, NEW s \in Seq(S), NEW e \in S
  PROVE  /\ Append(s, e) \in Seq(S) /\ Len(Append(s, e)) = Len(s) + 1
         /\ \A j \in 1..Len(s) : Append(s, e)[j] = s[j]
         /\ Append(s, e)[Len(s) + 1] = e
         /\ Range(Append(s, e)) = Range(s) \union {e}
<1>1. /\ Append(s, e) \in Seq(S) /\ Len(Append(s, e)) = Len(s) + 1
      /\ \A j \in 1..Len(s) : Append(s, e)[j] = s[j]
      /\ Append(s, e)[Len(s) + 1] = e
  BY AppendProperties
<1>2. DOMAIN Append(s, e) = 1..Len(s) + 1 /\ DOMAIN s = 1..Len(s) /\ Len(s) \in Nat
  BY <1>1
<1>3. ASSUME NEW j \in 1..Len(s) + 1 PROVE Append(s, e)[j] \in Range(s) \union {e}
  BY <1>1, <1>2 DEF Range
<1>4. ASSUME NEW j \in 1..Len(s) PROVE s[j] \in Range(Append(s, e))
  <2>1. j \in DOMAIN Append(s, e) /\ Append(s, e)[j] = s[j]
    BY <1>1, <1>2
  <2> QED
    BY <2>1 DEF Range
<1>5. e \in Range(Append(s, e))
  <2>1. Len(s) + 1 \in DOMAIN Append(s, e)
    BY <1>2
  <2> QED
    BY <1>1, <2>1 DEF Range
<1>6. Range(Append(s, e)) = Range(s) \union {e}
  BY <1>2, <1>3, <1>4, <1>5 DEF Range
<1> QED
  BY <1>1, <1>6

\* Of a list in which nobody shares a slot, RemoveAt takes one entry, and its slot.
LEMMA RemoveEntries ==
  ASSUME NEW S, NEW s \in Seq(S), NEW i \in 1..Len(s),
         \A j, k \in DOMAIN s : s[j].slot = s[k].slot => j = k
  PROVE  LET t == RemoveAt(s, i)
         IN /\ t \in Seq(S) /\ Len(t) = Len(s) - 1
            /\ Range(t) = {m \in Range(s) : m.slot # s[i].slot}
            /\ \A j, k \in DOMAIN t : t[j].slot = t[k].slot => j = k
<1> DEFINE t == RemoveAt(s, i)
<1>1. /\ t \in Seq(S) /\ Len(t) = Len(s) - 1
      /\ \A j \in 1..Len(s) - 1 : t[j] = IF j < i THEN s[j] ELSE s[j + 1]
  BY RemoveAtProperties
<1> HIDE DEF t
<1>2. DOMAIN t = 1..Len(s) - 1 /\ DOMAIN s = 1..Len(s) /\ Len(s) \in Nat
  BY <1>1
<1>3. ASSUME NEW j \in 1..Len(s) - 1
      PROVE  \E k \in DOMAIN s \ {i} : t[j] = s[k] /\ (j < i => k = j) /\ (~(j < i) => k = j + 1)
  BY <1>1, <1>2
<1>4. ASSUME NEW k \in DOMAIN s \ {i} PROVE \E j \in DOMAIN t : t[j] = s[k]
  <2>1. CASE k < i
    BY <1>1, <1>2, <2>1
  <2>2. CASE ~(k < i)
    <3>1. k - 1 \in 1..Len(s) - 1 /\ ~(k - 1 < i) /\ (k - 1) + 1 = k
      BY <1>2, <2>2
    <3> QED
      BY <1>1, <1>2, <3>1
  <2> QED
    BY <2>1, <2>2
<1>5. \A k \in DOMAIN s : k # i <=> s[k].slot # s[i].slot
  BY <1>2
<1>6. Range(t) \subseteq {m \in Range(s) : m.slot # s[i].slot}
  <2> SUFFICES ASSUME NEW j \in DOMAIN t
               PROVE  t[j] \in Range(s) /\ t[j].slot # s[i].slot
    BY DEF Range
  <2>1. PICK k \in DOMAIN s \ {i} : t[j] = s[k]
    BY <1>2, <1>3
  <2> QED
    BY <1>5, <2>1 DEF Range
<1>7. {m \in Range(s) : m.slot # s[i].slot} \subseteq Range(t)
  <2> SUFFICES ASSUME NEW k \in DOMAIN s, s[k].slot # s[i].slot
               PROVE  s[k] \in Range(t)
    BY DEF Range
  <2> QED
    BY <1>4, <1>5 DEF Range
<1>8. ASSUME NEW j \in DOMAIN t, NEW k \in DOMAIN t, t[j].slot = t[k].slot
      PROVE  j = k
  <2>1. PICK x \in DOMAIN s \ {i} :
          t[j] = s[x] /\ (j < i => x = j) /\ (~(j < i) => x = j + 1)
    BY <1>2, <1>3
  <2>2. PICK y \in DOMAIN s \ {i} :
          t[k] = s[y] /\ (k < i => y = k) /\ (~(k < i) => y = k + 1)
    BY <1>2, <1>3
  <2>3. x = y
    BY <1>8, <2>1, <2>2
  <2> QED
    BY <1>2, <2>1, <2>2, <2>3
<1> QED
  BY <1>1, <1>6, <1>7, <1>8 DEF t

-----------------------------------------------------------------------------
(* Which slots a start gives to which messages *)

\* Before is the function its definition describes.
LEMMA BeforeIs ==
  ASSUME Types
  PROVE  /\ Before \in [0..NumBoards -> Nat]
         /\ Before[0] = 0
         /\ \A b \in Boards : Before[b] = Before[b - 1] + Len(file[b])
<1> DEFINE Step(f, b) == IF b = 0 THEN 0 ELSE f[b - 1] + Len(file[b])
           Sums(f, n) == f \in [0..n -> Nat] /\ \A b \in 0..n : f[b] = Step(f, b)
           T == {n \in 0..NumBoards : \E f : Sums(f, n)}
<1>0. NumBoards \in Nat /\ \A b \in 1..NumBoards : Len(file[b]) \in Nat
  BY BoardsAssumption DEF Types, Boards
<1>1. 0 \in T
  <2> DEFINE z == [b \in 0..0 |-> 0]
  <2>1. Sums(z, 0)
    BY <1>0
  <2> HIDE DEF z
  <2> QED
    BY <1>0, <2>1
<1>2. ASSUME NEW n \in 0..NumBoards, n # 0, n - 1 \in T PROVE n \in T
  <2>1. PICK f : Sums(f, n - 1)
    BY <1>2
  <2> DEFINE g == [b \in 0..n |-> IF b = n THEN f[n - 1] + Len(file[n]) ELSE f[b]]
  <2>2. f[n - 1] \in Nat /\ Len(file[n]) \in Nat
    BY <1>0, <1>2, <2>1
  <2>3. g \in [0..n -> Nat]
    BY <1>2, <2>1, <2>2
  <2>4. ASSUME NEW b \in 0..n PROVE g[b] = Step(g, b)
    <3>1. CASE b = n
      BY <1>2, <2>1, <3>1
    <3>2. CASE b # n
      <4>1. b \in 0..n - 1 /\ f[b] = Step(f, b) /\ g[b] = f[b]
        BY <1>2, <2>1, <3>2
      <4>2. b # 0 => g[b - 1] = f[b - 1]
        BY <1>2, <4>1
      <4> QED
        BY <4>1, <4>2
    <3> QED
      BY <3>1, <3>2
  <2>5. Sums(g, n)
    BY <2>3, <2>4
  <2> QED
    BY <2>5
<1>3. NumBoards \in T
  <2> HIDE DEF T
  <2>1. 0..NumBoards \subseteq T
    BY <1>0, <1>1, <1>2, UpTo
  <2> QED
    BY <1>0, <2>1
<1>4. PICK f : Sums(f, NumBoards)
  BY <1>3
<1>5. f = [b \in 0..NumBoards |-> Step(f, b)]
  BY <1>4
<1>6. Before = [b \in 0..NumBoards |-> Step(Before, b)]
  BY <1>5 DEF Before
<1>7. \A b \in 0..NumBoards : Before[b] = Step(Before, b)
  BY <1>6
<1>8. Before[0] = 0
  BY <1>0, <1>7
<1>9. \A b \in Boards : Before[b] = Before[b - 1] + Len(file[b])
  BY <1>0, <1>7 DEF Boards
<1> DEFINE U == {n \in 0..NumBoards : Before[n] \in Nat}
<1>10. ASSUME NEW n \in 0..NumBoards, n # 0, n - 1 \in U PROVE n \in U
  BY <1>0, <1>9, <1>10 DEF Boards
<1>11. 0..NumBoards \subseteq U
  <2>1. 0 \in U
    BY <1>0, <1>8
  <2> HIDE DEF U
  <2> QED
    BY <1>0, <1>10, <2>1, UpTo
<1> QED
  BY <1>6, <1>8, <1>9, <1>11

LEMMA BeforeSums ==
  ASSUME Types
  PROVE  /\ NumBoards \in Nat /\ Boards = 1..NumBoards
         /\ \A k \in 0..NumBoards : Before[k] \in Nat
         /\ \A k \in 1..NumBoards :
              /\ Len(file[k]) \in Nat /\ Len(file[k]) <= MaxMessages
              /\ DOMAIN file[k] = 1..Len(file[k])
              /\ Before[k] \in Nat /\ Before[k - 1] \in Nat
              /\ Before[k] = Before[k - 1] + Len(file[k])
<1>1. NumBoards \in Nat /\ Boards = 1..NumBoards
  BY BoardsAssumption DEF Boards
<1>2. ASSUME NEW k \in Boards
      PROVE  /\ Len(file[k]) \in Nat /\ Len(file[k]) <= MaxMessages
             /\ DOMAIN file[k] = 1..Len(file[k])
  BY DEF Types
<1>3. \A k \in 0..NumBoards : Before[k] \in Nat
  BY BeforeIs
<1>4. \A k \in 1..NumBoards : k \in 0..NumBoards /\ k - 1 \in 0..NumBoards
  BY <1>1
<1>5. \A k \in 1..NumBoards : Before[k] = Before[k - 1] + Len(file[k])
  BY <1>1, BeforeIs
<1> QED
  BY <1>1, <1>2, <1>3, <1>4, <1>5

\* What one board's messages take ends before the next board's begins ...
LEMMA BeforeOrdered ==
  ASSUME Types, NEW b \in Boards, NEW c \in Boards, b < c
  PROVE  Before[b] <= Before[c - 1]
<1> DEFINE T == {n \in 0..NumBoards : \A k \in 0..n : Before[k] <= Before[n]}
<1>0. /\ NumBoards \in Nat /\ \A k \in 0..NumBoards : Before[k] \in Nat
      /\ \A k \in 1..NumBoards : Len(file[k]) \in Nat /\ Before[k] = Before[k - 1] + Len(file[k])
  BY BeforeSums
<1>1. 0 \in T
  BY <1>0
<1>2. ASSUME NEW n \in 0..NumBoards, n # 0, n - 1 \in T PROVE n \in T
  <2>1. Before[n - 1] <= Before[n]
    BY <1>0, <1>2
  <2>2. ASSUME NEW k \in 0..n PROVE Before[k] <= Before[n]
    <3>1. CASE k = n
      BY <1>0, <1>2, <3>1
    <3>2. CASE k # n
      <4>1. k \in 0..n - 1 /\ k \in 0..NumBoards /\ n - 1 \in 0..NumBoards
        BY <1>0, <1>2, <3>2
      <4>2. Before[k] <= Before[n - 1]
        BY <1>2, <4>1
      <4> QED
        BY <1>0, <2>1, <4>1, <4>2
    <3> QED
      BY <3>1, <3>2
  <2> QED
    BY <2>2
<1>3. 0..NumBoards \subseteq T
  <2> HIDE DEF T
  <2> QED
    BY <1>0, <1>1, <1>2, UpTo
<1> QED
  BY <1>0, <1>3 DEF Boards

\* ... and all of them fit in the array.
LEMMA BeforeBounded ==
  ASSUME Types, NEW b \in Boards
  PROVE  Before[b] <= NumBoards * MaxMessages
<1> DEFINE T == {n \in 0..NumBoards : Before[n] <= n * MaxMessages}
<1>0. /\ NumBoards \in Nat /\ MaxMessages \in Nat
      /\ \A k \in 0..NumBoards : Before[k] \in Nat
      /\ \A k \in 1..NumBoards : /\ Len(file[k]) \in Nat /\ Len(file[k]) <= MaxMessages
                                 /\ Before[k] = Before[k - 1] + Len(file[k])
  BY BeforeSums, BoardsAssumption
<1>1. 0 \in T
  BY <1>0, BeforeIs
<1>2. ASSUME NEW n \in 0..NumBoards, n # 0, n - 1 \in T PROVE n \in T
  <2>1. Before[n] <= (n - 1) * MaxMessages + MaxMessages
    <3>1. n \in 1..NumBoards /\ (n - 1) * MaxMessages \in Nat
      BY <1>0, <1>2
    <3>2. Before[n - 1] <= (n - 1) * MaxMessages
      BY <1>2
    <3>3. n - 1 \in 0..NumBoards /\ Before[n - 1] \in Nat /\ Len(file[n]) <= MaxMessages
      BY <1>0, <1>2, <3>1
    <3>4. Before[n] = Before[n - 1] + Len(file[n]) /\ Len(file[n]) \in Nat
      BY <1>0, <3>1
    <3> QED
      BY <1>0, <3>1, <3>2, <3>3, <3>4
  <2>2. (n - 1) * MaxMessages + MaxMessages = n * MaxMessages
    BY <1>0
  <2> QED
    BY <1>2, <2>1, <2>2
<1>3. 0..NumBoards \subseteq T
  <2> HIDE DEF T
  <2> QED
    BY <1>0, <1>1, <1>2, UpTo
<1>4. Before[b] <= b * MaxMessages /\ b \in 1..NumBoards
  BY <1>0, <1>3 DEF Boards
<1>5. b * MaxMessages <= NumBoards * MaxMessages
  <2>1. PICK d \in Nat : NumBoards = b + d
    BY <1>0, <1>4
  <2>2. (b + d) * MaxMessages = b * MaxMessages + d * MaxMessages
    BY <1>0, <1>4
  <2>3. d * MaxMessages \in Nat /\ b * MaxMessages \in Nat
    BY <1>0, <1>4, <2>1
  <2> QED
    BY <2>1, <2>2, <2>3
<1>6. b * MaxMessages \in Nat /\ NumBoards * MaxMessages \in Nat /\ Before[b] \in Nat
  BY <1>0, <1>4
<1> QED
  BY <1>4, <1>5, <1>6

\* So each message has a slot of the array, and no two have the same.
LEMMA LoadedApart ==
  ASSUME Types
  PROVE  /\ \A b \in Boards : \A i \in DOMAIN file[b] : Before[b - 1] + i \in Slots
         /\ \A b, c \in Boards : \A i \in DOMAIN file[b], j \in DOMAIN file[c] :
              Before[b - 1] + i = Before[c - 1] + j => b = c /\ i = j
<1>0. /\ NumBoards \in Nat /\ Boards = 1..NumBoards
      /\ \A b \in Boards : /\ Before[b] \in Nat /\ Before[b - 1] \in Nat
                           /\ Len(file[b]) \in Nat /\ DOMAIN file[b] = 1..Len(file[b])
                           /\ Before[b] = Before[b - 1] + Len(file[b])
  BY BeforeSums
<1>1. ASSUME NEW b \in Boards, NEW i \in DOMAIN file[b]
      PROVE  Before[b - 1] + i \in 1..Before[b]
  BY <1>0
<1>2. ASSUME NEW b \in Boards, NEW i \in DOMAIN file[b]
      PROVE  Before[b - 1] + i \in Slots
  <2>1. Before[b] <= NumBoards * MaxMessages /\ Before[b] \in Nat
    BY <1>0, BeforeBounded
  <2>2. NumBoards * MaxMessages \in Nat /\ Spare \in Nat
    BY BoardsAssumption
  <2>3. Before[b] <= INDEX_SIZE /\ INDEX_SIZE \in Nat
    BY <2>1, <2>2 DEF INDEX_SIZE
  <2> QED
    BY <1>1, <2>1, <2>3 DEF Slots
<1>3. ASSUME NEW b \in Boards, NEW c \in Boards,
             NEW i \in DOMAIN file[b], NEW j \in DOMAIN file[c], b < c
      PROVE  Before[b - 1] + i # Before[c - 1] + j
  <2>1. Before[b] <= Before[c - 1]
    BY <1>3, BeforeOrdered
  <2>2. Before[b - 1] + i \in 1..Before[b] /\ Before[b] \in Nat
    BY <1>0, <1>1
  <2>3. j \in Nat /\ j # 0 /\ Before[c - 1] \in Nat
    BY <1>0
  <2> QED
    BY <2>1, <2>2, <2>3
<1>4. ASSUME NEW b \in Boards, NEW c \in Boards,
             NEW i \in DOMAIN file[b], NEW j \in DOMAIN file[c],
             Before[b - 1] + i = Before[c - 1] + j
      PROVE  b = c /\ i = j
  <2>1. ~(b < c) /\ ~(c < b)
    BY <1>3, <1>4
  <2>2. b = c
    BY <1>0, <2>1
  <2> QED
    BY <1>0, <1>4, <2>2
<1> QED
  BY <1>2, <1>4

-----------------------------------------------------------------------------
(* Each action keeps the invariant *)

LEMMA EntryTypes ==
  ASSUME Types, NEW b \in Boards
  PROVE  /\ index[b] \in Seq(Entry) /\ Len(index[b]) \in Nat
         /\ DOMAIN index[b] = 1..Len(index[b])
         /\ \A i \in DOMAIN index[b] : index[b][i] \in Entries(b)
         /\ \A m \in Entries(b) : \E i \in DOMAIN index[b] : m = index[b][i]
         /\ Entries(b) \subseteq Entry
<1>1. /\ index[b] \in Seq(Entry) /\ Len(index[b]) \in Nat
      /\ DOMAIN index[b] = 1..Len(index[b])
  BY DEF Types
<1>2. \A i \in DOMAIN index[b] : index[b][i] \in Entry
  BY <1>1
<1> QED
  BY <1>1, <1>2 DEF Entries, Range

LEMMA FileTypes ==
  ASSUME Types, NEW b \in Boards
  PROVE  /\ file[b] \in Seq(Message) /\ DOMAIN file[b] = 1..Len(file[b])
         /\ \A i \in DOMAIN file[b] : file[b][i] \in Message /\ file[b][i] \in Range(file[b])
         /\ \A f \in Range(file[b]) : \E i \in DOMAIN file[b] : f = file[b][i]
<1>1. file[b] \in Seq(Message) /\ DOMAIN file[b] = 1..Len(file[b])
  BY DEF Types
<1>2. \A i \in DOMAIN file[b] : file[b][i] \in Message
  BY <1>1
<1> QED
  BY <1>1, <1>2 DEF Range

LEMMA TextTypes ==
  ASSUME NEW t \in Text \union {Null}
  PROVE  TextOf(t) \in Seq(1..MaxPosts) /\ Len(TextOf(t)) \in Nat
<1>1. CASE t = Null
  BY <1>1 DEF TextOf
<1>2. CASE t # Null
  <2>1. PICK n \in 0..MaxLines : t \in [1..n -> 1..MaxPosts]
    BY <1>2 DEF Text
  <2>2. t \in Seq(1..MaxPosts)
    BY <2>1, BoardsAssumption
  <2> QED
    BY <1>2, <2>2 DEF TextOf
<1> QED
  BY <1>1, <1>2

\* A text has grown by nothing since itself ...
LEMMA NothingGrown ==
  ASSUME NEW t \in Text \union {Null}, NEW ids
  PROVE  GrownBy(TextOf(t), TextOf(t), ids)
<1> DEFINE text == TextOf(t)
<1>1. text \in Seq(1..MaxPosts) /\ Len(text) \in Nat
  BY TextTypes
<1> HIDE DEF text
<1>2. GrownBy(text, text, ids)
  BY <1>1 DEF GrownBy
<1> QED
  BY <1>2 DEF text

\* ... and one line more, of one of those messages, is growing by them.
LEMMA LineGrown ==
  ASSUME NEW k \in Text \union {Null}, NEW t \in Text \union {Null},
         NEW ids, NEW id \in 1..MaxPosts, id \in ids,
         GrownBy(TextOf(k), TextOf(t), ids)
  PROVE  GrownBy(TextOf(k), Append(TextOf(t), id), ids)
<1> DEFINE kept == TextOf(k)
           text == TextOf(t)
           S == 1..MaxPosts
           more == Append(text, id)
<1>1. /\ text \in Seq(S) /\ Len(text) \in Nat
      /\ kept \in Seq(S) /\ Len(kept) \in Nat
  BY TextTypes
<1>2. GrownBy(kept, text, ids)
  OBVIOUS
<1> HIDE DEF kept, text
<1>3. /\ Len(more) = Len(text) + 1 /\ DOMAIN more = 1..Len(text) + 1
      /\ \A j \in 1..Len(text) : more[j] = text[j]
      /\ more[Len(text) + 1] = id
  <2>1. id \in S
    OBVIOUS
  <2> HIDE DEF S
  <2>2. /\ more \in Seq(S) /\ Len(more) = Len(text) + 1
        /\ \A j \in 1..Len(text) : more[j] = text[j]
        /\ more[Len(text) + 1] = id
    BY <1>1, <2>1, AppendEntries
  <2> QED
    BY <1>1, <2>2
<1> HIDE DEF more
<1>4. Len(kept) <= Len(text) /\ DOMAIN text = 1..Len(text)
  BY <1>1, <1>2 DEF GrownBy
<1>5. \A j \in 1..Len(text) : IF j <= Len(kept) THEN text[j] = kept[j] ELSE text[j] \in ids
  BY <1>2, <1>4 DEF GrownBy
<1>6. ASSUME NEW j \in 1..Len(text) + 1
      PROVE  IF j <= Len(kept) THEN more[j] = kept[j] ELSE more[j] \in ids
  <2>1. CASE j \in 1..Len(text)
    BY <1>3, <1>5, <2>1
  <2>2. CASE j = Len(text) + 1
    BY <1>1, <1>3, <1>4, <2>2
  <2> QED
    BY <1>1, <2>1, <2>2
<1>7. GrownBy(kept, more, ids)
  BY <1>1, <1>3, <1>4, <1>6 DEF GrownBy
<1> QED
  BY <1>7 DEF kept, text, more

LEMMA GrownByMore ==
  ASSUME NEW kept, NEW text, NEW ids, NEW more, ids \subseteq more,
         GrownBy(kept, text, ids)
  PROVE  GrownBy(kept, text, more)
BY DEF GrownBy

\* find_slot gives a slot that nobody has, with nothing but left lines in it.
LEMMA FoundSlotIsFree ==
  ASSUME Types, FreeLines, FreeSlots # {}
  PROVE  /\ FoundSlot \in Slots /\ ~taken[FoundSlot]
         /\ ToSet(TextOf(storage[FoundSlot])) \subseteq left
<1>1. FreeSlots \subseteq Nat
  BY Counted DEF FreeSlots
<1>2. FoundSlot \in FreeSlots
  BY <1>1, MinElement DEF FoundSlot
<1> QED
  BY <1>2 DEF FreeSlots, FreeLines

LEMMA WriteMessageInv ==
  ASSUME Inv, NEW a \in Authors, NEW b \in Boards, NEW headline \in BOOLEAN,
         WriteMessage(a, b, headline)
  PROVE  Inv'
<1> Types /\ Listed /\ SlotsHeldOnce /\ IdsOnce /\ FreeLines /\ Writers
    /\ EndedIsSaved /\ FileSound
  BY DEF Inv
<1> DEFINE slot == FoundSlot
           entry == [slot |-> slot, board |-> b, id |-> posts + 1]
<1>1. slot \in Slots /\ ~taken[slot] /\ ToSet(TextOf(storage[slot])) \subseteq left
  BY FoundSlotIsFree DEF WriteMessage
<1>2. posts' = posts + 1 /\ posts' \in 0..MaxPosts /\ posts + 1 \in 1..MaxPosts /\ posts \in Nat
  BY BoardsAssumption DEF WriteMessage, Types
<1>3. taken' = [taken EXCEPT ![slot] = TRUE]
  BY DEF WriteMessage
<1>4. UNCHANGED <<storage, file, state, ended, left>> /\ heard' \subseteq Authors
  BY DEF WriteMessage, Turn, Types
<1> HIDE DEF slot
<1>5. entry \in Entry
  BY <1>1, <1>2 DEF Entry
<1>6. /\ \A s \in Slots : taken'[s] <=> taken[s] \/ s = slot
      /\ taken' \in [Slots -> BOOLEAN]
  BY <1>1, <1>3 DEF Types
<1>7. FreeLines'
  BY <1>4, <1>6 DEF FreeLines
<1>8. FileSound'
  BY <1>4 DEF FileSound
<1>9. CASE ~headline
  <2>1. UNCHANGED <<index, str>>
    BY <1>9 DEF WriteMessage
  <2>2. Types'
    <3>1. ended' \subseteq 1..posts' /\ left' \subseteq 1..posts'
      BY <1>2, <1>4 DEF Types
    <3> QED
      BY <1>2, <1>4, <1>6, <2>1, <3>1 DEF Types
  <2>3. \A c \in Boards : Entries(c)' = Entries(c)
    BY <2>1 DEF Entries
  <2>4. Listed'
    BY <1>2, <2>1, <2>3, EntryTypes DEF Listed, Entry
  <2>5. SlotsHeldOnce'
    <3>1. \A c \in Boards : \A m \in Entries(c) : m.slot \in Slots
      BY EntryTypes DEF Entry
    <3> QED
      BY <1>4, <1>6, <2>3, <3>1 DEF SlotsHeldOnce
  <2>6. IdsOnce'
    BY <2>3 DEF IdsOnce
  <2>7. Writers'
    <3>1. ASSUME NEW o \in Authors, str'[o] # Nobody
          PROVE  /\ str'[o].id \notin ended' /\ str'[o].id <= posts'
                 /\ IF state'[o] = "playing" THEN (str[o] \in Entries(str[o].board))'
                    ELSE str'[o].id \in left'
      <4>1. str'[o] = str[o] /\ str[o].id <= posts /\ str[o].id \in Nat
        BY <2>1, <3>1 DEF Writers, Types, Entry
      <4>2. str[o].id <= posts' /\ str[o].id \notin ended' /\ state'[o] = state[o]
        BY <1>2, <1>4, <2>1, <3>1, <4>1 DEF Writers
      <4>3. CASE state[o] = "playing"
        <5>1. (str[o] \in Entries(str[o].board))'
          BY <2>1, <3>1, <4>3 DEF Writers, Entries
        <5> QED
          BY <4>1, <4>2, <4>3, <5>1
      <4>4. CASE state[o] # "playing"
        <5>1. str[o].id \in left'
          BY <1>4, <2>1, <3>1, <4>4 DEF Writers
        <5> QED
          BY <4>1, <4>2, <4>4, <5>1
      <4> QED
        BY <4>3, <4>4
    <3>2. ASSUME NEW o \in Authors, NEW q \in Authors, str'[o] # Nobody, str'[q] # Nobody,
                 str'[q].id = str'[o].id
          PROVE  q = o
      BY <2>1, <3>2 DEF Writers
    <3> QED
      BY <3>1, <3>2 DEF Writers
  <2>8. EndedIsSaved'
    BY <1>4, <2>3 DEF EndedIsSaved
  <2> QED
    BY <1>7, <1>8, <2>2, <2>4, <2>5, <2>6, <2>7, <2>8 DEF Inv
<1>10. CASE headline
  <2>1. /\ index' = [index EXCEPT ![b] = Append(index[b], entry)]
        /\ str' = [str EXCEPT ![a] = entry]
    BY <1>2, <1>10 DEF WriteMessage, slot
  <2>2. str[a] = Nobody /\ state[a] = "playing" /\ Len(index[b]) < MaxMessages
    BY DEF WriteMessage, NotFull
  <2>3. /\ index'[b] \in Seq(Entry) /\ Len(index'[b]) = Len(index[b]) + 1
        /\ \A j \in 1..Len(index[b]) : index'[b][j] = index[b][j]
        /\ index'[b][Len(index[b]) + 1] = entry
        /\ Range(index'[b]) = Range(index[b]) \union {entry}
    <3>1. index'[b] = Append(index[b], entry)
      BY <2>1 DEF Types
    <3>2. index[b] \in Seq(Entry)
      BY EntryTypes
    <3> QED
      BY <1>5, <3>1, <3>2, AppendEntries
  <2>4. /\ \A c \in Boards \ {b} : index'[c] = index[c]
        /\ index' \in [Boards -> Seq(Entry)]
    BY <2>1, <2>3 DEF Types
  <2>5. /\ str' \in [Authors -> Entry \union {Nobody}]
        /\ str'[a] = entry /\ \A o \in Authors \ {a} : str'[o] = str[o]
    BY <1>5, <2>1 DEF Types
  <2>6. Types'
    <3>0. Len(index'[b]) <= MaxMessages
      <4>1. Len(index[b]) \in Nat /\ MaxMessages \in Nat
        BY EntryTypes, BoardsAssumption
      <4> QED
        BY <2>2, <2>3, <4>1
    <3>1. \A c \in Boards : Len(index'[c]) <= MaxMessages
      BY <2>4, <3>0 DEF Types
    <3>2. ended' \subseteq 1..posts' /\ left' \subseteq 1..posts'
      BY <1>2, <1>4 DEF Types
    <3> QED
      BY <1>2, <1>4, <1>6, <2>4, <2>5, <3>1, <3>2 DEF Types
  <2>7. /\ Entries(b)' = Entries(b) \union {entry}
        /\ \A c \in Boards \ {b} : Entries(c)' = Entries(c)
    BY <2>3, <2>4 DEF Entries
  <2>8. ASSUME NEW c \in Boards, NEW m \in Entries(c)
        PROVE  m.slot \in Slots /\ m.slot # slot /\ m.id \in Nat /\ m.id <= posts
               /\ m.id # posts + 1 /\ m.board = c
    <3>1. m \in Entry
      BY EntryTypes
    <3>2. taken[m.slot] /\ m.board = c /\ m.id <= posts
      BY DEF SlotsHeldOnce, Listed
    <3> QED
      BY <1>1, <1>2, <3>1, <3>2 DEF Entry
  <2>9. /\ entry.slot = slot /\ entry.board = b /\ entry.id = posts + 1
        /\ entry.id \notin ended
    BY <1>2 DEF Types
  <2> HIDE DEF entry
  <2>10. Listed'
    <3>1. ASSUME NEW c \in Boards, NEW m \in Entries(c)'
          PROVE  m.board = c /\ m.id <= posts'
      BY <1>2, <2>7, <2>8, <2>9
    <3>2. ASSUME NEW c \in Boards, NEW i \in DOMAIN index'[c], NEW j \in DOMAIN index'[c],
                 index'[c][i].slot = index'[c][j].slot
          PROVE  i = j
      <4>1. CASE c # b
        BY <2>4, <3>2, <4>1 DEF Listed
      <4>2. CASE c = b
        <5>1. DOMAIN index'[b] = 1..Len(index[b]) + 1 /\ DOMAIN index[b] = 1..Len(index[b])
              /\ Len(index[b]) \in Nat
          BY <2>3, EntryTypes
        <5>2. \A k \in 1..Len(index[b]) : index[b][k].slot # slot
          BY <2>8, <5>1, EntryTypes
        <5>3. \A k \in 1..Len(index[b]) : index'[b][k] = index[b][k]
          BY <2>3
        <5>4. index'[b][Len(index[b]) + 1].slot = slot
          BY <2>3, <2>9
        <5>5. CASE i \in 1..Len(index[b]) /\ j \in 1..Len(index[b])
          BY <3>2, <4>2, <5>1, <5>3, <5>5 DEF Listed
        <5>6. CASE i = Len(index[b]) + 1 \/ j = Len(index[b]) + 1
          BY <3>2, <4>2, <5>1, <5>2, <5>3, <5>4, <5>6
        <5> QED
          BY <3>2, <4>2, <5>1, <5>5, <5>6
      <4> QED
        BY <4>1, <4>2
    <3> QED
      BY <3>1, <3>2 DEF Listed
  <2>11. SlotsHeldOnce'
    <3> SUFFICES ASSUME NEW c \in Boards, NEW d \in Boards,
                        NEW m \in Entries(c)', NEW n \in Entries(d)'
                 PROVE  /\ taken'[m.slot]
                        /\ m.slot = n.slot => m = n
                        /\ ToSet(TextOf(storage[m.slot])) \subseteq {m.id} \union left
      BY <1>4 DEF SlotsHeldOnce
    <3>1. m = entry \/ m \in Entries(c)
      BY <2>7
    <3>2. n = entry \/ n \in Entries(d)
      BY <2>7
    <3> QED
      BY <1>1, <1>6, <2>8, <2>9, <3>1, <3>2 DEF SlotsHeldOnce
  <2>12. IdsOnce'
    <3> SUFFICES ASSUME NEW c \in Boards, NEW d \in Boards,
                        NEW m \in Entries(c)', NEW n \in Entries(d)', m.id = n.id
                 PROVE  m = n
      BY DEF IdsOnce
    <3>1. m = entry \/ m \in Entries(c)
      BY <2>7
    <3>2. n = entry \/ n \in Entries(d)
      BY <2>7
    <3> QED
      BY <2>8, <2>9, <3>1, <3>2 DEF IdsOnce
  <2>13. Writers'
    <3>1. ASSUME NEW o \in Authors, str[o] # Nobody
          PROVE  str[o].board \in Boards /\ str[o].id # posts + 1 /\ str[o].id <= posts'
      <4>1. str[o].board \in Boards /\ str[o].id \in Nat /\ str[o].id <= posts
        BY <3>1 DEF Writers, Types, Entry
      <4> QED
        BY <1>2, <4>1
    <3>2. ASSUME NEW o \in Authors, str'[o] # Nobody
          PROVE  /\ str'[o].id \notin ended' /\ str'[o].id <= posts'
                 /\ IF state'[o] = "playing" THEN (str[o] \in Entries(str[o].board))'
                    ELSE str'[o].id \in left'
      <4>1. CASE o = a
        <5>1. str'[o].board = b /\ str'[o] = entry
          BY <2>5, <2>9, <4>1
        <5>2. (str[o] \in Entries(str[o].board))'
          BY <2>7, <5>1 DEF Entries
        <5>3. state'[o] = "playing" /\ str'[o].id <= posts' /\ str'[o].id \notin ended'
          BY <1>2, <1>4, <2>2, <2>9, <4>1, <5>1
        <5> QED
          BY <5>2, <5>3
      <4>2. CASE o # a
        <5>1. str'[o] = str[o] /\ str[o] # Nobody
          BY <2>5, <3>2, <4>2
        <5>2. PICK c \in Boards : c = str[o].board
          BY <3>1, <5>1
        <5>3. CASE state[o] = "playing"
          <6>1. str'[o] \in Entries(c)'
            BY <2>7, <5>1, <5>2, <5>3 DEF Writers
          <6>2. (str[o] \in Entries(str[o].board))'
            BY <5>1, <5>2, <6>1 DEF Entries
          <6> QED
            BY <1>4, <3>1, <5>1, <5>3, <6>2 DEF Writers
        <5>4. CASE state[o] # "playing"
          BY <1>4, <3>1, <5>1, <5>4 DEF Writers
        <5> QED
          BY <5>3, <5>4
      <4> QED
        BY <4>1, <4>2
    <3>3. ASSUME NEW o \in Authors, NEW q \in Authors, str'[o] # Nobody, str'[q] # Nobody,
                 str'[q].id = str'[o].id
          PROVE  q = o
      BY <2>5, <2>9, <3>1, <3>3 DEF Writers
    <3> QED
      BY <3>2, <3>3 DEF Writers
  <2>14. EndedIsSaved'
    <3>1. \A c \in Boards : \A m \in Entries(c)' : m.id \in ended => m \in Entries(c)
      BY <2>7, <2>9
    <3>2. \A c \in Boards : Entries(c) \subseteq Entries(c)'
      BY <2>7
    <3> QED
      BY <1>4, <3>1, <3>2 DEF EndedIsSaved
  <2> QED
    BY <1>7, <1>8, <2>6, <2>10, <2>11, <2>12, <2>13, <2>14 DEF Inv
<1> QED
  BY <1>9, <1>10

\* What Board_save_board leaves: the board's messages, each with its slot's text.
LEMMA SavedProperties ==
  ASSUME Types, NEW b \in Boards, NEW messages \in Seq(Entry),
         NEW texts \in [Slots -> Text \union {Null}]
  PROVE  LET f == Saved(b, messages, texts)
         IN /\ f \in [Boards -> Seq(Message)]
            /\ \A c \in Boards \ {b} : f[c] = file[c]
            /\ DOMAIN f[b] = 1..Len(messages) /\ Len(f[b]) = Len(messages)
            /\ \A i \in 1..Len(messages) :
                 f[b][i] = [id |-> messages[i].id, text |-> texts[messages[i].slot]]
<1> DEFINE saved == [i \in DOMAIN messages |->
                       [id |-> messages[i].id, text |-> texts[messages[i].slot]]]
<1>1. DOMAIN messages = 1..Len(messages) /\ Len(messages) \in Nat
  OBVIOUS
<1>2. \A i \in 1..Len(messages) : saved[i] \in Message
  <2> SUFFICES ASSUME NEW i \in 1..Len(messages) PROVE saved[i] \in Message
    OBVIOUS
  <2>1. messages[i] \in Entry
    OBVIOUS
  <2>2. texts[messages[i].slot] \in Text \union {Null} /\ messages[i].id \in 1..MaxPosts
    BY <2>1 DEF Entry
  <2> QED
    BY <1>1, <2>2 DEF Message
<1>3. saved \in Seq(Message) /\ Len(saved) = Len(messages)
  BY <1>1, <1>2
<1>4. Saved(b, messages, texts) = [file EXCEPT ![b] = saved]
  BY DEF Saved
<1>5. \A i \in 1..Len(messages) :
        saved[i] = [id |-> messages[i].id, text |-> texts[messages[i].slot]]
  BY <1>1
<1>6. DOMAIN saved = 1..Len(messages)
  BY <1>1
<1> HIDE DEF saved
<1>7. file \in [Boards -> Seq(Message)]
  BY DEF Types
<1> QED
  BY <1>3, <1>4, <1>5, <1>6, <1>7

\* A board saved as it is now is sound, and has what was ended on it.
LEMMA SavedSound ==
  ASSUME Types, FileSound, NEW b \in Boards, left' = left,
         (index \in [Boards -> Seq(Entry)])', (storage \in [Slots -> Text \union {Null}])',
         Listed', SlotsHeldOnce', IdsOnce',
         file' = Saved(b, index'[b], storage')
  PROVE  /\ FileSound' /\ file' \in [Boards -> Seq(Message)]
         /\ \A c \in Boards \ {b} : file'[c] = file[c]
         /\ Len(file'[b]) = Len(index'[b])
         /\ \A m \in Entries(b)' :
              \E f \in Range(file'[b]) : f.id = m.id /\ f.text = storage'[m.slot]
         /\ \A f \in Range(file'[b]) : \E m \in Entries(b)' : m.id = f.id
<1>1. /\ file' \in [Boards -> Seq(Message)]
      /\ \A c \in Boards \ {b} : file'[c] = file[c]
      /\ DOMAIN file'[b] = 1..Len(index'[b]) /\ Len(file'[b]) = Len(index'[b])
      /\ \A i \in 1..Len(index'[b]) :
           file'[b][i] = [id |-> index'[b][i].id, text |-> storage'[index'[b][i].slot]]
  <2>1. index'[b] \in Seq(Entry)
    OBVIOUS
  <2> QED
    BY <2>1, SavedProperties
<1>2. /\ DOMAIN index'[b] = 1..Len(index'[b])
      /\ \A i \in 1..Len(index'[b]) : index'[b][i] \in Entries(b)'
      /\ \A m \in Entries(b)' : \E i \in 1..Len(index'[b]) : m = index'[b][i]
  <2>1. index'[b] \in Seq(Entry)
    OBVIOUS
  <2>2. DOMAIN index'[b] = 1..Len(index'[b])
    BY <2>1
  <2> QED
    BY <2>2 DEF Entries, Range
<1>3. ASSUME NEW i \in DOMAIN file'[b], NEW j \in DOMAIN file'[b],
             file'[b][i].id = file'[b][j].id
      PROVE  i = j
  <2>1. index'[b][i].id = index'[b][j].id
    BY <1>1, <1>3
  <2>2. index'[b][i] = index'[b][j]
    BY <1>1, <1>2, <2>1 DEF IdsOnce
  <2> QED
    BY <1>1, <1>2, <2>2 DEF Listed
<1>4. ASSUME NEW f \in Range(file'[b])
      PROVE  /\ ToSet(TextOf(f.text)) \subseteq {f.id} \union left'
             /\ \E m \in Entries(b)' : m.id = f.id
  <2>1. PICK i \in 1..Len(index'[b]) : f = file'[b][i]
    BY <1>1 DEF Range
  <2>2. f.id = index'[b][i].id /\ f.text = storage'[index'[b][i].slot]
    BY <1>1, <2>1
  <2>3. index'[b][i] \in Entries(b)'
    BY <1>2
  <2>4. \A m \in Entries(b)' : ToSet(TextOf(storage'[m.slot])) \subseteq {m.id} \union left'
    BY DEF SlotsHeldOnce
  <2> QED
    BY <2>2, <2>3, <2>4
<1>5. ASSUME NEW m \in Entries(b)'
      PROVE  \E f \in Range(file'[b]) : f.id = m.id /\ f.text = storage'[m.slot]
  <2>1. PICK i \in 1..Len(index'[b]) : m = index'[b][i]
    BY <1>2
  <2>2. file'[b][i] \in Range(file'[b])
    BY <1>1 DEF Range
  <2>3. file'[b][i] = [id |-> index'[b][i].id, text |-> storage'[index'[b][i].slot]]
    BY <1>1
  <2> QED
    BY <2>1, <2>2, <2>3
<1>6. FileSound'
  <2> SUFFICES ASSUME NEW c \in Boards
               PROVE  /\ \A i, j \in DOMAIN file'[c] : file'[c][i].id = file'[c][j].id => i = j
                      /\ \A f \in Range(file'[c]) :
                           ToSet(TextOf(f.text)) \subseteq {f.id} \union left'
    BY DEF FileSound
  <2>1. CASE c = b
    BY <1>3, <1>4, <2>1
  <2>2. CASE c # b
    <3>1. file'[c] = file[c]
      BY <1>1, <2>2
    <3>2. /\ \A i, j \in DOMAIN file[c] : file[c][i].id = file[c][j].id => i = j
          /\ \A f \in Range(file[c]) : ToSet(TextOf(f.text)) \subseteq {f.id} \union left
      BY DEF FileSound
    <3>3. \A i, j \in DOMAIN file'[c] : file'[c][i].id = file'[c][j].id => i = j
      BY <3>1, <3>2
    <3>4. \A f \in Range(file'[c]) : ToSet(TextOf(f.text)) \subseteq {f.id} \union left'
      BY <3>1, <3>2
    <3> QED
      BY <3>3, <3>4
  <2> QED
    BY <2>1, <2>2
<1> QED
  BY <1>1, <1>4, <1>5, <1>6

\* A message saved with the text of its slot has grown by nothing since.
LEMMA SavedIsWhole ==
  ASSUME NEW b \in Boards,
         (index \in [Boards -> Seq(Entry)])', (storage \in [Slots -> Text \union {Null}])',
         NEW m \in Entries(b)',
         \E f \in Range(file'[b]) : f.id = m.id /\ f.text = storage'[m.slot]
  PROVE  \E f \in Range(file'[b]) :
           f.id = m.id /\ GrownBy(TextOf(f.text), TextOf(storage'[m.slot]), left')
<1>1. m.slot \in Slots
  <2>1. PICK i \in DOMAIN index'[b] : m = index'[b][i]
    BY DEF Entries, Range
  <2>2. index'[b][i] \in Entry
    OBVIOUS
  <2> QED
    BY <2>1, <2>2 DEF Entry
<1>2. storage'[m.slot] \in Text \union {Null}
  BY <1>1
<1>3. GrownBy(TextOf(storage'[m.slot]), TextOf(storage'[m.slot]), left')
  BY <1>2, NothingGrown
<1> QED
  BY <1>3

LEMMA RemoveMessageInv ==
  ASSUME Inv, NEW a \in Authors, NEW b \in Boards, NEW i \in 1..MaxMessages,
         RemoveMessage(a, b, i)
  PROVE  Inv'
<1> Types /\ Listed /\ SlotsHeldOnce /\ IdsOnce /\ FreeLines /\ Writers
    /\ EndedIsSaved /\ FileSound
  BY DEF Inv
<1> DEFINE gone == index[b][i]
<1>1. i \in DOMAIN index[b] /\ gone \in Entries(b) /\ gone \in Entry
  BY EntryTypes DEF RemoveMessage
<1>2. ~Writing(gone.slot)
  BY DEF RemoveMessage
<1>3. /\ storage' = [storage EXCEPT ![gone.slot] = Null]
      /\ taken' = [taken EXCEPT ![gone.slot] = FALSE]
      /\ index' = [index EXCEPT ![b] = RemoveAt(index[b], i)]
      /\ file' = Saved(b, index'[b], storage')
      /\ UNCHANGED <<state, str, posts, ended, left>>
      /\ heard' \subseteq Authors
  BY DEF RemoveMessage, Turn, Types
<1> HIDE DEF gone
<1>4. gone.slot \in Slots
  BY <1>1 DEF Entry
<1>5. /\ storage' \in [Slots -> Text \union {Null}]
      /\ storage'[gone.slot] = Null
      /\ \A s \in Slots \ {gone.slot} : storage'[s] = storage[s]
  BY <1>3, <1>4 DEF Types
<1>6. /\ taken' \in [Slots -> BOOLEAN]
      /\ ~taken'[gone.slot]
      /\ \A s \in Slots \ {gone.slot} : taken'[s] = taken[s]
  BY <1>3, <1>4 DEF Types
<1>7. /\ index'[b] \in Seq(Entry) /\ Len(index'[b]) = Len(index[b]) - 1
      /\ Range(index'[b]) = {m \in Range(index[b]) : m.slot # gone.slot}
      /\ \A j, k \in DOMAIN index'[b] : index'[b][j].slot = index'[b][k].slot => j = k
  <2>1. index'[b] = RemoveAt(index[b], i)
    BY <1>3 DEF Types
  <2>2. index[b] \in Seq(Entry) /\ i \in 1..Len(index[b])
    BY <1>1, EntryTypes
  <2>3. \A j, k \in DOMAIN index[b] : index[b][j].slot = index[b][k].slot => j = k
    BY DEF Listed
  <2>4. index[b][i].slot = gone.slot
    BY DEF gone
  <2>5. LET t == RemoveAt(index[b], i)
        IN /\ t \in Seq(Entry) /\ Len(t) = Len(index[b]) - 1
           /\ Range(t) = {m \in Range(index[b]) : m.slot # index[b][i].slot}
           /\ \A j, k \in DOMAIN t : t[j].slot = t[k].slot => j = k
    BY <2>2, <2>3, RemoveEntries
  <2> QED
    BY <2>1, <2>4, <2>5
<1>8. /\ \A c \in Boards \ {b} : index'[c] = index[c]
      /\ index' \in [Boards -> Seq(Entry)]
  BY <1>3, <1>7 DEF Types
\* Nobody else has its slot, so only the entry itself goes.
<1>9. ASSUME NEW c \in Boards
      PROVE  Entries(c)' = {m \in Entries(c) : m.slot # gone.slot}
  <2>1. CASE c = b
    BY <1>7, <2>1 DEF Entries
  <2>2. CASE c # b
    <3>1. ASSUME NEW m \in Entries(c) PROVE m.slot # gone.slot
      <4>1. m.slot = gone.slot => m = gone
        BY <1>1 DEF SlotsHeldOnce
      <4>2. m.board = c /\ gone.board = b
        BY <1>1 DEF Listed
      <4> QED
        BY <2>2, <4>1, <4>2
    <3>2. Entries(c)' = Entries(c)
      BY <1>8, <2>2 DEF Entries
    <3> QED
      BY <3>1, <3>2
  <2> QED
    BY <2>1, <2>2
<1>10. Listed'
  <2>1. \A c \in Boards : \A m \in Entries(c)' : m.board = c /\ m.id <= posts'
    BY <1>3, <1>9 DEF Listed
  <2>2. ASSUME NEW c \in Boards
        PROVE  \A j, k \in DOMAIN index'[c] : index'[c][j].slot = index'[c][k].slot => j = k
    BY <1>7, <1>8 DEF Listed
  <2> QED
    BY <2>1, <2>2 DEF Listed
<1>11. SlotsHeldOnce'
  <2> SUFFICES ASSUME NEW c \in Boards, NEW d \in Boards,
                      NEW m \in Entries(c)', NEW n \in Entries(d)'
               PROVE  /\ taken'[m.slot]
                      /\ m.slot = n.slot => m = n
                      /\ ToSet(TextOf(storage'[m.slot])) \subseteq {m.id} \union left'
    BY DEF SlotsHeldOnce
  <2>1. m \in Entries(c) /\ n \in Entries(d) /\ m.slot # gone.slot /\ m.slot \in Slots
    BY <1>9, EntryTypes DEF Entry
  <2>2. storage'[m.slot] = storage[m.slot] /\ taken'[m.slot] = taken[m.slot] /\ left' = left
    BY <1>3, <1>5, <1>6, <2>1
  <2> QED
    BY <2>1, <2>2 DEF SlotsHeldOnce
<1>12. IdsOnce'
  BY <1>9 DEF IdsOnce
<1>13. FreeLines'
  <2>1. ToSet(TextOf(storage'[gone.slot])) = {}
    BY <1>5 DEF TextOf, ToSet
  <2>2. ASSUME NEW s \in Slots, s # gone.slot, ~taken'[s]
        PROVE  ToSet(TextOf(storage'[s])) \subseteq left'
    BY <1>3, <1>5, <1>6, <2>2 DEF FreeLines
  <2> QED
    BY <2>1, <2>2 DEF FreeLines
<1>14. Writers'
  <2>1. ASSUME NEW o \in Authors, str[o] # Nobody, state[o] = "playing"
        PROVE  (str[o] \in Entries(str[o].board))'
    <3>1. str[o] \in Entries(str[o].board) /\ str[o].board \in Boards
      BY <2>1 DEF Writers, Types, Entry
    <3>2. str[o].slot # gone.slot
      BY <1>2, <2>1 DEF Writing
    <3>3. PICK c \in Boards : c = str[o].board
      BY <3>1
    <3>4. str[o] \in Entries(c) /\ str'[o] = str[o]
      BY <1>3, <3>1, <3>3
    <3>5. str'[o] \in Entries(c)'
      BY <1>9, <3>2, <3>4
    <3> QED
      BY <3>3, <3>4, <3>5 DEF Entries
  <2> QED
    BY <1>3, <2>1 DEF Writers
<1>15. /\ FileSound' /\ file' \in [Boards -> Seq(Message)]
       /\ \A c \in Boards \ {b} : file'[c] = file[c]
       /\ Len(file'[b]) = Len(index'[b])
       /\ \A m \in Entries(b)' :
            \E f \in Range(file'[b]) : f.id = m.id /\ f.text = storage'[m.slot]
       /\ \A f \in Range(file'[b]) : \E m \in Entries(b)' : m.id = f.id
  BY <1>3, <1>5, <1>8, <1>10, <1>11, <1>12, SavedSound
<1>16. EndedIsSaved'
  <2> SUFFICES ASSUME NEW c \in Boards
               PROVE  /\ \A m \in Entries(c)' : m.id \in ended =>
                           \E f \in Range(file'[c]) :
                             /\ f.id = m.id
                             /\ GrownBy(TextOf(f.text), TextOf(storage'[m.slot]), left')
                      /\ \A f \in Range(file'[c]) : \E m \in Entries(c)' : m.id = f.id
    BY <1>3 DEF EndedIsSaved
  <2>1. CASE c = b
    BY <1>5, <1>8, <1>15, <2>1, SavedIsWhole
  <2>2. CASE c # b
    <3>1. file'[c] = file[c] /\ Entries(c)' = Entries(c)
      BY <1>8, <1>15, <2>2 DEF Entries
    <3>2. ASSUME NEW m \in Entries(c) PROVE storage'[m.slot] = storage[m.slot]
      <4>1. m.slot # gone.slot /\ m.slot \in Slots
        BY <1>9, <3>1, EntryTypes DEF Entry
      <4> QED
        BY <1>5, <4>1
    <3>3. left' = left
      BY <1>3
    <3>4. \A m \in Entries(c) : m.id \in ended =>
            \E f \in Range(file[c]) :
              f.id = m.id /\ GrownBy(TextOf(f.text), TextOf(storage[m.slot]), left)
      BY DEF EndedIsSaved
    <3>5. \A f \in Range(file[c]) : \E m \in Entries(c) : m.id = f.id
      BY DEF EndedIsSaved
    <3> QED
      BY <3>1, <3>2, <3>3, <3>4, <3>5
  <2> QED
    BY <2>1, <2>2
<1>17. Types'
  <2>1. Len(index'[b]) <= MaxMessages
    <3>1. Len(index[b]) \in Nat /\ MaxMessages \in Nat /\ Len(index[b]) <= MaxMessages
      BY EntryTypes, BoardsAssumption DEF Types
    <3> QED
      BY <1>7, <3>1
  <2>2. \A c \in Boards : Len(index'[c]) <= MaxMessages /\ Len(file'[c]) <= MaxMessages
    BY <1>8, <1>15, <2>1 DEF Types
  <2> QED
    BY <1>3, <1>5, <1>6, <1>8, <1>15, <2>2 DEF Types
<1> QED
  BY <1>10, <1>11, <1>12, <1>13, <1>14, <1>15, <1>16, <1>17 DEF Inv

\* A line makes a text one longer, and adds nobody's but its writer's.
LEMMA LineProperties ==
  ASSUME NEW old \in Text \union {Null}, NEW id \in 1..MaxPosts, Len(TextOf(old)) < MaxLines
  PROVE  LET line == Append(TextOf(old), id)
         IN /\ line \in Text /\ TextOf(line) = line
            /\ ToSet(line) = ToSet(TextOf(old)) \union {id}
<1> DEFINE S == 1..MaxPosts
           text == TextOf(old)
           line == Append(text, id)
<1>1. text \in Seq(S) /\ Len(text) \in Nat /\ Len(text) < MaxLines
  BY TextTypes
<1> HIDE DEF text
<1>2. /\ line \in Seq(S) /\ Len(line) = Len(text) + 1
      /\ Range(line) = Range(text) \union {id}
  <2>1. id \in S
    OBVIOUS
  <2> HIDE DEF S
  <2> QED
    BY <1>1, <2>1, AppendEntries
<1>3. Len(text) + 1 \in 0..MaxLines
  BY <1>1, BoardsAssumption
<1> HIDE DEF line
<1>4. line \in [1..Len(text) + 1 -> S]
  BY <1>1, <1>2, LenProperties
<1>5. line \in Text
  BY <1>3, <1>4 DEF Text
<1>6. line # Null
  <2>1. line[1] \in S /\ Null[1] = 0
    BY <1>1, <1>4 DEF Null
  <2> QED
    BY <2>1, BoardsAssumption
<1>7. TextOf(line) = line
  BY <1>6 DEF TextOf
<1> QED
  BY <1>2, <1>5, <1>7 DEF line, text, ToSet, Range

LEMMA WriteLineInv ==
  ASSUME Inv, NEW a \in Authors, WriteLine(a)
  PROVE  Inv'
<1> Types /\ Listed /\ SlotsHeldOnce /\ IdsOnce /\ FreeLines /\ Writers
    /\ EndedIsSaved /\ FileSound
  BY DEF Inv
<1> DEFINE mine == str[a]
           old == storage[mine.slot]
           line == Append(TextOf(old), mine.id)
<1>1. /\ mine # Nobody /\ Len(TextOf(old)) < MaxLines
      /\ storage' = [storage EXCEPT ![mine.slot] = line]
      /\ UNCHANGED <<taken, index, file, state, str, posts, ended, left>>
      /\ heard' \subseteq Authors
  BY DEF WriteLine, Turn, Types
<1>2. /\ mine \in Entry /\ mine.board \in Boards /\ mine.slot \in Slots /\ mine.id \in 1..MaxPosts
      /\ mine.id \notin ended /\ old \in Text \union {Null}
  BY <1>1 DEF Types, Writers, Entry
<1>3. line \in Text /\ TextOf(line) = line /\ ToSet(line) = ToSet(TextOf(old)) \union {mine.id}
  <2> HIDE DEF old, mine
  <2> QED
    BY <1>1, <1>2, LineProperties
\* The line is the message's own, or its author has left.
<1>4. mine.id \in left \/ mine \in Entries(mine.board)
  BY <1>1 DEF Writers
<1>5. mine.id \in left => \A k \in Text \union {Null} :
        GrownBy(TextOf(k), TextOf(old), left) => GrownBy(TextOf(k), line, left)
  <2> HIDE DEF old, mine
  <2> QED
    BY <1>2, LineGrown
<1> HIDE DEF mine, line
<1>6. /\ storage' \in [Slots -> Text \union {Null}]
      /\ storage'[mine.slot] = line
      /\ \A s \in Slots \ {mine.slot} : storage'[s] = storage[s]
  BY <1>1, <1>2, <1>3 DEF Types
<1>7. \A c \in Boards : Entries(c)' = Entries(c)
  BY <1>1 DEF Entries
<1>8. ASSUME NEW c \in Boards, NEW m \in Entries(c), m.slot # mine.slot
      PROVE  storage'[m.slot] = storage[m.slot]
  <2>1. m.slot \in Slots
    BY EntryTypes DEF Entry
  <2> QED
    BY <1>6, <1>8, <2>1
<1>9. ASSUME NEW c \in Boards, NEW m \in Entries(c), m.slot = mine.slot
      PROVE  mine.id \in left \/ m = mine
  BY <1>2, <1>4, <1>9 DEF SlotsHeldOnce
<1>10. Types' /\ Listed' /\ IdsOnce' /\ FileSound'
  <2>1. Types'
    BY <1>1, <1>6 DEF Types
  <2>2. Listed'
    BY <1>1 DEF Listed, Entries
  <2>3. IdsOnce'
    BY <1>7 DEF IdsOnce
  <2>4. FileSound'
    BY <1>1 DEF FileSound
  <2> QED
    BY <2>1, <2>2, <2>3, <2>4
<1>11. FreeLines'
  <2>1. ASSUME NEW s \in Slots, ~taken[s] PROVE ToSet(TextOf(storage'[s])) \subseteq left
    <3>1. CASE s = mine.slot
      <4>1. mine.id \in left
        BY <1>2, <1>4, <2>1, <3>1 DEF SlotsHeldOnce
      <4>2. ToSet(TextOf(old)) \subseteq left
        BY <2>1, <3>1 DEF FreeLines
      <4> QED
        BY <1>3, <1>6, <3>1, <4>1, <4>2
    <3>2. CASE s # mine.slot
      BY <1>6, <2>1, <3>2 DEF FreeLines
    <3> QED
      BY <3>1, <3>2
  <2> QED
    BY <1>1, <2>1 DEF FreeLines
<1>12. Writers'
  BY <1>1 DEF Writers, Entries
<1>13. SlotsHeldOnce'
  <2>1. ASSUME NEW c \in Boards, NEW m \in Entries(c)
        PROVE  ToSet(TextOf(storage'[m.slot])) \subseteq {m.id} \union left
    <3>1. CASE m.slot = mine.slot
      <4>1. ToSet(TextOf(old)) \subseteq {m.id} \union left
        BY <3>1 DEF SlotsHeldOnce
      <4>2. mine.id \in left \/ mine.id = m.id
        BY <1>9, <3>1
      <4> QED
        BY <1>3, <1>6, <3>1, <4>1, <4>2
    <3>2. CASE m.slot # mine.slot
      <4>1. storage'[m.slot] = storage[m.slot]
        BY <1>8, <3>2
      <4> QED
        BY <4>1 DEF SlotsHeldOnce
    <3> QED
      BY <3>1, <3>2
  <2> QED
    BY <1>1, <1>7, <2>1 DEF SlotsHeldOnce
<1>14. EndedIsSaved'
  <2>1. ASSUME NEW c \in Boards, NEW m \in Entries(c), m.id \in ended
        PROVE  \E f \in Range(file[c]) :
                 f.id = m.id /\ GrownBy(TextOf(f.text), TextOf(storage'[m.slot]), left)
    <3>1. PICK f \in Range(file[c]) :
            f.id = m.id /\ GrownBy(TextOf(f.text), TextOf(storage[m.slot]), left)
      BY <2>1 DEF EndedIsSaved
    <3>2. f.text \in Text \union {Null}
      <4>1. f \in Message
        BY FileTypes
      <4> QED
        BY <4>1 DEF Message
    <3>3. CASE m.slot = mine.slot
      <4>1. mine.id \in left
        BY <1>2, <1>9, <2>1, <3>3
      <4>2. GrownBy(TextOf(f.text), line, left)
        BY <1>5, <3>1, <3>2, <3>3, <4>1
      <4> QED
        BY <1>3, <1>6, <3>1, <3>3, <4>2
    <3>4. CASE m.slot # mine.slot
      BY <1>8, <3>1, <3>4
    <3> QED
      BY <3>3, <3>4
  <2> QED
    BY <1>1, <1>7, <2>1 DEF EndedIsSaved
<1> QED
  BY <1>10, <1>11, <1>12, <1>13, <1>14 DEF Inv

LEMMA EndMessageSavedInv ==
  ASSUME Inv, NEW a \in Authors, EndMessage(a), state[a] = "playing"
  PROVE  Inv'
<1> Types /\ Listed /\ SlotsHeldOnce /\ IdsOnce /\ FreeLines /\ Writers
    /\ EndedIsSaved /\ FileSound
  BY DEF Inv
<1> DEFINE mine == str[a]
<1>0. mine # Nobody /\ mine.board \in Boards
  BY DEF EndMessage, Types, Entry
<1> PICK b \in Boards : b = mine.board
  BY <1>0
<1>1. /\ mine # Nobody /\ mine \in Entry
      /\ mine \in Entries(b) /\ mine.id \notin ended
  BY DEF EndMessage, Types, Writers, Entry
<1>2. /\ file' = Saved(b, index[b], storage)
      /\ str' = [str EXCEPT ![a] = Nobody]
      /\ ended' = ended \union {mine.id}
      /\ UNCHANGED <<storage, taken, index, state, posts, left>>
      /\ heard' \subseteq Authors
  BY <1>1 DEF EndMessage, Turn, Types
<1> HIDE DEF mine
<1>3. /\ str' \in [Authors -> Entry \union {Nobody}]
      /\ str'[a] = Nobody /\ \A o \in Authors \ {a} : str'[o] = str[o]
  BY <1>2 DEF Types
<1>4. \A c \in Boards : Entries(c)' = Entries(c)
  BY <1>2 DEF Entries
<1>5. Listed' /\ SlotsHeldOnce' /\ IdsOnce' /\ FreeLines'
  BY <1>2 DEF Listed, SlotsHeldOnce, IdsOnce, FreeLines, Entries
<1>6. /\ FileSound' /\ file' \in [Boards -> Seq(Message)]
      /\ \A c \in Boards \ {b} : file'[c] = file[c]
      /\ Len(file'[b]) = Len(index'[b])
      /\ \A m \in Entries(b)' :
           \E f \in Range(file'[b]) : f.id = m.id /\ f.text = storage'[m.slot]
      /\ \A f \in Range(file'[b]) : \E m \in Entries(b)' : m.id = f.id
  <2>1. /\ (index \in [Boards -> Seq(Entry)])' /\ (storage \in [Slots -> Text \union {Null}])'
        /\ file' = Saved(b, index'[b], storage')
    BY <1>2 DEF Types
  <2> QED
    BY <1>1, <1>2, <1>5, <2>1, SavedSound
<1>7. Types'
  <2>1. mine.id \in 1..posts
    <3>1. mine.id \in Nat /\ mine.id # 0 /\ mine.id <= posts /\ posts \in Nat
      BY <1>1, BoardsAssumption DEF Listed, Types, Entry
    <3> QED
      BY <3>1
  <2>2. ended' \subseteq 1..posts'
    BY <1>2, <2>1 DEF Types
  <2>3. \A c \in Boards : Len(file'[c]) <= MaxMessages
    BY <1>2, <1>6 DEF Types
  <2> QED
    BY <1>2, <1>3, <1>6, <2>2, <2>3 DEF Types
<1>8. Writers'
  <2>1. ASSUME NEW o \in Authors, str'[o] # Nobody
        PROVE  /\ o # a /\ str'[o] = str[o] /\ state'[o] = state[o]
               /\ str[o].id \notin ended' /\ str[o].id <= posts'
               /\ IF state[o] = "playing" THEN (str[o] \in Entries(str[o].board))'
                  ELSE str[o].id \in left'
    <3>1. o # a /\ str'[o] = str[o] /\ state'[o] = state[o]
      BY <1>2, <1>3, <2>1
    <3>2. str[o].id # mine.id
      BY <1>1, <2>1, <3>1 DEF Writers, mine
    <3>3. str[o].id \notin ended' /\ str[o].id <= posts'
      BY <1>2, <2>1, <3>1, <3>2 DEF Writers
    <3>4. CASE state[o] = "playing"
      <4>1. (str[o] \in Entries(str[o].board))'
        BY <1>2, <2>1, <3>1, <3>4 DEF Writers, Entries
      <4> QED
        BY <3>1, <3>3, <3>4, <4>1
    <3>5. CASE state[o] # "playing"
      <4>1. str[o].id \in left'
        BY <1>2, <2>1, <3>1, <3>5 DEF Writers
      <4> QED
        BY <3>1, <3>3, <3>5, <4>1
    <3> QED
      BY <3>4, <3>5
  <2>2. ASSUME NEW o \in Authors, NEW q \in Authors, str'[o] # Nobody, str'[q] # Nobody,
               str'[q].id = str'[o].id
        PROVE  q = o
    BY <2>1, <2>2 DEF Writers
  <2> QED
    BY <2>1, <2>2 DEF Writers
<1>9. EndedIsSaved'
  <2> SUFFICES ASSUME NEW c \in Boards
               PROVE  /\ \A m \in Entries(c)' : m.id \in ended' =>
                           \E f \in Range(file'[c]) :
                             /\ f.id = m.id
                             /\ GrownBy(TextOf(f.text), TextOf(storage'[m.slot]), left')
                      /\ \A f \in Range(file'[c]) : \E m \in Entries(c)' : m.id = f.id
    BY DEF EndedIsSaved
  <2>1. CASE c = b
    <3>1. (index \in [Boards -> Seq(Entry)])' /\ (storage \in [Slots -> Text \union {Null}])'
      BY <1>2 DEF Types
    <3> QED
      BY <1>6, <2>1, <3>1, SavedIsWhole
  <2>2. CASE c # b
    <3>1. file'[c] = file[c] /\ Entries(c)' = Entries(c) /\ storage' = storage /\ left' = left
      BY <1>2, <1>4, <1>6, <2>2
    <3>2. ASSUME NEW m \in Entries(c), m.id \in ended' PROVE m.id \in ended
      <4>1. m # mine
        BY <1>1, <2>2 DEF Listed
      <4>2. m.id # mine.id
        BY <1>1, <4>1 DEF IdsOnce
      <4> QED
        BY <1>2, <3>2, <4>2
    <3> QED
      BY <3>1, <3>2 DEF EndedIsSaved
  <2> QED
    BY <2>1, <2>2
<1> QED
  BY <1>5, <1>6, <1>7, <1>8, <1>9 DEF Inv

\* Coming, going and setting to close leave the boards alone: whoever still writes
\* afterwards has left, or plays on.
LEMMA BoardsLeftAlone ==
  ASSUME Inv, UNCHANGED <<storage, taken, index, file, posts, ended>>,
         (state \in [Authors -> {"playing", "menu", "closing"}])',
         (str \in [Authors -> Entry \union {Nobody}])', (heard \subseteq Authors)',
         left \subseteq left', left' \subseteq left \union
           {str[a].id : a \in {o \in Authors : str[o] # Nobody}},
         \A a \in Authors : str'[a] # Nobody =>
           /\ str'[a] = str[a]
           /\ state'[a] = state[a] \/ str[a].id \in left'
           /\ state'[a] = "playing" => state[a] = "playing"
  PROVE  Inv'
<1> Types /\ Listed /\ SlotsHeldOnce /\ IdsOnce /\ FreeLines /\ Writers
    /\ EndedIsSaved /\ FileSound
  BY DEF Inv
<1>0. \A b \in Boards : Entries(b)' = Entries(b)
  BY DEF Entries
<1>1. Listed' /\ IdsOnce'
  <2>1. Listed'
    BY DEF Listed, Entries
  <2>2. IdsOnce'
    BY <1>0 DEF IdsOnce
  <2> QED
    BY <2>1, <2>2
<1>2. SlotsHeldOnce'
  BY <1>0 DEF SlotsHeldOnce
<1>3. FreeLines' /\ FileSound'
  BY DEF FreeLines, FileSound
<1>4. EndedIsSaved'
  <2> SUFFICES ASSUME NEW b \in Boards, NEW m \in Entries(b), m.id \in ended
               PROVE  \E f \in Range(file[b]) : f.id = m.id
                        /\ GrownBy(TextOf(f.text), TextOf(storage[m.slot]), left')
    BY <1>0 DEF EndedIsSaved
  <2>1. PICK f \in Range(file[b]) :
          f.id = m.id /\ GrownBy(TextOf(f.text), TextOf(storage[m.slot]), left)
    BY DEF EndedIsSaved
  <2>2. GrownBy(TextOf(f.text), TextOf(storage[m.slot]), left')
    BY <2>1, GrownByMore
  <2> QED
    BY <2>1, <2>2
<1>5. Types'
  <2>1. ASSUME NEW a \in Authors, str[a] # Nobody PROVE str[a].id \in 1..posts
    <3>1. str[a].id \in 1..MaxPosts /\ str[a].id <= posts /\ posts \in 0..MaxPosts
      BY <2>1 DEF Writers, Types, Entry
    <3> QED
      BY <3>1, BoardsAssumption
  <2>2. left' \subseteq 1..posts'
    BY <2>1 DEF Types
  <2> QED
    BY <2>2 DEF Types
<1>6. Writers'
  <2>1. ASSUME NEW a \in Authors, str'[a] # Nobody
        PROVE  /\ str'[a].id \notin ended' /\ str'[a].id <= posts'
               /\ IF state'[a] = "playing" THEN (str[a] \in Entries(str[a].board))'
                  ELSE str'[a].id \in left'
    <3>1. str'[a] = str[a] /\ str[a].id \notin ended' /\ str[a].id <= posts'
      BY <2>1 DEF Writers
    <3>2. CASE state'[a] = "playing"
      <4>1. (str[a] \in Entries(str[a].board))'
        BY <2>1, <3>1, <3>2 DEF Writers, Entries
      <4> QED
        BY <3>1, <3>2, <4>1
    <3>3. CASE state'[a] # "playing"
      <4>1. str[a].id \in left'
        BY <2>1, <3>1, <3>3 DEF Writers
      <4> QED
        BY <3>1, <3>3, <4>1
    <3> QED
      BY <3>2, <3>3
  <2>2. ASSUME NEW a \in Authors, NEW o \in Authors, str'[a] # Nobody, str'[o] # Nobody,
               str'[o].id = str'[a].id
        PROVE  o = a
    BY <2>2 DEF Writers
  <2> QED
    BY <2>1, <2>2 DEF Writers
<1> QED
  BY <1>1, <1>2, <1>3, <1>4, <1>5, <1>6 DEF Inv

LEMMA ComingAndGoingInv ==
  ASSUME Inv, NEW a \in Authors, ToMenu(a) \/ Close(a) \/ Enter(a) \/ Hangup(a)
  PROVE  Inv'
<1> Types
  BY DEF Inv
<1>1. /\ UNCHANGED <<storage, taken, index, file, posts, ended>>
      /\ (heard \subseteq Authors)'
  BY DEF ToMenu, Close, Leaves, Enter, Hangup, Turn, Types
<1>2. /\ (state \in [Authors -> {"playing", "menu", "closing"}])'
      /\ (str \in [Authors -> Entry \union {Nobody}])'
      /\ \A o \in Authors \ {a} : state'[o] = state[o] /\ str'[o] = str[o]
  BY DEF ToMenu, Close, Leaves, Enter, Hangup, Types
<1>3. /\ left \subseteq left'
      /\ left' \subseteq left \union {str[o].id : o \in {o \in Authors : str[o] # Nobody}}
  BY DEF ToMenu, Close, Leaves, Enter, Hangup
<1>4. str'[a] # Nobody =>
        /\ str'[a] = str[a] /\ str[a].id \in left' /\ state'[a] # "playing"
  BY DEF ToMenu, Close, Leaves, Enter, Hangup, Types
<1> QED
  BY <1>1, <1>2, <1>3, <1>4, BoardsLeftAlone

LEMMA EndPassInv ==
  ASSUME Inv, EndPass
  PROVE  Inv'
<1> Types
  BY DEF Inv
<1>1. /\ UNCHANGED <<storage, taken, index, file, posts, ended, left>>
      /\ (heard \subseteq Authors)'
  BY DEF EndPass
<1>2. /\ (state \in [Authors -> {"playing", "menu", "closing"}])'
      /\ (str \in [Authors -> Entry \union {Nobody}])'
      /\ \A o \in Authors : str'[o] # Nobody => state'[o] = state[o] /\ str'[o] = str[o]
  BY DEF EndPass, Types
<1> QED
  BY <1>1, <1>2, BoardsLeftAlone

LEMMA EndMessageInv ==
  ASSUME Inv, NEW a \in Authors, EndMessage(a)
  PROVE  Inv'
<1> Types
  BY DEF Inv
<1>1. CASE state[a] = "playing"
  BY <1>1, EndMessageSavedInv
<1>2. CASE state[a] # "playing"
  <2>1. /\ UNCHANGED <<storage, taken, index, file, state, posts, ended, left>>
        /\ (heard \subseteq Authors)'
    BY <1>2 DEF EndMessage, Turn, Types
  <2>2. /\ (str \in [Authors -> Entry \union {Nobody}])'
        /\ \A o \in Authors : str'[o] # Nobody => str'[o] = str[o]
    BY DEF EndMessage, Types
  <2>3. (state \in [Authors -> {"playing", "menu", "closing"}])'
    BY <2>1 DEF Types
  <2> QED
    BY <2>1, <2>2, <2>3, BoardsLeftAlone
<1> QED
  BY <1>1, <1>2

\* A start finds each message once, in a slot of its own, with its author's lines.
LEMMA RestartInv ==
  ASSUME Inv, Restart
  PROVE  Inv'
<1> Types /\ Listed /\ SlotsHeldOnce /\ IdsOnce /\ FreeLines /\ Writers
    /\ EndedIsSaved /\ FileSound
  BY DEF Inv
<1> DEFINE slot(b, i) == Before[b - 1] + i
<1>1. /\ index' = Loaded
      /\ taken' = [s \in Slots |-> LoadedIn(s) # {}]
      /\ storage' = [s \in Slots |->
           IF LoadedIn(s) = {} THEN Null
           ELSE LET m == CHOOSE m \in LoadedIn(s) : TRUE IN file[m[1]][m[2]].text]
      /\ state' = [a \in Authors |-> "menu"]
      /\ str' = [a \in Authors |-> Nobody]
      /\ heard' = {}
      /\ UNCHANGED <<file, posts, ended, left>>
  BY DEF Restart
<1>2. /\ \A b \in Boards : \A i \in DOMAIN file[b] : slot(b, i) \in Slots
      /\ \A b, c \in Boards : \A i \in DOMAIN file[b], j \in DOMAIN file[c] :
           slot(b, i) = slot(c, j) => b = c /\ i = j
  BY LoadedApart
<1> HIDE DEF slot
<1>3. ASSUME NEW b \in Boards
      PROVE  /\ DOMAIN file[b] = 1..Len(file[b]) /\ Len(file[b]) \in Nat
             /\ Len(file[b]) <= MaxMessages /\ DOMAIN file[b] \subseteq 1..MaxMessages
             /\ \A i \in DOMAIN file[b] : file[b][i] \in Message
  <2>1. DOMAIN file[b] = 1..Len(file[b]) /\ Len(file[b]) \in Nat /\ Len(file[b]) <= MaxMessages
    BY DEF Types
  <2> QED
    BY <2>1, FileTypes, BoardsAssumption
\* The entries that are loaded.
<1>4. ASSUME NEW b \in Boards
      PROVE  /\ DOMAIN index'[b] = DOMAIN file[b]
             /\ index'[b] \in Seq(Entry) /\ Len(index'[b]) = Len(file[b])
             /\ \A i \in DOMAIN file[b] :
                  index'[b][i] = [slot |-> slot(b, i), board |-> b, id |-> file[b][i].id]
  <2>1. index'[b] = [i \in DOMAIN file[b] |->
                       [slot |-> slot(b, i), board |-> b, id |-> file[b][i].id]]
    BY <1>1 DEF Loaded, slot
  <2>2. \A i \in DOMAIN file[b] : index'[b][i] \in Entry
    BY <1>2, <1>3, <2>1 DEF Message, Entry
  <2>3. DOMAIN index'[b] = 1..Len(file[b])
    BY <1>3, <2>1
  <2>4. index'[b] \in [1..Len(file[b]) -> Entry]
    BY <1>3, <2>1, <2>2
  <2> QED
    BY <1>3, <2>1, <2>3, <2>4
<1>5. ASSUME NEW b \in Boards, NEW m \in Entries(b)'
      PROVE  \E i \in DOMAIN file[b] :
               m = [slot |-> slot(b, i), board |-> b, id |-> file[b][i].id]
  <2>1. m \in Range(index'[b])
    BY DEF Entries
  <2>2. PICK i \in DOMAIN index'[b] : m = index'[b][i]
    BY <2>1 DEF Range
  <2> QED
    BY <1>4, <2>2
\* What a slot holds after it.
<1>6. ASSUME NEW b \in Boards, NEW i \in DOMAIN file[b]
      PROVE  taken'[slot(b, i)] /\ storage'[slot(b, i)] = file[b][i].text
  <2>1. slot(b, i) \in Slots
    BY <1>2
  <2>2. <<b, i>> \in LoadedIn(slot(b, i))
    BY <1>3 DEF LoadedIn, slot
  <2>3. ASSUME NEW m \in LoadedIn(slot(b, i)) PROVE m[1] = b /\ m[2] = i
    <3>1. /\ m[1] \in Boards /\ m[2] \in DOMAIN file[m[1]]
          /\ slot(m[1], m[2]) = slot(b, i)
      BY DEF LoadedIn, slot
    <3> QED
      BY <1>2, <3>1
  <2> DEFINE m == CHOOSE m \in LoadedIn(slot(b, i)) : TRUE
  <2>4. m \in LoadedIn(slot(b, i))
    BY <2>2
  <2>5. storage'[slot(b, i)] = file[m[1]][m[2]].text
    BY <1>1, <2>1, <2>2
  <2>6. m[1] = b /\ m[2] = i
    BY <2>3, <2>4
  <2> HIDE DEF m
  <2>7. taken'[slot(b, i)]
    BY <1>1, <2>1, <2>2
  <2> QED
    BY <2>5, <2>6, <2>7
<1>7. ASSUME NEW s \in Slots
      PROVE  /\ taken'[s] \in BOOLEAN
             /\ ~taken'[s] => storage'[s] = Null
             /\ storage'[s] \in Text \union {Null}
  <2>1. taken'[s] = (LoadedIn(s) # {})
    BY <1>1
  <2>2. CASE LoadedIn(s) = {}
    BY <1>1, <2>1, <2>2
  <2>3. CASE LoadedIn(s) # {}
    <3>1. PICK m \in LoadedIn(s) : TRUE
      BY <2>3
    <3>2. m[1] \in Boards /\ m[2] \in DOMAIN file[m[1]] /\ slot(m[1], m[2]) = s
      BY DEF LoadedIn, slot
    <3>3. storage'[s] = file[m[1]][m[2]].text
      BY <1>6, <3>2
    <3>4. file[m[1]][m[2]] \in Message
      BY <1>3, <3>2
    <3> QED
      BY <2>1, <2>3, <3>3, <3>4 DEF Message
  <2> QED
    BY <2>2, <2>3
<1>8. Types'
  <2>1. index' \in [Boards -> Seq(Entry)]
    <3>1. DOMAIN index' = Boards /\ index' = [b \in Boards |-> index'[b]]
      BY <1>1 DEF Loaded
    <3> QED
      BY <1>4, <3>1
  <2>2. storage' \in [Slots -> Text \union {Null}] /\ taken' \in [Slots -> BOOLEAN]
    BY <1>1, <1>7
  <2>3. \A b \in Boards : Len(index'[b]) <= MaxMessages
    BY <1>3, <1>4
  <2> QED
    BY <1>1, <2>1, <2>2, <2>3 DEF Types
<1>9. ASSUME NEW b \in Boards, NEW i \in DOMAIN file[b]
      PROVE  \E n \in Entries(b) : n.id = file[b][i].id
  BY FileTypes DEF EndedIsSaved
<1>10. Listed'
  <2>1. ASSUME NEW b \in Boards, NEW m \in Entries(b)'
        PROVE  m.board = b /\ m.id <= posts'
    BY <1>1, <1>5, <1>9 DEF Listed
  <2>2. ASSUME NEW b \in Boards, NEW i \in DOMAIN index'[b], NEW j \in DOMAIN index'[b],
               index'[b][i].slot = index'[b][j].slot
        PROVE  i = j
    <3>1. i \in DOMAIN file[b] /\ j \in DOMAIN file[b]
      BY <1>4
    <3>0. /\ index'[b][i] = [slot |-> slot(b, i), board |-> b, id |-> file[b][i].id]
          /\ index'[b][j] = [slot |-> slot(b, j), board |-> b, id |-> file[b][j].id]
      BY <1>4, <3>1
    <3>2. index'[b][i].slot = slot(b, i) /\ index'[b][j].slot = slot(b, j)
      BY <3>0
    <3> QED
      BY <1>2, <2>2, <3>1, <3>2
  <2> QED
    BY <2>1, <2>2 DEF Listed
<1>11. IdsOnce'
  <2> SUFFICES ASSUME NEW b \in Boards, NEW c \in Boards,
                      NEW m \in Entries(b)', NEW n \in Entries(c)', m.id = n.id
               PROVE  m = n
    BY DEF IdsOnce
  <2>1. PICK i \in DOMAIN file[b] :
          m = [slot |-> slot(b, i), board |-> b, id |-> file[b][i].id]
    BY <1>5
  <2>2. PICK j \in DOMAIN file[c] :
          n = [slot |-> slot(c, j), board |-> c, id |-> file[c][j].id]
    BY <1>5
  <2>3. file[b][i].id = file[c][j].id
    BY <2>1, <2>2
  <2>4. b = c
    <3>1. PICK x \in Entries(b) : x.id = file[b][i].id
      BY <1>9
    <3>2. PICK y \in Entries(c) : y.id = file[c][j].id
      BY <1>9
    <3>3. x = y
      BY <2>3, <3>1, <3>2 DEF IdsOnce
    <3> QED
      BY <3>1, <3>2, <3>3 DEF Listed
  <2>5. i = j
    BY <2>3, <2>4 DEF FileSound
  <2> QED
    BY <2>1, <2>2, <2>4, <2>5
<1>12. SlotsHeldOnce'
  <2> SUFFICES ASSUME NEW b \in Boards, NEW c \in Boards,
                      NEW m \in Entries(b)', NEW n \in Entries(c)'
               PROVE  /\ taken'[m.slot]
                      /\ m.slot = n.slot => m = n
                      /\ ToSet(TextOf(storage'[m.slot])) \subseteq {m.id} \union left'
    BY DEF SlotsHeldOnce
  <2>1. PICK i \in DOMAIN file[b] :
          m = [slot |-> slot(b, i), board |-> b, id |-> file[b][i].id]
    BY <1>5
  <2>2. PICK j \in DOMAIN file[c] :
          n = [slot |-> slot(c, j), board |-> c, id |-> file[c][j].id]
    BY <1>5
  <2>3. m.slot = n.slot => m = n
    BY <1>2, <2>1, <2>2
  <2>4. taken'[m.slot] /\ storage'[m.slot] = file[b][i].text /\ m.id = file[b][i].id
    BY <1>6, <2>1
  <2>5. ToSet(TextOf(file[b][i].text)) \subseteq {file[b][i].id} \union left
    BY FileTypes DEF FileSound
  <2> QED
    BY <1>1, <2>3, <2>4, <2>5
<1>13. FreeLines'
  <2>1. ToSet(TextOf(Null)) = {}
    BY DEF TextOf, ToSet
  <2> QED
    BY <1>7, <2>1 DEF FreeLines
<1>14. Writers'
  BY <1>1 DEF Writers
<1>15. FileSound'
  BY <1>1 DEF FileSound
<1>16. EndedIsSaved'
  <2> SUFFICES ASSUME NEW b \in Boards
               PROVE  /\ \A m \in Entries(b)' :
                           \E f \in Range(file'[b]) :
                             /\ f.id = m.id
                             /\ GrownBy(TextOf(f.text), TextOf(storage'[m.slot]), left')
                      /\ \A f \in Range(file[b]) : \E m \in Entries(b)' : m.id = f.id
    BY <1>1 DEF EndedIsSaved
  <2>0. (index \in [Boards -> Seq(Entry)])' /\ (storage \in [Slots -> Text \union {Null}])'
    BY <1>8 DEF Types
  <2>1. ASSUME NEW m \in Entries(b)'
        PROVE  \E f \in Range(file'[b]) : f.id = m.id /\ f.text = storage'[m.slot]
    <3>1. PICK i \in DOMAIN file[b] :
            m = [slot |-> slot(b, i), board |-> b, id |-> file[b][i].id]
      BY <1>5
    <3>2. m.id = file[b][i].id /\ file[b][i].text = storage'[m.slot]
      BY <1>6, <3>1
    <3> QED
      BY <1>1, <3>2, FileTypes
  <2>2. ASSUME NEW f \in Range(file[b])
        PROVE  \E m \in Entries(b)' : m.id = f.id
    <3>1. PICK i \in DOMAIN file[b] : f = file[b][i]
      BY FileTypes
    <3>0. index'[b][i] = [slot |-> slot(b, i), board |-> b, id |-> file[b][i].id]
      BY <1>4
    <3>2. i \in DOMAIN index'[b] /\ index'[b][i].id = f.id
      BY <1>4, <3>0, <3>1
    <3>3. index'[b][i] \in Entries(b)'
      BY <3>2 DEF Entries, Range
    <3> QED
      BY <3>2, <3>3
  <2> QED
    BY <2>0, <2>1, <2>2, SavedIsWhole
<1> QED
  BY <1>8, <1>10, <1>11, <1>12, <1>13, <1>14, <1>15, <1>16 DEF Inv

LEMMA InitInv == Init => Inv
<1> SUFFICES ASSUME Init PROVE Inv
  OBVIOUS
<1>1. \A b \in Boards : index[b] = <<>> /\ file[b] = <<>> /\ Entries(b) = {} /\ Range(file[b]) = {}
  BY DEF Init, Entries, Range
<1>2. Types
  BY <1>1, BoardsAssumption DEF Init, Types
<1>3. Listed /\ IdsOnce /\ FileSound
  BY <1>1 DEF Listed, IdsOnce, FileSound
<1>4. SlotsHeldOnce /\ EndedIsSaved
  BY <1>1 DEF SlotsHeldOnce, EndedIsSaved
<1>5. FreeLines /\ Writers
  BY DEF Init, FreeLines, Writers, TextOf, ToSet
<1> QED
  BY <1>2, <1>3, <1>4, <1>5 DEF Inv

-----------------------------------------------------------------------------
(* The theorems *)

LEMMA InvHolds == Spec => []Inv
<1>1. Inv /\ [Next]_vars => Inv'
  <2> SUFFICES ASSUME Inv, [Next]_vars PROVE Inv'
    OBVIOUS
  <2>1. CASE \E a \in Authors, b \in Boards : \E headline \in BOOLEAN : WriteMessage(a, b, headline)
    BY <2>1, WriteMessageInv
  <2>2. CASE \E a \in Authors, b \in Boards : \E i \in 1..MaxMessages : RemoveMessage(a, b, i)
    BY <2>2, RemoveMessageInv
  <2>3. CASE \E a \in Authors : WriteLine(a) \/ EndMessage(a)
    BY <2>3, WriteLineInv, EndMessageInv
  <2>4. CASE EndPass \/ \E a \in Authors : ToMenu(a) \/ Close(a) \/ Enter(a) \/ Hangup(a)
    BY <2>4, ComingAndGoingInv, EndPassInv
  <2>5. CASE Restart
    BY <2>5, RestartInv
  <2>6. CASE UNCHANGED vars
    <3>1. Types' /\ Listed' /\ FreeLines'
      BY <2>6 DEF vars, Inv, Types, Listed, FreeLines, Entries
    <3>2. SlotsHeldOnce' /\ IdsOnce'
      BY <2>6 DEF vars, Inv, SlotsHeldOnce, IdsOnce, Entries
    <3>3. Writers' /\ FileSound'
      BY <2>6 DEF vars, Inv, Writers, FileSound, Entries
    <3>4. EndedIsSaved'
      BY <2>6 DEF vars, Inv, EndedIsSaved, Entries
    <3> QED
      BY <3>1, <3>2, <3>3, <3>4 DEF Inv
  <2> QED
    BY <2>1, <2>2, <2>3, <2>4, <2>5, <2>6 DEF Next
<1> QED
  BY <1>1, InitInv, PTL DEF Spec

\* Every variable keeps its type: texts no longer than the bound, slots of the array,
\* no more messages on a board than it holds (Board_write_message, Board_load_board).
THEOREM BoardsKeepTypes == Spec => []TypeOK
<1>1. Inv => TypeOK
  <2> SUFFICES ASSUME Inv PROVE TypeOK
    OBVIOUS
  <2>1. Types
    BY DEF Inv
  <2>2. \A b \in Boards : Entries(b) \subseteq Entry /\ Len(index[b]) <= MaxMessages
    BY <2>1, EntryTypes DEF Types
  <2> QED
    BY <2>1, <2>2 DEF Types, TypeOK, Entry, Text
<1> QED
  BY <1>1, InvHolds, PTL

\* No slot of msg_storage serves two messages of any boards, through removals,
\* hang-ups and restarts; and a line in a message that its author did not write was
\* written by somebody who had left (for the menu, or set to close) with the editor open.
THEOREM NoSlotServesTwo == Spec => []SlotsHeldOnce
<1>1. Inv => SlotsHeldOnce
  BY DEF Inv
<1> QED
  BY <1>1, InvHolds, PTL

\* Nobody's message is removed from under them, or shared, while they play: d->str points
\* into the slot of a message on its board (Board_remove_msg).
THEOREM AuthorsKeepTheirMessages == Spec => []AuthorKeepsMessage
<1>1. Inv => AuthorKeepsMessage
  <2> SUFFICES ASSUME Inv, NEW a \in Authors, str[a] # Nobody, state[a] = "playing"
               PROVE  /\ str[a] \in Entries(str[a].board)
                      /\ \A o \in Authors :
                           state[o] = "playing" /\ str[o].slot = str[a].slot => o = a
    BY DEF AuthorKeepsMessage
  <2> Types /\ Writers /\ SlotsHeldOnce
    BY DEF Inv
  <2>1. str[a].board \in Boards /\ str[a] \in Entries(str[a].board) /\ str[a].slot \in Slots
    BY DEF Writers, Types, Entry
  <2>2. ASSUME NEW o \in Authors, state[o] = "playing", str[o].slot = str[a].slot
        PROVE  o = a
    <3>1. str[o] # Nobody
      BY <2>1, <2>2, Counted DEF Nobody
    <3>2. str[o].board \in Boards /\ str[o] \in Entries(str[o].board)
      BY <2>2, <3>1 DEF Writers, Types, Entry
    <3>3. str[o] = str[a]
      BY <2>1, <2>2, <3>2 DEF SlotsHeldOnce
    <3> QED
      BY <3>1, <3>3 DEF Writers
  <2> QED
    BY <2>1, <2>2
<1> QED
  BY <1>1, InvHolds, PTL

\* Whatever its author ended while playing is in its board's file with all its lines but
\* those added by who had left, and what was removed is not (Board_save_board).
THEOREM EndedMessagesAreSaved == Spec => []EndedIsSaved
<1>1. Inv => EndedIsSaved
  BY DEF Inv
<1> QED
  BY <1>1, InvHolds, PTL
=============================================================================

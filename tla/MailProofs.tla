------------------------------ MODULE MailProofs ------------------------------
(***************************************************************************)
(* What MCMail checks of the mail file, for any number of players, letters *)
(* and blocks: the types, that letters can be read whole, that a restart   *)
(* finds what is in memory, and that the file implements Mailboxes.  The   *)
(* one premise is that the server does not stop inside store_mail, which   *)
(* leaves half a letter behind.                                            *)
(*                                                                         *)
(* A letter's blocks are found by what is in them, never by following      *)
(* links: each live block holds one part of one letter, no two hold the    *)
(* same, and its link leads to the block that holds the next part.  The    *)
(* links are followed only at the end, to show what a reader comes across. *)
(***************************************************************************)
EXTENDS Mail, ListFacts, FiniteSetTheorems, TLAPS

-----------------------------------------------------------------------------
(* Lists without repetition, and scan_file *)

\* A list in which everything is at most once is as long as what is in it is many.
LEMMA InjectiveLength ==
  ASSUME NEW S, NEW s \in Seq(S), IsInjective(s)
  PROVE  /\ IsFiniteSet(ToSet(s)) /\ Cardinality(ToSet(s)) = Len(s)
         /\ Range(s) = ToSet(s)
<1>0. Len(s) \in Nat /\ DOMAIN s = 1..Len(s)
  OBVIOUS
<1>1. s \in Bijection(1..Len(s), ToSet(s))
  BY <1>0 DEF Bijection, Injection, Surjection, ToSet, IsInjective
<1>2. IsFiniteSet(1..Len(s)) /\ Cardinality(1..Len(s)) = Len(s)
  BY <1>0, FS_Interval
<1>3. ExistsBijection(1..Len(s), ToSet(s))
  BY <1>1 DEF ExistsBijection
<1> QED
  BY <1>0, <1>2, <1>3, FS_Bijection DEF Range, ToSet

\* So it cannot be longer than the numbers it is made of are many.
LEMMA InjectiveShort ==
  ASSUME NEW n \in Nat, NEW S, NEW s \in Seq(S), IsInjective(s), ToSet(s) \subseteq 1..n
  PROVE  Len(s) <= n
<1>1. IsFiniteSet(1..n) /\ Cardinality(1..n) = n
  BY FS_Interval
<1>2. Cardinality(ToSet(s)) <= Cardinality(1..n)
  BY <1>1, FS_Subset
<1> QED
  BY <1>1, <1>2, InjectiveLength

\* f is what scan_file's loop has in its list after each of the first m blocks.
Pushing(f, wanted, m) ==
  f = [i \in 0..m |->
         IF i = 0 THEN <<>>
         ELSE IF i \in wanted THEN <<i>> \o f[i - 1] ELSE f[i - 1]]

\* There is such a function, block by block ...
LEMMA ScanStart ==
  ASSUME NEW n \in Nat, NEW wanted
  PROVE  \E f : Pushing(f, wanted, n)
<1> DEFINE T == {m \in 0..n : \E f : Pushing(f, wanted, m)}
<1>1. 0 \in T
  <2>1. Pushing([i \in 0..0 |-> <<>>], wanted, 0)
    BY DEF Pushing
  <2> QED
    BY <2>1
<1>2. ASSUME NEW m \in 0..n, m # 0, m - 1 \in T PROVE m \in T
  <2>1. PICK f : Pushing(f, wanted, m - 1)
    BY <1>2
  <2> DEFINE last == IF m \in wanted THEN <<m>> \o f[m - 1] ELSE f[m - 1]
             g == [i \in 0..m |-> IF i = m THEN last ELSE f[i]]
  <2>2. ASSUME NEW i \in 0..m
        PROVE  g[i] = IF i = 0 THEN <<>>
                      ELSE IF i \in wanted THEN <<i>> \o g[i - 1] ELSE g[i - 1]
    <3>1. CASE i = m
      BY <1>2, <3>1
    <3>2. CASE i # m /\ i # 0
      <4>1. i \in 0..m - 1 /\ i - 1 \in 0..m /\ i - 1 # m
        BY <1>2, <3>2
      <4>2. f[i] = IF i \in wanted THEN <<i>> \o f[i - 1] ELSE f[i - 1]
        BY <2>1, <3>2, <4>1 DEF Pushing
      <4> QED
        BY <3>2, <4>1, <4>2
    <3>3. CASE i = 0
      <4>1. f[0] = <<>> /\ i # m
        BY <1>2, <2>1, <3>3 DEF Pushing
      <4> QED
        BY <3>3, <4>1
    <3> QED
      BY <3>1, <3>2, <3>3
  <2>3. Pushing(g, wanted, m)
    <3> HIDE DEF last
    <3>1. g = [i \in 0..m |-> g[i]]
      OBVIOUS
    <3> HIDE DEF g
    <3> QED
      BY <2>2, <3>1 DEF Pushing
  <2> HIDE DEF g
  <2> QED
    BY <2>3
<1> HIDE DEF T
<1>3. 0..n \subseteq T
  BY <1>1, <1>2, UpTo
<1>4. n \in T
  BY <1>3
<1> QED
  BY <1>4 DEF T

\* ... so scan_file's list holds what is wanted, once.
LEMMA ScanProperties ==
  ASSUME NEW S, NEW file \in Seq(S), NEW wanted, wanted \subseteq DOMAIN file
  PROVE  /\ Scan(file, wanted) \in Seq(Nat)
         /\ IsInjective(Scan(file, wanted))
         /\ ToSet(Scan(file, wanted)) = wanted
<1> DEFINE n == Len(file)
           pushed == CHOOSE f : Pushing(f, wanted, n)
<1>0. n \in Nat /\ DOMAIN file = 1..n
  OBVIOUS
<1>1. Scan(file, wanted) = pushed[n]
  BY DEF Scan, Pushing
<1>2. Pushing(pushed, wanted, n)
  <2>1. \E f : Pushing(f, wanted, n)
    BY <1>0, ScanStart
  <2> QED
    BY <2>1
<1> HIDE DEF n
<1> DEFINE Good(s, i) == /\ s \in Seq(Nat) /\ IsInjective(s)
                         /\ ToSet(s) = wanted \intersect (1..i)
           T == {i \in 0..n : Good(pushed[i], i)}
<1> HIDE DEF pushed
<1>3. ASSUME NEW i \in 0..n
      PROVE  pushed[i] = IF i = 0 THEN <<>>
                         ELSE IF i \in wanted THEN <<i>> \o pushed[i - 1] ELSE pushed[i - 1]
  BY <1>2 DEF Pushing
<1>4. 0 \in T
  <2>1. 0 \in 0..n
    BY <1>0
  <2>2. pushed[0] = <<>>
    BY <1>3, <2>1
  <2>3. ToSet(<<>>) = {} /\ wanted \intersect (1..0) = {}
    BY DEF ToSet
  <2>4. <<>> \in Seq(Nat) /\ IsInjective(<<>>)
    BY DEF IsInjective
  <2>5. Good(<<>>, 0)
    BY <2>3, <2>4
  <2> HIDE DEF Good
  <2> QED
    BY <2>1, <2>2, <2>5
<1>5. ASSUME NEW i \in 0..n, i # 0, i - 1 \in T PROVE i \in T
  <2>1. PICK s : s = pushed[i - 1]
    OBVIOUS
  <2>2. Good(s, i - 1)
    BY <1>5, <2>1
  <2>3. CASE i \in wanted
    <3>1. pushed[i] = <<i>> \o s
      BY <1>3, <1>5, <2>1, <2>3
    <3>2. i \in Nat /\ i \notin ToSet(s)
      BY <1>0, <1>5, <2>2
    <3>3. s \in Seq(Nat) /\ IsInjective(s)
      BY <2>2
    <3>4. /\ <<i>> \o s \in Seq(Nat) /\ IsInjective(<<i>> \o s)
          /\ ToSet(<<i>> \o s) = ToSet(s) \union {i}
      BY <3>2, <3>3, PuttingFirst
    <3>5. (wanted \intersect (1..i - 1)) \union {i} = wanted \intersect (1..i)
      BY <1>0, <1>5, <2>3
    <3> QED
      BY <2>2, <3>1, <3>4, <3>5
  <2>4. CASE i \notin wanted
    <3>1. pushed[i] = s
      BY <1>3, <1>5, <2>1, <2>4
    <3>2. wanted \intersect (1..i - 1) = wanted \intersect (1..i)
      BY <1>0, <1>5, <2>4
    <3> QED
      BY <2>2, <3>1, <3>2
  <2> QED
    BY <2>3, <2>4
<1> HIDE DEF T
<1>6. 0..n \subseteq T
  BY <1>0, <1>4, <1>5, UpTo
<1>7. Good(pushed[n], n)
  BY <1>0, <1>6 DEF T
<1> QED
  BY <1>0, <1>1, <1>7

-----------------------------------------------------------------------------
(* The invariant: what is on file *)

\* What a block of the file can be: a header keeps its recipient when it is deleted.
Blocks ==
  [kind : {"header", "deleted"}, to : Players, next : Positions \union {LastBlock},
   text : (1..MaxLetters) \X (1..MaxParts)]
    \union
  [kind : {"data", "deleted"}, next : Positions \union {LastBlock},
   text : (1..MaxLetters) \X (1..MaxParts)]

\* The blocks that are part of a letter, and which part of which.
Live == DOMAIN disk \ Deleted(disk)
LetterOf(x) == disk[x].text[1]
PartOf(x) == disk[x].text[2]
Holds(x, l, i) == x \in Live /\ LetterOf(x) = l /\ PartOf(x) = i

\* The letter's first part is in some live block.
HasFirst(l) == \E x \in Live : LetterOf(x) = l /\ PartOf(x) = 1

\* store_mail is under way and has written so many parts.
Storing == call.op \in {"link", "data"}
Stored == IF call.op = "link" THEN call.block.text[2] ELSE call.text[2]

\* The block that is neither free nor part of a letter, between two steps of store_mail.
Reserved == IF call.op = "data" THEN {call.at} ELSE {}

\* Letters, and the file, are no longer than the bounds.
SizesInv ==
  /\ letters \in Seq([to : Players, parts : 1..MaxParts]) /\ Len(letters) <= MaxLetters
  /\ \A l \in DOMAIN letters : letters[l].parts <= MaxBlocks
  /\ disk \in Seq(Blocks) /\ Len(disk) <= MaxBlocks

\* A live block holds one part of one letter, and no two hold the same.
SoundBlock(x) ==
  /\ LetterOf(x) \in DOMAIN letters /\ PartOf(x) \in 1..letters[LetterOf(x)].parts
  /\ disk[x].kind = (IF PartOf(x) = 1 THEN "header" ELSE "data")
  /\ PartOf(x) = 1 => disk[x].to = letters[LetterOf(x)].to

BlocksInv ==
  /\ \A x \in Live : SoundBlock(x)
  /\ \A x, y \in Live : LetterOf(x) = LetterOf(y) /\ PartOf(x) = PartOf(y) => x = y

\* A block leads to the next part, the last one nowhere, and the last one written so
\* far to where the next will be.
LinkedBlock(x) ==
  IF Storing /\ LetterOf(x) = Len(letters) /\ PartOf(x) = Stored
  THEN disk[x].next = IF call.op = "link" THEN LastBlock ELSE call.at
  ELSE IF PartOf(x) = letters[LetterOf(x)].parts THEN disk[x].next = LastBlock
  ELSE Holds(disk[x].next, LetterOf(x), PartOf(x) + 1)
LinksInv == \A x \in Live : LinkedBlock(x)

\* The free list is the deleted blocks, each once.
FreeInv ==
  /\ free \in Seq(Positions) /\ IsInjective(free)
  /\ ToSet(free) = Deleted(disk) \ Reserved

\* The index is the headers, each once, under their recipients.
IndexInv ==
  /\ index \in [Players -> Seq(Positions)]
  /\ \A p \in Players : IsInjective(index[p]) /\ ToSet(index[p]) = Headers(disk, p)
  /\ noMail = FALSE

-----------------------------------------------------------------------------
\* The end of a list.
LEMMA FrontProperties ==
  ASSUME NEW S, NEW s \in Seq(S), IsInjective(s), s # <<>>
  PROVE  /\ Front(s) \in Seq(S) /\ IsInjective(Front(s))
         /\ s[Len(s)] \in ToSet(s)
         /\ ToSet(Front(s)) = ToSet(s) \ {s[Len(s)]}
<1> DEFINE n == Len(s)  t == Front(s)
<1>0. n \in Nat /\ DOMAIN s = 1..n /\ n # 0 /\ \A i \in 1..n : s[i] \in S
  OBVIOUS
<1>1. /\ t \in Seq(S) /\ Len(t) = n - 1
      /\ \A i \in 1..n - 1 : t[i] = s[i]
  <2>1. \A i \in 1..n - 1 : s[i] \in S
    BY <1>0
  <2>2. 1 \in Int /\ n - 1 \in Int
    BY <1>0
  <2>3. /\ SubSeq(s, 1, n - 1) \in Seq(S)
        /\ Len(SubSeq(s, 1, n - 1)) = IF 1 <= n - 1 THEN (n - 1) - 1 + 1 ELSE 0
        /\ \A i \in 1..(n - 1) - 1 + 1 : SubSeq(s, 1, n - 1)[i] = s[1 + i - 1]
    BY <2>1, <2>2, SubSeqProperties
  <2>4. t = SubSeq(s, 1, n - 1)
    BY DEF Front
  <2> HIDE DEF n, t
  <2> QED
    BY <1>0, <2>3, <2>4
<1>2. DOMAIN t = 1..n - 1
  BY <1>0, <1>1
<1> HIDE DEF n, t
<1>3. IsInjective(t)
  BY <1>0, <1>1, <1>2 DEF IsInjective
<1>4. ToSet(t) = ToSet(s) \ {s[n]}
  <2>1. ASSUME NEW i \in 1..n, s[i] # s[n] PROVE s[i] \in ToSet(t)
    <3>1. i \in 1..n - 1
      BY <1>0, <2>1
    <3> QED
      BY <1>1, <1>2, <3>1 DEF ToSet
  <2>2. ASSUME NEW i \in 1..n - 1 PROVE t[i] \in ToSet(s) /\ t[i] # s[n]
    <3>1. i \in 1..n /\ n \in 1..n /\ i # n
      BY <1>0
    <3> QED
      BY <1>0, <1>1, <3>1 DEF IsInjective, ToSet
  <2> QED
    BY <1>0, <1>2, <2>1, <2>2 DEF ToSet
<1>5. s[n] \in ToSet(s)
  BY <1>0 DEF ToSet
<1> QED
  BY <1>1, <1>3, <1>4, <1>5 DEF n, t

\* The rest of a list.
LEMMA TailInjective ==
  ASSUME NEW S, NEW s \in Seq(S), IsInjective(s), s # <<>>
  PROVE  /\ Tail(s) \in Seq(S) /\ IsInjective(Tail(s)) /\ Len(Tail(s)) = Len(s) - 1
         /\ Head(s) \in ToSet(s)
         /\ ToSet(Tail(s)) = ToSet(s) \ {Head(s)}
<1> DEFINE n == Len(s)  t == Tail(s)
<1>0. n \in Nat /\ DOMAIN s = 1..n /\ n # 0 /\ Head(s) = s[1]
  OBVIOUS
<1>1. /\ t \in Seq(S) /\ Len(t) = n - 1
      /\ \A i \in 1..n - 1 : t[i] = s[i + 1]
  OBVIOUS
<1>2. DOMAIN t = 1..n - 1
  BY <1>0, <1>1
<1> HIDE DEF n, t
<1>3. IsInjective(t)
  <2> SUFFICES ASSUME NEW i \in 1..n - 1, NEW j \in 1..n - 1, t[i] = t[j]
               PROVE  i = j
    BY <1>2 DEF IsInjective
  <2>1. i + 1 \in 1..n /\ j + 1 \in 1..n /\ s[i + 1] = s[j + 1]
    BY <1>0, <1>1
  <2>2. i + 1 = j + 1
    BY <1>0, <2>1 DEF IsInjective
  <2> QED
    BY <1>0, <2>2
<1>4. ToSet(t) = ToSet(s) \ {s[1]}
  <2>1. ASSUME NEW i \in 1..n, s[i] # s[1] PROVE s[i] \in ToSet(t)
    <3>1. i - 1 \in 1..n - 1 /\ (i - 1) + 1 = i
      BY <1>0, <2>1
    <3>2. t[i - 1] = s[i]
      BY <1>1, <3>1
    <3> QED
      BY <1>2, <3>1, <3>2 DEF ToSet
  <2>2. ASSUME NEW i \in 1..n - 1 PROVE t[i] \in ToSet(s) /\ t[i] # s[1]
    <3>1. i + 1 \in 1..n /\ 1 \in 1..n /\ i + 1 # 1
      BY <1>0
    <3> QED
      BY <1>0, <1>1, <3>1 DEF IsInjective, ToSet
  <2> QED
    BY <1>0, <1>2, <2>1, <2>2 DEF ToSet
<1>5. s[1] \in ToSet(s)
  BY <1>0 DEF ToSet
<1> QED
  BY <1>0, <1>1, <1>3, <1>4, <1>5 DEF n, t

-----------------------------------------------------------------------------
\* Writing a block changes that block.
LEMMA Writing ==
  ASSUME disk \in Seq(Blocks), NEW pos \in 1..Len(disk) + 1, NEW block \in Blocks
  PROVE  LET file == Written(pos, block)
         IN /\ file \in Seq(Blocks)
            /\ Len(file) = IF pos = Len(disk) + 1 THEN Len(disk) + 1 ELSE Len(disk)
            /\ DOMAIN file = DOMAIN disk \union {pos}
            /\ file[pos] = block
            /\ \A x \in DOMAIN disk \ {pos} : file[x] = disk[x]
<1>0. Len(disk) \in Nat /\ DOMAIN disk = 1..Len(disk)
  OBVIOUS
<1>1. CASE pos = Len(disk) + 1
  <2>1. Written(pos, block) = Append(disk, block)
    BY <1>1 DEF Written
  <2>2. /\ Append(disk, block) \in Seq(Blocks)
        /\ Len(Append(disk, block)) = Len(disk) + 1
        /\ Append(disk, block)[Len(disk) + 1] = block
        /\ \A x \in 1..Len(disk) : Append(disk, block)[x] = disk[x]
    BY AppendProperties
  <2>3. (1..Len(disk)) \union {Len(disk) + 1} = 1..Len(disk) + 1
    BY <1>0
  <2>4. DOMAIN Append(disk, block) = 1..Len(disk) + 1
    BY <1>0, <2>2
  <2> QED
    BY <1>0, <1>1, <2>1, <2>2, <2>3, <2>4
<1>2. CASE pos # Len(disk) + 1
  <2>1. Written(pos, block) = [disk EXCEPT ![pos] = block] /\ pos \in 1..Len(disk)
    BY <1>0, <1>2 DEF Written
  <2> QED
    BY <1>0, <1>2, <2>1
<1> QED
  BY <1>1, <1>2

\* A block that is taken from its letter.
LEMMA Deleting ==
  ASSUME SizesInv, BlocksInv, NEW pos \in Live, UNCHANGED letters,
         disk' = Written(pos, [disk[pos] EXCEPT !.kind = "deleted"])
  PROVE  /\ SizesInv' /\ BlocksInv'
         /\ DOMAIN disk' = DOMAIN disk
         /\ Live' = Live \ {pos} /\ \A x \in Live \ {pos} : disk'[x] = disk[x]
         /\ Deleted(disk)' = Deleted(disk) \union {pos}
         /\ \A p : Headers(disk, p)' = Headers(disk, p) \ {pos}
<1> DEFINE block == [disk[pos] EXCEPT !.kind = "deleted"]
<1>0. Len(disk) \in Nat /\ DOMAIN disk = 1..Len(disk) /\ pos \in 1..Len(disk)
  BY DEF SizesInv, Live
<1>1. disk[pos] \in Blocks
  BY <1>0 DEF SizesInv
<1>2. block \in Blocks /\ block.kind = "deleted"
  BY <1>1 DEF Blocks
<1>3. disk \in Seq(Blocks) /\ pos \in 1..Len(disk) + 1
  BY <1>0 DEF SizesInv
<1> HIDE DEF block
<1>4. /\ disk' \in Seq(Blocks) /\ Len(disk') = Len(disk)
      /\ DOMAIN disk' = DOMAIN disk
      /\ disk'[pos] = block
      /\ \A x \in DOMAIN disk \ {pos} : disk'[x] = disk[x]
  <2>1. disk' = Written(pos, block)
    BY DEF block
  <2>2. /\ Written(pos, block) \in Seq(Blocks)
        /\ Len(Written(pos, block)) = IF pos = Len(disk) + 1 THEN Len(disk) + 1 ELSE Len(disk)
        /\ DOMAIN Written(pos, block) = DOMAIN disk \union {pos}
        /\ Written(pos, block)[pos] = block
        /\ \A x \in DOMAIN disk \ {pos} : Written(pos, block)[x] = disk[x]
    BY <1>2, <1>3, Writing
  <2>3. pos # Len(disk) + 1 /\ DOMAIN disk \union {pos} = DOMAIN disk
    BY <1>0
  <2> QED
    BY <2>1, <2>2, <2>3
<1>5. SizesInv'
  BY <1>0, <1>4 DEF SizesInv
<1>6. /\ Live' = Live \ {pos} /\ Deleted(disk)' = Deleted(disk) \union {pos}
      /\ \A x \in Live \ {pos} : disk'[x] = disk[x]
  BY <1>0, <1>2, <1>4 DEF Live, Deleted
<1>7. ASSUME NEW p PROVE Headers(disk, p)' = Headers(disk, p) \ {pos}
  BY <1>0, <1>2, <1>4 DEF Headers
<1>8. BlocksInv'
  BY <1>6 DEF BlocksInv, SoundBlock, LetterOf, PartOf
<1> QED
  BY <1>4, <1>5, <1>6, <1>7, <1>8

-----------------------------------------------------------------------------
(* The invariant: the call under way, and the letters that are gone *)

\* The calls: what is known of each while it is under way.  A letter being read has its
\* first parts in hand, in order, and the rest on file.
TakeCall ==
  call \in [op : {"take"}, to : Players] /\ index[call.to] # <<>>

LinkCall ==
  /\ call \in [op : {"link"}, block : Blocks, at : Positions]
  /\ call.at \in Live /\ disk[call.at] = call.block
  /\ LetterOf(call.at) = Len(letters) /\ disk[call.at].next = LastBlock

DataCall ==
  /\ call \in [op : {"data"}, text : (1..MaxLetters) \X (1..MaxParts), at : Positions]
  /\ call.text[1] = Len(letters)
  /\ \/ call.at \in Deleted(disk)
     \/ call.at = Len(disk) + 1 /\ free = <<>>

ReadCall ==
  /\ call \in [op : {"read"}, to : Players, at : Positions \union {LastBlock},
               text : Seq((1..MaxLetters) \X (1..MaxParts)), buffer : Blocks \union {Unset}]
  /\ Len(call.text) # 0
  /\ LET l == call.text[1][1]
         i == Len(call.text)
     IN /\ l \in DOMAIN letters /\ letters[l].to = call.to /\ i <= letters[l].parts
        /\ \A j \in 1..i : call.text[j] = <<l, j>>
        /\ \A x \in Live : LetterOf(x) = l => PartOf(x) > i
        /\ IF i = letters[l].parts THEN call.at = LastBlock ELSE Holds(call.at, l, i + 1)

\* A letter being stored has its header on file, is not finished, and the file has
\* room for the rest of it.
Taken == Len(disk) - Len(free) - (IF call.op = "data" /\ call.at \in DOMAIN disk THEN 1 ELSE 0)

StoringInv ==
  Storing =>
    /\ Stored < letters[Len(letters)].parts
    /\ \A x \in Live : LetterOf(x) = Len(letters) => PartOf(x) <= Stored
    /\ \E x \in Live : LetterOf(x) = Len(letters) /\ PartOf(x) = 1
    /\ Taken + letters[Len(letters)].parts - Stored <= MaxBlocks

CallInv == (call = Idle \/ TakeCall \/ LinkCall \/ DataCall \/ ReadCall) /\ StoringInv

\* What was handed over is nowhere any more.
Gone(l) ==
  /\ l \in DOMAIN letters /\ ~BeingStored(l) /\ ~InHand(l)
  /\ \A x \in Live : LetterOf(x) = l => PartOf(x) # 1
DoneInv ==
  /\ delivered \in Seq([to : Players, text : Seq((1..MaxLetters) \X (1..MaxParts))])
  /\ \A i \in DOMAIN delivered : Gone(delivered[i].text[1][1])

\* All of it.
MailInv ==
  SizesInv /\ BlocksInv /\ LinksInv /\ FreeInv /\ IndexInv /\ CallInv /\ DoneInv

-----------------------------------------------------------------------------
\* The position a block is popped from is no letter's.
LEMMA Popping ==
  ASSUME SizesInv, FreeInv, Reserved = {}, Len(disk) - Len(free) < MaxBlocks
  PROVE  /\ Popped \in Positions /\ Popped \in 1..Len(disk) + 1 /\ Popped \notin Live
         /\ Popped \in Deleted(disk) \/ (Popped = Len(disk) + 1 /\ FreeLeft = <<>>)
         /\ FreeLeft \in Seq(Positions) /\ IsInjective(FreeLeft)
         /\ ToSet(FreeLeft) = Deleted(disk) \ {Popped}
         /\ Len(FreeLeft) = Len(free) - (IF Popped \in DOMAIN disk THEN 1 ELSE 0)
<1>0. /\ Len(disk) \in Nat /\ DOMAIN disk = 1..Len(disk) /\ MaxBlocks \in Nat
      /\ Len(disk) <= MaxBlocks
  BY MailAssumption DEF SizesInv
<1>1. CASE free = <<>>
  <2>1. Popped = Len(disk) + 1 /\ FreeLeft = <<>>
    BY <1>1 DEF Popped, FreeLeft
  <2>2. Len(free) = 0
    BY <1>1
  <2>3. Len(disk) + 1 \in Positions /\ Len(disk) + 1 \notin DOMAIN disk
    BY <1>0, <2>2 DEF Positions
  <2>4. ToSet(FreeLeft) = Deleted(disk) /\ IsInjective(FreeLeft)
    BY <1>1, <2>1 DEF FreeInv
  <2>5. Deleted(disk) \subseteq DOMAIN disk
    BY DEF Deleted
  <2> QED
    BY <1>0, <1>1, <2>1, <2>2, <2>3, <2>4, <2>5 DEF Live
<1>2. CASE free # <<>>
  <2>1. Popped = Head(free) /\ FreeLeft = Tail(free)
    BY <1>2 DEF Popped, FreeLeft
  <2>2. free \in Seq(Positions) /\ IsInjective(free) /\ ToSet(free) = Deleted(disk)
    BY DEF FreeInv
  <2>3. /\ Tail(free) \in Seq(Positions) /\ IsInjective(Tail(free))
        /\ Len(Tail(free)) = Len(free) - 1
        /\ Head(free) \in ToSet(free)
        /\ ToSet(Tail(free)) = ToSet(free) \ {Head(free)}
    BY <1>2, <2>2, TailInjective
  <2>4. Head(free) \in Positions
    BY <1>2, <2>2
  <2>5. Deleted(disk) \subseteq DOMAIN disk
    BY DEF Deleted
  <2>6. Popped \in Deleted(disk) /\ Popped \in DOMAIN disk /\ Popped \notin Live
    BY <2>1, <2>2, <2>3, <2>5 DEF Live
  <2>7. Popped \in 1..Len(disk) + 1
    BY <1>0, <2>6
  <2>8. Len(FreeLeft) = Len(free) - (IF Popped \in DOMAIN disk THEN 1 ELSE 0)
    BY <2>1, <2>3, <2>6
  <2> QED
    BY <2>1, <2>2, <2>3, <2>4, <2>6, <2>7, <2>8
<1> QED
  BY <1>1, <1>2

\* A block that becomes part of a letter.
Added(pos, block) ==
  /\ disk' \in Seq(Blocks) /\ Len(disk') <= MaxBlocks
  /\ DOMAIN disk' = DOMAIN disk \union {pos}
  /\ Len(disk') = Len(disk) + (IF pos \in DOMAIN disk THEN 0 ELSE 1)
  /\ Live' = Live \union {pos} /\ Deleted(disk)' = Deleted(disk) \ {pos}
  /\ disk'[pos] = block /\ \A x \in Live : disk'[x] = disk[x]

\* Writing it there adds it and leaves the rest.
LEMMA Adding ==
  ASSUME disk \in Seq(Blocks), Len(disk) <= MaxBlocks,
         NEW pos \in 1..Len(disk) + 1, pos \in Positions, pos \notin Live,
         NEW block \in Blocks, block.kind # "deleted", disk' = Written(pos, block)
  PROVE  Added(pos, block)
<1>0. /\ Len(disk) \in Nat /\ DOMAIN disk = 1..Len(disk) /\ MaxBlocks \in Nat
  BY MailAssumption
<1>1. /\ disk' \in Seq(Blocks)
      /\ Len(disk') = IF pos = Len(disk) + 1 THEN Len(disk) + 1 ELSE Len(disk)
      /\ DOMAIN disk' = DOMAIN disk \union {pos}
      /\ disk'[pos] = block
      /\ \A x \in DOMAIN disk \ {pos} : disk'[x] = disk[x]
  <2>1. /\ Written(pos, block) \in Seq(Blocks)
        /\ Len(Written(pos, block)) = IF pos = Len(disk) + 1 THEN Len(disk) + 1 ELSE Len(disk)
        /\ DOMAIN Written(pos, block) = DOMAIN disk \union {pos}
        /\ Written(pos, block)[pos] = block
        /\ \A x \in DOMAIN disk \ {pos} : Written(pos, block)[x] = disk[x]
    BY Writing
  <2> QED
    BY <2>1
<1>2. pos = Len(disk) + 1 <=> pos \notin DOMAIN disk
  BY <1>0
<1>3. Len(disk') <= MaxBlocks
  BY <1>0, <1>1 DEF Positions
<1>4. Live' = Live \union {pos} /\ Deleted(disk)' = Deleted(disk) \ {pos}
  BY <1>1 DEF Live, Deleted
<1>5. \A x \in Live : disk'[x] = disk[x]
  BY <1>1 DEF Live
<1> QED
  BY <1>0, <1>1, <1>2, <1>3, <1>4, <1>5 DEF Added

\* It fits in with the others if it is the first there is of its part.
LEMMA AddedFits ==
  ASSUME BlocksInv, NEW pos, pos \notin Live, NEW block, Added(pos, block),
         \A l \in DOMAIN letters : l \in DOMAIN letters' /\ letters'[l] = letters[l],
         \A x \in Live : LetterOf(x) = block.text[1] => PartOf(x) # block.text[2],
         SoundBlock(pos)'
  PROVE  BlocksInv'
<1>1. \A x \in Live : LetterOf(x)' = LetterOf(x) /\ PartOf(x)' = PartOf(x)
  BY DEF Added, LetterOf, PartOf
<1>2. LetterOf(pos)' = block.text[1] /\ PartOf(pos)' = block.text[2]
  BY DEF Added, LetterOf, PartOf
<1>3. ASSUME NEW x \in Live PROVE SoundBlock(x)'
  <2>1. SoundBlock(x)
    BY DEF BlocksInv
  <2> QED
    BY <1>1, <2>1 DEF SoundBlock, Added
<1>4. Live' = Live \union {pos}
  BY DEF Added
<1>5. \A x \in Live' : SoundBlock(x)'
  BY <1>3, <1>4
<1>6. ASSUME NEW x \in Live', NEW y \in Live', LetterOf(x)' = LetterOf(y)', PartOf(x)' = PartOf(y)'
      PROVE  x = y
  BY <1>1, <1>2, <1>4, <1>6 DEF BlocksInv
<1> QED
  BY <1>5, <1>6 DEF BlocksInv

\* Of the headers, it may be one more.
LEMMA AddedHeader ==
  ASSUME NEW pos, pos \notin Live, NEW block, Added(pos, block), NEW p
  PROVE  Headers(disk, p)' = Headers(disk, p) \union
           {x \in {pos} : block.kind = "header" /\ block.to = p}
<1>1. \A x : x \in Headers(disk, p) <=> x \in Live /\ disk[x].kind = "header" /\ disk[x].to = p
  BY DEF Headers, Live, Deleted
<1>2. \A x : x \in Headers(disk', p) <=> x \in Live' /\ disk'[x].kind = "header" /\ disk'[x].to = p
  BY DEF Headers, Live, Deleted
<1>3. /\ Live' = Live \union {pos}
      /\ disk'[pos] = block /\ \A x \in Live : disk'[x] = disk[x]
  BY DEF Added
<1>4. Headers(disk, p)' = Headers(disk', p)
  BY DEF Headers
<1> QED
  BY <1>1, <1>2, <1>3, <1>4

-----------------------------------------------------------------------------
(* store_mail *)

\* A letter's first block.
LEMMA StoreHeaderInv ==
  ASSUME MailInv, NEW p \in Players, NEW n \in 1..MaxParts, StoreHeader(p, n)
  PROVE  /\ MailInv'
         /\ \A m : HasFirst(m)' <=> HasFirst(m) \/ m = Len(letters) + 1
<1> SizesInv /\ BlocksInv /\ LinksInv /\ FreeInv /\ IndexInv /\ CallInv /\ DoneInv
  BY DEF MailInv
<1>1. PICK pos : pos = Popped
  OBVIOUS
<1>2. PICK l : l = Len(letters) + 1
  OBVIOUS
<1>3. PICK block : block = [kind |-> "header", to |-> p, next |-> LastBlock, text |-> <<l, 1>>]
  OBVIOUS
<1>4. /\ call = Idle /\ Len(letters) < MaxLetters /\ Len(disk) - Len(free) + n <= MaxBlocks
      /\ letters' = Append(letters, [to |-> p, parts |-> n])
      /\ disk' = Written(pos, block)
      /\ index' = [index EXCEPT ![p] = <<pos>> \o @]
      /\ free' = FreeLeft
      /\ call' = IF n = 1 THEN Idle ELSE [op |-> "link", block |-> block, at |-> pos]
      /\ noMail' = noMail /\ delivered' = delivered
  BY <1>1, <1>2, <1>3 DEF StoreHeader
<1>5. ~Storing /\ Reserved = {} /\ call.op = "idle"
  BY <1>4 DEF Storing, Reserved, Idle
<1>6. /\ Len(letters) \in Nat /\ l \in Nat /\ l \notin DOMAIN letters /\ l \in 1..MaxLetters
      /\ MaxBlocks \in Nat /\ 1 \in 1..MaxParts
      /\ Len(disk) \in Nat /\ DOMAIN disk = 1..Len(disk) /\ Len(free) \in Nat
      /\ n \in Nat /\ n >= 1
  <2>1. Len(letters) \in Nat /\ DOMAIN letters = 1..Len(letters) /\ Len(free) \in Nat
    BY DEF SizesInv, FreeInv
  <2>2. MaxParts \in Nat /\ MaxParts # 0 /\ MaxLetters \in Nat /\ MaxBlocks \in Nat
    BY MailAssumption
  <2>3. Len(disk) \in Nat /\ DOMAIN disk = 1..Len(disk)
    BY DEF SizesInv
  <2> QED
    BY <1>2, <1>4, <2>1, <2>2, <2>3
<1>7. /\ letters' \in Seq([to : Players, parts : 1..MaxParts])
      /\ Len(letters') = l /\ DOMAIN letters' = (DOMAIN letters) \union {l}
      /\ letters'[l].to = p /\ letters'[l].parts = n
      /\ \A m \in DOMAIN letters : letters'[m] = letters[m]
  <2>1. PICK letter : letter = [to |-> p, parts |-> n]
    OBVIOUS
  <2>2. letter \in [to : Players, parts : 1..MaxParts] /\ letter.to = p /\ letter.parts = n
    BY <2>1
  <2>3. letters \in Seq([to : Players, parts : 1..MaxParts]) /\ DOMAIN letters = 1..Len(letters)
    BY DEF SizesInv
  <2>4. /\ Append(letters, letter) \in Seq([to : Players, parts : 1..MaxParts])
        /\ Len(Append(letters, letter)) = Len(letters) + 1
        /\ Append(letters, letter)[Len(letters) + 1] = letter
        /\ \A m \in 1..Len(letters) : Append(letters, letter)[m] = letters[m]
    BY <2>2, <2>3, AppendProperties
  <2>5. letters' = Append(letters, letter)
    BY <1>4, <2>1
  <2>6. DOMAIN letters' = 1..Len(letters) + 1
    BY <2>4, <2>5
  <2>7. (1..Len(letters)) \union {l} = 1..Len(letters) + 1
    BY <1>2, <1>6
  <2> QED
    BY <1>2, <2>2, <2>3, <2>4, <2>5, <2>6, <2>7
<1>8. /\ block \in Blocks /\ block.kind = "header" /\ block.to = p /\ block.next = LastBlock
      /\ block.text = <<l, 1>> /\ block.text[1] = l /\ block.text[2] = 1
  BY <1>3, <1>6 DEF Blocks
<1>9. /\ pos \in Positions /\ pos \in 1..Len(disk) + 1 /\ pos \notin Live
      /\ pos \in Deleted(disk) \/ (pos = Len(disk) + 1 /\ FreeLeft = <<>>)
      /\ FreeLeft \in Seq(Positions) /\ IsInjective(FreeLeft)
      /\ ToSet(FreeLeft) = Deleted(disk) \ {pos}
      /\ Len(FreeLeft) = Len(free) - (IF pos \in DOMAIN disk THEN 1 ELSE 0)
  <2>1. Len(disk) - Len(free) < MaxBlocks
    BY <1>4, <1>6
  <2> QED
    BY <1>1, <1>5, <2>1, Popping
<1>10. Added(pos, block)
  <2>1. disk \in Seq(Blocks) /\ Len(disk) <= MaxBlocks
    BY DEF SizesInv
  <2> QED
    BY <1>4, <1>8, <1>9, <2>1, Adding
<1>11. /\ Live' = Live \union {pos} /\ disk'[pos] = block
       /\ \A x \in Live : disk'[x] = disk[x]
       /\ \A x \in Live : LetterOf(x) \in DOMAIN letters /\ LetterOf(x) # l
  BY <1>6, <1>10 DEF Added, BlocksInv, SoundBlock
<1>12. SizesInv'
  <2>1. Len(free) <= Len(disk)
    <3>1. ToSet(free) \subseteq 1..Len(disk)
      BY <1>6 DEF FreeInv, Deleted
    <3>2. free \in Seq(Positions) /\ IsInjective(free)
      BY DEF FreeInv
    <3> QED
      BY <1>6, <3>1, <3>2, InjectiveShort
  <2>2. n <= MaxBlocks
    BY <1>4, <1>6, <2>1
  <2>3. \A m \in DOMAIN letters' : letters'[m].parts <= MaxBlocks
    BY <1>7, <2>2 DEF SizesInv
  <2> QED
    BY <1>6, <1>7, <1>10, <2>3 DEF SizesInv, Added
<1>13. BlocksInv'
  <2>1. SoundBlock(pos)'
    BY <1>6, <1>7, <1>8, <1>11 DEF SoundBlock, LetterOf, PartOf
  <2>2. \A x \in Live : LetterOf(x) = block.text[1] => PartOf(x) # block.text[2]
    BY <1>8, <1>11
  <2>3. \A m \in DOMAIN letters : m \in DOMAIN letters' /\ letters'[m] = letters[m]
    BY <1>7
  <2> QED
    BY <1>9, <1>10, <2>1, <2>2, <2>3, AddedFits
<1>14. LinksInv'
  <2>1. ASSUME NEW x \in Live PROVE LinkedBlock(x)'
    <3>1. LinkedBlock(x) /\ LetterOf(x) \in DOMAIN letters /\ LetterOf(x) # l
      BY <1>11 DEF LinksInv
    <3>2. CASE PartOf(x) = letters[LetterOf(x)].parts
      BY <1>5, <1>7, <1>11, <3>1, <3>2 DEF LinkedBlock, LetterOf, PartOf
    <3>3. CASE PartOf(x) # letters[LetterOf(x)].parts
      <4>1. Holds(disk[x].next, LetterOf(x), PartOf(x) + 1)
        BY <1>5, <3>1, <3>3 DEF LinkedBlock
      <4>2. Holds(disk[x].next, LetterOf(x), PartOf(x) + 1)'
        BY <1>11, <4>1 DEF Holds, LetterOf, PartOf
      <4> QED
        BY <1>7, <1>11, <3>1, <3>3, <4>2 DEF LinkedBlock, LetterOf, PartOf
    <3> QED
      BY <3>2, <3>3
  <2>2. LinkedBlock(pos)'
    <3>1. CASE n = 1
      <4>1. ~Storing'
        BY <1>4, <3>1 DEF Storing, Idle
      <4> QED
        BY <1>7, <1>8, <1>11, <3>1, <4>1 DEF LinkedBlock, LetterOf, PartOf
    <3>2. CASE n # 1
      BY <1>4, <1>7, <1>8, <1>11, <3>2 DEF LinkedBlock, LetterOf, PartOf, Storing, Stored
    <3> QED
      BY <3>1, <3>2
  <2> QED
    BY <1>11, <2>1, <2>2 DEF LinksInv
<1>15. FreeInv'
  <2>1. Reserved' = {}
    BY <1>4 DEF Reserved, Idle
  <2>2. Deleted(disk)' = Deleted(disk) \ {pos}
    BY <1>10 DEF Added
  <2> QED
    BY <1>4, <1>9, <2>1, <2>2 DEF FreeInv
<1>16. IndexInv'
  <2>1. ASSUME NEW q \in Players
        PROVE  /\ index'[q] \in Seq(Positions) /\ IsInjective(index'[q])
               /\ ToSet(index'[q]) = Headers(disk, q)'
    <3>1. index[q] \in Seq(Positions) /\ IsInjective(index[q]) /\ ToSet(index[q]) = Headers(disk, q)
      BY DEF IndexInv
    <3>2. Headers(disk, q)' = Headers(disk, q) \union
             {x \in {pos} : block.kind = "header" /\ block.to = q}
      BY <1>9, <1>10, AddedHeader
    <3>3. CASE q = p
      <4>1. pos \notin ToSet(index[q])
        BY <1>9, <3>1 DEF Headers, Live, Deleted
      <4>2. index'[q] = <<pos>> \o index[q]
        BY <1>4, <3>3 DEF IndexInv
      <4>3. /\ <<pos>> \o index[q] \in Seq(Positions) /\ IsInjective(<<pos>> \o index[q])
            /\ ToSet(<<pos>> \o index[q]) = ToSet(index[q]) \union {pos}
        BY <1>9, <3>1, <4>1, PuttingFirst
      <4> QED
        BY <1>8, <3>1, <3>2, <3>3, <4>2, <4>3
    <3>4. CASE q # p
      BY <1>4, <1>8, <3>1, <3>2, <3>4 DEF IndexInv
    <3> QED
      BY <3>3, <3>4
  <2>2. index' \in [Players -> Seq(Positions)]
    <3>1. DOMAIN index' = Players /\ index' = [q \in Players |-> index'[q]]
      BY <1>4 DEF IndexInv
    <3> QED
      BY <2>1, <3>1
  <2> QED
    BY <1>4, <2>1, <2>2 DEF IndexInv
<1>17. CallInv'
  <2>1. CASE n = 1
    BY <1>4, <2>1 DEF CallInv, StoringInv, Storing, Idle
  <2>2. CASE n # 1
    <3>1. call' = [op |-> "link", block |-> block, at |-> pos] /\ call'.op = "link"
      BY <1>4, <2>2
    <3>2. LinkCall'
      <4>1. call' \in [op : {"link"}, block : Blocks, at : Positions]
        BY <1>8, <1>9, <3>1
      <4>2. call'.at \in Live' /\ disk'[call'.at] = call'.block
        BY <1>11, <3>1
      <4>3. LetterOf(pos)' = Len(letters') /\ disk'[pos].next = LastBlock
        BY <1>7, <1>8, <1>11 DEF LetterOf
      <4> QED
        BY <3>1, <4>1, <4>2, <4>3 DEF LinkCall, LetterOf
    <3>3. Stored' = 1
      BY <1>8, <3>1 DEF Stored
    <3>4. 1 < letters'[Len(letters')].parts
      BY <1>6, <1>7, <2>2
    <3>5. ASSUME NEW x \in Live', LetterOf(x)' = Len(letters') PROVE PartOf(x)' <= 1
      BY <1>7, <1>8, <1>11, <3>5 DEF LetterOf, PartOf
    <3>6. pos \in Live' /\ LetterOf(pos)' = Len(letters') /\ PartOf(pos)' = 1
      BY <1>7, <1>8, <1>11 DEF LetterOf, PartOf
    <3>7. Taken' = Len(disk) - Len(free) + 1
      <4>1. Taken' = Len(disk') - Len(free')
        BY <1>6, <1>9, <1>10, <3>1, <1>4 DEF Taken, Added
      <4>2. /\ Len(disk') = Len(disk) + (IF pos \in DOMAIN disk THEN 0 ELSE 1)
            /\ Len(free') = Len(free) - (IF pos \in DOMAIN disk THEN 1 ELSE 0)
        BY <1>4, <1>9, <1>10 DEF Added
      <4>3. CASE pos \in DOMAIN disk
        BY <1>6, <4>1, <4>2, <4>3
      <4>4. CASE pos \notin DOMAIN disk
        BY <1>6, <4>1, <4>2, <4>4
      <4> QED
        BY <4>3, <4>4
    <3>8. Taken' + letters'[Len(letters')].parts - Stored' <= MaxBlocks
      BY <1>4, <1>6, <1>7, <3>3, <3>7
    <3> QED
      BY <3>2, <3>3, <3>4, <3>5, <3>6, <3>8 DEF CallInv, StoringInv
  <2> QED
    BY <2>1, <2>2
<1>18. DoneInv'
  <2>1. ASSUME NEW m, Gone(m) PROVE Gone(m)'
    <3>1. m \in DOMAIN letters /\ m # l
      BY <1>6, <2>1 DEF Gone
    <3>2. \A x \in Live' : LetterOf(x)' = m => PartOf(x)' # 1
      BY <1>8, <1>11, <2>1, <3>1 DEF Gone, LetterOf, PartOf
    <3>3. ~BeingStored(m)' /\ ~InHand(m)'
      BY <1>4, <1>7, <3>1 DEF BeingStored, InHand, Idle
    <3> QED
      BY <1>7, <3>1, <3>2, <3>3 DEF Gone
  <2> QED
    BY <1>4, <2>1 DEF DoneInv
<1>19. \A m : HasFirst(m)' <=> HasFirst(m) \/ m = l
  BY <1>8, <1>11 DEF HasFirst, LetterOf, PartOf
<1> QED
  BY <1>2, <1>12, <1>13, <1>14, <1>15, <1>16, <1>17, <1>18, <1>19 DEF MailInv

\* What is known of the call under way.
LEMMA CallIs ==
  ASSUME CallInv
  PROVE  /\ call.op = "idle" => call = Idle
         /\ call.op = "take" => TakeCall
         /\ call.op = "link" => LinkCall
         /\ call.op = "data" => DataCall
         /\ call.op = "read" => ReadCall
         /\ call.op \in {"idle", "take", "link", "data", "read"}
<1>1. call = Idle => call.op = "idle"
  BY DEF Idle
<1>2. TakeCall => call.op = "take"
  BY DEF TakeCall
<1>3. LinkCall => call.op = "link"
  BY DEF LinkCall
<1>4. DataCall => call.op = "data"
  BY DEF DataCall
<1>5. ReadCall => call.op = "read"
  BY DEF ReadCall
<1> QED
  BY <1>1, <1>2, <1>3, <1>4, <1>5 DEF CallInv

\* The letter being stored.
LEMMA StoringIs ==
  ASSUME SizesInv, CallInv, Storing
  PROVE  /\ Len(letters) \in DOMAIN letters /\ Len(letters) \in 1..MaxLetters
         /\ letters[Len(letters)].parts \in 1..MaxParts
         /\ Stored \in 1..MaxParts /\ Stored < letters[Len(letters)].parts
         /\ MaxParts \in Nat /\ MaxBlocks \in Nat /\ Len(disk) \in Nat
<1>1. Len(letters) \in Nat /\ DOMAIN letters = 1..Len(letters) /\ Len(disk) \in Nat
  BY DEF SizesInv
<1>2. MaxParts \in Nat /\ MaxLetters \in Nat /\ MaxBlocks \in Nat
  BY MailAssumption
<1>3. \E x \in Live : LetterOf(x) = Len(letters)
  BY DEF CallInv, StoringInv
<1>4. \A x \in Live : disk[x] \in Blocks
  BY DEF Live, SizesInv
<1>5. Len(letters) \in 1..MaxLetters
  BY <1>3, <1>4 DEF Blocks, LetterOf
<1>6. Len(letters) \in DOMAIN letters
  BY <1>1, <1>5
<1>7. letters[Len(letters)].parts \in 1..MaxParts
  <2>0. PICK T : T = [to : Players, parts : 1..MaxParts]
    OBVIOUS
  <2>1. Len(letters) \in 1..Len(letters) /\ letters \in Seq(T)
    BY <1>1, <1>6, <2>0 DEF SizesInv
  <2>2. letters[Len(letters)] \in T
    BY <2>1
  <2> QED
    BY <2>0, <2>2
<1>8. Stored \in 1..MaxParts
  <2>1. CASE call.op = "link"
    <3>1. call.block \in Blocks
      BY <2>1, CallIs DEF LinkCall
    <3> QED
      BY <2>1, <3>1 DEF Stored, Blocks
  <2>2. CASE call.op = "data"
    BY <2>2, CallIs DEF DataCall, Stored
  <2> QED
    BY <2>1, <2>2 DEF Storing
<1> QED
  BY <1>1, <1>2, <1>5, <1>6, <1>7, <1>8 DEF CallInv, StoringInv

\* The block before is told where the next one will be.
LEMMA StoreLinkInv ==
  ASSUME MailInv, StoreLink
  PROVE  /\ MailInv'
         /\ \A m : HasFirst(m)' <=> HasFirst(m)
<1> SizesInv /\ BlocksInv /\ LinksInv /\ FreeInv /\ IndexInv /\ CallInv /\ DoneInv
  BY DEF MailInv
<1>1. PICK pos : pos = Popped
  OBVIOUS
<1>2. PICK at : at = call.at
  OBVIOUS
<1>3. PICK block : block = [call.block EXCEPT !.next = pos]
  OBVIOUS
<1>4. /\ call.op = "link" /\ disk' = Written(at, block) /\ free' = FreeLeft
      /\ call' = [op |-> "data", text |-> call.block.text, at |-> pos]
      /\ index' = index /\ noMail' = noMail /\ letters' = letters /\ delivered' = delivered
  BY <1>1, <1>2, <1>3 DEF StoreLink
<1>5. Storing /\ Reserved = {} /\ LinkCall /\ Stored = call.block.text[2]
  BY <1>4, CallIs DEF Storing, Reserved, Stored
<1>6. /\ Len(letters) \in DOMAIN letters /\ Stored < letters[Len(letters)].parts
      /\ letters[Len(letters)].parts \in Nat /\ Stored \in Nat
      /\ MaxBlocks \in Nat /\ Len(disk) \in Nat /\ DOMAIN disk = 1..Len(disk)
      /\ Len(free) \in Nat
  <2>1. DOMAIN disk = 1..Len(disk) /\ Len(free) \in Nat
    BY DEF SizesInv, FreeInv
  <2> QED
    BY <1>5, <2>1, StoringIs
<1>7. /\ at \in Live /\ at \in DOMAIN disk /\ disk[at] = call.block /\ disk[at] \in Blocks
      /\ LetterOf(at) = Len(letters) /\ PartOf(at) = Stored
  BY <1>2, <1>5 DEF LinkCall, Live, LetterOf, PartOf, SizesInv
<1>8. Taken = Len(disk) - Len(free)
  BY <1>4, <1>6 DEF Taken
<1>9. /\ pos \in Positions /\ pos \notin Live
      /\ pos \in Deleted(disk) \/ (pos = Len(disk) + 1 /\ FreeLeft = <<>>)
      /\ FreeLeft \in Seq(Positions) /\ IsInjective(FreeLeft)
      /\ ToSet(FreeLeft) = Deleted(disk) \ {pos}
      /\ Len(FreeLeft) = Len(free) - (IF pos \in DOMAIN disk THEN 1 ELSE 0)
  <2>1. Taken + letters[Len(letters)].parts - Stored <= MaxBlocks
    BY <1>5 DEF CallInv, StoringInv
  <2>2. Len(disk) - Len(free) < MaxBlocks
    BY <1>6, <1>8, <2>1
  <2> QED
    BY <1>1, <1>5, <2>2, Popping
<1>10. block \in Blocks /\ block = [disk[at] EXCEPT !.next = pos]
  BY <1>3, <1>7, <1>9 DEF Blocks
<1>11. /\ block.next = pos /\ block.text = disk[at].text /\ block.kind = disk[at].kind
       /\ block.kind # "deleted" /\ block.kind = "header" => block.to = disk[at].to
  <2>1. disk[at].kind # "deleted"
    BY <1>7 DEF Live, Deleted
  <2> QED
    BY <1>7, <1>10, <2>1 DEF Blocks
<1>12. /\ disk' \in Seq(Blocks) /\ Len(disk') = Len(disk) /\ DOMAIN disk' = DOMAIN disk
       /\ disk'[at] = block
       /\ \A x \in DOMAIN disk \ {at} : disk'[x] = disk[x]
  <2>1. disk \in Seq(Blocks) /\ at \in 1..Len(disk) + 1
    BY <1>6, <1>7 DEF SizesInv
  <2>2. /\ Written(at, block) \in Seq(Blocks)
        /\ Len(Written(at, block)) = IF at = Len(disk) + 1 THEN Len(disk) + 1 ELSE Len(disk)
        /\ DOMAIN Written(at, block) = DOMAIN disk \union {at}
        /\ Written(at, block)[at] = block
        /\ \A x \in DOMAIN disk \ {at} : Written(at, block)[x] = disk[x]
    BY <1>10, <2>1, Writing
  <2>3. at # Len(disk) + 1 /\ DOMAIN disk \union {at} = DOMAIN disk
    BY <1>6, <1>7
  <2> QED
    BY <1>4, <2>2, <2>3
<1>13. /\ Live' = Live /\ Deleted(disk)' = Deleted(disk)
       /\ \A x \in Live : LetterOf(x)' = LetterOf(x) /\ PartOf(x)' = PartOf(x)
  BY <1>7, <1>11, <1>12 DEF Live, Deleted, LetterOf, PartOf
<1>14. SizesInv'
  BY <1>4, <1>12 DEF SizesInv
<1>15. BlocksInv'
  <2>1. ASSUME NEW x \in Live PROVE SoundBlock(x)'
    <3>1. SoundBlock(x)
      BY DEF BlocksInv
    <3>2. disk'[x].kind = disk[x].kind
      BY <1>7, <1>11, <1>12 DEF Live
    <3>3. disk[x].kind = "header" => disk'[x].to = disk[x].to
      BY <1>7, <1>11, <1>12 DEF Live
    <3> QED
      BY <1>4, <1>13, <3>1, <3>2, <3>3 DEF SoundBlock
  <2> QED
    BY <1>13, <2>1 DEF BlocksInv
<1>16. /\ Storing' /\ Stored' = Stored
  BY <1>4, <1>5 DEF Storing, Stored
<1>17. LinksInv'
  <2>1. ASSUME NEW x \in Live, x # at PROVE LinkedBlock(x)'
    <3>1. disk'[x] = disk[x]
      BY <1>12, <2>1 DEF Live
    <3>2. ~(LetterOf(x) = Len(letters) /\ PartOf(x) = Stored)
      BY <1>7, <2>1 DEF BlocksInv
    <3>3. LinkedBlock(x)
      BY DEF LinksInv
    <3>4. CASE PartOf(x) = letters[LetterOf(x)].parts
      BY <1>4, <1>13, <1>16, <3>1, <3>2, <3>3, <3>4 DEF LinkedBlock
    <3>5. CASE PartOf(x) # letters[LetterOf(x)].parts
      <4>1. Holds(disk[x].next, LetterOf(x), PartOf(x) + 1)
        BY <3>2, <3>3, <3>5 DEF LinkedBlock
      <4>2. Holds(disk[x].next, LetterOf(x), PartOf(x) + 1)'
        BY <1>13, <3>1, <4>1 DEF Holds
      <4> QED
        BY <1>4, <1>13, <1>16, <3>2, <3>5, <4>2 DEF LinkedBlock
    <3> QED
      BY <3>4, <3>5
  <2>2. LinkedBlock(at)'
    <3>1. disk'[at].next = pos /\ call'.op = "data" /\ call'.at = pos
      BY <1>4, <1>11, <1>12
    <3> QED
      BY <1>4, <1>7, <1>13, <1>16, <3>1 DEF LinkedBlock
  <2> QED
    BY <1>13, <2>1, <2>2 DEF LinksInv
<1>18. FreeInv'
  <2>1. Reserved' = {pos}
    BY <1>4 DEF Reserved
  <2> QED
    BY <1>4, <1>9, <1>13, <2>1 DEF FreeInv
<1>19. IndexInv'
  <2>1. ASSUME NEW q PROVE Headers(disk, q)' = Headers(disk, q)
    <3>1. ASSUME NEW x \in DOMAIN disk
          PROVE  /\ disk'[x].kind = disk[x].kind
                 /\ disk[x].kind = "header" => disk'[x].to = disk[x].to
      BY <1>11, <1>12
    <3> QED
      BY <1>12, <3>1 DEF Headers
  <2> QED
    BY <1>4, <2>1 DEF IndexInv
<1>20. CallInv'
  <2>1. DataCall'
    <3>1. call' \in [op : {"data"}, text : (1..MaxLetters) \X (1..MaxParts), at : Positions]
      BY <1>4, <1>7, <1>9 DEF Blocks
    <3>2. call'.text[1] = Len(letters') /\ call'.at = pos
      BY <1>4, <1>7 DEF LetterOf
    <3> QED
      BY <1>4, <1>9, <1>12, <1>13, <3>1, <3>2 DEF DataCall
  <2>2. Taken' = Len(disk) - Len(free)
    <3>1. Taken' = Len(disk) - Len(FreeLeft) - (IF pos \in DOMAIN disk THEN 1 ELSE 0)
      BY <1>4, <1>12 DEF Taken
    <3>2. CASE pos \in DOMAIN disk
      BY <1>6, <1>9, <3>1, <3>2
    <3>3. CASE pos \notin DOMAIN disk
      BY <1>6, <1>9, <3>1, <3>3
    <3> QED
      BY <3>2, <3>3
  <2>3. StoringInv'
    BY <1>4, <1>5, <1>8, <1>13, <1>16, <2>2 DEF CallInv, StoringInv
  <2> QED
    BY <2>1, <2>3 DEF CallInv
<1>21. DoneInv'
  <2>1. ASSUME NEW m, Gone(m) PROVE Gone(m)'
    BY <1>4, <1>13, <2>1 DEF Gone, BeingStored, InHand
  <2> QED
    BY <1>4, <2>1 DEF DoneInv
<1>22. \A m : HasFirst(m)' <=> HasFirst(m)
  BY <1>13 DEF HasFirst
<1> QED
  BY <1>14, <1>15, <1>17, <1>18, <1>19, <1>20, <1>21, <1>22 DEF MailInv

\* The next block is written.
LEMMA StoreDataInv ==
  ASSUME MailInv, StoreData
  PROVE  /\ MailInv'
         /\ \A m : HasFirst(m)' <=> HasFirst(m)
<1> SizesInv /\ BlocksInv /\ LinksInv /\ FreeInv /\ IndexInv /\ CallInv /\ DoneInv
  BY DEF MailInv
<1>1. PICK pos : pos = call.at
  OBVIOUS
<1>2. PICK l, i : l = Len(letters) /\ i = Stored + 1
  OBVIOUS
<1>3. PICK block : block = [kind |-> "data", next |-> LastBlock, text |-> <<l, i>>]
  OBVIOUS
<1>4. call.op = "data"
  BY DEF StoreData
<1>5. Storing /\ DataCall /\ Stored = call.text[2] /\ Reserved = {pos} /\ call.text[1] = l
  BY <1>1, <1>2, <1>4, CallIs DEF Storing, Stored, Reserved, DataCall
<1>6. /\ disk' = Written(pos, block)
      /\ call' = IF i = letters[l].parts THEN Idle
                 ELSE [op |-> "link", block |-> block, at |-> pos]
      /\ index' = index /\ free' = free /\ noMail' = noMail
      /\ letters' = letters /\ delivered' = delivered
  BY <1>1, <1>2, <1>3, <1>5 DEF StoreData
<1>7. /\ l \in DOMAIN letters /\ l \in 1..MaxLetters
      /\ letters[l].parts \in 1..MaxParts /\ Stored \in 1..MaxParts
      /\ Stored < letters[l].parts /\ MaxParts \in Nat
      /\ MaxBlocks \in Nat /\ Len(disk) \in Nat /\ DOMAIN disk = 1..Len(disk)
      /\ Len(free) \in Nat /\ disk \in Seq(Blocks) /\ Len(disk) <= MaxBlocks
  BY <1>2, <1>5, StoringIs DEF SizesInv, FreeInv
<1>8. i \in 1..MaxParts /\ i <= letters[l].parts /\ i # 1 /\ i \in 1..letters[l].parts
  BY <1>2, <1>7
<1>9. /\ block \in Blocks /\ block.kind = "data" /\ block.next = LastBlock
      /\ block.text[1] = l /\ block.text[2] = i
  BY <1>3, <1>7, <1>8 DEF Blocks
<1>10. pos \in Positions /\ pos \in 1..Len(disk) + 1 /\ pos \notin Live
  BY <1>1, <1>5, <1>7 DEF DataCall, Live, Deleted
<1>11. Added(pos, block)
  BY <1>6, <1>7, <1>9, <1>10, Adding
<1>12. /\ Live' = Live \union {pos} /\ disk'[pos] = block
       /\ \A x \in Live : LetterOf(x)' = LetterOf(x) /\ PartOf(x)' = PartOf(x)
       /\ \A x \in Live : disk'[x] = disk[x]
       /\ LetterOf(pos)' = l /\ PartOf(pos)' = i
  BY <1>9, <1>11 DEF Added, LetterOf, PartOf
<1>13. \A x \in Live : LetterOf(x) = l => PartOf(x) <= Stored /\ PartOf(x) # i
  <2>1. \A x \in Live : LetterOf(x) = l => PartOf(x) <= Stored
    BY <1>2, <1>5 DEF CallInv, StoringInv
  <2>2. \A x \in Live : PartOf(x) <= Stored => PartOf(x) # i
    BY <1>2, <1>7
  <2> QED
    BY <2>1, <2>2
<1>14. SizesInv'
  BY <1>6, <1>11 DEF SizesInv, Added
<1>15. BlocksInv'
  <2>1. SoundBlock(pos)'
    BY <1>6, <1>7, <1>8, <1>9, <1>12 DEF SoundBlock
  <2> QED
    BY <1>6, <1>9, <1>10, <1>11, <1>13, <2>1, AddedFits
<1>16. LinksInv'
  <2>1. CASE i = letters[l].parts
    <3>1. ~Storing'
      BY <1>6, <2>1 DEF Storing, Idle
    <3>2. LinkedBlock(pos)'
      BY <1>6, <1>9, <1>12, <2>1, <3>1 DEF LinkedBlock
    <3>3. ASSUME NEW x \in Live PROVE LinkedBlock(x)'
      <4>1. LinkedBlock(x)
        BY DEF LinksInv
      <4>2. CASE LetterOf(x) = l /\ PartOf(x) = Stored
        <5>1. disk[x].next = pos
          BY <1>1, <1>2, <1>4, <1>5, <4>1, <4>2 DEF LinkedBlock
        <5>2. Holds(pos, l, i)'
          BY <1>12 DEF Holds
        <5>3. PartOf(x) # letters[l].parts /\ PartOf(x) + 1 = i
          BY <1>2, <1>7, <4>2
        <5> QED
          BY <1>6, <1>12, <3>1, <4>2, <5>1, <5>2, <5>3 DEF LinkedBlock
      <4>3. CASE ~(LetterOf(x) = l /\ PartOf(x) = Stored)
        <5>1. CASE PartOf(x) = letters[LetterOf(x)].parts
          BY <1>2, <1>6, <1>12, <3>1, <4>1, <4>3, <5>1 DEF LinkedBlock
        <5>2. CASE PartOf(x) # letters[LetterOf(x)].parts
          <6>1. Holds(disk[x].next, LetterOf(x), PartOf(x) + 1)
            BY <1>2, <4>1, <4>3, <5>2 DEF LinkedBlock
          <6>2. Holds(disk[x].next, LetterOf(x), PartOf(x) + 1)'
            BY <1>12, <6>1 DEF Holds
          <6> QED
            BY <1>6, <1>12, <3>1, <5>2, <6>2 DEF LinkedBlock
        <5> QED
          BY <5>1, <5>2
      <4> QED
        BY <4>2, <4>3
    <3> QED
      BY <1>12, <3>2, <3>3 DEF LinksInv
  <2>2. CASE i # letters[l].parts
    <3>1. Storing' /\ Stored' = i /\ call'.op = "link"
      BY <1>6, <1>9, <2>2 DEF Storing, Stored
    <3>2. LinkedBlock(pos)'
      BY <1>2, <1>6, <1>9, <1>12, <3>1 DEF LinkedBlock
    <3>3. ASSUME NEW x \in Live PROVE LinkedBlock(x)'
      <4>1. LinkedBlock(x) /\ ~(LetterOf(x) = l /\ PartOf(x) = i)
        BY <1>13 DEF LinksInv
      <4>2. CASE LetterOf(x) = l /\ PartOf(x) = Stored
        <5>1. disk[x].next = pos
          BY <1>1, <1>2, <1>4, <1>5, <4>1, <4>2 DEF LinkedBlock
        <5>2. Holds(pos, l, i)'
          BY <1>12 DEF Holds
        <5>3. PartOf(x) # letters[l].parts /\ PartOf(x) + 1 = i
          BY <1>2, <1>7, <4>2
        <5> QED
          BY <1>2, <1>6, <1>12, <3>1, <4>1, <4>2, <5>1, <5>2, <5>3 DEF LinkedBlock
      <4>3. CASE ~(LetterOf(x) = l /\ PartOf(x) = Stored)
        <5>1. CASE PartOf(x) = letters[LetterOf(x)].parts
          BY <1>2, <1>6, <1>12, <3>1, <4>1, <4>3, <5>1 DEF LinkedBlock
        <5>2. CASE PartOf(x) # letters[LetterOf(x)].parts
          <6>1. Holds(disk[x].next, LetterOf(x), PartOf(x) + 1)
            BY <1>2, <4>1, <4>3, <5>2 DEF LinkedBlock
          <6>2. Holds(disk[x].next, LetterOf(x), PartOf(x) + 1)'
            BY <1>12, <6>1 DEF Holds
          <6> QED
            BY <1>2, <1>6, <1>12, <3>1, <4>1, <5>2, <6>2 DEF LinkedBlock
        <5> QED
          BY <5>1, <5>2
      <4> QED
        BY <4>2, <4>3
    <3> QED
      BY <1>12, <3>2, <3>3 DEF LinksInv
  <2> QED
    BY <2>1, <2>2
<1>17. FreeInv'
  <2>1. Reserved' = {}
    BY <1>6 DEF Reserved, Idle
  <2>2. Deleted(disk)' = Deleted(disk) \ {pos}
    BY <1>11 DEF Added
  <2> QED
    BY <1>5, <1>6, <2>1, <2>2 DEF FreeInv
<1>18. IndexInv'
  <2>1. ASSUME NEW q PROVE Headers(disk, q)' = Headers(disk, q)
    <3>1. Headers(disk, q)' = Headers(disk, q) \union
             {x \in {pos} : block.kind = "header" /\ block.to = q}
      BY <1>10, <1>11, AddedHeader
    <3> QED
      BY <1>9, <3>1
  <2> QED
    BY <1>6, <2>1 DEF IndexInv
<1>19. CallInv'
  <2>1. CASE i = letters[l].parts
    BY <1>6, <2>1 DEF CallInv, StoringInv, Storing, Idle
  <2>2. CASE i # letters[l].parts
    <3>1. call' = [op |-> "link", block |-> block, at |-> pos] /\ call'.op = "link"
      BY <1>6, <2>2
    <3>2. LinkCall'
      <4>1. call' \in [op : {"link"}, block : Blocks, at : Positions]
        BY <1>9, <1>10, <3>1
      <4>2. call'.at \in Live' /\ disk'[call'.at] = call'.block
        BY <1>12, <3>1
      <4>3. LetterOf(pos)' = Len(letters') /\ disk'[pos].next = LastBlock
        BY <1>2, <1>6, <1>9, <1>12
      <4> QED
        BY <3>1, <4>1, <4>2, <4>3 DEF LinkCall, LetterOf
    <3>3. Stored' = i
      BY <1>9, <3>1 DEF Stored
    <3>4. i < letters[l].parts
      BY <1>7, <1>8, <2>2
    <3>5. ASSUME NEW x \in Live', LetterOf(x)' = l PROVE PartOf(x)' <= i
      <4>1. CASE x = pos
        BY <1>8, <1>12, <4>1
      <4>2. CASE x # pos
        <5>1. x \in Live /\ PartOf(x)' = PartOf(x) /\ PartOf(x) <= Stored
          BY <1>12, <1>13, <3>5, <4>2
        <5>2. PartOf(x) \in Nat
          BY <5>1, <1>7 DEF Live, PartOf, Blocks
        <5> QED
          BY <1>2, <1>7, <5>1, <5>2
      <4> QED
        BY <4>1, <4>2
    <3>6. \E x \in Live' : LetterOf(x)' = l /\ PartOf(x)' = 1
      BY <1>2, <1>5, <1>12 DEF CallInv, StoringInv
    <3>7. Taken' = Taken + 1
      <4>1. Taken' = Len(disk') - Len(free)
        BY <1>6, <3>1 DEF Taken
      <4>2. Taken = Len(disk) - Len(free) - (IF pos \in DOMAIN disk THEN 1 ELSE 0)
        BY <1>1, <1>4 DEF Taken
      <4>3. Len(disk') = Len(disk) + (IF pos \in DOMAIN disk THEN 0 ELSE 1)
        BY <1>11 DEF Added
      <4>4. CASE pos \in DOMAIN disk
        BY <1>7, <4>1, <4>2, <4>3, <4>4
      <4>5. CASE pos \notin DOMAIN disk
        <5>1. Len(disk') = Len(disk) + 1
          BY <4>3, <4>5
        <5>2. Taken = Len(disk) - Len(free) - 0
          BY <4>2, <4>5
        <5> QED
          BY <1>7, <4>1, <5>1, <5>2
      <4> QED
        BY <4>4, <4>5
    <3>8. Taken' + letters[l].parts - i <= MaxBlocks
      <4>1. Taken + letters[l].parts - Stored <= MaxBlocks
        BY <1>2, <1>5 DEF CallInv, StoringInv
      <4>2. Taken \in Int
        BY <1>7 DEF Taken
      <4> QED
        BY <1>2, <1>7, <3>7, <4>1, <4>2
    <3>9. StoringInv'
      BY <1>2, <1>6, <3>3, <3>4, <3>5, <3>6, <3>8 DEF StoringInv
    <3> QED
      BY <3>2, <3>9 DEF CallInv
  <2> QED
    BY <2>1, <2>2
<1>20. DoneInv'
  <2>1. ASSUME NEW m, Gone(m) PROVE Gone(m)'
    <3>1. m # l
      BY <1>2, <1>4, <2>1 DEF Gone, BeingStored
    <3>2. \A x \in Live' : LetterOf(x)' = m => PartOf(x)' # 1
      BY <1>8, <1>12, <2>1 DEF Gone
    <3>3. ~BeingStored(m)' /\ ~InHand(m)'
      BY <1>2, <1>6, <3>1 DEF BeingStored, InHand, Idle
    <3> QED
      BY <1>6, <2>1, <3>2, <3>3 DEF Gone
  <2> QED
    BY <1>6, <2>1 DEF DoneInv
<1>21. \A m : HasFirst(m)' <=> HasFirst(m)
  BY <1>8, <1>12 DEF HasFirst
<1> QED
  BY <1>14, <1>15, <1>16, <1>17, <1>18, <1>19, <1>20, <1>21 DEF MailInv

-----------------------------------------------------------------------------
(* postmaster_receive_mail, read_delete and a restart *)

\* Where nothing is stored and nothing written, what is on file stays as it is.
LEMMA Quiet ==
  ASSUME SizesInv, BlocksInv, LinksInv, UNCHANGED <<disk, letters>>, ~Storing, ~Storing'
  PROVE  SizesInv' /\ BlocksInv' /\ LinksInv' /\ Live' = Live
<1>1. Live' = Live /\ \A x : LetterOf(x)' = LetterOf(x) /\ PartOf(x)' = PartOf(x)
  BY DEF Live, Deleted, LetterOf, PartOf
<1>2. SizesInv' /\ BlocksInv'
  BY <1>1 DEF SizesInv, BlocksInv, SoundBlock
<1>3. LinksInv'
  BY <1>1 DEF LinksInv, LinkedBlock, Holds
<1> QED
  BY <1>1, <1>2, <1>3

\* At first there is nothing.
LEMMA InitInv == Init => MailInv
<1> SUFFICES ASSUME Init PROVE MailInv
  OBVIOUS
<1>1. disk = <<>> /\ letters = <<>> /\ free = <<>> /\ delivered = <<>>
  BY DEF Init
<1>2. DOMAIN <<>> = {} /\ Len(<<>>) = 0 /\ \A S : <<>> \in Seq(S)
  OBVIOUS
<1>3. Live = {} /\ Deleted(disk) = {} /\ call = Idle
  BY <1>1, <1>2 DEF Live, Deleted, Init
<1>4. ~Storing
  BY <1>3 DEF Storing, Idle
<1>5. SizesInv
  BY <1>1, <1>2, MailAssumption DEF SizesInv
<1>6. BlocksInv /\ LinksInv
  BY <1>3 DEF BlocksInv, LinksInv
<1>7. IsInjective(<<>>) /\ ToSet(<<>>) = {}
  BY <1>2 DEF IsInjective, ToSet
<1>8. FreeInv
  BY <1>1, <1>2, <1>3, <1>7 DEF FreeInv
<1>9. IndexInv
  <2>1. \A p : Headers(disk, p) = {}
    BY <1>1, <1>2 DEF Headers
  <2> QED
    BY <1>2, <1>7, <2>1 DEF IndexInv, Init
<1>10. CallInv
  BY <1>3, <1>4 DEF CallInv, StoringInv
<1>11. DoneInv
  BY <1>1, <1>2 DEF DoneInv
<1> QED
  BY <1>5, <1>6, <1>8, <1>9, <1>10, <1>11 DEF MailInv

\* Nothing happens.
LEMMA StutterInv ==
  ASSUME MailInv, UNCHANGED vars
  PROVE  MailInv'
<1> UNCHANGED disk /\ UNCHANGED index /\ UNCHANGED free /\ UNCHANGED noMail
      /\ UNCHANGED call /\ UNCHANGED letters /\ UNCHANGED delivered
  BY DEF vars
<1>1. /\ Live' = Live /\ Deleted(disk)' = Deleted(disk) /\ Storing' = Storing
      /\ Stored' = Stored /\ Reserved' = Reserved /\ Taken' = Taken
      /\ \A x : LetterOf(x)' = LetterOf(x) /\ PartOf(x)' = PartOf(x)
      /\ \A p : Headers(disk, p)' = Headers(disk, p)
  BY DEF Live, Deleted, LetterOf, PartOf, Storing, Stored, Reserved, Taken, Headers
<1>2. SizesInv' /\ BlocksInv' /\ LinksInv' /\ FreeInv' /\ IndexInv'
  BY <1>1 DEF MailInv, SizesInv, BlocksInv, SoundBlock, LinksInv, LinkedBlock, Holds,
              FreeInv, IndexInv
<1>3. CallInv'
  BY <1>1 DEF MailInv, CallInv, StoringInv, TakeCall, LinkCall, DataCall, ReadCall, Holds
<1>4. DoneInv'
  BY <1>1 DEF MailInv, DoneInv, Gone, BeingStored, InHand
<1> QED
  BY <1>2, <1>3, <1>4 DEF MailInv

\* The recipient asks for his mail.
LEMMA ReceiveInv ==
  ASSUME MailInv, NEW p \in Players, Receive(p)
  PROVE  MailInv'
<1> SizesInv /\ BlocksInv /\ LinksInv /\ FreeInv /\ IndexInv /\ CallInv /\ DoneInv
  BY DEF MailInv
<1>1. /\ call = Idle /\ index[p] # <<>> /\ call' = [op |-> "take", to |-> p]
      /\ disk' = disk /\ index' = index /\ free' = free /\ noMail' = noMail
      /\ letters' = letters /\ delivered' = delivered
  BY DEF Receive
<1>2. ~Storing /\ ~Storing' /\ Reserved = {} /\ Reserved' = {} /\ call'.op = "take"
  BY <1>1 DEF Storing, Reserved, Idle
<1>3. SizesInv' /\ BlocksInv' /\ LinksInv' /\ Live' = Live
  BY <1>1, <1>2, Quiet
<1>4. FreeInv' /\ IndexInv'
  BY <1>1, <1>2 DEF FreeInv, IndexInv, Deleted, Headers
<1>5. CallInv'
  <2>1. TakeCall'
    BY <1>1 DEF TakeCall
  <2> QED
    BY <1>2, <2>1 DEF CallInv, StoringInv
<1>6. DoneInv'
  <2>1. ASSUME NEW m, Gone(m) PROVE Gone(m)'
    BY <1>1, <1>2, <1>3, <2>1 DEF Gone, BeingStored, InHand, LetterOf, PartOf
  <2> QED
    BY <1>1, <2>1 DEF DoneInv
<1> QED
  BY <1>3, <1>4, <1>5, <1>6 DEF MailInv

\* A header's letter, and what follows it.
LEMMA HeaderIs ==
  ASSUME SizesInv, BlocksInv, NEW p, NEW pos \in Headers(disk, p)
  PROVE  /\ pos \in Live /\ pos \in DOMAIN disk /\ disk[pos] \in Blocks
         /\ disk[pos].kind = "header" /\ disk[pos].to = p
         /\ PartOf(pos) = 1 /\ LetterOf(pos) \in DOMAIN letters
         /\ letters[LetterOf(pos)].to = p
         /\ disk[pos].text = <<LetterOf(pos), 1>>
<1>1. pos \in Live /\ pos \in DOMAIN disk /\ disk[pos].kind = "header" /\ disk[pos].to = p
  BY DEF Headers, Live, Deleted
<1>2. disk[pos] \in Blocks
  BY <1>1 DEF SizesInv
<1>3. SoundBlock(pos)
  BY <1>1 DEF BlocksInv
<1>4. PartOf(pos) = 1
  BY <1>1, <1>3 DEF SoundBlock
<1>5. disk[pos].text \in (1..MaxLetters) \X (1..MaxParts)
  BY <1>2 DEF Blocks
<1>6. disk[pos].text = <<LetterOf(pos), PartOf(pos)>>
  BY <1>5 DEF LetterOf, PartOf
<1> QED
  BY <1>1, <1>2, <1>3, <1>4, <1>6 DEF SoundBlock

\* Taking the first part that is left of a letter leaves the links of the others.
LEMMA TakingLinks ==
  ASSUME SizesInv, BlocksInv, LinksInv, ~Storing, ~Storing', UNCHANGED letters,
         NEW pos \in Live, Live' = Live \ {pos},
         \A x \in Live \ {pos} : disk'[x] = disk[x],
         \A x \in Live : LetterOf(x) = LetterOf(pos) => PartOf(x) >= PartOf(pos)
  PROVE  LinksInv'
<1> SUFFICES ASSUME NEW x \in Live \ {pos} PROVE LinkedBlock(x)'
  BY DEF LinksInv
<1>1. disk'[x] = disk[x] /\ LetterOf(x)' = LetterOf(x) /\ PartOf(x)' = PartOf(x)
  BY DEF LetterOf, PartOf
<1>2. LinkedBlock(x)
  BY DEF LinksInv
<1>3. CASE PartOf(x) = letters[LetterOf(x)].parts
  BY <1>1, <1>2, <1>3 DEF LinkedBlock
<1>4. CASE PartOf(x) # letters[LetterOf(x)].parts
  <2>1. Holds(disk[x].next, LetterOf(x), PartOf(x) + 1)
    BY <1>2, <1>4 DEF LinkedBlock
  <2>2. disk[x].next # pos
    <3>1. disk[x] \in Blocks
      BY DEF Live, SizesInv
    <3>2. PartOf(x) \in Nat
      BY <3>1 DEF PartOf, Blocks
    <3> QED
      BY <2>1, <3>2 DEF Holds
  <2>3. Holds(disk[x].next, LetterOf(x), PartOf(x) + 1)'
    BY <1>1, <2>1, <2>2 DEF Holds, LetterOf, PartOf
  <2> QED
    BY <1>1, <1>4, <2>3 DEF LinkedBlock
<1> QED
  BY <1>3, <1>4

\* The header is taken.
LEMMA TakeHeaderInv ==
  ASSUME MailInv, TakeHeader
  PROVE  /\ MailInv'
         /\ ~Storing /\ ~Storing' /\ call.op = "take" /\ call'.op = "read"
         /\ \A m : HasFirst(m) <=> HasFirst(m)' \/ m = call'.text[1][1]
<1> SizesInv /\ BlocksInv /\ LinksInv /\ FreeInv /\ IndexInv /\ CallInv /\ DoneInv
  BY DEF MailInv
<1>1. PICK p : p = call.to
  OBVIOUS
<1>2. PICK pos : pos = index[p][Len(index[p])]
  OBVIOUS
<1>3. call.op = "take" /\ ~Storing /\ Reserved = {} /\ p \in Players /\ index[p] # <<>>
  <2>1. call.op = "take"
    BY DEF TakeHeader
  <2> QED
    BY <1>1, <2>1, CallIs DEF TakeCall, Storing, Reserved
<1>4. /\ Front(index[p]) \in Seq(Positions) /\ IsInjective(Front(index[p]))
      /\ pos \in ToSet(index[p])
      /\ ToSet(Front(index[p])) = ToSet(index[p]) \ {pos}
  <2>1. index[p] \in Seq(Positions) /\ IsInjective(index[p])
    BY <1>3 DEF IndexInv
  <2> QED
    BY <1>2, <1>3, <2>1, FrontProperties
<1>5. pos \in Headers(disk, p) /\ pos \in Positions
  <2>1. index[p] \in Seq(Positions) /\ ToSet(index[p]) = Headers(disk, p)
    BY <1>3 DEF IndexInv
  <2> QED
    BY <1>4, <2>1 DEF ToSet
<1>6. PICK l : l = LetterOf(pos)
  OBVIOUS
<1>7. /\ pos \in Live /\ pos \in DOMAIN disk /\ disk[pos] \in Blocks
      /\ disk[pos].kind = "header" /\ disk[pos].to = p
      /\ PartOf(pos) = 1 /\ l \in DOMAIN letters /\ letters[l].to = p
      /\ disk[pos].text = <<l, 1>>
  BY <1>5, <1>6, HeaderIs
<1>8. /\ index' = [index EXCEPT ![p] = Front(@)]
      /\ noMail' = noMail
      /\ disk' = Written(pos, [disk[pos] EXCEPT !.kind = "deleted"])
      /\ free' = <<pos>> \o free
      /\ call' = [op |-> "read", to |-> p, at |-> disk[pos].next,
                  text |-> <<disk[pos].text>>, buffer |-> Unset]
      /\ letters' = letters /\ delivered' = delivered
  BY <1>1, <1>2, <1>7 DEF TakeHeader, IndexInv
<1>9. ~Storing' /\ Reserved' = {} /\ call'.op = "read"
  BY <1>8 DEF Storing, Reserved
<1>10. /\ SizesInv' /\ BlocksInv'
       /\ DOMAIN disk' = DOMAIN disk
       /\ Live' = Live \ {pos} /\ \A x \in Live \ {pos} : disk'[x] = disk[x]
       /\ Deleted(disk)' = Deleted(disk) \union {pos}
       /\ \A q : Headers(disk, q)' = Headers(disk, q) \ {pos}
  BY <1>7, <1>8, Deleting
<1>11. \A x \in Live \ {pos} : LetterOf(x)' = LetterOf(x) /\ PartOf(x)' = PartOf(x)
  BY <1>10 DEF LetterOf, PartOf
<1>12. \A x \in Live : PartOf(x) >= 1 /\ PartOf(x) \in Nat
  <2>1. \A x \in Live : disk[x] \in Blocks
    BY DEF Live, SizesInv
  <2> QED
    BY <2>1 DEF PartOf, Blocks
<1>13. LinksInv'
  BY <1>3, <1>7, <1>8, <1>9, <1>10, <1>12, TakingLinks
<1>14. FreeInv'
  <2>1. pos \notin ToSet(free)
    BY <1>7 DEF FreeInv, Live
  <2>2. free \in Seq(Positions) /\ IsInjective(free)
    BY DEF FreeInv
  <2>3. /\ <<pos>> \o free \in Seq(Positions) /\ IsInjective(<<pos>> \o free)
        /\ ToSet(<<pos>> \o free) = ToSet(free) \union {pos}
    BY <1>5, <2>1, <2>2, PuttingFirst
  <2>4. ToSet(free) = Deleted(disk)
    BY <1>3 DEF FreeInv
  <2> QED
    BY <1>8, <1>9, <1>10, <2>3, <2>4 DEF FreeInv
<1>15. IndexInv'
  <2>1. ASSUME NEW q \in Players
        PROVE  /\ index'[q] \in Seq(Positions) /\ IsInjective(index'[q])
               /\ ToSet(index'[q]) = Headers(disk, q)'
    <3>1. index[q] \in Seq(Positions) /\ IsInjective(index[q]) /\ ToSet(index[q]) = Headers(disk, q)
      BY DEF IndexInv
    <3>2. CASE q = p
      <4>1. index'[q] = Front(index[p])
        BY <1>8, <3>2 DEF IndexInv
      <4> QED
        BY <1>4, <1>10, <3>1, <3>2, <4>1
    <3>3. CASE q # p
      <4>1. index'[q] = index[q]
        BY <1>8, <3>3 DEF IndexInv
      <4>2. pos \notin Headers(disk, q)
        BY <1>7, <3>3 DEF Headers
      <4> QED
        BY <1>10, <3>1, <4>1, <4>2
    <3> QED
      BY <3>2, <3>3
  <2>2. index' \in [Players -> Seq(Positions)]
    <3>1. DOMAIN index' = Players /\ index' = [q \in Players |-> index'[q]]
      BY <1>8 DEF IndexInv
    <3> QED
      BY <2>1, <3>1
  <2> QED
    BY <1>8, <2>1, <2>2 DEF IndexInv
<1>16. CallInv'
  <2>0. PICK y : y = disk[pos].next
    OBVIOUS
  <2>1. call' \in [op : {"read"}, to : Players, at : Positions \union {LastBlock},
                   text : Seq((1..MaxLetters) \X (1..MaxParts)), buffer : Blocks \union {Unset}]
    <3>1. PICK T : T = (1..MaxLetters) \X (1..MaxParts)
      OBVIOUS
    <3>2. disk[pos].text \in T /\ disk[pos].next \in Positions \union {LastBlock}
      BY <1>7, <3>1 DEF Blocks
    <3>3. <<disk[pos].text>> \in Seq(T)
      BY <3>2
    <3> QED
      BY <1>3, <1>8, <3>1, <3>2, <3>3
  <2>2. /\ call'.to = p /\ call'.at = disk[pos].next
        /\ Len(call'.text) = 1 /\ call'.text[1] = <<l, 1>> /\ call'.text[1][1] = l
    BY <1>7, <1>8
  <2>3. ASSUME NEW x \in Live', LetterOf(x)' = l PROVE PartOf(x)' > 1
    <3>1. x \in Live /\ x # pos /\ LetterOf(x) = l
      BY <1>10, <1>11, <2>3
    <3>2. PartOf(x) # 1
      BY <1>6, <1>7, <3>1 DEF BlocksInv
    <3> QED
      BY <1>10, <1>11, <1>12, <2>3, <3>2
  <2>4. IF 1 = letters[l].parts THEN y = LastBlock ELSE Holds(y, l, 2)'
    <3>1. LinkedBlock(pos)
      BY <1>7 DEF LinksInv
    <3>2. ASSUME 1 # letters[l].parts PROVE Holds(y, l, 2)'
      <4>1. Holds(y, l, 2)
        BY <1>3, <1>6, <1>7, <2>0, <3>1, <3>2 DEF LinkedBlock
      <4>2. y # pos
        BY <1>7, <4>1 DEF Holds
      <4> QED
        BY <1>10, <1>11, <4>1, <4>2 DEF Holds
    <3> QED
      BY <1>3, <1>6, <1>7, <2>0, <3>1, <3>2 DEF LinkedBlock
  <2>5. letters[l].parts >= 1
    <3>1. LetterOf(pos) \in DOMAIN letters /\ PartOf(pos) \in 1..letters[LetterOf(pos)].parts
      BY <1>7 DEF BlocksInv, SoundBlock
    <3> QED
      BY <1>6, <1>7, <3>1
  <2>6. ReadCall'
    <3>1. \A j \in 1..Len(call'.text) : call'.text[j] = <<l, j>>
      BY <2>2
    <3> QED
      BY <1>7, <1>8, <2>0, <2>1, <2>2, <2>3, <2>4, <2>5, <3>1 DEF ReadCall
  <2> QED
    BY <1>9, <2>6 DEF CallInv, StoringInv
<1>17. DoneInv'
  <2>1. ASSUME NEW m, Gone(m) PROVE Gone(m)'
    <3>1. m # l
      BY <1>6, <1>7, <2>1 DEF Gone
    <3>2. ~BeingStored(m)' /\ ~InHand(m)'
      BY <1>7, <1>8, <3>1 DEF BeingStored, InHand
    <3> QED
      BY <1>8, <1>10, <1>11, <2>1, <3>2 DEF Gone
  <2> QED
    BY <1>8, <2>1 DEF DoneInv
<1>18. \A m : HasFirst(m) <=> HasFirst(m)' \/ m = call'.text[1][1]
  <2>1. call'.text[1][1] = l
    BY <1>7, <1>8
  <2>2. \A m : HasFirst(m) <=> HasFirst(m)' \/ m = l
    BY <1>6, <1>7, <1>10, <1>11 DEF HasFirst
  <2> QED
    BY <2>1, <2>2
<1> QED
  BY <1>3, <1>9, <1>10, <1>13, <1>14, <1>15, <1>16, <1>17, <1>18 DEF MailInv

\* A further block is taken.
LEMMA ReadBlockInv ==
  ASSUME MailInv, ReadBlock
  PROVE  /\ MailInv'
         /\ ~Storing /\ ~Storing' /\ call.op = "read" /\ call'.op = "read"
         /\ call'.text[1][1] = call.text[1][1]
         /\ \A m : HasFirst(m)' <=> HasFirst(m)
<1> SizesInv /\ BlocksInv /\ LinksInv /\ FreeInv /\ IndexInv /\ CallInv /\ DoneInv
  BY DEF MailInv
<1>1. PICK pos : pos = call.at
  OBVIOUS
<1>2. PICK l, i : l = call.text[1][1] /\ i = Len(call.text)
  OBVIOUS
<1>3. call.op = "read" /\ pos # LastBlock /\ ~Storing /\ Reserved = {} /\ ReadCall
  <2>1. call.op = "read"
    BY DEF ReadBlock
  <2> QED
    BY <1>1, <2>1, CallIs DEF ReadBlock, Storing, Reserved
<1>4. /\ l \in DOMAIN letters /\ letters[l].to = call.to /\ i <= letters[l].parts
      /\ i \in Nat /\ i # 0 /\ letters[l].parts \in Nat
      /\ \A j \in 1..i : call.text[j] = <<l, j>>
      /\ \A x \in Live : LetterOf(x) = l => PartOf(x) > i
      /\ i # letters[l].parts /\ Holds(pos, l, i + 1)
      /\ call.text \in Seq((1..MaxLetters) \X (1..MaxParts)) /\ call.to \in Players
  <2>1. /\ l \in DOMAIN letters /\ letters[l].to = call.to /\ i <= letters[l].parts
        /\ i # 0
        /\ \A j \in 1..i : call.text[j] = <<l, j>>
        /\ \A x \in Live : LetterOf(x) = l => PartOf(x) > i
        /\ IF i = letters[l].parts THEN pos = LastBlock ELSE Holds(pos, l, i + 1)
    BY <1>1, <1>2, <1>3 DEF ReadCall
  <2>2. call.text \in Seq((1..MaxLetters) \X (1..MaxParts)) /\ call.to \in Players
    BY <1>3 DEF ReadCall
  <2>3. i \in Nat
    <3>1. PICK T : T = (1..MaxLetters) \X (1..MaxParts)
      OBVIOUS
    <3> QED
      BY <1>2, <2>2, <3>1
  <2>4. letters[l].parts \in Nat
    <3>1. PICK T : T = [to : Players, parts : 1..MaxParts]
      OBVIOUS
    <3>2. letters \in Seq(T)
      BY <3>1 DEF SizesInv
    <3>3. letters[l] \in T
      BY <2>1, <3>2
    <3> QED
      BY <3>1, <3>3
  <2> QED
    BY <1>3, <2>1, <2>2, <2>3, <2>4
<1>5. /\ pos \in Live /\ pos \in DOMAIN disk /\ disk[pos] \in Blocks /\ pos \in Positions
      /\ LetterOf(pos) = l /\ PartOf(pos) = i + 1 /\ disk[pos].kind = "data"
  <2>1. pos \in Live /\ LetterOf(pos) = l /\ PartOf(pos) = i + 1
    BY <1>4 DEF Holds
  <2>2. SoundBlock(pos) /\ i + 1 # 1
    BY <1>4, <2>1 DEF BlocksInv
  <2>3. pos \in DOMAIN disk /\ disk[pos] \in Blocks
    BY <2>1 DEF Live, SizesInv
  <2>4. pos \in Positions
    BY <1>1, <1>3 DEF ReadCall
  <2> QED
    BY <2>1, <2>2, <2>3, <2>4 DEF SoundBlock
<1>6. PICK next : next = disk[pos].next
  OBVIOUS
<1>7. PICK mark : mark = [disk[pos] EXCEPT !.kind = "deleted"]
  OBVIOUS
<1>8. /\ disk' = Written(pos, mark) /\ free' = <<pos>> \o free
      /\ call' = [call EXCEPT !.at = next, !.text = Append(@, disk[pos].text), !.buffer = mark]
      /\ noMail' = noMail /\ index' = index /\ letters' = letters /\ delivered' = delivered
  <2>1. Seen(call.at, call.buffer) = {disk[pos]}
    <3>1. DOMAIN disk = 1..Len(disk)
      BY DEF SizesInv
    <3> QED
      BY <1>1, <1>5, <3>1 DEF Seen
  <2>2. pos # Bad
    BY <1>5, MailAssumption DEF Positions, Bad
  <2>3. LinkOf(disk[pos]) = next
    BY <1>5, <1>6 DEF LinkOf
  <2> QED
    BY <1>1, <1>7, <2>1, <2>2, <2>3 DEF ReadBlock
<1>9. /\ call'.op = "read" /\ call'.to = call.to /\ call'.at = next
      /\ call'.text = Append(call.text, disk[pos].text) /\ call'.buffer = mark
      /\ DOMAIN call' = DOMAIN call
  BY <1>3, <1>8 DEF ReadCall
<1>10. ~Storing' /\ Reserved' = {}
  BY <1>9 DEF Storing, Reserved
<1>11. /\ SizesInv' /\ BlocksInv'
       /\ DOMAIN disk' = DOMAIN disk
       /\ Live' = Live \ {pos} /\ \A x \in Live \ {pos} : disk'[x] = disk[x]
       /\ Deleted(disk)' = Deleted(disk) \union {pos}
       /\ \A q : Headers(disk, q)' = Headers(disk, q) \ {pos}
  BY <1>5, <1>7, <1>8, Deleting
<1>12. \A x \in Live \ {pos} : LetterOf(x)' = LetterOf(x) /\ PartOf(x)' = PartOf(x)
  BY <1>11 DEF LetterOf, PartOf
<1>13. \A x \in Live : PartOf(x) \in Nat
  <2>1. \A x \in Live : disk[x] \in Blocks
    BY DEF Live, SizesInv
  <2> QED
    BY <2>1 DEF PartOf, Blocks
<1>14. LinksInv'
  <2>1. \A x \in Live : LetterOf(x) = LetterOf(pos) => PartOf(x) >= PartOf(pos)
    BY <1>4, <1>5, <1>13
  <2> QED
    BY <1>3, <1>5, <1>8, <1>10, <1>11, <2>1, TakingLinks
<1>15. FreeInv'
  <2>1. pos \notin ToSet(free)
    BY <1>5 DEF FreeInv, Live
  <2>2. free \in Seq(Positions) /\ IsInjective(free)
    BY DEF FreeInv
  <2>3. /\ <<pos>> \o free \in Seq(Positions) /\ IsInjective(<<pos>> \o free)
        /\ ToSet(<<pos>> \o free) = ToSet(free) \union {pos}
    BY <1>5, <2>1, <2>2, PuttingFirst
  <2>4. ToSet(free) = Deleted(disk)
    BY <1>3 DEF FreeInv
  <2> QED
    BY <1>8, <1>10, <1>11, <2>3, <2>4 DEF FreeInv
<1>16. IndexInv'
  <2>1. ASSUME NEW q PROVE Headers(disk, q)' = Headers(disk, q)
    <3>1. pos \notin Headers(disk, q)
      BY <1>5 DEF Headers
    <3> QED
      BY <1>11, <3>1
  <2> QED
    BY <1>8, <2>1 DEF IndexInv
<1>17. /\ Len(call'.text) = i + 1 /\ call'.text[1][1] = l
       /\ \A j \in 1..i + 1 : call'.text[j] = <<l, j>>
       /\ call'.text \in Seq((1..MaxLetters) \X (1..MaxParts))
  <2>1. PICK T : T = (1..MaxLetters) \X (1..MaxParts)
    OBVIOUS
  <2>2. disk[pos].text \in T /\ disk[pos].text = <<l, i + 1>>
    <3>1. disk[pos].text \in (1..MaxLetters) \X (1..MaxParts)
      BY <1>5 DEF Blocks
    <3>2. disk[pos].text = <<LetterOf(pos), PartOf(pos)>>
      BY <3>1 DEF LetterOf, PartOf
    <3> QED
      BY <1>5, <2>1, <3>1, <3>2
  <2>3. call.text \in Seq(T)
    BY <1>4, <2>1
  <2>4. /\ Append(call.text, disk[pos].text) \in Seq(T)
        /\ Len(Append(call.text, disk[pos].text)) = Len(call.text) + 1
        /\ Append(call.text, disk[pos].text)[Len(call.text) + 1] = disk[pos].text
        /\ \A j \in 1..Len(call.text) :
             Append(call.text, disk[pos].text)[j] = call.text[j]
    BY <2>2, <2>3, AppendProperties
  <2>5. \A j \in 1..i + 1 : call'.text[j] = <<l, j>>
    <3>1. ASSUME NEW j \in 1..i PROVE call'.text[j] = <<l, j>>
      BY <1>2, <1>4, <1>9, <2>4
    <3>2. call'.text[i + 1] = <<l, i + 1>>
      BY <1>2, <1>9, <2>2, <2>4
    <3>3. \A j \in 1..i + 1 : j \in 1..i \/ j = i + 1
      BY <1>4
    <3> QED
      BY <3>1, <3>2, <3>3
  <2>6. call'.text[1][1] = l
    <3>1. 1 \in 1..i + 1
      BY <1>4
    <3>2. call'.text[1] = <<l, 1>>
      BY <2>5, <3>1
    <3> QED
      BY <3>2
  <2>7. Len(call'.text) = i + 1 /\ call'.text \in Seq(T)
    BY <1>2, <1>9, <2>4
  <2> QED
    BY <2>1, <2>5, <2>6, <2>7
<1>18. CallInv'
  <2>1. IF i + 1 = letters[l].parts THEN next = LastBlock ELSE Holds(next, l, i + 1 + 1)'
    <3>1. LinkedBlock(pos)
      BY <1>5 DEF LinksInv
    <3>2. ASSUME i + 1 # letters[l].parts PROVE Holds(next, l, i + 1 + 1)'
      <4>1. Holds(next, l, i + 1 + 1)
        BY <1>3, <1>5, <1>6, <3>1, <3>2 DEF LinkedBlock
      <4>2. next # pos
        BY <1>4, <1>5, <4>1 DEF Holds
      <4> QED
        BY <1>11, <1>12, <4>1, <4>2 DEF Holds
    <3> QED
      BY <1>3, <1>5, <1>6, <3>1, <3>2 DEF LinkedBlock
  <2>2. ASSUME NEW x \in Live', LetterOf(x)' = l PROVE PartOf(x)' > i + 1
    <3>1. x \in Live /\ x # pos /\ LetterOf(x) = l /\ PartOf(x)' = PartOf(x)
      BY <1>11, <1>12, <2>2
    <3>2. PartOf(x) # i + 1
      BY <1>5, <3>1 DEF BlocksInv
    <3> QED
      BY <1>4, <1>13, <3>1, <3>2
  <2>3. i + 1 <= letters[l].parts
    BY <1>4
  <2>4. call' \in [op : {"read"}, to : Players, at : Positions \union {LastBlock},
                   text : Seq((1..MaxLetters) \X (1..MaxParts)), buffer : Blocks \union {Unset}]
    <3>1. PICK T : T = Seq((1..MaxLetters) \X (1..MaxParts))
      OBVIOUS
    <3>2. PICK B : B = Blocks \union {Unset}
      OBVIOUS
    <3>3. call \in [op : {"read"}, to : Players, at : Positions \union {LastBlock},
                    text : T, buffer : B]
      BY <1>3, <3>1, <3>2 DEF ReadCall
    <3>4. mark \in B /\ next \in Positions \union {LastBlock}
      BY <1>5, <1>6, <1>7, <3>2 DEF Blocks
    <3>5. Append(call.text, disk[pos].text) \in T
      BY <1>9, <1>17, <3>1
    <3>6. call' \in [op : {"read"}, to : Players, at : Positions \union {LastBlock},
                     text : T, buffer : B]
      BY <1>8, <3>3, <3>4, <3>5
    <3> QED
      BY <3>1, <3>2, <3>6
  <2>5. ReadCall'
    <3>1. PICK k : k = i + 1
      OBVIOUS
    <3>2. /\ Len(call'.text) = k /\ k # 0 /\ k <= letters[l].parts
          /\ call'.text[1][1] = l /\ \A j \in 1..k : call'.text[j] = <<l, j>>
      <4>1. k # 0
        BY <1>4, <3>1
      <4> QED
        BY <1>17, <2>3, <3>1, <4>1
    <3>3. \A x \in Live' : LetterOf(x)' = l => PartOf(x)' > k
      BY <2>2, <3>1
    <3>4. IF k = letters[l].parts THEN next = LastBlock ELSE Holds(next, l, k + 1)'
      BY <2>1, <3>1
    <3> QED
      BY <1>4, <1>8, <1>9, <2>4, <3>2, <3>3, <3>4 DEF ReadCall
  <2> QED
    BY <1>10, <2>5 DEF CallInv, StoringInv
<1>19. DoneInv'
  <2>1. ASSUME NEW m, Gone(m) PROVE Gone(m)'
    <3>1. ~BeingStored(m)' /\ ~InHand(m)'
      BY <1>2, <1>3, <1>9, <1>17, <2>1 DEF Gone, BeingStored, InHand
    <3> QED
      BY <1>8, <1>11, <1>12, <2>1, <3>1 DEF Gone
  <2> QED
    BY <1>8, <2>1 DEF DoneInv
<1>20. \A m : HasFirst(m)' <=> HasFirst(m)
  <2>1. PartOf(pos) # 1
    BY <1>4, <1>5
  <2> QED
    BY <1>5, <1>11, <1>12, <2>1 DEF HasFirst
<1> QED
  BY <1>2, <1>3, <1>9, <1>10, <1>11, <1>14, <1>15, <1>16, <1>17, <1>18, <1>19, <1>20
     DEF MailInv

\* A letter that has been read whole.
LEMMA HandingOver ==
  ASSUME MailInv, HandOver
  PROVE  /\ ReadCall /\ call.op = "read" /\ ~Storing
         /\ Len(call.text) = letters[call.text[1][1]].parts
         /\ \A x \in Live : LetterOf(x) = call.text[1][1] => PartOf(x) # 1
         /\ call.text[1][1] \in DOMAIN letters
<1> CallInv /\ SizesInv
  BY DEF MailInv
<1>1. call.op = "read" /\ call.at = LastBlock /\ ReadCall /\ ~Storing
  BY CallIs DEF HandOver, Storing
<1>2. PICK l, i : l = call.text[1][1] /\ i = Len(call.text)
  OBVIOUS
<1>3. /\ \A x \in Live : LetterOf(x) = l => PartOf(x) > i
      /\ IF i = letters[l].parts THEN call.at = LastBlock ELSE Holds(call.at, l, i + 1)
      /\ i # 0 /\ l \in DOMAIN letters
  BY <1>1, <1>2 DEF ReadCall
<1>4. call.at \notin Live
  <2>1. \A x \in Live : x \in 1..Len(disk)
    BY DEF Live, SizesInv
  <2> QED
    BY <1>1, <2>1 DEF LastBlock
<1>5. i \in Nat
  <2>1. PICK T : T = (1..MaxLetters) \X (1..MaxParts)
    OBVIOUS
  <2>2. call.text \in Seq(T)
    BY <1>1, <2>1 DEF ReadCall
  <2> QED
    BY <1>2, <2>2
<1>6. \A x \in Live : PartOf(x) \in Nat
  <2>1. \A x \in Live : disk[x] \in Blocks
    BY DEF Live, SizesInv
  <2> QED
    BY <2>1 DEF PartOf, Blocks
<1>7. i = letters[l].parts
  BY <1>3, <1>4 DEF Holds
<1>8. \A x \in Live : LetterOf(x) = l => PartOf(x) # 1
  BY <1>3, <1>5, <1>6
<1> QED
  BY <1>1, <1>2, <1>3, <1>7, <1>8

\* The letter is handed over.
LEMMA HandOverInv ==
  ASSUME MailInv, HandOver
  PROVE  MailInv'
<1> SizesInv /\ BlocksInv /\ LinksInv /\ FreeInv /\ IndexInv /\ CallInv /\ DoneInv
  BY DEF MailInv
<1>1. PICK l : l = call.text[1][1]
  OBVIOUS
<1>2. PICK letter : letter = [to |-> call.to, text |-> call.text]
  OBVIOUS
<1>3. /\ ReadCall /\ call.op = "read" /\ ~Storing /\ l \in DOMAIN letters
      /\ \A x \in Live : LetterOf(x) = l => PartOf(x) # 1
      /\ call.to \in Players
  BY <1>1, HandingOver DEF ReadCall
<1>4. /\ delivered' = Append(delivered, letter)
      /\ call' = IF index[call.to] = <<>> THEN Idle ELSE [op |-> "take", to |-> call.to]
      /\ disk' = disk /\ index' = index /\ free' = free /\ noMail' = noMail /\ letters' = letters
  BY <1>2 DEF HandOver
<1>5. /\ ~Storing' /\ Reserved = {} /\ Reserved' = {} /\ call'.op \in {"idle", "take"}
  BY <1>3, <1>4 DEF Storing, Reserved, Idle
<1>6. SizesInv' /\ BlocksInv' /\ LinksInv' /\ Live' = Live
  BY <1>3, <1>4, <1>5, Quiet
<1>7. FreeInv' /\ IndexInv'
  BY <1>4, <1>5 DEF FreeInv, IndexInv, Deleted, Headers
<1>8. CallInv'
  <2>1. call' = Idle \/ TakeCall'
    BY <1>3, <1>4 DEF TakeCall
  <2> QED
    BY <1>5, <2>1 DEF CallInv, StoringInv
<1>9. DoneInv'
  <2>1. \A x : LetterOf(x)' = LetterOf(x) /\ PartOf(x)' = PartOf(x)
    BY <1>4 DEF LetterOf, PartOf
  <2>2. \A m : ~BeingStored(m)' /\ ~InHand(m)'
    BY <1>5 DEF BeingStored, InHand
  <2>3. ASSUME NEW m, Gone(m) \/ m = l PROVE Gone(m)'
    BY <1>3, <1>4, <1>6, <2>1, <2>2, <2>3 DEF Gone
  <2>4. PICK T : T = [to : Players, text : Seq((1..MaxLetters) \X (1..MaxParts))]
    OBVIOUS
  <2>5. letter \in T /\ letter.text[1][1] = l
    <3>1. PICK S : S = Seq((1..MaxLetters) \X (1..MaxParts))
      OBVIOUS
    <3>2. call.text \in S
      BY <1>3, <3>1 DEF ReadCall
    <3> QED
      BY <1>1, <1>2, <1>3, <2>4, <3>1, <3>2
  <2>6. delivered \in Seq(T)
    BY <2>4 DEF DoneInv
  <2>7. /\ Append(delivered, letter) \in Seq(T)
        /\ Len(Append(delivered, letter)) = Len(delivered) + 1
        /\ Append(delivered, letter)[Len(delivered) + 1] = letter
        /\ \A j \in 1..Len(delivered) : Append(delivered, letter)[j] = delivered[j]
    BY <2>5, <2>6, AppendProperties
  <2>8. ASSUME NEW j \in DOMAIN delivered' PROVE Gone(delivered[j].text[1][1])'
    <3>1. /\ j \in 1..Len(delivered) \/ j = Len(delivered) + 1
          /\ DOMAIN delivered = 1..Len(delivered)
      <4>1. Len(delivered) \in Nat /\ DOMAIN delivered = 1..Len(delivered)
        BY <2>6
      <4>2. j \in 1..Len(delivered) + 1
        BY <1>4, <2>7
      <4> QED
        BY <4>1, <4>2
    <3>2. PICK m : m = delivered'[j].text[1][1]
      OBVIOUS
    <3>3. Gone(m) \/ m = l
      BY <1>4, <2>5, <2>7, <3>1, <3>2 DEF DoneInv
    <3>4. Gone(m)'
      BY <2>3, <3>3
    <3> QED
      BY <3>2, <3>4
  <2>9. delivered' \in Seq(T)
    BY <1>4, <2>7
  <2> QED
    BY <2>4, <2>8, <2>9 DEF DoneInv
<1> QED
  BY <1>6, <1>7, <1>8, <1>9 DEF MailInv

\* The server stops anywhere but in store_mail, and finds what there is.
LEMMA RestartInv ==
  ASSUME "storing" \notin Stops, MailInv, Restart
  PROVE  MailInv'
<1> SizesInv /\ BlocksInv /\ LinksInv /\ FreeInv /\ IndexInv /\ CallInv /\ DoneInv
  BY DEF MailInv
<1>1. /\ index' = ScannedIndex(disk) /\ free' = ScannedFree(disk)
      /\ noMail' = FALSE /\ call' = Idle
      /\ disk' = disk /\ letters' = letters /\ delivered' = delivered
  BY DEF Restart
<1>2. ~Storing /\ ~Storing' /\ Reserved' = {} /\ call'.op = "idle"
  <2>1. Doing # "storing"
    BY DEF Restart
  <2>2. call = Idle => call.op = "idle"
    BY DEF Idle
  <2> QED
    BY <1>1, <2>1, <2>2 DEF Doing, Storing, Reserved, Idle
<1>3. SizesInv' /\ BlocksInv' /\ LinksInv' /\ Live' = Live
  BY <1>1, <1>2, Quiet
<1>4. ASSUME NEW wanted, wanted \subseteq DOMAIN disk
      PROVE  /\ Scan(disk, wanted) \in Seq(Positions) /\ IsInjective(Scan(disk, wanted))
             /\ ToSet(Scan(disk, wanted)) = wanted
  <2>1. disk \in Seq(Blocks) /\ DOMAIN disk = 1..Len(disk) /\ Len(disk) \in Nat
        /\ Len(disk) <= MaxBlocks /\ MaxBlocks \in Nat
    BY MailAssumption DEF SizesInv
  <2>2. PICK s : s = Scan(disk, wanted)
    OBVIOUS
  <2>3. s \in Seq(Nat) /\ IsInjective(s) /\ ToSet(s) = wanted
    BY <1>4, <2>1, <2>2, ScanProperties
  <2>4. \A j \in 1..Len(s) : s[j] \in Positions
    BY <1>4, <2>1, <2>3 DEF ToSet, Positions
  <2>5. s \in Seq(Positions)
    BY <2>3, <2>4
  <2> QED
    BY <2>2, <2>3, <2>5
<1>5. FreeInv'
  <2>1. Deleted(disk) \subseteq DOMAIN disk /\ Deleted(disk)' = Deleted(disk)
    BY <1>1 DEF Deleted
  <2> QED
    BY <1>1, <1>2, <1>4, <2>1 DEF FreeInv, ScannedFree
<1>6. IndexInv'
  <2>1. ASSUME NEW q \in Players
        PROVE  /\ index'[q] \in Seq(Positions) /\ IsInjective(index'[q])
               /\ ToSet(index'[q]) = Headers(disk, q)'
    <3>1. Headers(disk, q) \subseteq DOMAIN disk /\ Headers(disk, q)' = Headers(disk, q)
      BY <1>1 DEF Headers
    <3>2. index'[q] = Scan(disk, Headers(disk, q))
      BY <1>1 DEF ScannedIndex
    <3> QED
      BY <1>4, <3>1, <3>2
  <2>2. index' \in [Players -> Seq(Positions)]
    <3>1. DOMAIN index' = Players /\ index' = [q \in Players |-> index'[q]]
      BY <1>1 DEF ScannedIndex
    <3> QED
      BY <2>1, <3>1
  <2> QED
    BY <1>1, <2>1, <2>2 DEF IndexInv
<1>7. CallInv'
  BY <1>1, <1>2 DEF CallInv, StoringInv
<1>8. DoneInv'
  <2>1. \A x : LetterOf(x)' = LetterOf(x) /\ PartOf(x)' = PartOf(x)
    BY <1>1 DEF LetterOf, PartOf
  <2>2. \A m : ~BeingStored(m)' /\ ~InHand(m)'
    BY <1>2 DEF BeingStored, InHand
  <2>3. ASSUME NEW m, Gone(m) PROVE Gone(m)'
    BY <1>1, <1>3, <2>1, <2>2, <2>3 DEF Gone
  <2> QED
    BY <1>1, <2>3 DEF DoneInv
<1> QED
  BY <1>3, <1>5, <1>6, <1>7, <1>8 DEF MailInv

\* Every step keeps the invariant.
LEMMA NextInv ==
  ASSUME "storing" \notin Stops, MailInv, [Next]_vars
  PROVE  MailInv'
<1>1. CASE UNCHANGED vars
  BY <1>1, StutterInv
<1>2. CASE \E p \in Players, n \in 1..MaxParts : StoreHeader(p, n)
  BY <1>2, StoreHeaderInv
<1>3. CASE \E p \in Players : Receive(p)
  BY <1>3, ReceiveInv
<1>4. CASE Step
  BY <1>4, StoreLinkInv, StoreDataInv, TakeHeaderInv, ReadBlockInv, HandOverInv DEF Step
<1>5. CASE Restart
  BY <1>5, RestartInv
<1> QED
  BY <1>1, <1>2, <1>3, <1>4, <1>5 DEF Next

\* So it always holds, as long as store_mail is not cut off.
LEMMA MailInvHolds ==
  ASSUME "storing" \notin Stops
  PROVE  Spec => []MailInv
<1>1. MailInv /\ [Next]_vars => MailInv'
  BY NextInv
<1> QED
  BY <1>1, InitInv, PTL DEF Spec

-----------------------------------------------------------------------------
(* A letter's blocks *)

\* f is where read_delete comes in each of its first m turns.
Following(f, file, pos, m) ==
  f = [i \in 1..m |->
         IF i = 1 THEN pos
         ELSE IF f[i - 1] \in 1..Len(file) THEN file[f[i - 1]].next
         ELSE LastBlock]

\* There is such a function, turn by turn.
LEMMA FollowStart ==
  ASSUME NEW n \in Nat, NEW file, NEW pos
  PROVE  \E f : Following(f, file, pos, n)
<1> DEFINE T == {m \in 0..n : \E f : Following(f, file, pos, m)}
<1>1. 0 \in T
  <2>1. Following([i \in 1..0 |-> <<>>], file, pos, 0)
    BY DEF Following
  <2> QED
    BY <2>1
<1>2. ASSUME NEW m \in 0..n, m # 0, m - 1 \in T PROVE m \in T
  <2>1. PICK f : Following(f, file, pos, m - 1)
    BY <1>2
  <2> DEFINE last == IF m = 1 THEN pos
                     ELSE IF f[m - 1] \in 1..Len(file) THEN file[f[m - 1]].next
                     ELSE LastBlock
             g == [i \in 1..m |-> IF i = m THEN last ELSE f[i]]
  <2>2. ASSUME NEW i \in 1..m
        PROVE  g[i] = IF i = 1 THEN pos
                      ELSE IF g[i - 1] \in 1..Len(file) THEN file[g[i - 1]].next
                      ELSE LastBlock
    <3>1. CASE i = m
      <4>1. i # 1 => i - 1 \in 1..m /\ i - 1 # m
        BY <1>2, <3>1
      <4> QED
        BY <3>1, <4>1
    <3>2. CASE i # m
      <4>1. i \in 1..m - 1 /\ (i # 1 => i - 1 \in 1..m /\ i - 1 # m)
        BY <1>2, <3>2
      <4>2. f[i] = IF i = 1 THEN pos
                   ELSE IF f[i - 1] \in 1..Len(file) THEN file[f[i - 1]].next
                   ELSE LastBlock
        BY <2>1, <4>1 DEF Following
      <4> HIDE DEF last
      <4> QED
        BY <3>2, <4>1, <4>2
    <3> QED
      BY <3>1, <3>2
  <2>3. Following(g, file, pos, m)
    <3> HIDE DEF last
    <3>1. g = [i \in 1..m |-> g[i]]
      OBVIOUS
    <3> HIDE DEF g
    <3> QED
      BY <2>2, <3>1 DEF Following
  <2> HIDE DEF g
  <2> QED
    BY <2>3
<1> HIDE DEF T
<1>3. 0..n \subseteq T
  BY <1>1, <1>2, UpTo
<1>4. n \in T
  BY <1>3
<1> QED
  BY <1>4 DEF T

\* From a letter's header the links lead through all of it, in order, and no further.
LEMMA ChainIs ==
  ASSUME MailInv, ~Storing, NEW p, NEW pos \in Headers(disk, p)
  PROVE  LET l == LetterOf(pos)
             n == letters[l].parts
         IN /\ n \in Nat /\ Chain(pos) \in Seq(DOMAIN disk) /\ Len(Chain(pos)) = n
            /\ \A i \in 1..n : Holds(Chain(pos)[i], l, i)
<1> SizesInv /\ BlocksInv /\ LinksInv
  BY DEF MailInv
<1> DEFINE follow == CHOOSE f : Following(f, disk, pos, MaxBlocks)
           reach == {i \in 1..MaxBlocks : follow[i] # LastBlock}
<1>0. MaxBlocks \in Nat /\ Len(disk) \in Nat /\ DOMAIN disk = 1..Len(disk)
  BY MailAssumption DEF SizesInv
<1>1. Chain(pos) = [i \in 1..Cardinality(reach) |-> follow[i]]
  BY DEF Chain, Following
<1>2. Following(follow, disk, pos, MaxBlocks)
  <2>1. PICK file : file = disk
    OBVIOUS
  <2>2. \E f : Following(f, file, pos, MaxBlocks)
    BY <1>0, FollowStart
  <2> QED
    BY <2>1, <2>2
<1> HIDE DEF follow
<1>3. ASSUME NEW i \in 1..MaxBlocks
      PROVE  follow[i] = IF i = 1 THEN pos
                         ELSE IF follow[i - 1] \in 1..Len(disk) THEN disk[follow[i - 1]].next
                         ELSE LastBlock
  BY <1>2 DEF Following
<1>4. PICK l : l = LetterOf(pos)
  OBVIOUS
<1>5. PICK n : n = letters[l].parts
  OBVIOUS
<1>6. pos \in Live /\ PartOf(pos) = 1 /\ l \in DOMAIN letters
  BY <1>4, HeaderIs
<1>7. n \in Nat /\ n >= 1 /\ n <= MaxBlocks
  <2>1. PICK T : T = [to : Players, parts : 1..MaxParts]
    OBVIOUS
  <2>2. letters \in Seq(T)
    BY <2>1 DEF SizesInv
  <2>3. letters[l] \in T
    BY <1>6, <2>2
  <2> QED
    BY <1>5, <1>6, <2>1, <2>3 DEF SizesInv
<1>8. ASSUME NEW x, NEW i \in Nat, Holds(x, l, i)
      PROVE  /\ x \in 1..Len(disk) /\ x # LastBlock
             /\ i = n => disk[x].next = LastBlock
             /\ i # n => Holds(disk[x].next, l, i + 1)
  <2>1. x \in Live /\ LetterOf(x) = l /\ PartOf(x) = i
    BY <1>8 DEF Holds
  <2>2. LinkedBlock(x)
    BY <2>1 DEF LinksInv
  <2>3. x \in 1..Len(disk) /\ x # LastBlock
    BY <1>0, <2>1 DEF Live, LastBlock
  <2> QED
    BY <1>5, <2>1, <2>2, <2>3 DEF LinkedBlock
<1>9. ASSUME NEW i \in 1..n PROVE Holds(follow[i], l, i)
  <2> DEFINE T == {k \in 0..n : k = 0 \/ Holds(follow[k], l, k)}
  <2>1. 0 \in T
    BY <1>7
  <2>2. ASSUME NEW k \in 0..n, k # 0, k - 1 \in T PROVE k \in T
    <3>1. k \in 1..MaxBlocks
      BY <1>0, <1>7, <2>2
    <3>2. CASE k = 1
      <4>1. follow[k] = pos
        BY <1>3, <3>1, <3>2
      <4>2. Holds(pos, l, 1)
        BY <1>4, <1>6 DEF Holds
      <4> QED
        BY <3>2, <4>1, <4>2
    <3>3. CASE k # 1
      <4>1. k - 1 \in Nat /\ k - 1 # n /\ (k - 1) + 1 = k /\ Holds(follow[k - 1], l, k - 1)
        BY <1>7, <2>2, <3>3
      <4>2. PICK x, j : x = follow[k - 1] /\ j = k - 1
        OBVIOUS
      <4>3. x \in 1..Len(disk) /\ Holds(disk[x].next, l, j + 1)
        BY <1>8, <4>1, <4>2
      <4>4. follow[k] = disk[x].next
        BY <1>3, <3>1, <3>3, <4>2, <4>3
      <4> QED
        BY <4>1, <4>2, <4>3, <4>4
    <3> QED
      BY <3>2, <3>3
  <2> HIDE DEF T
  <2>3. 0..n \subseteq T
    BY <1>7, <2>1, <2>2, UpTo
  <2>4. i \in T /\ i # 0
    BY <1>7, <2>3
  <2> QED
    BY <2>4 DEF T
<1>10. ASSUME NEW i \in 1..MaxBlocks, i > n PROVE follow[i] = LastBlock
  <2> DEFINE T == {k \in 0..MaxBlocks : k > n => follow[k] = LastBlock}
  <2>1. 0 \in T
    BY <1>0, <1>7
  <2>2. ASSUME NEW k \in 0..MaxBlocks, k # 0, k - 1 \in T PROVE k \in T
    <3> SUFFICES ASSUME k > n PROVE follow[k] = LastBlock
      OBVIOUS
    <3>1. k \in 1..MaxBlocks /\ k # 1
      BY <1>0, <1>7, <2>2
    <3>2. follow[k] = IF follow[k - 1] \in 1..Len(disk) THEN disk[follow[k - 1]].next
                      ELSE LastBlock
      BY <1>3, <3>1
    <3>3. CASE k - 1 > n
      <4>1. follow[k - 1] = LastBlock
        BY <2>2, <3>3
      <4> QED
        BY <1>0, <3>2, <4>1 DEF LastBlock
    <3>4. CASE ~(k - 1 > n)
      <4>1. k - 1 = n
        BY <1>7, <3>1, <3>4
      <4>2. PICK x : x = follow[n]
        OBVIOUS
      <4>3. Holds(x, l, n)
        BY <1>7, <1>9, <4>2
      <4>4. x \in 1..Len(disk) /\ disk[x].next = LastBlock
        BY <1>7, <1>8, <4>3
      <4> QED
        BY <3>2, <4>1, <4>2, <4>4
    <3> QED
      BY <3>3, <3>4
  <2> HIDE DEF T
  <2>3. 0..MaxBlocks \subseteq T
    BY <1>0, <2>1, <2>2, UpTo
  <2>4. i \in T
    BY <1>0, <2>3
  <2> QED
    BY <1>10, <2>4 DEF T
<1>11. reach = 1..n
  <2>1. ASSUME NEW i \in 1..n PROVE i \in reach
    <3>1. PICK x : x = follow[i]
      OBVIOUS
    <3>2. Holds(x, l, i) /\ i \in Nat
      BY <1>7, <1>9, <3>1
    <3>3. x # LastBlock
      BY <1>8, <3>2
    <3> QED
      BY <1>0, <1>7, <3>1, <3>3
  <2>2. ASSUME NEW i \in reach PROVE i \in 1..n
    BY <1>0, <1>7, <1>10, <2>2
  <2> QED
    BY <2>1, <2>2
<1>12. Cardinality(1..n) = n
  BY <1>7, FS_Interval
<1>13. Chain(pos) = [i \in 1..n |-> follow[i]]
  BY <1>1, <1>11, <1>12
<1>14. \A i \in 1..n : follow[i] \in DOMAIN disk
  BY <1>9 DEF Holds, Live
<1>15. Chain(pos) \in Seq(DOMAIN disk) /\ Len(Chain(pos)) = n
  BY <1>7, <1>13, <1>14
<1>16. \A i \in 1..n : Holds(Chain(pos)[i], l, i)
  BY <1>9, <1>13
<1> QED
  BY <1>4, <1>5, <1>7, <1>15, <1>16

-----------------------------------------------------------------------------
(* What the invariant says to a reader *)

\* Every variable in its type.
LEMMA InvTypes == MailInv => TypeOK
<1> SUFFICES ASSUME MailInv PROVE TypeOK
  OBVIOUS
<1> SizesInv /\ FreeInv /\ IndexInv /\ CallInv /\ DoneInv
  BY DEF MailInv
<1>1. ASSUME NEW i \in DOMAIN disk
      PROVE  /\ disk[i].kind \in {"header", "data", "deleted"}
             /\ disk[i].next \in Positions \union {LastBlock, Bad}
             /\ disk[i].text \in Texts
  <2>1. disk[i] \in Blocks
    BY DEF SizesInv
  <2> QED
    BY <2>1 DEF Blocks, Texts
<1>2. call.op \in {"idle", "link", "data", "take", "read", "hand"}
  BY CallIs
<1>3. ASSUME NEW i \in DOMAIN delivered PROVE delivered[i].to \in Players
  <2>1. PICK T, S : T = [to : Players, text : S]
                    /\ S = Seq((1..MaxLetters) \X (1..MaxParts))
    OBVIOUS
  <2>2. delivered \in Seq(T)
    BY <2>1 DEF DoneInv
  <2>3. delivered[i] \in T
    BY <2>2
  <2> QED
    BY <2>1, <2>3
<1>4. /\ index \in [Players -> Seq(Positions)] /\ free \in Seq(Positions)
      /\ noMail \in BOOLEAN /\ letters \in Seq([to : Players, parts : 1..MaxParts])
  BY DEF SizesInv, FreeInv, IndexInv
<1> QED
  BY <1>1, <1>2, <1>3, <1>4 DEF TypeOK

\* The lists in memory are what scan_file would find.
LEMMA InvMemory == MailInv => MemoryIsFile
<1> SUFFICES ASSUME MailInv, call = Idle PROVE
      /\ \A p \in Players : Range(index[p]) = Range(ScannedIndex(disk)[p])
      /\ Range(free) = Range(ScannedFree(disk))
  BY DEF MemoryIsFile
<1> SizesInv /\ FreeInv /\ IndexInv
  BY DEF MailInv
<1>1. ASSUME NEW wanted, wanted \subseteq DOMAIN disk PROVE Range(Scan(disk, wanted)) = wanted
  <2>1. disk \in Seq(Blocks)
    BY DEF SizesInv
  <2>2. PICK s : s = Scan(disk, wanted)
    OBVIOUS
  <2>3. s \in Seq(Nat) /\ IsInjective(s) /\ ToSet(s) = wanted
    BY <1>1, <2>1, <2>2, ScanProperties
  <2>4. Range(s) = ToSet(s)
    BY <2>3, InjectiveLength
  <2> QED
    BY <2>2, <2>3, <2>4
<1>2. ASSUME NEW p \in Players PROVE Range(index[p]) = Range(ScannedIndex(disk)[p])
  <2>1. index[p] \in Seq(Positions) /\ IsInjective(index[p]) /\ ToSet(index[p]) = Headers(disk, p)
    BY DEF IndexInv
  <2>2. Range(index[p]) = Headers(disk, p)
    BY <2>1, InjectiveLength
  <2>3. Headers(disk, p) \subseteq DOMAIN disk
    BY DEF Headers
  <2> QED
    BY <1>1, <2>2, <2>3 DEF ScannedIndex
<1>3. Range(free) = Range(ScannedFree(disk))
  <2>1. free \in Seq(Positions) /\ IsInjective(free) /\ ToSet(free) = Deleted(disk)
    BY DEF FreeInv, Reserved, Idle
  <2>2. Range(free) = Deleted(disk)
    BY <2>1, InjectiveLength
  <2>3. Deleted(disk) \subseteq DOMAIN disk
    BY DEF Deleted
  <2> QED
    BY <1>1, <2>2, <2>3 DEF ScannedFree
<1> QED
  BY <1>2, <1>3

\* A header leads to the whole letter.
LEMMA InvReadable ==
  ASSUME MailInv, ~Storing, NEW p \in Players, NEW pos \in Headers(disk, p)
  PROVE  Readable(p, pos)
<1> SizesInv /\ BlocksInv
  BY DEF MailInv
<1>1. PICK l, n : l = LetterOf(pos) /\ n = letters[l].parts
  OBVIOUS
<1>2. PICK chain : chain = Chain(pos)
  OBVIOUS
<1>3. /\ n \in Nat /\ chain \in Seq(DOMAIN disk) /\ Len(chain) = n
      /\ \A i \in 1..n : Holds(chain[i], l, i)
  BY <1>1, <1>2, ChainIs
<1>4. /\ pos \in DOMAIN disk /\ disk[pos].kind = "header" /\ disk[pos].to = p
      /\ letters[l].to = p
  BY <1>1, HeaderIs
<1>5. DOMAIN disk = 1..Len(disk)
  BY DEF SizesInv
<1>6. ASSUME NEW i \in 1..n
      PROVE  /\ chain[i] \in DOMAIN disk /\ disk[chain[i]].text = <<l, i>>
             /\ i # 1 => disk[chain[i]].kind = "data"
  <2>1. PICK x : x = chain[i]
    OBVIOUS
  <2>2. x \in Live /\ LetterOf(x) = l /\ PartOf(x) = i
    BY <1>3, <2>1 DEF Holds
  <2>3. x \in DOMAIN disk /\ disk[x] \in Blocks
    BY <2>2 DEF Live, SizesInv
  <2>4. disk[x].text \in (1..MaxLetters) \X (1..MaxParts)
    BY <2>3 DEF Blocks
  <2>5. disk[x].text = <<l, i>>
    BY <2>2, <2>4 DEF LetterOf, PartOf
  <2>6. SoundBlock(x)
    BY <2>2 DEF BlocksInv
  <2> QED
    BY <2>1, <2>2, <2>3, <2>5, <2>6 DEF SoundBlock
<1>7. \A i \in 2..Len(chain) : chain[i] \in 1..Len(disk) /\ disk[chain[i]].kind = "data"
  BY <1>3, <1>5, <1>6
<1>8. [i \in 1..Len(chain) |-> disk[chain[i]].text] = Whole(l)
  BY <1>1, <1>3, <1>6 DEF Whole
<1> QED
  BY <1>1, <1>2, <1>4, <1>5, <1>7, <1>8 DEF Readable, LetterOf

\* No block is held twice.
LEMMA InvHeldOnce ==
  ASSUME MailInv, call = Idle
  PROVE  BlocksHeldOnce
<1> SizesInv /\ BlocksInv /\ FreeInv /\ IndexInv
  BY DEF MailInv
<1> DEFINE heads == UNION {Range(index[p]) : p \in Players}
           blocks(pos) == Range(Chain(pos))
<1>1. ~Storing /\ Reserved = {}
  BY DEF Storing, Reserved, Idle
<1>2. ASSUME NEW pos \in heads PROVE \E p \in Players : pos \in Headers(disk, p)
  <2>1. PICK p \in Players : pos \in Range(index[p])
    OBVIOUS
  <2>2. index[p] \in Seq(Positions) /\ IsInjective(index[p]) /\ ToSet(index[p]) = Headers(disk, p)
    BY DEF IndexInv
  <2>3. Range(index[p]) = ToSet(index[p])
    BY <2>2, InjectiveLength
  <2> QED
    BY <2>1, <2>2, <2>3
<1>3. ASSUME NEW pos \in heads
      PROVE  /\ pos \in Live /\ PartOf(pos) = 1
             /\ Len(Chain(pos)) = Cardinality(blocks(pos))
             /\ \A x \in blocks(pos) : x \in Live /\ LetterOf(x) = LetterOf(pos)
  <2>1. PICK p \in Players : pos \in Headers(disk, p)
    BY <1>2
  <2>2. PICK l, n : l = LetterOf(pos) /\ n = letters[l].parts
    OBVIOUS
  <2>3. PICK chain : chain = Chain(pos)
    OBVIOUS
  <2>4. /\ n \in Nat /\ chain \in Seq(DOMAIN disk) /\ Len(chain) = n
        /\ \A i \in 1..n : Holds(chain[i], l, i)
    BY <1>1, <2>1, <2>2, <2>3, ChainIs
  <2>5. DOMAIN chain = 1..n
    BY <2>4
  <2>6. IsInjective(chain)
    BY <2>4, <2>5 DEF IsInjective, Holds
  <2>7. Len(chain) = Cardinality(Range(chain))
    BY <2>4, <2>6, InjectiveLength
  <2>8. \A x \in Range(chain) : x \in Live /\ LetterOf(x) = l
    BY <2>4, <2>5 DEF Range, Holds
  <2>9. pos \in Live /\ PartOf(pos) = 1
    BY <2>1, HeaderIs
  <2> QED
    BY <2>2, <2>3, <2>7, <2>8, <2>9
<1>4. free \in Seq(Positions) /\ IsInjective(free) /\ ToSet(free) = Deleted(disk)
  BY <1>1 DEF FreeInv
<1>5. Len(free) = Cardinality(Range(free)) /\ Range(free) = Deleted(disk)
  BY <1>4, InjectiveLength
<1> HIDE DEF heads
<1>6. ASSUME NEW p \in heads, NEW q \in heads, p # q PROVE blocks(p) \intersect blocks(q) = {}
  <2> SUFFICES ASSUME NEW x \in blocks(p) \intersect blocks(q) PROVE FALSE
    OBVIOUS
  <2>1. LetterOf(x) = LetterOf(p) /\ LetterOf(x) = LetterOf(q)
    BY <1>3
  <2>2. p \in Live /\ q \in Live /\ PartOf(p) = PartOf(q)
    BY <1>3
  <2> QED
    BY <1>6, <2>1, <2>2 DEF BlocksInv
<1>7. ASSUME NEW p \in heads PROVE blocks(p) \intersect Range(free) = {}
  BY <1>3, <1>5 DEF Live
<1> QED
  BY <1>3, <1>5, <1>6, <1>7 DEF BlocksHeldOnce, heads

\* The two together.
LEMMA InvLetters == MailInv => LettersReadable
<1> SUFFICES ASSUME MailInv, call = Idle
             PROVE  /\ \A p \in Players : \A i \in DOMAIN index[p] : Readable(p, index[p][i])
                    /\ BlocksHeldOnce
  BY DEF LettersReadable
<1>1. ASSUME NEW p \in Players, NEW i \in DOMAIN index[p] PROVE Readable(p, index[p][i])
  <2>1. index[p][i] \in Headers(disk, p)
    <3>1. index[p][i] \in ToSet(index[p])
      BY DEF MailInv, IndexInv, ToSet
    <3> QED
      BY <3>1 DEF MailInv, IndexInv
  <2>2. ~Storing
    BY DEF Storing, Idle
  <2> QED
    BY <2>1, <2>2, InvReadable
<1> QED
  BY <1>1, InvHeldOnce

-----------------------------------------------------------------------------
(* The theorems *)

\* Whatever is stored, read and started again, every variable keeps its type: no link,
\* index entry or free position leads out of the file's bounds, and the blocks stored
\* always fit.
THEOREM MailTypeCorrect ==
  ASSUME "storing" \notin Stops
  PROVE  Spec => []TypeOK
BY MailInvHolds, InvTypes, PTL

\* Between two calls every letter in the index is read whole by its recipient, and no
\* block is part of two letters, or of a letter and of the free list.
THEOREM MailLettersReadable ==
  ASSUME "storing" \notin Stops
  PROVE  Spec => []LettersReadable
BY MailInvHolds, InvLetters, PTL

\* Between two calls a restart would find what the server has in memory already.
THEOREM MailMemoryIsFile ==
  ASSUME "storing" \notin Stops
  PROVE  Spec => []MemoryIsFile
BY MailInvHolds, InvMemory, PTL

-----------------------------------------------------------------------------
(* The file of blocks as a mailbox *)

\* A letter is on file as long as its first block is.
LEMMA OnFileIs == MailInv => \A l : OnFile(l) <=> HasFirst(l)
<1> SUFFICES ASSUME MailInv, NEW l PROVE OnFile(l) <=> HasFirst(l)
  OBVIOUS
<1>1. \A x \in Live : disk[x].kind = (IF PartOf(x) = 1 THEN "header" ELSE "data")
  BY DEF MailInv, BlocksInv, SoundBlock
<1>2. ASSUME OnFile(l) PROVE HasFirst(l)
  <2>1. PICK x \in DOMAIN disk : disk[x].kind = "header" /\ LetterOf(x) = l
    BY <1>2 DEF OnFile, LetterOf
  <2>2. x \in Live
    BY <2>1 DEF Live, Deleted
  <2>3. PartOf(x) = 1
    BY <1>1, <2>1, <2>2
  <2> QED
    BY <2>1, <2>2, <2>3 DEF HasFirst
<1>3. ASSUME HasFirst(l) PROVE OnFile(l)
  <2>1. PICK x \in Live : LetterOf(x) = l /\ PartOf(x) = 1
    BY <1>3 DEF HasFirst
  <2>2. disk[x].kind = "header" /\ x \in DOMAIN disk
    BY <1>1, <2>1 DEF Live
  <2> QED
    BY <2>1, <2>2 DEF OnFile, LetterOf
<1> QED
  BY <1>2, <1>3

\* What becomes of a letter depends on its first block only.
FateOf(m) == IF BeingStored(m) THEN "posting"
             ELSE IF InHand(m) \/ HasFirst(m) THEN "waiting"
             ELSE IF Received(m) THEN "received" ELSE "lost"
FatesInv == \A m : Fate(m) = FateOf(m)

\* The two say the same.
LEMMA FateIs == MailInv => FatesInv
BY OnFileIs DEF Fate, FateOf, FatesInv

\* A step that leaves every letter where it is.
LEMMA SameFates ==
  ASSUME MailInv, MailInv', letters' = letters, delivered' = delivered,
         \A m : BeingStored(m)' <=> BeingStored(m),
         \A m : InHand(m)' \/ HasFirst(m)' <=> InHand(m) \/ HasFirst(m)
  PROVE  UNCHANGED Mailbox!vars
<1>1. ASSUME NEW m PROVE Fate(m)' = Fate(m)
  <2>1. FatesInv /\ FatesInv'
    BY FateIs, PTL
  <2>2. Received(m)' <=> Received(m)
    BY DEF Received
  <2> QED
    BY <2>1, <2>2 DEF FatesInv, FateOf
<1> QED
  BY <1>1 DEF Mailbox!vars

\* A step that moves one letter.
LEMMA OneFate ==
  ASSUME letters' = letters, NEW l \in DOMAIN letters, NEW old, NEW new,
         \A m \in DOMAIN letters \ {l} : Fate(m)' = Fate(m),
         Fate(l) = old, Fate(l)' = new
  PROVE  Mailbox!Becomes(l, old, new)
<1> DEFINE fates == [m \in DOMAIN letters |-> Fate(m)]
<1>1. fates[l] = old
  OBVIOUS
<1>2. fates' = [m \in DOMAIN letters |-> Fate(m)']
  OBVIOUS
<1>3. \A m \in DOMAIN letters : Fate(m)' = IF m = l THEN new ELSE Fate(m)
  OBVIOUS
<1>4. fates' = [fates EXCEPT ![l] = new]
  BY <1>2, <1>3
<1> QED
  BY <1>1, <1>4 DEF Mailbox!Becomes

\* At first there are no letters.
LEMMA InitMailbox == Init => Mailbox!Init
<1> SUFFICES ASSUME Init PROVE Mailbox!Init
  OBVIOUS
<1>1. letters = <<>> /\ delivered = <<>>
  BY DEF Init
<1>2. [l \in DOMAIN letters |-> Fate(l)] = <<>>
  <2>1. DOMAIN letters = {}
    BY <1>1
  <2> QED
    BY <2>1
<1> QED
  BY <1>1, <1>2 DEF Mailbox!Init

\* A letter is begun.
LEMMA StoreHeaderComposes ==
  ASSUME MailInv, NEW p \in Players, NEW n \in 1..MaxParts, StoreHeader(p, n)
  PROVE  Mailbox!Compose(p, n)
<1>1. MailInv' /\ \A m : HasFirst(m)' <=> HasFirst(m) \/ m = Len(letters) + 1
  BY StoreHeaderInv
<1>2. PICK T : T = [to : Players, parts : 1..MaxParts]
  OBVIOUS
<1>3. PICK letter : letter = [to |-> p, parts |-> n]
  OBVIOUS
<1>4. letters \in Seq(T) /\ letter \in T
  BY <1>2, <1>3 DEF MailInv, SizesInv
<1>5. PICK k : k = Len(letters)
  OBVIOUS
<1>6. /\ call = Idle /\ k < MaxLetters
      /\ letters' = Append(letters, letter) /\ delivered' = delivered
      /\ call' = Idle \/ call'.op = "link"
  BY <1>3, <1>5 DEF StoreHeader
<1>7. /\ k \in Nat /\ DOMAIN letters = 1..k
      /\ Len(letters') = k + 1 /\ DOMAIN letters' = 1..k + 1
  BY <1>4, <1>5, <1>6, AppendProperties
<1>8. FatesInv /\ FatesInv'
  BY <1>1, FateIs, PTL
<1>9. \A m : ~BeingStored(m) /\ ~InHand(m) /\ ~InHand(m)'
  BY <1>6 DEF Idle, BeingStored, InHand
<1>10. ASSUME NEW m \in 1..k PROVE Fate(m)' = Fate(m)
  <2>1. m # k + 1
    BY <1>7
  <2>2. ~BeingStored(m)'
    BY <1>7, <2>1 DEF BeingStored
  <2>3. HasFirst(m)' <=> HasFirst(m)
    BY <1>1, <1>5, <2>1
  <2>4. Received(m)' <=> Received(m)
    BY <1>6 DEF Received
  <2> QED
    BY <1>8, <1>9, <2>2, <2>3, <2>4 DEF FatesInv, FateOf
<1>11. Fate(k + 1)' \in {"posting", "waiting"}
  <2>1. HasFirst(k + 1)'
    BY <1>1, <1>5
  <2> QED
    BY <1>8, <2>1 DEF FatesInv, FateOf
<1>12. PICK f \in {"posting", "waiting"} : f = Fate(k + 1)'
  BY <1>11
<1> DEFINE fates == [m \in DOMAIN letters |-> Fate(m)]
<1>13. fates' = Append(fates, f)
  <2>1. fates' = [m \in 1..k + 1 |-> Fate(m)']
    BY <1>7
  <2>2. fates = [m \in 1..k |-> Fate(m)]
    BY <1>7
  <2>3. Len(fates) = k
    BY <1>7, <2>2
  <2>4. Append(fates, f) = [m \in 1..k + 1 |-> IF m = k + 1 THEN f ELSE fates[m]]
    BY <1>7, <2>2, <2>3
  <2>5. \A m \in 1..k + 1 : Fate(m)' = IF m = k + 1 THEN f ELSE fates[m]
    <3>1. \A m \in 1..k + 1 : m = k + 1 \/ m \in 1..k
      BY <1>7
    <3> QED
      BY <1>10, <1>12, <2>2, <3>1
  <2> QED
    BY <2>1, <2>4, <2>5
<1> QED
  BY <1>3, <1>5, <1>6, <1>13 DEF Mailbox!Compose

\* A link written changes no letter's fate.
LEMMA StoreLinkKeeps ==
  ASSUME MailInv, StoreLink
  PROVE  UNCHANGED Mailbox!vars
<1>1. MailInv' /\ \A m : HasFirst(m)' <=> HasFirst(m)
  BY StoreLinkInv
<1>2. /\ call.op = "link" /\ call'.op = "data"
      /\ letters' = letters /\ delivered' = delivered
  BY DEF StoreLink
<1>3. \A m : ~InHand(m) /\ ~InHand(m)' /\ (BeingStored(m)' <=> BeingStored(m))
  BY <1>2 DEF InHand, BeingStored
<1> QED
  BY <1>1, <1>2, <1>3, SameFates

\* With the last block the letter is posted.
LEMMA StoreDataPosts ==
  ASSUME MailInv, StoreData
  PROVE  \/ UNCHANGED Mailbox!vars
         \/ \E l \in 1..Len(letters) : Mailbox!Post(l)
<1>1. MailInv' /\ \A m : HasFirst(m)' <=> HasFirst(m)
  BY StoreDataInv
<1>2. /\ call.op = "data" /\ (call' = Idle \/ call'.op = "link")
      /\ letters' = letters /\ delivered' = delivered
  BY DEF StoreData
<1>3. \A m : ~InHand(m) /\ ~InHand(m)'
  BY <1>2 DEF InHand, Idle
<1>4. CASE call'.op = "link"
  <2>1. \A m : BeingStored(m)' <=> BeingStored(m)
    BY <1>2, <1>4 DEF BeingStored
  <2> QED
    BY <1>1, <1>2, <1>3, <2>1, SameFates
<1>5. CASE call' = Idle
  <2>1. PICK l : l = Len(letters)
    OBVIOUS
  <2>2. l \in DOMAIN letters /\ l \in 1..Len(letters)
    <3>1. Storing
      BY <1>2 DEF Storing
    <3> QED
      BY <2>1, <3>1, StoringIs DEF MailInv, SizesInv
  <2>3. HasFirst(l)
    BY <1>2, <2>1 DEF MailInv, CallInv, StoringInv, Storing, HasFirst
  <2>4. \A m : ~BeingStored(m)' /\ (BeingStored(m) <=> m = l)
    BY <1>2, <1>5, <2>1 DEF BeingStored, Idle
  <2>5. FatesInv /\ FatesInv'
    BY <1>1, FateIs, PTL
  <2>6. \A m : Received(m)' <=> Received(m)
    BY <1>2 DEF Received
  <2>7. ASSUME NEW m \in DOMAIN letters \ {l} PROVE Fate(m)' = Fate(m)
    BY <1>1, <1>3, <2>4, <2>5, <2>6, <2>7 DEF FatesInv, FateOf
  <2>8. Fate(l) = "posting" /\ Fate(l)' = "waiting"
    BY <1>1, <2>3, <2>4, <2>5 DEF FatesInv, FateOf
  <2>9. Mailbox!Becomes(l, "posting", "waiting")
    BY <1>2, <2>2, <2>7, <2>8, OneFate
  <2>10. Mailbox!Post(l)
    BY <1>2, <2>9 DEF Mailbox!Post
  <2> QED
    BY <2>2, <2>10
<1> QED
  BY <1>2, <1>4, <1>5

\* A letter that is being read still waits for its recipient.
LEMMA ReceiveKeeps ==
  ASSUME MailInv, NEW p \in Players, Receive(p)
  PROVE  UNCHANGED Mailbox!vars
<1>1. MailInv'
  BY ReceiveInv
<1>2. /\ call = Idle /\ call'.op = "take"
      /\ disk' = disk /\ letters' = letters /\ delivered' = delivered
  BY DEF Receive
<1>3. \A m : ~InHand(m) /\ ~InHand(m)' /\ ~BeingStored(m) /\ ~BeingStored(m)'
  BY <1>2 DEF InHand, BeingStored, Idle
<1>4. \A m : HasFirst(m)' <=> HasFirst(m)
  BY <1>2 DEF HasFirst, Live, Deleted, LetterOf, PartOf
<1> QED
  BY <1>1, <1>2, <1>3, <1>4, SameFates

\* The header is gone, and the letter in hand.
LEMMA TakeHeaderKeeps ==
  ASSUME MailInv, TakeHeader
  PROVE  UNCHANGED Mailbox!vars
<1>1. /\ MailInv' /\ ~Storing /\ ~Storing' /\ call.op = "take" /\ call'.op = "read"
      /\ \A m : HasFirst(m) <=> HasFirst(m)' \/ m = call'.text[1][1]
  BY TakeHeaderInv
<1>2. letters' = letters /\ delivered' = delivered
  BY DEF TakeHeader
<1>3. \A m : ~BeingStored(m) /\ ~BeingStored(m)' /\ ~InHand(m)
  BY <1>1 DEF InHand, BeingStored
<1>4. \A m : InHand(m)' <=> m = call'.text[1][1]
  BY <1>1 DEF InHand
<1> QED
  BY <1>1, <1>2, <1>3, <1>4, SameFates

\* Its further blocks change nothing.
LEMMA ReadBlockKeeps ==
  ASSUME MailInv, ReadBlock
  PROVE  UNCHANGED Mailbox!vars
<1>1. /\ MailInv' /\ call.op = "read" /\ call'.op = "read"
      /\ call'.text[1][1] = call.text[1][1]
      /\ \A m : HasFirst(m)' <=> HasFirst(m)
  BY ReadBlockInv
<1>2. letters' = letters /\ delivered' = delivered
  BY DEF ReadBlock
<1>3. \A m : ~BeingStored(m) /\ ~BeingStored(m)' /\ (InHand(m)' <=> InHand(m))
  BY <1>1 DEF InHand, BeingStored
<1> QED
  BY <1>1, <1>2, <1>3, SameFates

\* The letter handed over is the whole of one that was waiting.
LEMMA HandOverReceives ==
  ASSUME MailInv, HandOver
  PROVE  \E l \in 1..Len(letters) : Mailbox!Receive(l)
<1>1. MailInv'
  BY HandOverInv
<1>2. PICK l : l = call.text[1][1]
  OBVIOUS
<1>3. /\ ReadCall /\ call.op = "read" /\ l \in DOMAIN letters
      /\ Len(call.text) = letters[l].parts
      /\ \A x \in Live : LetterOf(x) = l => PartOf(x) # 1
  BY <1>2, HandingOver
<1>4. PICK letter : letter = [to |-> call.to, text |-> call.text]
  OBVIOUS
<1>5. /\ delivered' = Append(delivered, letter) /\ letters' = letters /\ disk' = disk
      /\ call' = Idle \/ call'.op = "take"
  BY <1>4 DEF HandOver
<1>6. call.text = Mailbox!Text(l) /\ call.to = letters[l].to
  <2>1. PICK T : T = (1..MaxLetters) \X (1..MaxParts)
    OBVIOUS
  <2>2. /\ call.text \in Seq(T) /\ call.to = letters[l].to
        /\ \A j \in 1..Len(call.text) : call.text[j] = <<l, j>>
    BY <1>2, <1>3, <2>1 DEF ReadCall
  <2>3. call.text = [j \in 1..Len(call.text) |-> call.text[j]]
    BY <2>2
  <2>4. [j \in 1..Len(call.text) |-> call.text[j]] = [j \in 1..letters[l].parts |-> <<l, j>>]
    BY <1>3, <2>2
  <2> QED
    BY <2>2, <2>3, <2>4 DEF Mailbox!Text
<1>7. \A m : Received(m)' <=> Received(m) \/ m = l
  <2>1. PICK T : T = [to : Players, text : Seq((1..MaxLetters) \X (1..MaxParts))]
    OBVIOUS
  <2>2. delivered \in Seq(T) /\ letter.text[1][1] = l
    BY <1>2, <1>4, <2>1 DEF MailInv, DoneInv
  <2>3. /\ Len(delivered) \in Nat /\ DOMAIN delivered = 1..Len(delivered)
        /\ DOMAIN delivered' = 1..Len(delivered) + 1
        /\ delivered'[Len(delivered) + 1] = letter
        /\ \A j \in 1..Len(delivered) : delivered'[j] = delivered[j]
    BY <1>5, <2>2
  <2>4. 1..Len(delivered) + 1 = (1..Len(delivered)) \union {Len(delivered) + 1}
    BY <2>3
  <2> QED
    BY <2>2, <2>3, <2>4 DEF Received
<1>8. \A m : HasFirst(m)' <=> HasFirst(m)
  BY <1>5 DEF HasFirst, Live, Deleted, LetterOf, PartOf
<1>9. /\ \A m : ~BeingStored(m) /\ ~BeingStored(m)' /\ ~InHand(m)'
      /\ \A m : InHand(m) <=> m = l
      /\ ~HasFirst(l)
  <2>1. \A m : ~BeingStored(m)' /\ ~InHand(m)'
    BY <1>5 DEF InHand, BeingStored, Idle
  <2>2. \A m : ~BeingStored(m) /\ (InHand(m) <=> m = l)
    BY <1>2, <1>3 DEF InHand, BeingStored
  <2> QED
    BY <1>3, <2>1, <2>2 DEF HasFirst
<1>10. FatesInv /\ FatesInv'
  BY <1>1, FateIs, PTL
<1>11. ASSUME NEW m \in DOMAIN letters \ {l} PROVE Fate(m)' = Fate(m)
  BY <1>7, <1>8, <1>9, <1>10, <1>11 DEF FatesInv, FateOf
<1>12. Fate(l) = "waiting" /\ Fate(l)' = "received"
  BY <1>7, <1>8, <1>9, <1>10 DEF FatesInv, FateOf
<1>13. Mailbox!Becomes(l, "waiting", "received")
  BY <1>3, <1>5, <1>11, <1>12, OneFate
<1>14. Mailbox!Receive(l)
  BY <1>4, <1>5, <1>6, <1>13 DEF Mailbox!Receive
<1>15. l \in 1..Len(letters)
  BY <1>3 DEF MailInv, SizesInv
<1> QED
  BY <1>14, <1>15

\* A stop loses the letter in hand, and no other.
LEMMA RestartLoses ==
  ASSUME "storing" \notin Stops, MailInv, Restart
  PROVE  \/ UNCHANGED Mailbox!vars
         \/ \E l \in 1..Len(letters) : Mailbox!Lose(l)
<1>1. MailInv'
  BY RestartInv
<1>2. /\ call' = Idle /\ disk' = disk /\ letters' = letters /\ delivered' = delivered
      /\ Doing \in Stops
  BY DEF Restart
<1>3. /\ \A m : ~BeingStored(m)' /\ ~InHand(m)'
      /\ \A m : HasFirst(m)' <=> HasFirst(m)
      /\ \A m : Received(m)' <=> Received(m)
  BY <1>2 DEF BeingStored, InHand, Idle, HasFirst, Live, Deleted, LetterOf, PartOf, Received
<1>4. Doing # "storing"
  BY <1>2
<1>5. call = Idle => call.op = "idle"
  BY DEF Idle
<1>6. \A m : ~BeingStored(m)
  BY <1>4, <1>5 DEF Doing, BeingStored
<1>7. CASE call.op # "read"
  <2>1. \A m : ~InHand(m)
    BY <1>7 DEF InHand
  <2> QED
    BY <1>1, <1>2, <1>3, <1>6, <2>1, SameFates
<1>8. CASE call.op = "read"
  <2>1. PICK l : l = call.text[1][1]
    OBVIOUS
  <2>2. ReadCall
    BY <1>8, CallIs DEF MailInv
  <2>3. l \in DOMAIN letters /\ ~HasFirst(l)
    <3>1. PICK T : T = (1..MaxLetters) \X (1..MaxParts)
      OBVIOUS
    <3>2. PICK i : i = Len(call.text)
      OBVIOUS
    <3>3. i \in Nat /\ i # 0 /\ l \in DOMAIN letters
      <4>1. call.text \in Seq(T)
        BY <2>2, <3>1 DEF ReadCall
      <4> QED
        BY <2>1, <2>2, <3>2, <4>1 DEF ReadCall
    <3>4. \A x \in Live : LetterOf(x) = l => PartOf(x) > i
      BY <2>1, <2>2, <3>2 DEF ReadCall
    <3> QED
      BY <3>3, <3>4 DEF HasFirst
  <2>4. \A m : InHand(m) <=> m = l
    BY <1>8, <2>1 DEF InHand
  <2>5. ~Received(l)
    BY <2>4 DEF MailInv, DoneInv, Gone, Received
  <2>6. FatesInv /\ FatesInv'
    BY <1>1, FateIs, PTL
  <2>7. ASSUME NEW m \in DOMAIN letters \ {l} PROVE Fate(m)' = Fate(m)
    BY <1>3, <1>6, <2>4, <2>6, <2>7 DEF FatesInv, FateOf
  <2>8. Fate(l) = "waiting" /\ Fate(l)' = "lost"
    BY <1>3, <1>6, <2>3, <2>4, <2>5, <2>6 DEF FatesInv, FateOf
  <2>9. Mailbox!Becomes(l, "waiting", "lost")
    BY <1>2, <2>3, <2>7, <2>8, OneFate
  <2>10. "receiving" \in Stops
    BY <1>2, <1>5, <1>8 DEF Doing
  <2>11. Mailbox!Lose(l)
    BY <1>2, <2>9, <2>10 DEF Mailbox!Lose
  <2>12. l \in 1..Len(letters)
    BY <2>3 DEF MailInv, SizesInv
  <2> QED
    BY <2>11, <2>12
<1> QED
  BY <1>7, <1>8

\* Every step is one of the mailbox, or none.
LEMMA NextMailbox ==
  ASSUME "storing" \notin Stops, MailInv, [Next]_vars
  PROVE  [Mailbox!Next]_(Mailbox!vars)
<1>1. CASE UNCHANGED vars
  <2>1. MailInv'
    BY <1>1, StutterInv
  <2>2. /\ disk' = disk /\ call' = call /\ letters' = letters /\ delivered' = delivered
    BY <1>1 DEF vars
  <2>3. \A m : /\ BeingStored(m)' <=> BeingStored(m)
               /\ InHand(m)' <=> InHand(m)
               /\ HasFirst(m)' <=> HasFirst(m)
    BY <2>2 DEF BeingStored, InHand, HasFirst, Live, Deleted, LetterOf, PartOf
  <2> QED
    BY <2>1, <2>2, <2>3, SameFates
<1>2. CASE \E p \in Players, n \in 1..MaxParts : StoreHeader(p, n)
  <2>1. \E p \in Players, n \in 1..MaxParts : Mailbox!Compose(p, n)
    BY <1>2, StoreHeaderComposes
  <2> QED
    BY <2>1 DEF Mailbox!Next
<1>3. CASE \E p \in Players : Receive(p)
  BY <1>3, ReceiveKeeps
<1>4. CASE StoreLink
  BY <1>4, StoreLinkKeeps
<1>5. CASE StoreData
  BY <1>5, StoreDataPosts DEF Mailbox!Next
<1>6. CASE TakeHeader
  BY <1>6, TakeHeaderKeeps
<1>7. CASE ReadBlock
  BY <1>7, ReadBlockKeeps
<1>8. CASE HandOver
  BY <1>8, HandOverReceives DEF Mailbox!Next
<1>9. CASE Restart
  BY <1>9, RestartLoses DEF Mailbox!Next
<1> QED
  BY <1>1, <1>2, <1>3, <1>4, <1>5, <1>6, <1>7, <1>8, <1>9 DEF Next, Step

\* The file of blocks implements the mailbox: each letter stored waits until its
\* recipient receives it, once and whole, and only a stop in the middle of handing it
\* over can lose it.
THEOREM MailIsMailbox ==
  ASSUME "storing" \notin Stops
  PROVE  Spec => IsMailbox
<1>1. MailInv /\ [Next]_vars => [Mailbox!Next]_(Mailbox!vars)
  BY NextMailbox
<1> QED
  BY <1>1, InitMailbox, MailInvHolds, PTL DEF Spec, IsMailbox, Mailbox!Spec
=============================================================================

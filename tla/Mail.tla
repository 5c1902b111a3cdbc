-------------------------------- MODULE Mail --------------------------------
(***************************************************************************)
(* The C server's mail file (mail.c).  Letters lie in a file of blocks of  *)
(* one size: a header block and, for a long text, data blocks, each        *)
(* holding the position of the next.  Which letters there are for whom,    *)
(* and which blocks can be used again, is kept in memory and rebuilt from  *)
(* the file at boot.                                                       *)
(*                                                                         *)
(* The server is one process with one thread, so its calls do not          *)
(* interleave; but every block is written by an fopen, fwrite, fclose of   *)
(* its own, and the process may stop between any two.  `Stops' says        *)
(* during which calls it may.  Positions count blocks from 1, and 0 is the *)
(* LAST_BLOCK (-2) that ends a chain.  The sizes of the block structures   *)
(* are taken to agree with BLOCK_SIZE, without which store_mail refuses to *)
(* work at all, and every fopen is taken to succeed.                       *)
(***************************************************************************)
EXTENDS Integers, Sequences, FiniteSets, SequencesExt

CONSTANTS
  Players,      \* the ids of those who can be written to
  MaxLetters,   \* bound: letters posted in a behaviour
  MaxParts,     \* bound: blocks a letter needs
  MaxBlocks,    \* bound: blocks of the file
  Stops         \* the calls during which the server may stop

ASSUME MailAssumption ==
  /\ MaxLetters \in Nat /\ MaxParts \in Nat \ {0} /\ MaxBlocks \in Nat
  /\ Stops \subseteq {"idle", "storing", "receiving"}

VARIABLES
  disk,         \* the mail file, block by block
  index,        \* mail_index: per recipient its letters' positions, newest first
  free,         \* free_list: positions to use again, the next one first
  noMail,       \* no_mail: the system has disabled itself
  call,         \* the store_mail or postmaster_receive_mail under way
  letters,      \* every letter begun, in order (history)
  delivered     \* every letter handed over, in order (history)

vars == <<disk, index, free, noMail, call, letters, delivered>>

LastBlock == 0
Bad  == -1      \* a link that is no position: HEADER_BLOCK or DELETED_BLOCK

Unset == <<>>   \* memory nobody has written
Idle == [op |-> "idle"]

-----------------------------------------------------------------------------
(* The file and the lists in memory *)

\* write_to_file at a position of the file or at its end.
Written(pos, block) ==
  IF pos = Len(disk) + 1 THEN Append(disk, block)
                         ELSE [disk EXCEPT ![pos] = block]

\* Mutant of Popped: the end of the file is counted from its last block.
PoppedLast == IF free = <<>> THEN Len(disk) ELSE Head(free)

\* pop_free_list: the position it returns, and what it leaves.
Popped == IF free = <<>> THEN Len(disk) + 1 ELSE Head(free)
FreeLeft == IF free = <<>> THEN <<>> ELSE Tail(free)

\* What read_from_file leaves in the buffer: it is not touched where the file has
\* no block, and read_delete's starts out uninitialised.
Seen(pos, buffer) ==
  IF pos \in 1..Len(disk) THEN {disk[pos]}
  ELSE IF buffer # Unset THEN {buffer}
  ELSE [kind : {"data"}, next : 1..Len(disk) \union {LastBlock, Bad}, text : {Unset}]

\* Mutant of LinkOf: a letter ends with its first data block.
LinkOfNone(block) == LastBlock

\* Mutant of LinkOf: what the mark left is taken for the link.
LinkOfMarked(block) == IF block.kind = "header" THEN block.next ELSE Bad

\* The link a block read as a data block shows in its block_type.
LinkOf(block) == IF block.kind = "data" THEN block.next ELSE Bad

\* scan_file: the positions of one kind, each pushed in front of those read before.
Scan(file, wanted) ==
  LET pushed[i \in 0..Len(file)] ==
        IF i = 0 THEN <<>>
        ELSE IF i \in wanted THEN <<i>> \o pushed[i - 1] ELSE pushed[i - 1]
  IN pushed[Len(file)]

Headers(file, p) == {i \in DOMAIN file : file[i].kind = "header" /\ file[i].to = p}
Deleted(file) == {i \in DOMAIN file : file[i].kind = "deleted"}

ScannedIndex(file) == [p \in Players |-> Scan(file, Headers(file, p))]
ScannedFree(file) == Scan(file, Deleted(file))

-----------------------------------------------------------------------------
(* store_mail *)

\* A letter for p that takes n blocks: its first block is popped, indexed and
\* written as if it were the only one.
StoreHeader(p, n) ==
  /\ call = Idle /\ Len(letters) < MaxLetters
  /\ Len(disk) - Len(free) + n <= MaxBlocks
  /\ letters' = Append(letters, [to |-> p, parts |-> n])
  /\ LET l == Len(letters) + 1
         block == [kind |-> "header", to |-> p, next |-> LastBlock, text |-> <<l, 1>>]
     IN /\ disk' = Written(Popped, block)
        /\ index' = [index EXCEPT ![p] = <<Popped>> \o @]
        /\ free' = FreeLeft
        /\ call' = IF n = 1 THEN Idle
                   ELSE [op |-> "link", block |-> block, at |-> Popped]
  /\ UNCHANGED <<noMail, delivered>>

\* The block just written is rewritten with the position of the next one, which
\* is popped here and written only in the next step.
StoreLink ==
  /\ call.op = "link"
  /\ disk' = Written(call.at, [call.block EXCEPT !.next = Popped])
  /\ free' = FreeLeft
  /\ call' = [op |-> "data", text |-> call.block.text, at |-> Popped]
  /\ UNCHANGED <<index, noMail, letters, delivered>>

\* Mutant of StoreData: the text's last block is never written.
StoreDataShort ==
  /\ call.op = "data"
  /\ LET l == call.text[1]
         i == call.text[2] + 1
         block == [kind |-> "data", next |-> LastBlock, text |-> <<l, i>>]
     IN /\ disk' = Written(call.at, block)
        /\ call' = IF i >= letters[l].parts - 1 THEN Idle
                   ELSE [op |-> "link", block |-> block, at |-> call.at]
  /\ UNCHANGED <<index, free, noMail, letters, delivered>>

\* The block popped in the step before is written, as if it were the last.
StoreData ==
  /\ call.op = "data"
  /\ LET l == call.text[1]
         i == call.text[2] + 1
         block == [kind |-> "data", next |-> LastBlock, text |-> <<l, i>>]
     IN /\ disk' = Written(call.at, block)
        /\ call' = IF i = letters[l].parts THEN Idle
                   ELSE [op |-> "link", block |-> block, at |-> call.at]
  /\ UNCHANGED <<index, free, noMail, letters, delivered>>

-----------------------------------------------------------------------------
(* postmaster_receive_mail and read_delete *)

\* The recipient asks, and has_mail says that there is something.
Receive(p) ==
  /\ call = Idle /\ ~noMail
  /\ index[p] # <<>>
  /\ call' = [op |-> "take", to |-> p]
  /\ UNCHANGED <<disk, index, free, noMail, letters, delivered>>

\* The recipient's oldest entry leaves the index; its header block is read,
\* marked deleted and freed.
TakeHeader ==
  /\ call.op = "take"
  /\ LET p == call.to
         pos == index[p][Len(index[p])]
         block == disk[pos]
         sound == block.kind = "header"
     IN /\ index' = [index EXCEPT ![p] = Front(@)]
        /\ noMail' = (noMail \/ ~sound)
        /\ disk' = IF sound THEN Written(pos, [block EXCEPT !.kind = "deleted"])
                            ELSE disk
        /\ free' = IF sound THEN <<pos>> \o free ELSE free
        /\ call' = IF sound
                   THEN [op |-> "read", to |-> p, at |-> block.next,
                         text |-> <<block.text>>, buffer |-> Unset]
                   ELSE [op |-> "hand", to |-> p, text |-> <<>>]
  /\ UNCHANGED <<letters, delivered>>

\* One turn of read_delete's loop: the block is read, marked deleted and freed,
\* and what it showed as its link is followed.  A link that is no position
\* disables the system and is followed for ever, since neither the read nor the
\* write touches the buffer it is taken from.
ReadBlock ==
  /\ call.op = "read" /\ call.at # LastBlock
  /\ \E block \in Seen(call.at, call.buffer) :
       LET mark == [block EXCEPT !.kind = "deleted"]
       IN IF call.at = Bad
          THEN noMail' = TRUE /\ UNCHANGED <<disk, free, call>>
          ELSE /\ disk' = Written(call.at, mark)
               /\ free' = <<call.at>> \o free
               /\ call' = [call EXCEPT !.at = LinkOf(block),
                                       !.text = Append(@, block.text),
                                       !.buffer = mark]
               /\ UNCHANGED noMail
  /\ UNCHANGED <<index, letters, delivered>>

\* The letter becomes an object in its recipient's hands; has_mail decides
\* whether there is another.
HandOver ==
  /\ call.op = "hand" \/ (call.op = "read" /\ call.at = LastBlock)
  /\ delivered' = Append(delivered, [to |-> call.to, text |-> call.text])
  /\ call' = IF index[call.to] = <<>> THEN Idle
                                      ELSE [op |-> "take", to |-> call.to]
  /\ UNCHANGED <<disk, index, free, noMail, letters>>

-----------------------------------------------------------------------------
(* The process *)

Doing == IF call = Idle THEN "idle"
         ELSE IF call.op \in {"link", "data"} THEN "storing" ELSE "receiving"

\* Mutant of Restart: scan_file pushes no deleted block on the free list.
RestartForgetsFree ==
  /\ Doing \in Stops
  /\ index' = ScannedIndex(disk)
  /\ free' = <<>>
  /\ noMail' = FALSE
  /\ call' = Idle
  /\ UNCHANGED <<disk, letters, delivered>>

\* The server stops, whatever it is doing, and boots again: scan_file.
Restart ==
  /\ Doing \in Stops
  /\ index' = ScannedIndex(disk)
  /\ free' = ScannedFree(disk)
  /\ noMail' = FALSE
  /\ call' = Idle
  /\ UNCHANGED <<disk, letters, delivered>>

Init ==
  /\ disk = <<>> /\ free = <<>>
  /\ index = [p \in Players |-> <<>>]
  /\ noMail = FALSE
  /\ call = Idle
  /\ letters = <<>> /\ delivered = <<>>

Step == StoreLink \/ StoreData \/ TakeHeader \/ ReadBlock \/ HandOver

Next ==
  \/ \E p \in Players, n \in 1..MaxParts : StoreHeader(p, n)
  \/ \E p \in Players : Receive(p)
  \/ Step
  \/ Restart

Spec == Init /\ [][Next]_vars

\* A call that has begun goes on: there is one thread and it waits for nothing.
FairSpec == Spec /\ WF_vars(Step)

-----------------------------------------------------------------------------
(* Properties *)

Positions == 1..MaxBlocks
Texts == ((1..MaxLetters) \X (1..MaxParts)) \union {Unset}

\* The range of every variable.
TypeOK ==
  /\ \A i \in DOMAIN disk :
       /\ disk[i].kind \in {"header", "data", "deleted"}
       /\ disk[i].next \in Positions \union {LastBlock, Bad}
       /\ disk[i].text \in Texts
  /\ index \in [Players -> Seq(Positions)]
  /\ free \in Seq(Positions)
  /\ noMail \in BOOLEAN
  /\ call.op \in {"idle", "link", "data", "take", "read", "hand"}
  /\ letters \in Seq([to : Players, parts : 1..MaxParts])
  /\ \A i \in DOMAIN delivered : delivered[i].to \in Players

\* The blocks of the letter whose header is at pos, in order.
Chain(pos) ==
  LET follow[i \in 1..MaxBlocks] ==
        IF i = 1 THEN pos
        ELSE IF follow[i - 1] \in 1..Len(disk) THEN disk[follow[i - 1]].next
        ELSE LastBlock
      reach == {i \in 1..MaxBlocks : follow[i] # LastBlock}
  IN [i \in 1..Cardinality(reach) |-> follow[i]]

Whole(l) == [i \in 1..letters[l].parts |-> <<l, i>>]

\* What a letter's recipient will read, if the header at pos is a sound one.
Readable(p, pos) ==
  /\ pos \in 1..Len(disk)
  /\ disk[pos].kind = "header" /\ disk[pos].to = p
  /\ LET chain == Chain(pos) l == disk[pos].text[1]
     IN /\ \A i \in 2..Len(chain) :
             chain[i] \in 1..Len(disk) /\ disk[chain[i]].kind = "data"
        /\ [i \in 1..Len(chain) |-> disk[chain[i]].text] = Whole(l)
        /\ letters[l].to = p

\* No block is in two letters, or twice in one, or in a letter and free.
BlocksHeldOnce ==
  LET heads == UNION {Range(index[p]) : p \in Players}
      blocks(pos) == Range(Chain(pos))
  IN /\ \A p, q \in heads : p # q => blocks(p) \intersect blocks(q) = {}
     /\ \A p \in heads : Len(Chain(p)) = Cardinality(blocks(p))
     /\ \A p \in heads : blocks(p) \intersect Range(free) = {}
     /\ Len(free) = Cardinality(Range(free))

\* Between two calls every letter in the index can be read whole, by the one it was
\* written to; and no block is in two letters, or in a letter and free, so it stays so
\* whatever is stored next.
LettersReadable ==
  call = Idle =>
    /\ \A p \in Players : \A i \in DOMAIN index[p] : Readable(p, index[p][i])
    /\ BlocksHeldOnce

\* What the server believes of its file is what it would find if it were started
\* again: a restart between two calls forgets nothing and invents nothing.
MemoryIsFile ==
  call = Idle /\ ~noMail =>
    /\ \A p \in Players : Range(index[p]) = Range(ScannedIndex(disk)[p])
    /\ Range(free) = Range(ScannedFree(disk))

\* What has become of a letter.
InHand(l) == call.op \in {"read"} /\ call.text[1][1] = l
OnFile(l) == \E i \in DOMAIN disk : disk[i].kind = "header" /\ disk[i].text[1] = l
Received(l) == \E i \in DOMAIN delivered : delivered[i].text[1][1] = l
BeingStored(l) == call.op \in {"link", "data"} /\ l = Len(letters)

Fate(l) == IF BeingStored(l) THEN "posting"
           ELSE IF InHand(l) \/ OnFile(l) THEN "waiting"
           ELSE IF Received(l) THEN "received" ELSE "lost"

\* The file of blocks is a mailbox: whatever is stored, freed, used again and found
\* after a restart, each letter is received once, whole, by its recipient.
Mailbox == INSTANCE Mailboxes WITH
  fate <- [l \in DOMAIN letters |-> Fate(l)],
  Lossy <- "receiving" \in Stops
\* mail.c implements Mailboxes.
IsMailbox == Mailbox!Spec

\* Asking for mail comes to an end: read_delete never follows a link round and round.
ReceivingEnds == (call.op = "take") ~> (call = Idle)
=============================================================================

------------------------------ MODULE Mailboxes ------------------------------
(***************************************************************************)
(* What a mail system promises, whatever it keeps its letters in: a letter *)
(* that was posted waits for its recipient, who receives it once and       *)
(* whole.  A letter may be lost only where `Lossy' says so: mail.c takes a *)
(* letter out of its file before it hands it over, so a server that stops  *)
(* in between loses that one letter.                                       *)
(***************************************************************************)
EXTENDS Naturals, Sequences

CONSTANTS
  Players,      \* who can be written to
  MaxLetters,   \* bound: letters posted in a behaviour
  MaxParts,     \* bound: the pieces a letter's text falls into
  Lossy         \* may a letter be lost while it is handed over?

VARIABLES
  letters,      \* every letter begun, in order: [to, parts]
  fate,         \* what has become of each
  delivered     \* what was handed over, in order: [to, text]

vars == <<letters, fate, delivered>>

\* The whole text of letter l, piece by piece.
Text(l) == [i \in 1..letters[l].parts |-> <<l, i>>]

Init == letters = <<>> /\ fate = <<>> /\ delivered = <<>>

\* A letter is begun; it may be posted at once.
Compose(p, n) ==
  /\ Len(letters) < MaxLetters
  /\ letters' = Append(letters, [to |-> p, parts |-> n])
  /\ \E f \in {"posting", "waiting"} : fate' = Append(fate, f)
  /\ UNCHANGED delivered

Becomes(l, old, new) ==
  /\ fate[l] = old
  /\ fate' = [fate EXCEPT ![l] = new]
  /\ UNCHANGED letters

Post(l) == Becomes(l, "posting", "waiting") /\ UNCHANGED delivered

Receive(l) ==
  /\ Becomes(l, "waiting", "received")
  /\ delivered' = Append(delivered, [to |-> letters[l].to, text |-> Text(l)])

Lose(l) == Lossy /\ Becomes(l, "waiting", "lost") /\ UNCHANGED delivered

Next ==
  \/ \E p \in Players, n \in 1..MaxParts : Compose(p, n)
  \/ \E l \in 1..Len(letters) : Post(l) \/ Receive(l) \/ Lose(l)

Spec == Init /\ [][Next]_vars
=============================================================================

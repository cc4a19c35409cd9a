----------------------------- MODULE DurableStore -----------------------------
(***************************************************************************)
(* What stored contents promise to those who change them: an acknowledged  *)
(* change replaces what was there, one that failed or was cut off happened *)
(* as a whole or not at all, and a restart finds what was last             *)
(* acknowledged or a change attempted since.  A cell that is rewritten in  *)
(* place promises less: its Wreck may be found, but hides no other content.*)
(* A start that cannot read what is there may come back with older content *)
(* that was left on the medium, whole, and counts as a misreading; nothing *)
(* is ever found that was not once shown or attempted.                     *)
(***************************************************************************)
EXTENDS Naturals

CONSTANTS
  Cells,
  Kept(_, _),  \* Kept(c, v): what a start keeps of content v of cell c
  Wreck(_)     \* Wreck(c): {}, or the contents a failed write of c may leave

VARIABLES
  shown,    \* shown[c]: the content the program works with, or last did
  maybe,    \* maybe[c]: what else a restart may find
  open,     \* the cells that have been read since power returned
  left,     \* left[c]: the contents left on the medium
  misreads  \* starts that could not read what was there
vars == <<shown, maybe, open, left, misreads>>

Init ==
  /\ maybe = [c \in Cells |-> {}] /\ open = {}
  /\ \A c \in Cells : left[c] \subseteq {shown[c]}

Settle(c) == c \in open /\ maybe'[c] = {}

Doubt(c) ==
  /\ c \in open
  /\ shown'[c] = shown[c]
  /\ \E v \in maybe'[c] : maybe'[c] = maybe[c] \cup {v} \cup Wreck(c)

(* Memory has the new content, the medium may not.                         *)
Proceed(c) ==
  /\ c \in open /\ Wreck(c) # {}
  /\ maybe'[c] = maybe[c] \cup {shown[c]} \cup Wreck(c)

Reopen(c) ==
  /\ c \notin open
  /\ \/ /\ \E v \in {shown[c]} \cup maybe[c] : shown'[c] = Kept(c, v)
        /\ maybe'[c] = {}
     \/ /\ shown'[c] \in Wreck(c)
        /\ maybe'[c] = maybe[c] \cup {shown[c]}

Misread(c) ==
  /\ c \notin open /\ misreads' = misreads + 1
  /\ \/ /\ \E v \in left[c] : shown'[c] = Kept(c, v)
        /\ maybe'[c] = {}
     \/ /\ shown'[c] = shown[c] \/ shown'[c] \in Wreck(c)
        /\ maybe'[c] = maybe[c] \cup {shown[c]} \cup left[c]

Leaves(c) ==
  left'[c] \subseteq left[c] \cup maybe[c] \cup maybe'[c] \cup {shown[c], shown'[c]}

Rest(c) == shown'[c] = shown[c] /\ maybe'[c] = maybe[c]

Next ==
  /\ \A c \in Cells : Rest(c) \/ Settle(c) \/ Doubt(c) \/ Proceed(c) \/ Reopen(c)
                       \/ Misread(c)
  /\ \A c \in open' \ open : Reopen(c) \/ Misread(c)
  /\ \A c \in Cells : Leaves(c)

Spec == Init /\ [][Next]_vars
=============================================================================

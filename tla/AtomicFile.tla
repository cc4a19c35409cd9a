------------------------------ MODULE AtomicFile ------------------------------
(***************************************************************************)
(* A file with its .tmp and .bak: what _save_collection and                *)
(* SettingsStore._save leave on the medium when they complete, when an     *)
(* OSError interrupts them and when the power fails, and what the next     *)
(* start reads back.  A name holds Absent, Torn (an unparsable fragment)   *)
(* or a whole content.                                                     *)
(***************************************************************************)
CONSTANT AtomicReplace   \* os.replace (CPython), or remove and rename (MicroPython)
ASSUME AtomicFileAssumption == AtomicReplace \in BOOLEAN

Absent == [is |-> "absent"]
Torn == [is |-> "torn"]
Whole(v) == [is |-> "whole", content |-> v]
Readable(x) == x.is = "whole"

Names == {"pri", "tmp", "bak"}
Only(x) == [pri |-> x, tmp |-> Absent, bak |-> Absent]

(* replace(from, to), and where the power may fail on the way.             *)
Move(f, from, to) == [f EXCEPT ![to] = f[from], ![from] = Absent]
Moving(f, from, to) ==
  {f, Move(f, from, to)}
    \cup IF AtomicReplace THEN {} ELSE {[f EXCEPT ![to] = Absent]}

(* Mutant of Backed: the old content is deleted instead of kept.           *)
BackedNot(f) == [f EXCEPT !.pri = Absent]

(* The three steps of a save: the new content to .tmp, the old one to      *)
(* .bak, the new one in place.                                             *)
Written(f, v) == [f EXCEPT !.tmp = Whole(v)]
Backed(f) == IF f.pri = Absent THEN f ELSE Move(f, "pri", "bak")
Installed(f) == Move(f, "tmp", "pri")
Saved(f, v) == Installed(Backed(Written(f, v)))

(* A power cut during a save.                                              *)
Interrupted(f, v) ==
  {f, [f EXCEPT !.tmp = Torn], Written(f, v)}
    \cup (IF f.pri = Absent THEN {} ELSE Moving(Written(f, v), "pri", "bak"))
    \cup {Backed(Written(f, v)), Saved(f, v)}

(* An OSError: where a cut could strike, and after a failed install the    *)
(* old content is put back, unless that fails too.  A failed sync leaves   *)
(* the new content in place.                                               *)
Restored(f) == IF f.bak # Absent /\ f.pri = Absent THEN Move(f, "bak", "pri") ELSE f
Refused(f, v) == Interrupted(f, v) \cup {Restored(Backed(Written(f, v)))}

(* The start: the first readable of file, .tmp and .bak, which is moved    *)
(* into place.  Adoptions: what an attempt to move .tmp may leave.          *)
IsFirst(f, n) ==
  /\ Readable(f[n])
  /\ n # "pri" => ~ Readable(f.pri)
  /\ n = "bak" => ~ Readable(f.tmp)
Unreadable(f) == \A n \in Names : ~ Readable(f[n])
Adopted(f, n) == IF n = "pri" THEN f ELSE Move(f, n, "pri")
Adoptions(f) == {f} \cup IF IsFirst(f, "tmp") THEN {Adopted(f, "tmp")} ELSE {}

(* A start that cannot read a whole name goes on to the next and moves it  *)
(* over the one it could not read.  Passed: the file when name n is read;  *)
(* Misplaced: what is left when no move succeeds.                          *)
Wholes(f) == {f[n].content : n \in {m \in Names : Readable(f[m])}}
Passed(f, n) ==
  {f} \cup IF n = "bak" /\ Readable(f.tmp) THEN Moving(f, "tmp", "pri") ELSE {}
Misplaced(f) ==
  Passed(f, "bak")
    \cup IF Readable(f.bak) THEN UNION {Moving(g, "bak", "pri") : g \in Passed(f, "bak")}
         ELSE {}
=============================================================================

---------------------------- MODULE CatalogProofs ----------------------------
(***************************************************************************)
(* Proofs about Catalog: what a start can find on the medium is what was   *)
(* acknowledged or attempted, for any collections, contents, errors and    *)
(* power cuts, and what is up works on sound contents.                     *)
(***************************************************************************)
EXTENDS Catalog, SequenceTheorems, TLAPS

-----------------------------------------------------------------------------
(* The inductive invariant                                                 *)

(* A function that is no more than its values on S.                        *)
IsMap(f, S) == f = [x \in S |-> f[x]]

(* A name of a file, and a file, with whole contents from G only.          *)
IsSlot(x, G) == x \in {Absent, Torn} \/ (x = Whole(x.content) /\ x.content \in G)
Names3(p, t, b) == [pri |-> p, tmp |-> t, bak |-> b]
IsFileOf(f, G) ==
  /\ f = Names3(f.pri, f.tmp, f.bak)
  /\ IsSlot(f.pri, G) /\ IsSlot(f.tmp, G) /\ IsSlot(f.bak, G)

(* The contents a start may take from a file: .tmp or .bak only when the   *)
(* file itself cannot be read, and .bak also when .tmp cannot be moved.    *)
Held(x) == IF Readable(x) THEN {x.content} ELSE {}
Finds(c, f) ==
  IF f = Only(Absent) THEN {Empty(c)}
  ELSE IF Readable(f.pri) THEN {f.pri.content}
  ELSE Held(f.tmp) \cup Held(f.bak)

(* Contents the program may have written.                                  *)
Proper(c) ==
  IF c = "settings" THEN {s \in Settings : s.elev # Unset => Located(s)}
  ELSE {v \in SUBSET Entity : \A e \in v : Refers(c, e)}

(* One cell: only proper contents anywhere, and a start finds the content  *)
(* in memory or one attempted since.                                       *)
Recalls(c, m, t, x) == \E v \in {m} \cup t : Kept(c, x) = Kept(c, v)
CellOK(c, f, m, t) ==
  /\ m \in Proper(c)
  /\ IsFileOf(f, Proper(c))
  /\ \A x \in Finds(c, f) : Recalls(c, m, t, x)
Contents == \A c \in Cells : CellOK(c, file[c], mem[c], tried[c])

Unused(v, g) == \A e \in v : e.refs \cap g = {}
CellUnused(c, f, m, g) == Unused(m, g) /\ \A x \in Finds(c, f) : Unused(x, g)
Unreferenced == \A c \in Collections : CellUnused(c, file[c], mem[c], gone)

RegistryFinds == IF Readable(regfile) THEN regfile.content ELSE {}
RegistryKnown ==
  /\ registry \subseteq Devices
  /\ IsSlot(regfile, SUBSET Devices)
  /\ RegistryFinds \in {registry} \cup tried["registry"]

(* What a start still has to do ends with both migrations.                 *)
Steps(s) == {s[k] : k \in 1 .. Len(s)}
Repairs == {"purge", "backfill"}
InOrder(s) ==
  /\ s \in Seq(Cells \cup {"registry"} \cup Repairs)
  /\ \A k \in 1 .. Len(s) : s[k] \notin Repairs =>
       /\ \A j \in 1 .. k : s[j] \notin Repairs
       /\ \A r \in Repairs : \E j \in 1 .. Len(s) : k < j /\ s[j] = r
Starting ==
  /\ power \in {"off", "starting", "up"}
  /\ (power = "starting") <=> (todo # <<>>)
  /\ InOrder(todo)

(* The migrations: what is loaded is held without retired schedules, what  *)
(* is purged was rewritten without them, what is backfilled has an         *)
(* elevation.                                                              *)
Settled(f) == Readable(f.pri) \/ f = Only(Absent)
Purged(f) == \A x \in Finds("schedules", f) : Live(x) = x
SchedulesHeld ==
  power # "off" /\ "schedules" \in Collections /\ "schedules" \notin Steps(todo) =>
    /\ Live(mem["schedules"]) = mem["schedules"]
    /\ "purge" \in Steps(todo) => Settled(file["schedules"])
SchedulesPurged ==
  power # "off" /\ "schedules" \in Collections /\ "purge" \notin Steps(todo) =>
    Purged(file["schedules"])
ElevationSet ==
  power # "off" /\ "backfill" \notin Steps(todo) => mem["settings"].elev # Unset
Repairing == SchedulesHeld /\ SchedulesPurged /\ ElevationSet

Shape ==
  /\ IsMap(file, Cells) /\ IsMap(mem, Cells)
  /\ IsMap(tried, Cells \cup {"registry"})

IInv ==
  /\ Shape /\ Contents /\ Unreferenced /\ RegistryKnown /\ Starting /\ Repairing

-----------------------------------------------------------------------------
(* Files                                                                   *)

LEMMA NotWhole ==
  ~ Readable(Absent) /\ ~ Readable(Torn) /\ Absent # Torn
BY SMT DEF Readable, Absent, Torn

LEMMA IsWhole ==
  ASSUME NEW v
  PROVE  Readable(Whole(v)) /\ Whole(v).content = v /\ Whole(v) # Absent /\ Whole(v) # Torn
BY SMT DEF Readable, Absent, Torn, Whole

(* What each step of a save and of an adoption does to the three names.    *)
LEMMA Parts ==
  ASSUME NEW p, NEW t, NEW b
  PROVE  /\ Names3(p, t, b).pri = p /\ Names3(p, t, b).tmp = t /\ Names3(p, t, b).bak = b
         /\ Names3(p, t, b)["pri"] = p /\ Names3(p, t, b)["tmp"] = t
         /\ Names3(p, t, b)["bak"] = b
BY SMT DEF Names3

LEMMA WrittenIs ==
  ASSUME NEW p, NEW t, NEW b, NEW v
  PROVE  Written(Names3(p, t, b), v) = Names3(p, Whole(v), b)
BY SMT DEF Names3, Written

LEMMA FileSteps ==
  ASSUME NEW p, NEW t, NEW b
  PROVE  /\ Move(Names3(p, t, b), "pri", "bak") = Names3(Absent, t, p)
         /\ Move(Names3(p, t, b), "tmp", "pri") = Names3(t, Absent, b)
         /\ Move(Names3(p, t, b), "bak", "pri") = Names3(b, t, Absent)
         /\ [Names3(p, t, b) EXCEPT !.tmp = Torn] = Names3(p, Torn, b)
         /\ [Names3(p, t, b) EXCEPT !["bak"] = Absent] = Names3(p, t, Absent)
         /\ [Names3(p, t, b) EXCEPT !["pri"] = Absent] = Names3(Absent, t, b)
<1>2. Move(Names3(p, t, b), "pri", "bak") = Names3(Absent, t, p)
  BY SMT DEF Names3, Move
<1>3. Move(Names3(p, t, b), "tmp", "pri") = Names3(t, Absent, b)
  BY SMT DEF Names3, Move
<1>4. Move(Names3(p, t, b), "bak", "pri") = Names3(b, t, Absent)
  BY SMT DEF Names3, Move
<1>5. [Names3(p, t, b) EXCEPT !.tmp = Torn] = Names3(p, Torn, b)
  BY SMT DEF Names3
<1>6. [Names3(p, t, b) EXCEPT !["bak"] = Absent] = Names3(p, t, Absent)
  BY SMT DEF Names3
<1>7. [Names3(p, t, b) EXCEPT !["pri"] = Absent] = Names3(Absent, t, b)
  BY SMT DEF Names3
<1> QED  BY <1>2, <1>3, <1>4, <1>5, <1>6, <1>7

LEMMA OnlyIs ==
  ASSUME NEW p, NEW t, NEW b
  PROVE  /\ Only(p) = Names3(p, Absent, Absent)
         /\ Names3(p, t, b) = Only(Absent) <=> p = Absent /\ t = Absent /\ b = Absent
BY SMT DEF Only, Names3

LEMMA SavedIs ==
  ASSUME NEW p, NEW t, NEW b, NEW v
  PROVE  /\ Backed(Written(Names3(p, t, b), v)) =
              IF p = Absent THEN Names3(p, Whole(v), b) ELSE Names3(Absent, Whole(v), p)
         /\ Saved(Names3(p, t, b), v) =
              Names3(Whole(v), Absent, IF p = Absent THEN b ELSE p)
<1> DEFINE f == Names3(p, t, b)
           w == Names3(p, Whole(v), b)
<1>1. Written(f, v) = w
  BY WrittenIs
<1>2. w.pri = p /\ Move(w, "pri", "bak") = Names3(Absent, Whole(v), p)
  BY FileSteps, Parts
<1>3. Backed(w) = IF p = Absent THEN w ELSE Names3(Absent, Whole(v), p)
  BY <1>2 DEF Backed
<1>4. Installed(w) = Names3(Whole(v), Absent, b)
  BY FileSteps DEF Installed
<1>5. Installed(Names3(Absent, Whole(v), p)) = Names3(Whole(v), Absent, p)
  BY FileSteps DEF Installed
<1> HIDE DEF f, w
<1>6. Saved(f, v) = IF p = Absent THEN Installed(w) ELSE Installed(Names3(Absent, Whole(v), p))
  BY <1>1, <1>3 DEF Saved
<1>7. Saved(f, v) = Names3(Whole(v), Absent, IF p = Absent THEN b ELSE p)
  BY <1>4, <1>5, <1>6
<1> QED  BY <1>1, <1>3, <1>7 DEF f, w

(* What a save that raises or is cut off may leave.                        *)
LEMMA RefusedIs ==
  ASSUME NEW p, NEW t, NEW b, NEW v, NEW g \in Refused(Names3(p, t, b), v)
  PROVE  \/ g = Names3(p, t, b)
         \/ g = Names3(p, Torn, b)
         \/ g = Names3(p, Whole(v), b)
         \/ p # Absent /\ g \in {Names3(Absent, Whole(v), p), Names3(p, Whole(v), Absent)}
         \/ g = Names3(Whole(v), Absent, IF p = Absent THEN b ELSE p)
         \/ p = Absent /\ b # Absent /\ g = Names3(b, Whole(v), Absent)
<1> DEFINE f == Names3(p, t, b)
           w == Names3(p, Whole(v), b)
           k == Names3(Absent, Whole(v), p)
<1>1. f.pri = p /\ w.pri = p /\ w.bak = b /\ k.pri = Absent /\ k.bak = p
  BY Parts
<1>2. Written(f, v) = w /\ [f EXCEPT !.tmp = Torn] = Names3(p, Torn, b)
  BY FileSteps, WrittenIs
<1>3. /\ Move(w, "pri", "bak") = k /\ [w EXCEPT !["bak"] = Absent] = Names3(p, Whole(v), Absent)
      /\ Move(w, "bak", "pri") = Names3(b, Whole(v), Absent)
      /\ Move(k, "bak", "pri") = Names3(p, Whole(v), Absent)
  BY FileSteps
<1>4. Backed(w) = IF p = Absent THEN w ELSE k
  BY <1>1, <1>3 DEF Backed
<1>5. Saved(f, v) = Names3(Whole(v), Absent, IF p = Absent THEN b ELSE p)
  BY SavedIs
<1>6. Moving(w, "pri", "bak") \subseteq {w, k, Names3(p, Whole(v), Absent)}
  BY <1>3 DEF Moving
<1>7. Restored(Backed(w)) \in
        IF p # Absent THEN {Names3(p, Whole(v), Absent)}
        ELSE IF b # Absent THEN {Names3(b, Whole(v), Absent)} ELSE {w}
  <2>1. CASE p # Absent
    BY <2>1, <1>1, <1>3, <1>4 DEF Restored
  <2>2. CASE p = Absent /\ b # Absent
    BY <2>2, <1>1, <1>3, <1>4 DEF Restored
  <2>3. CASE p = Absent /\ b = Absent
    BY <2>3, <1>1, <1>4 DEF Restored
  <2> QED  BY <2>1, <2>2, <2>3
<1> HIDE DEF f, w, k
<1>8. \/ g \in {f, Names3(p, Torn, b), w, Backed(w), Saved(f, v), Restored(Backed(w))}
      \/ p # Absent /\ g \in Moving(w, "pri", "bak")
  BY <1>1, <1>2 DEF Refused, Interrupted, f
<1> QED  BY <1>4, <1>5, <1>6, <1>7, <1>8 DEF f, w, k

LEMMA FindsIs ==
  ASSUME NEW c, NEW p, NEW t, NEW b
  PROVE  Finds(c, Names3(p, t, b)) =
           IF p = Absent /\ t = Absent /\ b = Absent THEN {Empty(c)}
           ELSE IF Readable(p) THEN {p.content} ELSE Held(t) \cup Held(b)
<1> DEFINE f == Names3(p, t, b)
<1>1. f.pri = p /\ f.tmp = t /\ f.bak = b
  BY Parts
<1>2. f = Only(Absent) <=> p = Absent /\ t = Absent /\ b = Absent
  BY OnlyIs
<1> HIDE DEF f
<1> QED  BY <1>1, <1>2 DEF Finds, f

LEMMA HeldIs ==
  ASSUME NEW v
  PROVE  Held(Absent) = {} /\ Held(Torn) = {} /\ Held(Whole(v)) = {v}
BY NotWhole, IsWhole DEF Held


LEMMA Slots ==
  ASSUME NEW G
  PROVE  /\ IsSlot(Absent, G) /\ IsSlot(Torn, G)
         /\ \A v \in G : IsSlot(Whole(v), G)
         /\ \A x : IsSlot(x, G) /\ Readable(x) => x = Whole(x.content) /\ x.content \in G
<1>1. \A v \in G : IsSlot(Whole(v), G)
  BY IsWhole DEF IsSlot
<1>2. \A x : IsSlot(x, G) /\ Readable(x) => x = Whole(x.content) /\ x.content \in G
  BY NotWhole DEF IsSlot
<1> QED  BY <1>1, <1>2 DEF IsSlot

LEMMA FileParts ==
  ASSUME NEW G, NEW p, NEW t, NEW b
  PROVE  IsFileOf(Names3(p, t, b), G) <=> IsSlot(p, G) /\ IsSlot(t, G) /\ IsSlot(b, G)
BY Parts DEF IsFileOf

LEMMA FileSaved ==
  ASSUME NEW G, NEW f, IsFileOf(f, G), NEW v \in G, NEW c
  PROVE  /\ IsFileOf(Saved(f, v), G)
         /\ Finds(c, Saved(f, v)) = {v}
         /\ Saved(f, v).pri = Whole(v)
<1>1. PICK p, t, b : f = Names3(p, t, b)
  BY DEF IsFileOf
<1>2. IsSlot(p, G) /\ IsSlot(t, G) /\ IsSlot(b, G)
  BY <1>1, FileParts
<1> DEFINE k == IF p = Absent THEN b ELSE p
<1>3. Saved(f, v) = Names3(Whole(v), Absent, k)
  BY <1>1, SavedIs
<1>4. IsSlot(Whole(v), G) /\ IsSlot(Absent, G) /\ IsSlot(k, G)
  BY <1>2, Slots
<1> HIDE DEF k
<1>5. IsFileOf(Saved(f, v), G)
  BY <1>3, <1>4, FileParts
<1>6. Readable(Whole(v)) /\ Whole(v).content = v /\ Whole(v) # Absent
  BY IsWhole
<1>7. Finds(c, Saved(f, v)) = {v}
  BY <1>3, <1>6, FindsIs
<1>8. Saved(f, v).pri = Whole(v)
  BY <1>3, Parts
<1> QED  BY <1>5, <1>7, <1>8

LEMMA FileRefused ==
  ASSUME NEW c, NEW G, NEW f, IsFileOf(f, G), NEW v \in G, NEW g \in Refused(f, v)
  PROVE  IsFileOf(g, G) /\ Finds(c, g) \subseteq Finds(c, f) \cup {v}
<1>1. PICK p, t, b : f = Names3(p, t, b)
  BY DEF IsFileOf
<1>2. IsSlot(p, G) /\ IsSlot(t, G) /\ IsSlot(b, G)
  BY <1>1, FileParts
<1> DEFINE w == Whole(v)
<1>3. IsSlot(w, G) /\ IsSlot(Absent, G) /\ IsSlot(Torn, G)
  BY Slots
<1>4. Readable(w) /\ w.content = v /\ w # Absent /\ Held(w) = {v}
  BY IsWhole, HeldIs
<1>5. ~ Readable(Absent) /\ ~ Readable(Torn) /\ Absent # Torn /\ Held(Absent) = {} /\ Held(Torn) = {}
  BY NotWhole, HeldIs
<1>6. Finds(c, f) = IF p = Absent /\ t = Absent /\ b = Absent THEN {Empty(c)}
                    ELSE IF Readable(p) THEN {p.content} ELSE Held(t) \cup Held(b)
  BY <1>1, FindsIs
<1> HIDE DEF w
<1>7. CASE g = f
  BY <1>7
<1>8. CASE g = Names3(p, Torn, b)
  <2>1. IsFileOf(g, G)
    BY <1>2, <1>3, <1>8, FileParts
  <2>2. Finds(c, g) = IF Readable(p) THEN {p.content} ELSE Held(Torn) \cup Held(b)
    <3>1. Finds(c, Names3(p, Torn, b)) =
            IF p = Absent /\ Torn = Absent /\ b = Absent THEN {Empty(c)}
            ELSE IF Readable(p) THEN {p.content} ELSE Held(Torn) \cup Held(b)
      BY FindsIs
    <3> QED  BY <1>8, <3>1, NotWhole
  <2>3. CASE Readable(p)
    BY <1>5, <1>6, <2>1, <2>2, <2>3
  <2>4. CASE ~ Readable(p) /\ ~ (p = Absent /\ t = Absent /\ b = Absent)
    BY <1>5, <1>6, <2>1, <2>2, <2>4
  <2>5. CASE p = Absent /\ t = Absent /\ b = Absent
    BY <1>5, <2>1, <2>2, <2>5
  <2> QED  BY <2>3, <2>4, <2>5
<1>9. CASE g = Names3(p, w, b)
  <2>1. IsFileOf(g, G)
    BY <1>2, <1>3, <1>9, FileParts
  <2>2. Finds(c, g) = IF Readable(p) THEN {p.content} ELSE Held(w) \cup Held(b)
    BY <1>4, <1>9, FindsIs
  <2>3. CASE Readable(p)
    BY <1>5, <1>6, <2>1, <2>2, <2>3
  <2>4. CASE ~ Readable(p) /\ ~ (p = Absent /\ t = Absent /\ b = Absent)
    BY <1>4, <1>6, <2>1, <2>2, <2>4
  <2>5. CASE p = Absent /\ t = Absent /\ b = Absent
    BY <1>4, <1>5, <2>1, <2>2, <2>5
  <2> QED  BY <2>3, <2>4, <2>5
<1>10. CASE p # Absent /\ g = Names3(Absent, w, p)
  <2>1. IsFileOf(g, G)
    BY <1>2, <1>3, <1>10, FileParts
  <2>2. Finds(c, g) = Held(w) \cup Held(p)
    BY <1>4, <1>5, <1>10, FindsIs
  <2>3. Held(p) \subseteq Finds(c, f)
    BY <1>6, <1>10 DEF Held
  <2> QED  BY <1>4, <2>1, <2>2, <2>3
<1>11. CASE p # Absent /\ g = Names3(p, w, Absent)
  <2>1. IsFileOf(g, G)
    BY <1>2, <1>3, <1>11, FileParts
  <2>2. Finds(c, g) = IF Readable(p) THEN {p.content} ELSE Held(w) \cup Held(Absent)
    BY <1>11, FindsIs
  <2> QED  BY <1>4, <1>5, <1>6, <1>11, <2>1, <2>2
<1>12. CASE g = Names3(w, Absent, IF p = Absent THEN b ELSE p)
  <2>1. g = Saved(f, v)
    BY <1>1, <1>12, SavedIs DEF w
  <2> QED  BY <2>1, FileSaved
<1>13. CASE p = Absent /\ b # Absent /\ g = Names3(b, w, Absent)
  <2>1. IsFileOf(g, G)
    BY <1>2, <1>3, <1>13, FileParts
  <2>2. Finds(c, g) = IF Readable(b) THEN {b.content} ELSE Held(w) \cup Held(Absent)
    BY <1>13, FindsIs
  <2>3. Finds(c, f) = Held(t) \cup Held(b)
    BY <1>5, <1>6, <1>13
  <2>4. CASE Readable(b)
    BY <2>1, <2>2, <2>3, <2>4 DEF Held
  <2>5. CASE ~ Readable(b)
    BY <1>4, <1>5, <2>1, <2>2, <2>5
  <2> QED  BY <2>4, <2>5
<1> QED  BY <1>1, <1>7, <1>8, <1>9, <1>10, <1>11, <1>12, <1>13, RefusedIs DEF w

(* What a start finds first, and the file it leaves in place.              *)
LEMMA FileFirst ==
  ASSUME NEW c, NEW G, NEW f, IsFileOf(f, G), NEW n \in Names, IsFirst(f, n)
  PROVE  /\ f[n].content \in G /\ f[n].content \in Finds(c, f)
         /\ IsFileOf(Adopted(f, n), G)
         /\ Finds(c, Adopted(f, n)) = {f[n].content}
         /\ Readable(Adopted(f, n).pri)
<1>1. PICK p, t, b : f = Names3(p, t, b)
  BY DEF IsFileOf
<1>2. IsSlot(p, G) /\ IsSlot(t, G) /\ IsSlot(b, G)
  BY <1>1, FileParts
<1>3. /\ f.pri = p /\ f.tmp = t /\ f.bak = b
      /\ f["pri"] = p /\ f["tmp"] = t /\ f["bak"] = b
  BY <1>1, Parts
<1>4. ~ Readable(Absent) /\ IsSlot(Absent, G) /\ Held(Absent) = {}
  BY NotWhole, Slots, HeldIs
<1>5. \A x : IsSlot(x, G) /\ Readable(x) => x.content \in G
  BY Slots
<1>6. Finds(c, f) = IF p = Absent /\ t = Absent /\ b = Absent THEN {Empty(c)}
                    ELSE IF Readable(p) THEN {p.content} ELSE Held(t) \cup Held(b)
  BY <1>1, FindsIs
<1>7. CASE n = "pri"
  <2>1. Readable(p) /\ Adopted(f, n) = f
    BY <1>3, <1>7 DEF IsFirst, Adopted
  <2> QED  BY <1>2, <1>3, <1>4, <1>5, <1>6, <1>7, <2>1
<1>8. CASE n = "tmp"
  <2>1. Readable(t) /\ ~ Readable(p)
    BY <1>3, <1>8 DEF IsFirst
  <2>2. Adopted(f, n) = Names3(t, Absent, b)
    BY <1>1, <1>8, FileSteps DEF Adopted
  <2>3. IsFileOf(Adopted(f, n), G)
    BY <1>2, <1>4, <2>2, FileParts
  <2>4. Finds(c, Adopted(f, n)) = {t.content}
    BY <1>4, <2>1, <2>2, FindsIs
  <2>5. Adopted(f, n).pri = t
    BY <2>2, Parts
  <2>6. t.content \in Finds(c, f)
    BY <1>4, <1>6, <2>1 DEF Held
  <2> QED  BY <1>2, <1>3, <1>5, <1>8, <2>1, <2>3, <2>4, <2>5, <2>6
<1>9. CASE n = "bak"
  <2>1. Readable(b) /\ ~ Readable(p)
    BY <1>3, <1>9 DEF IsFirst
  <2>2. Adopted(f, n) = Names3(b, t, Absent)
    BY <1>1, <1>9, FileSteps DEF Adopted
  <2>3. IsFileOf(Adopted(f, n), G)
    BY <1>2, <1>4, <2>2, FileParts
  <2>4. Finds(c, Adopted(f, n)) = {b.content}
    BY <1>4, <2>1, <2>2, FindsIs
  <2>5. Adopted(f, n).pri = b
    BY <2>2, Parts
  <2>6. b.content \in Finds(c, f)
    BY <1>4, <1>6, <2>1 DEF Held
  <2> QED  BY <1>2, <1>3, <1>5, <1>9, <2>1, <2>3, <2>4, <2>5, <2>6
<1> QED  BY <1>7, <1>8, <1>9 DEF Names

(* A start that could not move .tmp into place, and its turn to .bak.      *)
LEMMA FileAdoptions ==
  ASSUME NEW c, NEW G, NEW f, IsFileOf(f, G), NEW g \in Adoptions(f),
         IsFirst(f, "tmp") \/ IsFirst(f, "bak")
  PROVE  /\ IsFileOf(g, G) /\ Finds(c, g) \subseteq Finds(c, f)
         /\ Readable(g.bak) =>
              /\ IsFileOf(Adopted(g, "bak"), G)
              /\ Finds(c, Adopted(g, "bak")) = {g.bak.content}
              /\ g.bak.content \in Finds(c, f) /\ g.bak.content \in G
              /\ Readable(Adopted(g, "bak").pri)
<1>1. PICK p, t, b : f = Names3(p, t, b)
  BY DEF IsFileOf
<1>2. IsSlot(p, G) /\ IsSlot(t, G) /\ IsSlot(b, G)
  BY <1>1, FileParts
<1>3. /\ f.pri = p /\ f.tmp = t /\ f.bak = b
      /\ f["pri"] = p /\ f["tmp"] = t /\ f["bak"] = b
  BY <1>1, Parts
<1>4. ~ Readable(p) /\ (Readable(t) \/ Readable(b))
  BY <1>3 DEF IsFirst
<1>5. ~ Readable(Absent) /\ IsSlot(Absent, G) /\ Held(Absent) = {}
  BY NotWhole, Slots, HeldIs
<1>6. Finds(c, f) = Held(t) \cup Held(b)
  BY <1>1, <1>4, <1>5, FindsIs
<1>7. \A x : IsSlot(x, G) /\ Readable(x) => x.content \in G
  BY Slots
<1>8. PICK q, s : /\ g = Names3(q, s, b) /\ IsSlot(q, G) /\ IsSlot(s, G)
                  /\ Finds(c, g) \subseteq Finds(c, f)
  <2>1. CASE g = f
    BY <1>1, <1>2, <2>1
  <2>2. CASE IsFirst(f, "tmp") /\ g = Adopted(f, "tmp")
    <3>1. g = Names3(t, Absent, b)
      BY <1>1, <2>2, FileSteps DEF Adopted
    <3>2. \A n \in Names : IsFirst(f, n) =>
             Finds(c, Adopted(f, n)) = {f[n].content} /\ f[n].content \in Finds(c, f)
      BY FileFirst
    <3>3. Finds(c, g) = {f["tmp"].content} /\ f["tmp"].content \in Finds(c, f)
      BY <2>2, <3>2 DEF Names
    <3> QED  BY <1>2, <1>5, <3>1, <3>3
  <2> QED  BY <2>1, <2>2 DEF Adoptions
<1>9. IsFileOf(g, G) /\ g.bak = b
  BY <1>2, <1>8, FileParts, Parts
<1>10. ASSUME Readable(b)
       PROVE  /\ IsFileOf(Adopted(g, "bak"), G)
              /\ Finds(c, Adopted(g, "bak")) = {b.content}
              /\ b.content \in Finds(c, f) /\ b.content \in G
              /\ Readable(Adopted(g, "bak").pri)
  <2>1. Adopted(g, "bak") = Names3(b, s, Absent)
    BY <1>8, FileSteps DEF Adopted
  <2>2. IsFileOf(Adopted(g, "bak"), G)
    BY <1>2, <1>5, <1>8, <2>1, FileParts
  <2>3. Finds(c, Adopted(g, "bak")) = {b.content}
    BY <1>5, <1>10, <2>1, FindsIs
  <2>4. Adopted(g, "bak").pri = b
    BY <2>1, Parts
  <2>5. b.content \in Finds(c, f)
    BY <1>6, <1>10 DEF Held
  <2> QED  BY <1>2, <1>7, <1>10, <2>2, <2>3, <2>4, <2>5
<1> QED  BY <1>8, <1>9, <1>10

LEMMA WholesIs ==
  ASSUME NEW p, NEW t, NEW b
  PROVE  Wholes(Names3(p, t, b)) = Held(p) \cup Held(t) \cup Held(b)
<1> DEFINE f == Names3(p, t, b)
<1>1. f["pri"] = p /\ f["tmp"] = t /\ f["bak"] = b
  BY Parts
<1> HIDE DEF f
<1>2. \A v : v \in Wholes(f) <=> \E n \in Names : Readable(f[n]) /\ v = f[n].content
  BY DEF Wholes
<1>3. \A v : v \in Wholes(f) <=> v \in Held(p) \cup Held(t) \cup Held(b)
  BY <1>1, <1>2 DEF Names, Held
<1> QED  BY <1>3 DEF f

(* A file has no whole contents but its own.                               *)
LEMMA FileWholes ==
  ASSUME NEW G, NEW f, IsFileOf(f, G)
  PROVE  Wholes(f) \subseteq G /\ \A H : Wholes(f) \subseteq H => IsFileOf(f, H)
<1>1. PICK p, t, b : f = Names3(p, t, b)
  BY DEF IsFileOf
<1>2. IsSlot(p, G) /\ IsSlot(t, G) /\ IsSlot(b, G)
  BY <1>1, FileParts
<1>3. Wholes(f) = Held(p) \cup Held(t) \cup Held(b)
  BY <1>1, WholesIs
<1>4. \A x : IsSlot(x, G) => Held(x) \subseteq G /\ \A H : Held(x) \subseteq H => IsSlot(x, H)
  <2>1. \A x : IsSlot(x, G) => Held(x) \subseteq G
    BY Slots DEF Held
  <2>2. ASSUME NEW x, IsSlot(x, G), NEW H, Held(x) \subseteq H PROVE IsSlot(x, H)
    <3>1. CASE x \in {Absent, Torn}
      BY <3>1 DEF IsSlot
    <3>2. CASE x = Whole(x.content)
      <4>1. x.content \in H
        <5> DEFINE y == x.content
        <5>1. PICK z : z = y
          OBVIOUS
        <5>2. Held(Whole(z)) = {z}
          BY HeldIs
        <5> QED  BY <2>2, <3>2, <5>1, <5>2
      <4> QED  BY <3>2, <4>1 DEF IsSlot
    <3> QED  BY <2>2, <3>1, <3>2 DEF IsSlot
  <2> QED  BY <2>1, <2>2
<1>5. Wholes(f) \subseteq G
  BY <1>2, <1>3, <1>4
<1>6. ASSUME NEW H, Wholes(f) \subseteq H PROVE IsFileOf(f, H)
  <2>1. IsSlot(p, H) /\ IsSlot(t, H) /\ IsSlot(b, H)
    BY <1>2, <1>3, <1>4, <1>6
  <2> QED  BY <1>1, <2>1, FileParts
<1> QED  BY <1>5, <1>6

(* What a start that cannot read a whole name may take, and leave.         *)
LEMMA PassedIs ==
  ASSUME NEW p, NEW t, NEW b, NEW n, NEW g \in Passed(Names3(p, t, b), n)
  PROVE  \/ g = Names3(p, t, b)
         \/ n = "bak" /\ Readable(t) /\ g \in {Names3(t, Absent, b), Names3(Absent, t, b)}
<1> DEFINE f == Names3(p, t, b)
<1>1. f.tmp = t /\ Move(f, "tmp", "pri") = Names3(t, Absent, b)
        /\ [f EXCEPT !["pri"] = Absent] = Names3(Absent, t, b)
  BY FileSteps, Parts
<1> HIDE DEF f
<1>2. Moving(f, "tmp", "pri") \subseteq {f, Names3(t, Absent, b), Names3(Absent, t, b)}
  BY <1>1 DEF Moving
<1>3. g \in Passed(f, n)
  BY DEF f
<1>4. g = f \/ (n = "bak" /\ Readable(t) /\ g \in Moving(f, "tmp", "pri"))
  BY <1>1, <1>3 DEF Passed
<1>5. g = f \/ (n = "bak" /\ Readable(t) /\ g \in {Names3(t, Absent, b), Names3(Absent, t, b)})
  BY <1>2, <1>4
<1> QED  BY <1>5 DEF f

LEMMA FilePassed ==
  ASSUME NEW c, NEW G, NEW f, IsFileOf(f, G), ~ Unreadable(f),
         NEW n \in {"tmp", "bak"}, NEW g \in Passed(f, n)
  PROVE  /\ IsFileOf(g, G) /\ Wholes(g) \subseteq Wholes(f) /\ Wholes(g) # {}
         /\ Readable(g[n]) =>
              /\ g[n].content \in Wholes(f) /\ IsFileOf(Adopted(g, n), G)
              /\ Wholes(Adopted(g, n)) \subseteq Wholes(f)
              /\ Finds(c, Adopted(g, n)) = {g[n].content}
              /\ Readable(Adopted(g, n).pri)
<1>1. PICK p, t, b : f = Names3(p, t, b)
  BY DEF IsFileOf
<1>2. IsSlot(p, G) /\ IsSlot(t, G) /\ IsSlot(b, G) /\ IsSlot(Absent, G)
  BY <1>1, FileParts, Slots
<1>3. Wholes(f) = Held(p) \cup Held(t) \cup Held(b) /\ Held(Absent) = {}
  BY <1>1, WholesIs, HeldIs
<1>4. Readable(p) \/ Readable(t) \/ Readable(b)
  BY <1>1, Parts DEF Unreadable, Names
<1>5. \A x : Readable(x) => Held(x) = {x.content}
  BY DEF Held
<1>6. \/ g = Names3(p, t, b)
      \/ n = "bak" /\ Readable(t) /\ g \in {Names3(t, Absent, b), Names3(Absent, t, b)}
  BY <1>1, PassedIs
<1>7. PICK q, s : /\ g = Names3(q, s, b)
                  /\ IsSlot(q, G) /\ IsSlot(s, G)
                  /\ Held(q) \cup Held(s) \subseteq Held(p) \cup Held(t)
                  /\ Held(q) \cup Held(s) \cup Held(b) # {}
  <2>1. CASE g = Names3(p, t, b)
    BY <1>2, <1>4, <1>5, <2>1
  <2>2. CASE Readable(t) /\ g = Names3(t, Absent, b)
    BY <1>2, <1>3, <1>5, <2>2
  <2>3. CASE Readable(t) /\ g = Names3(Absent, t, b)
    BY <1>2, <1>3, <1>5, <2>3
  <2> QED  BY <1>6, <2>1, <2>2, <2>3
<1>8. Wholes(g) = Held(q) \cup Held(s) \cup Held(b) /\ IsFileOf(g, G)
  BY <1>2, <1>7, WholesIs, FileParts
<1>9. g["tmp"] = s /\ g["bak"] = b
  BY <1>7, Parts
<1>10. ASSUME Readable(g[n])
       PROVE  /\ g[n].content \in Wholes(f) /\ IsFileOf(Adopted(g, n), G)
              /\ Wholes(Adopted(g, n)) \subseteq Wholes(f)
              /\ Finds(c, Adopted(g, n)) = {g[n].content}
              /\ Readable(Adopted(g, n).pri)
  <2>1. ASSUME NEW x, NEW u, NEW w, g[n] = x, Adopted(g, n) = Names3(x, u, w),
               u \in {s, Absent}, w \in {b, Absent}, x \in {s, b}
        PROVE  /\ g[n].content \in Wholes(f) /\ IsFileOf(Adopted(g, n), G)
               /\ Wholes(Adopted(g, n)) \subseteq Wholes(f)
               /\ Finds(c, Adopted(g, n)) = {g[n].content}
               /\ Readable(Adopted(g, n).pri)
    <3>1. Readable(x) /\ Held(x) = {x.content} /\ x # Absent
      BY <1>5, <1>10, <2>1, NotWhole
    <3>2. Held(x) \cup Held(u) \cup Held(w) \subseteq Wholes(f)
      BY <1>3, <1>7, <2>1
    <3>3. IsSlot(x, G) /\ IsSlot(u, G) /\ IsSlot(w, G)
      BY <1>2, <1>7, <2>1
    <3>4. IsFileOf(Adopted(g, n), G) /\ Wholes(Adopted(g, n)) = Held(x) \cup Held(u) \cup Held(w)
      BY <2>1, <3>3, FileParts, WholesIs
    <3>5. Finds(c, Adopted(g, n)) = {x.content}
      BY <2>1, <3>1, FindsIs
    <3>6. Adopted(g, n).pri = x
      BY <2>1, Parts
    <3> QED  BY <2>1, <3>1, <3>2, <3>4, <3>5, <3>6
  <2>2. CASE n = "tmp"
    <3>1. Adopted(g, n) = Names3(s, Absent, b)
      BY <1>7, <2>2, FileSteps DEF Adopted
    <3> QED  BY <1>9, <2>1, <2>2, <3>1
  <2>3. CASE n = "bak"
    <3>1. Adopted(g, n) = Names3(b, s, Absent)
      BY <1>7, <2>3, FileSteps DEF Adopted
    <3> QED  BY <1>9, <2>1, <2>3, <3>1
  <2> QED  BY <2>2, <2>3
<1> QED  BY <1>3, <1>7, <1>8, <1>10

LEMMA FileMisplaced ==
  ASSUME NEW c, NEW G, NEW f, IsFileOf(f, G), ~ Unreadable(f), NEW g \in Misplaced(f)
  PROVE  IsFileOf(g, G) /\ Wholes(g) \subseteq Wholes(f) /\ Finds(c, g) \subseteq Wholes(f)
<1>1. IsFileOf(g, G) /\ Wholes(g) \subseteq Wholes(f) /\ Wholes(g) # {}
  <2>1. ASSUME NEW h \in Passed(f, "bak")
        PROVE  IsFileOf(h, G) /\ Wholes(h) \subseteq Wholes(f) /\ Wholes(h) # {}
    BY <2>1, FilePassed
  <2>2. ASSUME Readable(f.bak), NEW h \in Passed(f, "bak"), g \in Moving(h, "bak", "pri")
        PROVE  IsFileOf(g, G) /\ Wholes(g) \subseteq Wholes(f) /\ Wholes(g) # {}
    <3>1. PICK p, t, b : f = Names3(p, t, b)
      BY DEF IsFileOf
    <3>2. PICK q, s : h = Names3(q, s, b)
      BY <2>2, <3>1, PassedIs
    <3>3. Readable(b) /\ IsSlot(b, G) /\ IsSlot(s, G) /\ IsSlot(q, G) /\ IsSlot(Absent, G)
      BY <2>1, <2>2, <3>1, <3>2, Parts, FileParts, Slots
    <3>4. Held(b) = {b.content} /\ Held(Absent) = {}
      BY <3>3, HeldIs DEF Held
    <3>5. Held(q) \cup Held(s) \cup Held(b) \subseteq Wholes(f)
      BY <2>1, <3>2, WholesIs
    <3>6. g \in {h, Names3(b, s, Absent), Names3(Absent, s, b)}
      <4>1. Move(h, "bak", "pri") = Names3(b, s, Absent)
              /\ [h EXCEPT !["pri"] = Absent] = Names3(Absent, s, b)
        BY <3>2, FileSteps
      <4> QED  BY <2>2, <4>1 DEF Moving
    <3>7. CASE g = Names3(b, s, Absent)
      BY <3>3, <3>4, <3>5, <3>7, WholesIs, FileParts
    <3>8. CASE g = Names3(Absent, s, b)
      BY <3>3, <3>4, <3>5, <3>8, WholesIs, FileParts
    <3> QED  BY <2>1, <3>6, <3>7, <3>8
  <2> QED  BY <2>1, <2>2 DEF Misplaced
<1>2. PICK p, t, b : g = Names3(p, t, b)
  BY <1>1 DEF IsFileOf
<1>3. Wholes(g) = Held(p) \cup Held(t) \cup Held(b)
  BY <1>2, WholesIs
<1>4. ~ (p = Absent /\ t = Absent /\ b = Absent)
  BY <1>1, <1>3, HeldIs
<1>5. Finds(c, g) = IF Readable(p) THEN {p.content} ELSE Held(t) \cup Held(b)
  BY <1>2, <1>4, FindsIs
<1> QED  BY <1>1, <1>3, <1>5 DEF Held

LEMMA FileFound ==
  ASSUME NEW c, NEW G, NEW f, IsFileOf(f, G)
  PROVE  /\ Unreadable(f) /\ f # Only(Absent) => Finds(c, f) = {}
         /\ Found(f) = {} \/ Found(f) \in Finds(c, f)
         /\ Readable(f.pri) => Found(f) = f.pri.content
<1>1. PICK p, t, b : f = Names3(p, t, b)
  BY DEF IsFileOf
<1>2. /\ f.pri = p /\ f.tmp = t /\ f.bak = b
      /\ f["pri"] = p /\ f["tmp"] = t /\ f["bak"] = b
  BY <1>1, Parts
<1>3. Unreadable(f) /\ f # Only(Absent) => Finds(c, f) = {}
  <2>1. Unreadable(f) => ~ Readable(p) /\ ~ Readable(t) /\ ~ Readable(b)
    BY <1>2 DEF Unreadable, Names
  <2> QED  BY <1>1, <2>1, OnlyIs, FindsIs DEF Held
<1>4. ASSUME ~ Unreadable(f)
      PROVE  /\ Found(f) \in Finds(c, f)
             /\ Readable(f.pri) => Found(f) = f.pri.content
  <2> DEFINE n == CHOOSE k \in Names : IsFirst(f, k)
  <2>1. Readable(p) \/ Readable(t) \/ Readable(b)
    BY <1>2, <1>4 DEF Unreadable, Names
  <2>2. \E k \in Names : IsFirst(f, k)
    <3>1. CASE Readable(p)
      BY <1>2, <3>1 DEF IsFirst, Names
    <3>2. CASE ~ Readable(p) /\ Readable(t)
      BY <1>2, <3>2 DEF IsFirst, Names
    <3>3. CASE ~ Readable(p) /\ ~ Readable(t)
      BY <1>2, <2>1, <3>3 DEF IsFirst, Names
    <3> QED  BY <3>1, <3>2, <3>3
  <2>3. n \in Names /\ IsFirst(f, n)
    BY <2>2
  <2>4. Found(f) = f[n].content
    BY <1>4 DEF Found
  <2>5. Readable(f.pri) => n = "pri"
    BY <2>3 DEF IsFirst
  <2> HIDE DEF n
  <2>6. f[n].content \in Finds(c, f)
    BY <2>3, FileFirst
  <2> QED  BY <1>2, <2>4, <2>5, <2>6
<1>5. Unreadable(f) => Found(f) = {} /\ ~ Readable(f.pri)
  BY <1>2 DEF Found, Unreadable, Names
<1> QED  BY <1>3, <1>4, <1>5

-----------------------------------------------------------------------------
(* Contents                                                                *)

LEMMA Collected ==
  /\ Collections \subseteq {"zones", "endpoints", "groups", "schedules"}
  /\ "settings" \notin Collections /\ "registry" \notin Cells /\ "settings" \in Cells
  /\ \A c \in Collections : c \in Cells /\ c # "settings"
  /\ \A i \in Ids : TypeOf[i] \in Collections
<1>1. DOMAIN Referrers = {"zones", "endpoints", "groups", "schedules"}
  BY DEF Referrers
<1>2. Collections \subseteq DOMAIN Referrers
  <2>1. Types \in Seq(DOMAIN Referrers)
    BY CatalogAssumption
  <2>2. DOMAIN Types = 1 .. Len(Types) /\ \A k \in 1 .. Len(Types) : Types[k] \in DOMAIN Referrers
    BY <2>1, LenProperties, ElementOfSeq
  <2> QED  BY <2>2 DEF Collections
<1>3. TypeOf \in [Ids -> Collections]
  BY CatalogAssumption
<1>4. Collections \subseteq {"zones", "endpoints", "groups", "schedules"}
  BY <1>1, <1>2
<1> HIDE DEF Collections
<1> QED  BY <1>3, <1>4 DEF Cells

LEMMA CitiesApart ==
  /\ DefaultCity \in Cities /\ Unset \notin Cities /\ Own # Unset
  /\ Own \notin Cities /\ "sea" # Unset /\ "set" # Unset /\ Unset \notin Elevations
BY CatalogAssumption DEF Unset, Elevations

LEMMA EmptyProper ==
  ASSUME NEW c
  PROVE  Empty(c) \in Proper(c)
<1>1. CASE c = "settings"
  BY <1>1 DEF Empty, Proper, Settings
<1>2. CASE c # "settings"
  BY <1>2 DEF Empty, Proper
<1> QED  BY <1>1, <1>2

LEMMA LiveOnce ==
  ASSUME NEW v
  PROVE  Live(v) \subseteq v /\ Live(Live(v)) = Live(v)
BY DEF Live

LEMMA KeptProper ==
  ASSUME NEW c, NEW v \in Proper(c)
  PROVE  Kept(c, v) \in Proper(c) /\ Kept(c, Kept(c, v)) = Kept(c, v)
<1>1. CASE c = "schedules"
  <2>1. v \in SUBSET Entity /\ \A e \in v : Refers(c, e)
    BY <1>1 DEF Proper
  <2>2. Live(v) \subseteq v /\ Live(Live(v)) = Live(v)
    BY LiveOnce
  <2>3. Live(v) \in Proper(c)
    BY <1>1, <2>1, <2>2 DEF Proper
  <2> QED  BY <1>1, <2>2, <2>3 DEF Kept
<1>2. CASE c # "schedules"
  BY <1>2 DEF Kept
<1> QED  BY <1>1, <1>2

LEMMA ProperContent ==
  ASSUME NEW c \in Cells, NEW v \in Proper(c)
  PROVE  v \in ContentOf(c)
BY DEF Proper, ContentOf

-----------------------------------------------------------------------------
(* One cell                                                                *)

LEMMA CellSaved ==
  ASSUME NEW c, NEW f, NEW m, NEW t, CellOK(c, f, m, t), NEW v \in Proper(c)
  PROVE  CellOK(c, Saved(f, v), v, {})
<1>1. IsFileOf(f, Proper(c))
  BY DEF CellOK
<1>2. IsFileOf(Saved(f, v), Proper(c)) /\ Finds(c, Saved(f, v)) = {v}
  BY <1>1, FileSaved
<1> QED  BY <1>2 DEF CellOK, Recalls

LEMMA CellRefused ==
  ASSUME NEW c, NEW f, NEW m, NEW t, CellOK(c, f, m, t), NEW v \in Proper(c),
         NEW g \in Refused(f, v), NEW w
  PROVE  CellOK(c, g, m, t \cup {v} \cup w)
<1>1. IsFileOf(g, Proper(c)) /\ Finds(c, g) \subseteq Finds(c, f) \cup {v}
  BY FileRefused DEF CellOK
<1>2. ASSUME NEW x \in Finds(c, g) PROVE Recalls(c, m, t \cup {v} \cup w, x)
  <2>1. CASE x = v
    BY <2>1 DEF Recalls
  <2>2. CASE x \in Finds(c, f)
    BY <2>2 DEF Recalls, CellOK
  <2> QED  BY <1>1, <2>1, <2>2
<1> QED  BY <1>1, <1>2 DEF CellOK

LEMMA CellTaken ==
  ASSUME NEW c, NEW g, IsFileOf(g, Proper(c)), NEW v \in Proper(c), Finds(c, g) = {v}
  PROVE  CellOK(c, g, Kept(c, v), {})
<1>1. Kept(c, v) \in Proper(c) /\ Kept(c, Kept(c, v)) = Kept(c, v)
  BY KeptProper
<1> QED  BY <1>1 DEF CellOK, Recalls

LEMMA CellFailed ==
  ASSUME NEW c, NEW f, NEW m, NEW t, CellOK(c, f, m, t), NEW g,
         IsFileOf(g, Proper(c)), Finds(c, g) \subseteq Finds(c, f)
  PROVE  CellOK(c, g, m, t) /\ CellOK(c, g, Empty(c), t \cup {m})
<1>1. Empty(c) \in Proper(c)
  BY EmptyProper
<1>2. ASSUME NEW x \in Finds(c, g)
      PROVE  Recalls(c, m, t, x) /\ Recalls(c, Empty(c), t \cup {m}, x)
  BY <1>2 DEF CellOK, Recalls
<1> QED  BY <1>1, <1>2 DEF CellOK

LEMMA FindsProper ==
  ASSUME NEW c, NEW f, IsFileOf(f, Proper(c))
  PROVE  Finds(c, f) \subseteq Proper(c)
<1>1. IsSlot(f.pri, Proper(c)) /\ IsSlot(f.tmp, Proper(c)) /\ IsSlot(f.bak, Proper(c))
  BY DEF IsFileOf
<1>2. \A x : IsSlot(x, Proper(c)) => Held(x) \subseteq Proper(c)
  BY Slots DEF Held
<1>3. Readable(f.pri) => f.pri.content \in Proper(c)
  BY <1>1, Slots
<1>4. Empty(c) \in Proper(c)
  BY EmptyProper
<1> QED  BY <1>1, <1>2, <1>3, <1>4 DEF Finds

(* What a load may leave of a cell: a content found is taken, the settings *)
(* fall back to the defaults, or the start ends.  A misread file may give  *)
(* any of its whole contents, or leave any of them to be found.            *)
Holds(c, f, g) == IsFileOf(g, Proper(c)) /\ Wholes(g) \subseteq Wholes(f)
Takes(c, f, g, v) ==
  /\ v \in Finds(c, f) /\ v \in Proper(c)
  /\ Holds(c, f, g) /\ Finds(c, g) = {v} /\ Settled(g)
Spares(c, f, g) == Holds(c, f, g) /\ Finds(c, g) \subseteq Finds(c, f)
Turns(c, f, g, v) ==
  /\ v \in Wholes(f) /\ v \in Proper(c)
  /\ Holds(c, f, g) /\ Finds(c, g) = {v} /\ Settled(g)
Exposes(c, f, g) == Holds(c, f, g) /\ Finds(c, g) \subseteq Wholes(f)

(* Moves of a cell's names add no content.                                 *)
LEMMA HoldsFrom ==
  ASSUME NEW c, NEW f, IsFileOf(f, Proper(c)), NEW g, IsFileOf(g, Wholes(f))
  PROVE  Holds(c, f, g)
<1>1. Wholes(f) \subseteq Proper(c) /\ Wholes(g) \subseteq Wholes(f)
  BY FileWholes
<1> QED  BY <1>1, FileWholes DEF Holds

LEMMA CellExposed ==
  ASSUME NEW c, NEW f, NEW m, NEW t, CellOK(c, f, m, t), NEW g, Exposes(c, f, g)
  PROVE  /\ CellOK(c, g, m, t \cup {m} \cup Wholes(f))
         /\ CellOK(c, g, Empty(c), t \cup {m} \cup Wholes(f))
<1>1. Empty(c) \in Proper(c)
  BY EmptyProper
<1> DEFINE u == t \cup {m} \cup Wholes(f)
<1>2. \A x \in Finds(c, g) : x \in u
  BY DEF Exposes
<1> HIDE DEF u
<1> QED  BY <1>1, <1>2 DEF CellOK, Recalls, Exposes, Holds, u

LEMMA UnusedSaved ==
  ASSUME NEW c, NEW f, NEW m, NEW h, CellUnused(c, f, m, h), NEW G, IsFileOf(f, G),
         NEW v \in G, Unused(v, h)
  PROVE  /\ CellUnused(c, Saved(f, v), v, h)
         /\ \A g \in Refused(f, v) : CellUnused(c, g, m, h)
<1>1. IsFileOf(Saved(f, v), G) /\ Finds(c, Saved(f, v)) = {v}
  BY FileSaved
<1>2. \A g \in Refused(f, v) : Finds(c, g) \subseteq Finds(c, f) \cup {v}
  BY FileRefused
<1> QED  BY <1>1, <1>2 DEF CellUnused

LEMMA UnusedTaken ==
  ASSUME NEW c, NEW f, NEW m, NEW h, CellUnused(c, f, m, h), NEW g, NEW v,
         Takes(c, f, g, v)
  PROVE  CellUnused(c, g, Kept(c, v), h)
<1>1. v \in Finds(c, f) /\ Finds(c, g) = {v} /\ Unused(v, h)
  BY DEF Takes, CellUnused
<1>2. Kept(c, v) \subseteq v
  BY LiveOnce DEF Kept
<1> QED  BY <1>1, <1>2 DEF CellUnused, Unused

-----------------------------------------------------------------------------
(* What actions do to the cells                                            *)

(* What a misread file gives refers to nothing that still counts as gone.  *)
LEMMA UnusedMisread ==
  ASSUME NEW c, NEW f, NEW m, NEW h, CellUnused(c, f, m, h),
         NEW k, k = h \ RefsOf(UNION Wholes(f))
  PROVE  /\ \A g, v : Turns(c, f, g, v) => CellUnused(c, g, Kept(c, v), k)
         /\ \A g : Exposes(c, f, g) => CellUnused(c, g, m, k)
<1>1. \A v \in Wholes(f) : Unused(v, k)
  BY DEF Unused, RefsOf
<1>2. Unused(m, k)
  BY DEF CellUnused, Unused
<1>3. ASSUME NEW g, NEW v, Turns(c, f, g, v) PROVE CellUnused(c, g, Kept(c, v), k)
  <2>1. Unused(v, k) /\ Finds(c, g) = {v}
    BY <1>1, <1>3 DEF Turns
  <2>2. Kept(c, v) \subseteq v
    BY LiveOnce DEF Kept
  <2> QED  BY <2>1, <2>2 DEF CellUnused, Unused
<1>4. ASSUME NEW g, Exposes(c, f, g) PROVE CellUnused(c, g, m, k)
  BY <1>1, <1>2, <1>4 DEF Exposes, CellUnused
<1> QED  BY <1>3, <1>4

Puts(g, f, c, v) == g = [f EXCEPT ![c] = v]

LEMMA MapExcept ==
  ASSUME NEW S, NEW f, IsMap(f, S), NEW c \in S, NEW v, NEW g, Puts(g, f, c, v)
  PROVE  IsMap(g, S) /\ g[c] = v /\ \A d \in S : d # c => g[d] = f[d]
<1>1. DOMAIN f = S
  BY DEF IsMap
<1>2. g = [x \in S |-> IF x = c THEN v ELSE f[x]]
  BY <1>1 DEF Puts
<1>3. \A x \in S : g[x] = IF x = c THEN v ELSE f[x]
  BY <1>2
<1>4. g = [x \in S |-> g[x]]
  BY <1>2, <1>3
<1> QED  BY <1>3, <1>4 DEF IsMap

Same(c) == file'[c] = file[c] /\ mem'[c] = mem[c] /\ tried'[c] = tried[c]
Others(c) == \A d \in Cells : d # c => Same(d)
Settles(c, v) == file'[c] = Saved(file[c], v) /\ mem'[c] = v /\ tried'[c] = {}
Doubts(c, v) ==
  /\ file'[c] \in Refused(file[c], v) /\ mem'[c] = mem[c]
  /\ tried'[c] = tried[c] \cup {v} \cup Wreck(c)
Saving(c, v) == (Settles(c, v) \/ Doubts(c, v)) /\ Others(c)
RegistryTried == tried'["registry"] = tried["registry"]

(* A save ends with the new content in memory and on the medium, or leaves *)
(* memory as it was and the change in doubt; no other cell is touched.     *)
LEMMA SaveEffect ==
  ASSUME Shape, NEW c \in Cells, NEW v,
         Ends(c, v) \/ Raises(c, v) \/ IsCutOff(c, v)
  PROVE  Shape' /\ Saving(c, v) /\ RegistryTried /\ (Ends(c, v) => Settles(c, v))
<1> DEFINE T == Cells \cup {"registry"}
<1>1. IsMap(file, Cells) /\ IsMap(mem, Cells) /\ IsMap(tried, T)
  BY DEF Shape
<1>2. c \in T /\ "registry" \in T /\ c # "registry" /\ \A d \in Cells : d \in T
  BY Collected
<1> HIDE DEF T
<1>3. CASE Ends(c, v)
  <2>1. /\ Puts(file', file, c, Saved(file[c], v)) /\ Puts(mem', mem, c, v)
        /\ Puts(tried', tried, c, {})
    BY <1>3 DEF Ends, Puts
  <2>2. IsMap(file', Cells) /\ file'[c] = Saved(file[c], v)
          /\ \A d \in Cells : d # c => file'[d] = file[d]
    BY <1>1, <2>1, MapExcept
  <2>3. IsMap(mem', Cells) /\ mem'[c] = v /\ \A d \in Cells : d # c => mem'[d] = mem[d]
    BY <1>1, <2>1, MapExcept
  <2>4. IsMap(tried', T) /\ tried'[c] = {} /\ \A d \in T : d # c => tried'[d] = tried[d]
    BY <1>1, <1>2, <2>1, MapExcept
  <2> QED  BY <1>2, <2>2, <2>3, <2>4 DEF Shape, Saving, Settles, Others, Same, RegistryTried, T
<1>4. CASE (Raises(c, v) \/ IsCutOff(c, v)) /\ ~ Ends(c, v)
  <2>1. PICK f \in Refused(file[c], v) : Puts(file', file, c, f)
    BY <1>4 DEF Raises, IsCutOff, Refused, Puts
  <2>2. mem' = mem /\ Puts(tried', tried, c, tried[c] \cup {v} \cup Wreck(c))
    BY <1>4 DEF Raises, IsCutOff, Puts
  <2>3. IsMap(file', Cells) /\ file'[c] = f
          /\ \A d \in Cells : d # c => file'[d] = file[d]
    BY <1>1, <2>1, MapExcept
  <2>4. /\ IsMap(tried', T) /\ tried'[c] = tried[c] \cup {v} \cup Wreck(c)
        /\ \A d \in T : d # c => tried'[d] = tried[d]
    BY <1>1, <1>2, <2>2, MapExcept
  <2> QED  BY <1>1, <1>2, <1>4, <2>2, <2>3, <2>4
           DEF Shape, Saving, Doubts, Others, Same, RegistryTried, T
<1> QED  BY <1>3, <1>4

Taking(c) ==
  /\ \E v : Takes(c, file[c], file'[c], v) /\ mem'[c] = Kept(c, v)
  /\ tried'[c] = {}
  /\ Advances
Falling(c) ==
  /\ c = "settings"
  /\ Spares(c, file[c], file'[c])
  /\ mem'[c] = Empty(c) /\ tried'[c] = tried[c] \cup {mem[c]}
  /\ Advances
Ending(c) ==
  /\ Spares(c, file[c], file'[c])
  /\ mem'[c] = mem[c] /\ tried'[c] = tried[c]
  /\ Resets
Loading(c) == (Taking(c) \/ Falling(c) \/ Ending(c)) /\ Others(c)
Mistaking(c) ==
  /\ \E v : Turns(c, file[c], file'[c], v) /\ mem'[c] = Kept(c, v)
  /\ tried'[c] = {}
  /\ Advances
Losing(c) ==
  /\ Exposes(c, file[c], file'[c])
  /\ tried'[c] = tried[c] \cup {mem[c]} \cup Wholes(file[c])
  /\ \/ c = "settings" /\ mem'[c] = Empty(c) /\ Advances
     \/ mem'[c] = mem[c] /\ Resets
Misreading(c) == (Mistaking(c) \/ Losing(c)) /\ Others(c)

LEMMA LoadedEffect ==
  ASSUME Shape, NEW c \in Cells, NEW v, NEW f, Loaded(c, v, f), NEW t,
         Puts(tried', tried, c, t)
  PROVE  /\ Shape' /\ Others(c) /\ RegistryTried /\ Advances
         /\ file'[c] = f /\ mem'[c] = Kept(c, v) /\ tried'[c] = t
<1> DEFINE T == Cells \cup {"registry"}
<1>1. IsMap(file, Cells) /\ IsMap(mem, Cells) /\ IsMap(tried, T)
  BY DEF Shape
<1>2. c \in T /\ "registry" \in T /\ c # "registry" /\ \A d \in Cells : d \in T
  BY Collected
<1> HIDE DEF T
<1>3. /\ Puts(file', file, c, f) /\ Puts(mem', mem, c, Kept(c, v)) /\ Advances
  BY DEF Loaded, Puts
<1>4. IsMap(file', Cells) /\ file'[c] = f /\ \A d \in Cells : d # c => file'[d] = file[d]
  BY <1>1, <1>3, MapExcept
<1>5. IsMap(mem', Cells) /\ mem'[c] = Kept(c, v)
        /\ \A d \in Cells : d # c => mem'[d] = mem[d]
  BY <1>1, <1>3, MapExcept
<1>6. IsMap(tried', T) /\ tried'[c] = t /\ \A d \in T : d # c => tried'[d] = tried[d]
  BY <1>1, <1>2, MapExcept
<1> QED  BY <1>2, <1>3, <1>4, <1>5, <1>6 DEF Shape, Others, Same, RegistryTried, T

LEMMA FailsEffect ==
  ASSUME Shape, NEW c \in Cells, NEW f, FailsToLoad(c, f), Spares(c, file[c], f)
  PROVE  Shape' /\ Loading(c) /\ RegistryTried
<1>1. CASE c = "settings"
  <2>1. Loaded(c, Empty(c), f) /\ Puts(tried', tried, c, tried[c] \cup {mem[c]})
    BY <1>1 DEF FailsToLoad, Puts
  <2>2. /\ Shape' /\ Others(c) /\ RegistryTried /\ Advances
        /\ file'[c] = f /\ mem'[c] = Kept(c, Empty(c)) /\ tried'[c] = tried[c] \cup {mem[c]}
    BY <2>1, LoadedEffect
  <2>3. Kept(c, Empty(c)) = Empty(c)
    BY <1>1 DEF Kept
  <2> QED  BY <1>1, <2>2, <2>3 DEF Loading, Falling
<1>2. CASE c # "settings"
  <2>1. Resets /\ Puts(file', file, c, f) /\ mem' = mem /\ tried' = tried
    BY <1>2 DEF FailsToLoad, Puts
  <2>2. IsMap(file', Cells) /\ file'[c] = f /\ \A d \in Cells : d # c => file'[d] = file[d]
    BY <2>1, MapExcept DEF Shape
  <2> QED  BY <2>1, <2>2 DEF Shape, Loading, Ending, Others, Same, RegistryTried
<1> QED  BY <1>1, <1>2

LEMMA LoadEffect ==
  ASSUME Shape, Contents, NEW c \in Cells, LoadCleanly(c) \/ LoadWithError(c)
  PROVE  Shape' /\ Loading(c) /\ RegistryTried
<1> DEFINE f == file[c]
           G == Proper(c)
<1>1. IsFileOf(f, G)
  BY DEF Contents, CellOK
<1>2. Finds(c, f) \subseteq G
  BY <1>1, FindsProper
<1> HIDE DEF f, G
<1>9. IsFileOf(f, Wholes(f))
  BY <1>1, FileWholes
<1>10. \A g : IsFileOf(g, Wholes(f)) => Holds(c, f, g)
  BY <1>1, HoldsFrom DEF G
<1>3. CASE f = Only(Absent) /\ Loaded(c, Empty(c), f) /\ Puts(tried', tried, c, {})
  <2>1. /\ Shape' /\ Others(c) /\ RegistryTried /\ Advances
        /\ file'[c] = f /\ mem'[c] = Kept(c, Empty(c)) /\ tried'[c] = {}
    BY <1>3, LoadedEffect
  <2>2. Finds(c, f) = {Empty(c)} /\ Settled(f)
    BY <1>3 DEF Finds, Settled
  <2>3. Takes(c, f, file'[c], Empty(c))
    BY <1>1, <1>2, <2>1, <2>2 DEF Takes, Holds, G
  <2> QED  BY <2>1, <2>3 DEF Loading, Taking, f
<1>4. ASSUME NEW n \in Names, IsFirst(f, n), Loaded(c, f[n].content, Adopted(f, n)),
             Puts(tried', tried, c, {})
      PROVE  Shape' /\ Loading(c) /\ RegistryTried
  <2> DEFINE v == f[n].content
             g == Adopted(f, n)
  <2>1. v \in G /\ v \in Finds(c, f) /\ IsFileOf(g, G) /\ Finds(c, g) = {v} /\ Readable(g.pri)
    BY <1>1, <1>4, FileFirst
  <2> HIDE DEF v, g
  <2>2. Loaded(c, v, g)
    BY <1>4 DEF v, g
  <2>3. /\ Shape' /\ Others(c) /\ RegistryTried /\ Advances
        /\ file'[c] = g /\ mem'[c] = Kept(c, v) /\ tried'[c] = {}
    BY <1>4, <2>2, LoadedEffect
  <2>4. Holds(c, f, g)
    BY <1>4, <1>9, <1>10, FileFirst DEF g
  <2>5. Takes(c, f, file'[c], v)
    BY <2>1, <2>3, <2>4 DEF Takes, Settled, G
  <2> QED  BY <2>3, <2>5 DEF Loading, Taking, f
<1>5. CASE f # Only(Absent) /\ Unreadable(f) /\ FailsToLoad(c, f)
  <2>1. Spares(c, file[c], f)
    BY <1>1, <1>9, <1>10 DEF Spares, f, G
  <2> QED  BY <1>5, <2>1, FailsEffect
<1>6. ASSUME NEW g \in Adoptions(f), IsFirst(f, "tmp") \/ IsFirst(f, "bak"),
             \/ /\ Readable(g.bak) /\ Loaded(c, g.bak.content, Adopted(g, "bak"))
                /\ Puts(tried', tried, c, {})
             \/ \E h \in {g} \cup IF Readable(g.bak) THEN {Adopted(g, "bak")} ELSE {} :
                  FailsToLoad(c, h)
      PROVE  Shape' /\ Loading(c) /\ RegistryTried
  <2> DEFINE v == g.bak.content
             k == Adopted(g, "bak")
  <2>1. /\ IsFileOf(g, G) /\ Finds(c, g) \subseteq Finds(c, f)
        /\ Readable(g.bak) =>
             IsFileOf(k, G) /\ Finds(c, k) = {v} /\ v \in Finds(c, f) /\ v \in G /\ Readable(k.pri)
    BY <1>1, <1>6, FileAdoptions
  <2>4. Holds(c, f, g) /\ (Readable(g.bak) => Holds(c, f, k))
    <3>1. IsFileOf(g, Wholes(f)) /\ (Readable(g.bak) => IsFileOf(k, Wholes(f)))
      BY <1>6, <1>9, FileAdoptions
    <3> QED  BY <1>10, <3>1
  <2> HIDE DEF v, k
  <2>2. CASE /\ Readable(g.bak) /\ Loaded(c, v, k)
             /\ Puts(tried', tried, c, {})
    <3>1. /\ Shape' /\ Others(c) /\ RegistryTried /\ Advances
          /\ file'[c] = k /\ mem'[c] = Kept(c, v) /\ tried'[c] = {}
      BY <2>2, LoadedEffect
    <3>2. Takes(c, f, file'[c], v)
      BY <2>1, <2>2, <2>4, <3>1 DEF Takes, Settled, G
    <3> QED  BY <3>1, <3>2 DEF Loading, Taking, f
  <2>3. ASSUME NEW h \in {g} \cup IF Readable(g.bak) THEN {k} ELSE {}, FailsToLoad(c, h)
        PROVE  Shape' /\ Loading(c) /\ RegistryTried
    <3>1. Spares(c, file[c], h)
      BY <2>1, <2>3, <2>4 DEF Spares, f, G
    <3> QED  BY <2>3, <3>1, FailsEffect
  <2> QED  BY <1>6, <2>2, <2>3 DEF v, k
<1>7. CASE LoadCleanly(c)
  BY <1>3, <1>4, <1>5, <1>7 DEF LoadCleanly, f, Puts
<1>8. CASE LoadWithError(c)
  <2>1. PICK g \in Adoptions(f) :
             \/ /\ Readable(g.bak) /\ Loaded(c, g.bak.content, Adopted(g, "bak"))
                /\ Puts(tried', tried, c, {})
             \/ \E h \in {g} \cup IF Readable(g.bak) THEN {Adopted(g, "bak")} ELSE {} :
                  FailsToLoad(c, h)
    BY <1>8 DEF LoadWithError, f, Puts
  <2> QED  BY <1>6, <1>8, <2>1 DEF LoadWithError, f
<1> QED  BY <1>7, <1>8

LEMMA MisreadEffect ==
  ASSUME Shape, Contents, NEW c \in Cells, LoadMisread(c)
  PROVE  Shape' /\ Misreading(c) /\ RegistryTried
<1> DEFINE f == file[c]
           G == Proper(c)
           u == tried[c] \cup {mem[c]} \cup Wholes(f)
<1>1. IsFileOf(f, G) /\ ~ Unreadable(f)
  BY DEF Contents, CellOK, LoadMisread
<1> HIDE DEF f, G
<1>2. Wholes(f) \subseteq G
  BY <1>1, FileWholes
<1>3. ASSUME NEW n \in {"tmp", "bak"}, NEW g \in Passed(f, n), Readable(g[n]),
             Loaded(c, g[n].content, Adopted(g, n)), Puts(tried', tried, c, {})
      PROVE  Shape' /\ Misreading(c) /\ RegistryTried
  <2> DEFINE v == g[n].content
             h == Adopted(g, n)
  <2>1. /\ v \in Wholes(f) /\ IsFileOf(h, G) /\ Wholes(h) \subseteq Wholes(f)
        /\ Finds(c, h) = {v} /\ Readable(h.pri)
    <3>1. \A k \in Passed(f, n) : Readable(k[n]) =>
            /\ k[n].content \in Wholes(f) /\ IsFileOf(Adopted(k, n), G)
            /\ Wholes(Adopted(k, n)) \subseteq Wholes(f)
            /\ Finds(c, Adopted(k, n)) = {k[n].content}
            /\ Readable(Adopted(k, n).pri)
      BY <1>1, <1>3, FilePassed
    <3> QED  BY <1>3, <3>1
  <2> HIDE DEF v, h
  <2>2. Loaded(c, v, h)
    BY <1>3 DEF v, h
  <2>3. /\ Shape' /\ Others(c) /\ RegistryTried /\ Advances
        /\ file'[c] = h /\ mem'[c] = Kept(c, v) /\ tried'[c] = {}
    BY <1>3, <2>2, LoadedEffect
  <2>4. Turns(c, f, file'[c], v)
    BY <1>2, <2>1, <2>3 DEF Turns, Holds, Settled, G
  <2> QED  BY <2>3, <2>4 DEF Misreading, Mistaking, f
<1>4. ASSUME NEW g \in Misplaced(f), GivesUp(c, g)
      PROVE  Shape' /\ Misreading(c) /\ RegistryTried
  <2>1. Exposes(c, f, g)
    BY <1>1, <1>4, FileMisplaced DEF Exposes, Holds, G
  <2>2. PICK k : k = u
    OBVIOUS
  <2>3. Puts(tried', tried, c, k)
    BY <1>4, <2>2 DEF GivesUp, Puts, f
  <2>4. CASE c = "settings" /\ Loaded(c, Empty(c), g)
    <3>1. /\ Shape' /\ Others(c) /\ RegistryTried /\ Advances
          /\ file'[c] = g /\ mem'[c] = Kept(c, Empty(c)) /\ tried'[c] = k
      BY <2>3, <2>4, LoadedEffect
    <3>2. Kept(c, Empty(c)) = Empty(c)
      BY <2>4 DEF Kept
    <3> QED  BY <2>1, <2>2, <2>4, <3>1, <3>2 DEF Misreading, Losing, f
  <2>5. CASE Resets /\ Puts(file', file, c, g) /\ mem' = mem
    <3> DEFINE T == Cells \cup {"registry"}
    <3>1. IsMap(file, Cells) /\ IsMap(mem, Cells) /\ IsMap(tried, T)
      BY DEF Shape
    <3>2. c \in T /\ "registry" \in T /\ c # "registry" /\ \A d \in Cells : d \in T
      BY Collected
    <3> HIDE DEF T
    <3>3. IsMap(file', Cells) /\ file'[c] = g /\ \A d \in Cells : d # c => file'[d] = file[d]
      BY <2>5, <3>1, MapExcept
    <3>4. IsMap(tried', T) /\ tried'[c] = k /\ \A d \in T : d # c => tried'[d] = tried[d]
      BY <2>3, <3>1, <3>2, MapExcept
    <3>5. Shape' /\ Others(c) /\ RegistryTried
      BY <2>5, <3>1, <3>2, <3>3, <3>4 DEF Shape, Others, Same, RegistryTried, T
    <3> QED  BY <2>1, <2>2, <2>5, <3>3, <3>4, <3>5 DEF Misreading, Losing, f
  <2> QED  BY <1>4, <2>4, <2>5 DEF GivesUp, Puts
<1> QED  BY <1>3, <1>4 DEF LoadMisread, f, Puts

LEMMA SavingContents ==
  ASSUME Contents, NEW c \in Cells, NEW v \in Proper(c), Saving(c, v)
  PROVE  Contents'
<1>1. CellOK(c, file[c], mem[c], tried[c])
  BY DEF Contents
<1>2. CellOK(c, file'[c], mem'[c], tried'[c])
  <2>1. CASE Settles(c, v)
    BY <1>1, <2>1, CellSaved DEF Settles
  <2>2. CASE Doubts(c, v)
    <3>1. CellOK(c, file'[c], mem[c], tried[c] \cup {v} \cup Wreck(c))
      BY <1>1, <2>2, CellRefused DEF Doubts
    <3> QED  BY <2>2, <3>1 DEF Doubts
  <2> QED  BY <2>1, <2>2 DEF Saving
<1>3. ASSUME NEW d \in Cells, d # c
      PROVE  CellOK(d, file'[d], mem'[d], tried'[d])
  BY <1>3 DEF Contents, Saving, Others, Same
<1> QED  BY <1>2, <1>3 DEF Contents

LEMMA LoadingContents ==
  ASSUME Contents, NEW c \in Cells, Loading(c)
  PROVE  Contents'
<1>1. CellOK(c, file[c], mem[c], tried[c])
  BY DEF Contents
<1>2. CellOK(c, file'[c], mem'[c], tried'[c])
  <2>1. CASE Taking(c)
    <3>1. PICK v : Takes(c, file[c], file'[c], v) /\ mem'[c] = Kept(c, v)
      BY <2>1 DEF Taking
    <3>2. CellOK(c, file'[c], Kept(c, v), {})
      BY <3>1, CellTaken DEF Takes, Holds
    <3> QED  BY <2>1, <3>1, <3>2 DEF Taking
  <2>2. CASE Falling(c)
    <3>1. CellOK(c, file'[c], Empty(c), tried[c] \cup {mem[c]})
      BY <1>1, <2>2, CellFailed DEF Falling, Spares, Holds
    <3> QED  BY <2>2, <3>1 DEF Falling
  <2>3. CASE Ending(c)
    <3>1. CellOK(c, file'[c], mem[c], tried[c])
      BY <1>1, <2>3, CellFailed DEF Ending, Spares, Holds
    <3> QED  BY <2>3, <3>1 DEF Ending
  <2> QED  BY <2>1, <2>2, <2>3 DEF Loading
<1>3. ASSUME NEW d \in Cells, d # c
      PROVE  CellOK(d, file'[d], mem'[d], tried'[d])
  BY <1>3 DEF Contents, Loading, Others, Same
<1> QED  BY <1>2, <1>3 DEF Contents

LEMMA MisreadingContents ==
  ASSUME Contents, NEW c \in Cells, Misreading(c)
  PROVE  Contents'
<1>1. CellOK(c, file[c], mem[c], tried[c])
  BY DEF Contents
<1>2. CellOK(c, file'[c], mem'[c], tried'[c])
  <2>1. CASE Mistaking(c)
    <3>1. PICK v : Turns(c, file[c], file'[c], v) /\ mem'[c] = Kept(c, v)
      BY <2>1 DEF Mistaking
    <3>2. CellOK(c, file'[c], Kept(c, v), {})
      BY <3>1, CellTaken DEF Turns, Holds
    <3> QED  BY <2>1, <3>1, <3>2 DEF Mistaking
  <2>2. CASE Losing(c)
    <3> DEFINE u == tried[c] \cup {mem[c]} \cup Wholes(file[c])
    <3>1. CellOK(c, file'[c], mem[c], u) /\ CellOK(c, file'[c], Empty(c), u)
      BY <1>1, <2>2, CellExposed DEF Losing
    <3>2. tried'[c] = u /\ mem'[c] \in {mem[c], Empty(c)}
      BY <2>2 DEF Losing
    <3> HIDE DEF u
    <3> QED  BY <3>1, <3>2
  <2> QED  BY <2>1, <2>2 DEF Misreading
<1>3. ASSUME NEW d \in Cells, d # c
      PROVE  CellOK(d, file'[d], mem'[d], tried'[d])
  BY <1>3 DEF Contents, Misreading, Others, Same
<1> QED  BY <1>2, <1>3 DEF Contents

LEMMA SavingUnreferenced ==
  ASSUME Contents, NEW c \in Cells, NEW v \in Proper(c), Saving(c, v),
         c \in Collections => Unused(v, gone'),
         \A d \in Collections : CellUnused(d, file[d], mem[d], gone')
  PROVE  Unreferenced'
<1>1. IsFileOf(file[c], Proper(c))
  BY DEF Contents, CellOK
<1>2. ASSUME c \in Collections
      PROVE  CellUnused(c, file'[c], mem'[c], gone')
  <2> PICK h : h = gone'
    OBVIOUS
  <2>1. CellUnused(c, file[c], mem[c], h) /\ Unused(v, h)
    BY <1>2
  <2>2. /\ CellUnused(c, Saved(file[c], v), v, h)
        /\ \A g \in Refused(file[c], v) : CellUnused(c, g, mem[c], h)
    BY <1>1, <2>1, UnusedSaved
  <2> QED  BY <2>2 DEF Saving, Settles, Doubts
<1>3. ASSUME NEW d \in Collections, d # c
      PROVE  CellUnused(d, file'[d], mem'[d], gone')
  <2>1. Same(d)
    BY <1>3, Collected DEF Saving, Others
  <2> QED  BY <2>1 DEF Same
<1> QED  BY <1>2, <1>3 DEF Unreferenced

LEMMA LoadingUnreferenced ==
  ASSUME Unreferenced, NEW c \in Cells, Loading(c), gone' = gone
  PROVE  Unreferenced'
<1>1. ASSUME c \in Collections
      PROVE  CellUnused(c, file'[c], mem'[c], gone)
  <2>1. CellUnused(c, file[c], mem[c], gone) /\ c # "settings"
    BY <1>1, Collected DEF Unreferenced
  <2>2. CASE Taking(c)
    BY <2>1, <2>2, UnusedTaken DEF Taking
  <2>3. CASE Ending(c)
    BY <2>1, <2>3 DEF Ending, Spares, CellUnused
  <2> QED  BY <2>1, <2>2, <2>3 DEF Loading, Falling
<1>2. ASSUME NEW d \in Collections, d # c
      PROVE  CellUnused(d, file'[d], mem'[d], gone)
  <2>1. Same(d) /\ CellUnused(d, file[d], mem[d], gone)
    BY <1>2, Collected DEF Loading, Others, Unreferenced
  <2> QED  BY <2>1 DEF Same
<1> QED  BY <1>1, <1>2 DEF Unreferenced

LEMMA MisreadingUnreferenced ==
  ASSUME Unreferenced, NEW c \in Cells, Misreading(c),
         gone' = gone \ IF c \in Collections THEN RefsOf(UNION Wholes(file[c])) ELSE {}
  PROVE  Unreferenced'
<1>1. ASSUME c \in Collections
      PROVE  CellUnused(c, file'[c], mem'[c], gone')
  <2>1. CellUnused(c, file[c], mem[c], gone) /\ c # "settings"
        /\ gone' = gone \ RefsOf(UNION Wholes(file[c]))
    BY <1>1, Collected DEF Unreferenced
  <2>4. PICK k : k = gone'
    OBVIOUS
  <2>2. CASE Mistaking(c)
    <3>1. PICK v : Turns(c, file[c], file'[c], v) /\ mem'[c] = Kept(c, v)
      BY <2>2 DEF Mistaking
    <3>2. CellUnused(c, file'[c], Kept(c, v), k)
      BY <2>1, <2>4, <3>1, UnusedMisread
    <3> QED  BY <2>4, <3>1, <3>2
  <2>3. CASE Losing(c)
    <3>1. Exposes(c, file[c], file'[c]) /\ mem'[c] = mem[c]
      BY <2>1, <2>3 DEF Losing
    <3>2. CellUnused(c, file'[c], mem[c], k)
      BY <2>1, <2>4, <3>1, UnusedMisread
    <3> QED  BY <2>4, <3>1, <3>2
  <2> QED  BY <2>2, <2>3 DEF Misreading
<1>2. ASSUME NEW d \in Collections, d # c
      PROVE  CellUnused(d, file'[d], mem'[d], gone')
  <2>1. Same(d) /\ CellUnused(d, file[d], mem[d], gone)
    BY <1>2, Collected DEF Misreading, Others, Unreferenced
  <2>2. gone' \subseteq gone
    OBVIOUS
  <2> QED  BY <2>1, <2>2 DEF Same, CellUnused, Unused
<1> QED  BY <1>1, <1>2 DEF Unreferenced

-----------------------------------------------------------------------------
(* The steps of a start                                                    *)

LEMMA InOrderTail ==
  ASSUME NEW s, InOrder(s), s # <<>>
  PROVE  /\ InOrder(Tail(s)) /\ Steps(s) = {Head(s)} \cup Steps(Tail(s))
         /\ Len(s) = 1 <=> Tail(s) = <<>>
         /\ Head(s) \in Repairs => Steps(s) \subseteq Repairs
         /\ Head(s) \notin Repairs => Repairs \subseteq Steps(Tail(s))
<1> DEFINE S == Cells \cup {"registry"} \cup Repairs
           t == Tail(s)
<1>1. s \in Seq(S)
  BY DEF InOrder
<1>2. t \in Seq(S) /\ Len(t) = Len(s) - 1 /\ \A i \in 1 .. Len(t) : t[i] = s[i + 1]
  BY <1>1, HeadTailProperties
<1>3. Len(s) \in Nat \ {0} /\ Head(s) = s[1]
  BY <1>1, EmptySeq
<1>4. Len(t) = 0 <=> t = <<>>
  BY <1>2, EmptySeq
<1>5. \A k \in 1 .. Len(s) : s[k] \notin Repairs =>
        /\ \A j \in 1 .. k : s[j] \notin Repairs
        /\ \A r \in Repairs : \E j \in 1 .. Len(s) : k < j /\ s[j] = r
  BY DEF InOrder
<1> HIDE DEF S, t
<1>6. \A k \in 1 .. Len(s) : k = 1 \/ (k - 1 \in 1 .. Len(t) /\ t[k - 1] = s[k])
  BY <1>2, <1>3
<1>7. \A k \in 1 .. Len(t) : k + 1 \in 1 .. Len(s) /\ s[k + 1] = t[k]
  BY <1>2, <1>3
<1>8. Steps(s) = {Head(s)} \cup Steps(t)
  <2>1. ASSUME NEW k \in 1 .. Len(s) PROVE s[k] \in {Head(s)} \cup Steps(t)
    BY <1>3, <1>6 DEF Steps
  <2>2. s[1] \in Steps(s)
    BY <1>3 DEF Steps
  <2>3. ASSUME NEW k \in 1 .. Len(t) PROVE t[k] \in Steps(s)
    BY <1>7 DEF Steps
  <2>4. Steps(s) \subseteq {Head(s)} \cup Steps(t)
    BY <2>1 DEF Steps
  <2>5. Steps(t) \subseteq Steps(s)
    BY <2>3 DEF Steps
  <2> QED  BY <1>3, <2>2, <2>4, <2>5
<1>9. InOrder(t)
  <2>1. ASSUME NEW k \in 1 .. Len(t), t[k] \notin Repairs
        PROVE  /\ \A j \in 1 .. k : t[j] \notin Repairs
               /\ \A r \in Repairs : \E j \in 1 .. Len(t) : k < j /\ t[j] = r
    <3>1. /\ \A j \in 1 .. k + 1 : s[j] \notin Repairs
          /\ \A r \in Repairs : \E j \in 1 .. Len(s) : k + 1 < j /\ s[j] = r
      BY <1>5, <1>7, <2>1
    <3>2. ASSUME NEW j \in 1 .. k PROVE t[j] \notin Repairs
      <4>1. j \in 1 .. Len(t) /\ j + 1 \in 1 .. k + 1
        BY <1>2, <1>3
      <4> QED  BY <1>7, <3>1, <4>1
    <3>3. ASSUME NEW r \in Repairs PROVE \E j \in 1 .. Len(t) : k < j /\ t[j] = r
      <4>1. PICK j \in 1 .. Len(s) : k + 1 < j /\ s[j] = r
        BY <3>1
      <4>2. j - 1 \in 1 .. Len(t) /\ t[j - 1] = r /\ k < j - 1
        BY <1>6, <4>1
      <4> QED  BY <4>2
    <3> QED  BY <3>2, <3>3
  <2> QED  BY <1>2, <2>1 DEF InOrder, S
<1>10. ASSUME Head(s) \in Repairs PROVE Steps(s) \subseteq Repairs
  <2>1. ASSUME NEW k \in 1 .. Len(s) PROVE s[k] \in Repairs
    <3>1. 1 \in 1 .. k
      OBVIOUS
    <3> QED  BY <1>3, <1>5, <1>10, <3>1
  <2> QED  BY <2>1 DEF Steps
<1>11. ASSUME Head(s) \notin Repairs, NEW r \in Repairs PROVE r \in Steps(t)
  <2>1. PICK j \in 1 .. Len(s) : 1 < j /\ s[j] = r
    BY <1>3, <1>5, <1>11
  <2> QED  BY <1>6, <2>1 DEF Steps
<1>12. Len(s) = 1 <=> t = <<>>
  BY <1>2, <1>3, <1>4
<1> QED  BY <1>8, <1>9, <1>10, <1>11, <1>12 DEF t

LEMMA WholeStart ==
  LET plan == Types \o <<"registry", "settings", "purge", "backfill">>
  IN /\ InOrder(plan) /\ plan # <<>>
     /\ Steps(plan) = Cells \cup {"registry"} \cup Repairs
<1> DEFINE S == Cells \cup {"registry"} \cup Repairs
           q == <<"registry", "settings", "purge", "backfill">>
           n == Len(Types)
           p == Types \o q
<1>1. Types \in Seq(DOMAIN Referrers)
  BY CatalogAssumption
<1>2. n \in Nat /\ DOMAIN Types = 1 .. n
  BY <1>1, LenProperties
<1>3. Collections = {Types[k] : k \in 1 .. n}
  BY <1>2 DEF Collections
<1>4. Types \in Seq(S)
  <2>1. Types = [k \in 1 .. n |-> Types[k]]
    BY <1>1, LenProperties
  <2>2. \A k \in 1 .. n : Types[k] \in S
    BY <1>3 DEF Cells
  <2>3. Types \in [1 .. n -> S]
    BY <2>1, <2>2
  <2> QED  BY <1>2, <2>3, SeqDef
<1>5. q \in Seq(S) /\ Len(q) = 4
  BY Collected DEF Repairs
<1>6. q[1] = "registry" /\ q[2] = "settings" /\ q[3] = "purge" /\ q[4] = "backfill"
  OBVIOUS
<1> HIDE DEF q
<1>7. /\ p \in Seq(S) /\ Len(p) = n + 4
      /\ \A i \in 1 .. n + 4 : p[i] = IF i <= n THEN Types[i] ELSE q[i - n]
  <2>1. /\ p \in Seq(S) /\ Len(p) = n + Len(q)
        /\ \A i \in 1 .. n + Len(q) : p[i] = IF i <= n THEN Types[i] ELSE q[i - n]
    BY <1>4, <1>5, ConcatProperties
  <2> QED  BY <1>5, <2>1
<1> HIDE DEF p, n
<1>8. \A i \in 1 .. n : p[i] = Types[i]
  BY <1>2, <1>7
<1>9. /\ p[n + 1] = "registry" /\ p[n + 2] = "settings"
      /\ p[n + 3] = "purge" /\ p[n + 4] = "backfill"
  BY <1>2, <1>6, <1>7
<1>10. \A i \in 1 .. n + 4 : i \in 1 .. n \/ i = n + 1 \/ i = n + 2 \/ i = n + 3 \/ i = n + 4
  BY <1>2
<1>11. Cells \cap Repairs = {} /\ "registry" \notin Repairs
  BY Collected DEF Cells, Repairs
<1>12. \A i \in 1 .. n + 2 : p[i] \notin Repairs
  <2>1. \A i \in 1 .. n : p[i] \in Cells
    BY <1>3, <1>8 DEF Cells
  <2>2. \A i \in 1 .. n + 2 : i \in 1 .. n \/ i = n + 1 \/ i = n + 2
    BY <1>2
  <2>3. "settings" \notin Repairs
    BY DEF Repairs
  <2> QED  BY <1>9, <1>11, <2>1, <2>2, <2>3
<1>13. Steps(p) = S
  <2>1. \A i \in 1 .. Len(p) : p[i] \in S
    BY <1>7, ElementOfSeq
  <2>2. ASSUME NEW x \in S PROVE \E i \in 1 .. Len(p) : p[i] = x
    <3>1. CASE x \in Collections
      <4>1. PICK k \in 1 .. n : Types[k] = x
        BY <1>3, <3>1
      <4>2. k \in 1 .. Len(p)
        BY <1>2, <1>7
      <4> QED  BY <1>8, <4>1, <4>2
    <3>2. CASE x \in {"registry", "settings", "purge", "backfill"}
      <4>1. n + 1 \in 1 .. Len(p) /\ n + 2 \in 1 .. Len(p)
            /\ n + 3 \in 1 .. Len(p) /\ n + 4 \in 1 .. Len(p)
        BY <1>2, <1>7
      <4> QED  BY <1>9, <3>2, <4>1
    <3> QED  BY <3>1, <3>2 DEF Cells, Repairs
  <2> QED  BY <2>1, <2>2 DEF Steps
<1>14. InOrder(p)
  <2>1. ASSUME NEW k \in 1 .. Len(p), p[k] \notin Repairs
        PROVE  /\ \A j \in 1 .. k : p[j] \notin Repairs
               /\ \A r \in Repairs : \E j \in 1 .. Len(p) : k < j /\ p[j] = r
    <3>1. p[n + 3] \in Repairs /\ p[n + 4] \in Repairs
      BY <1>9 DEF Repairs
    <3>2. k # n + 3 /\ k # n + 4
      BY <2>1, <3>1
    <3>3. k \in 1 .. n + 2
      BY <1>2, <1>7, <3>2
    <3>4. \A j \in 1 .. k : j \in 1 .. n + 2
      BY <1>2, <3>3
    <3>5. n + 3 \in 1 .. Len(p) /\ n + 4 \in 1 .. Len(p) /\ k < n + 3 /\ k < n + 4
      BY <1>2, <1>7, <3>3
    <3> QED  BY <1>9, <1>12, <3>4, <3>5 DEF Repairs
  <2> QED  BY <1>7, <2>1 DEF InOrder, S
<1>15. p # <<>>
  BY <1>2, <1>7, EmptySeq
<1> QED  BY <1>13, <1>14, <1>15 DEF p, q

-----------------------------------------------------------------------------
(* Every action keeps the invariant                                        *)

LEMMA SavingFinds ==
  ASSUME Contents, NEW c \in Cells, NEW v \in Proper(c), Saving(c, v)
  PROVE  /\ Finds(c, file'[c]) \subseteq Finds(c, file[c]) \cup {v}
         /\ mem'[c] \in {mem[c], v}
         /\ Settles(c, v) => Finds(c, file'[c]) = {v} /\ Settled(file'[c])
<1>1. IsFileOf(file[c], Proper(c))
  BY DEF Contents, CellOK
<1>2. CASE Settles(c, v)
  <2>1. IsFileOf(Saved(file[c], v), Proper(c)) /\ Finds(c, Saved(file[c], v)) = {v}
          /\ Saved(file[c], v).pri = Whole(v)
    BY <1>1, FileSaved
  <2>2. Readable(Whole(v))
    BY IsWhole
  <2> QED  BY <1>2, <2>1, <2>2 DEF Settles, Settled
<1>3. CASE ~ Settles(c, v)
  BY <1>1, <1>3, FileRefused DEF Saving, Doubts
<1> QED  BY <1>2, <1>3

LEMMA Waiting ==
  /\ InOrder(<<>>) /\ Steps(<<>>) = {}
<1>1. \A k \in 1 .. Len(<<>>) : FALSE
  BY EmptySeq
<1>2. InOrder(<<>>)
  BY <1>1, EmptySeq DEF InOrder
<1> QED  BY <1>1, <1>2 DEF Steps

OffOr(p, t) == (power' = p /\ todo' = t) \/ (power' = "off" /\ todo' = <<>>)

(* A save by a call, with sound new content, in a system that is up.       *)
LEMMA UpKeeps ==
  ASSUME IInv, power = "up", OffOr(power, todo),
         NEW c \in Cells, NEW v \in Proper(c), Saving(c, v),
         Shape', RegistryKnown',
         c = "schedules" => Live(v) = v,
         c = "settings" => v.elev # Unset,
         c \in Collections => Unused(v, gone'),
         \A d \in Collections : CellUnused(d, file[d], mem[d], gone')
  PROVE  IInv'
<1>1. Contents /\ Contents'
  BY SavingContents DEF IInv
<1>2. Unreferenced'
  BY SavingUnreferenced DEF IInv
<1>3. todo = <<>> /\ todo' = <<>> /\ power' \in {"up", "off"}
  BY DEF IInv, Starting, OffOr
<1>4. Starting'
  BY <1>3, Waiting DEF Starting
<1>5. /\ Finds(c, file'[c]) \subseteq Finds(c, file[c]) \cup {v}
      /\ mem'[c] \in {mem[c], v}
  BY <1>1, SavingFinds
<1>6. \A d \in Cells : d # c => Same(d)
  BY DEF Saving, Others
<1>7. "schedules" \in Collections =>
        Live(mem["schedules"]) = mem["schedules"] /\ Purged(file["schedules"])
  BY <1>3, Waiting DEF IInv, Repairing, SchedulesHeld, SchedulesPurged
<1>8. ASSUME "schedules" \in Collections
      PROVE  Live(mem'["schedules"]) = mem'["schedules"] /\ Purged(file'["schedules"])
  <2>1. CASE c = "schedules"
    BY <1>5, <1>7, <1>8, <2>1 DEF Purged
  <2>2. CASE c # "schedules"
    BY <1>6, <1>7, <1>8, <2>2, Collected DEF Same
  <2> QED  BY <2>1, <2>2
<1>9. mem'["settings"].elev # Unset
  <2>1. mem["settings"].elev # Unset
    BY <1>3, Waiting DEF IInv, Repairing, ElevationSet
  <2>2. CASE c = "settings"
    BY <1>5, <2>1, <2>2
  <2>3. CASE c # "settings"
    BY <1>6, <2>1, <2>3, Collected DEF Same
  <2> QED  BY <2>2, <2>3
<1>10. Repairing'
  BY <1>3, <1>8, <1>9, Waiting DEF Repairing, SchedulesHeld, SchedulesPurged, ElevationSet
<1> QED  BY <1>1, <1>2, <1>4, <1>10 DEF IInv

LEMMA SaveKeeps ==
  ASSUME IInv, power = "up", NEW c \in Cells, NEW v \in Proper(c), Save(c, v),
         c = "schedules" => Live(v) = v,
         c = "settings" => v.elev # Unset,
         c \in Collections => Unused(v, gone'),
         \A d \in Collections : CellUnused(d, file[d], mem[d], gone')
  PROVE  IInv'
<1>1. Shape' /\ Saving(c, v) /\ RegistryTried
  BY SaveEffect DEF IInv, Save
<1>2. OffOr(power, todo) /\ regfile' = regfile /\ registry' = registry
  BY DEF Save, IsCutOff, Stays, OffOr
<1>3. RegistryKnown'
  BY <1>1, <1>2 DEF IInv, RegistryKnown, RegistryFinds, RegistryTried
<1> QED  BY <1>1, <1>2, <1>3, UpKeeps

(* upsert: the collection with one entity replaced or added.               *)
LEMMA WriteKeeps ==
  ASSUME IInv, power = "up", NEW e \in Entity, e.id \in Ids, Refers(TypeOf[e.id], e),
         Valid(e), Write(e)
  PROVE  IInv'
<1> DEFINE c == TypeOf[e.id]
           v == With(mem[c], e)
<1>1. c \in Collections /\ c \in Cells /\ c # "settings"
  BY Collected
<1>2. Save(c, v) /\ gone' = gone \ e.refs
  BY DEF Write
<1>3. mem[c] \in SUBSET Entity /\ \A x \in mem[c] : Refers(c, x)
  BY <1>1 DEF IInv, Contents, CellOK, Proper
<1> HIDE DEF c
<1>4. v \subseteq mem[c] \cup {e}
  BY DEF With
<1> HIDE DEF v
<1>5. Refers(c, e)
  BY DEF c
<1>6. v \in Proper(c)
  BY <1>1, <1>3, <1>4, <1>5 DEF Proper
<1>7. ASSUME NEW d \in Collections PROVE CellUnused(d, file[d], mem[d], gone')
  BY <1>2 DEF IInv, Unreferenced, CellUnused, Unused
<1>8. Unused(v, gone')
  <2>1. \A x \in mem[c] : x.refs \cap gone' = {}
    BY <1>1, <1>7 DEF CellUnused, Unused
  <2>2. e.refs \cap gone' = {}
    BY <1>2
  <2> QED  BY <1>4, <2>1, <2>2 DEF Unused
<1>9. c = "schedules" => Live(v) = v
  <2>1. ASSUME c = "schedules" PROVE Live(mem[c]) = mem[c]
    BY <1>1, <2>1, Waiting DEF IInv, Repairing, SchedulesHeld, Starting
  <2>2. c = "schedules" => \A x \in mem[c] : x.mark # "retired"
    BY <2>1 DEF Live
  <2> QED  BY <1>4, <2>2 DEF Live, Valid
<1> QED  BY <1>1, <1>2, <1>6, <1>7, <1>8, <1>9, SaveKeeps

LEMMA CreateKeeps ==
  ASSUME IInv, NEW i \in Ids, NEW e \in Bodies[i], Create(e) \/ Update(e)
  PROVE  IInv'
<1>1. e \in Entity /\ e.id = i /\ Refers(TypeOf[i], e)
  BY CatalogAssumption
<1>2. power = "up" /\ Valid(e) /\ Write(e)
  BY DEF Create, Update, Ready
<1> QED  BY <1>1, <1>2, WriteKeeps

LEMMA SetEnabledKeeps ==
  ASSUME IInv, NEW i \in Ids, NEW mark \in {"on", "off"}, SetEnabled(i, mark)
  PROVE  IInv'
<1> DEFINE x == Find(mem["schedules"], i)
           e == [x EXCEPT !.mark = mark]
<1>1. power = "up" /\ TypeOf[i] = "schedules" /\ Has(mem["schedules"], i) /\ Write(e)
  BY DEF SetEnabled, Ready
<1>2. x \in mem["schedules"] /\ x.id = i
  BY <1>1 DEF Has, Find
<1>3. "schedules" \in Cells
  BY <1>1, Collected
<1>4. x \in Entity /\ Refers("schedules", x)
  BY <1>2, <1>3 DEF IInv, Contents, CellOK, Proper
<1> HIDE DEF x
<1>5. e \in Entity /\ e.id = i /\ e.refs = x.refs /\ e.mark = mark
  BY <1>2, <1>4 DEF Entity
<1> HIDE DEF e
<1>6. Refers(TypeOf[e.id], e) /\ Valid(e)
  BY <1>1, <1>4, <1>5 DEF Refers, Valid
<1> QED  BY <1>1, <1>5, <1>6, WriteKeeps

LEMMA UpdateSettingsKeeps ==
  ASSUME IInv, NEW r \in Requests, UpdateSettings(r)
  PROVE  IInv'
<1> DEFINE s == mem["settings"]
           v == Relocated(s, r)
<1>1. power = "up" /\ Save("settings", v) /\ gone' = gone
  BY DEF UpdateSettings, Ready
<1>2. "settings" \in Cells /\ "settings" \notin Collections
  BY Collected
<1>3. s \in Settings
  BY <1>2 DEF IInv, Contents, CellOK, Proper
<1> HIDE DEF s
<1>4. v \in Settings /\ v.elev # Unset /\ Located(v)
  <2>1. DefaultCity \in Cities /\ Unset \notin Cities /\ Own # Unset /\ Own \notin Cities
    BY CitiesApart
  <2>2. s.elev \in Elevations \cup {Unset} /\ Unset \notin Elevations /\ Cities \subseteq Elevations
    BY <1>3, CitiesApart DEF Settings, Elevations
  <2>3. Effective(s).elev \in Elevations
    BY <2>1, <2>2 DEF Effective
  <2> DEFINE e == Effective(s)
             p == IF r.coordinates THEN Own ELSE IF r.city # None THEN r.city ELSE e.place
             h == IF r.elevation THEN "set" ELSE IF r.city # None THEN r.city ELSE e.elev
  <2>4. r.city \in Cities \cup {None}
    BY RequestAssumption
  <2>5. e.place \in Cities \cup {Own}
    BY <1>3, <2>1 DEF Settings, Effective
  <2>6. s.elev # Unset /\ Located(s)
    BY <1>1, <1>2, Waiting
       DEF IInv, Starting, Repairing, ElevationSet, Contents, CellOK, Proper, s
  <2>7. e.place \in Cities => e.elev \in {e.place, "set"}
    BY <2>6 DEF Located
  <2>8. v = [place |-> p, elev |-> h]
    BY DEF Relocated
  <2> HIDE DEF e
  <2>9. p \in Cities \cup {Own} /\ h \in Elevations /\ (p \in Cities => h \in {p, "set"})
    BY <2>1, <2>2, <2>3, <2>4, <2>5, <2>7 DEF Elevations, e
  <2> HIDE DEF p, h
  <2>10. v.place = p /\ v.elev = h
    BY <2>8
  <2>11. v \in Settings
    BY <2>8, <2>9 DEF Settings
  <2>12. v.elev # Unset /\ v.place # Unset
    BY <2>1, <2>2, <2>9, <2>10
  <2> HIDE DEF v
  <2>13. Effective(v).place = p /\ Effective(v).elev = h
    BY <2>10, <2>12 DEF Effective
  <2>14. Located(v)
    BY <2>9, <2>13 DEF Located
  <2> QED  BY <2>11, <2>12, <2>14
<1> HIDE DEF v
<1>5. v \in Proper("settings")
  BY <1>4 DEF Proper
<1>6. \A d \in Collections : CellUnused(d, file[d], mem[d], gone')
  BY <1>1 DEF IInv, Unreferenced
<1> QED  BY <1>1, <1>2, <1>4, <1>5, <1>6, SaveKeeps

(* Nothing refers to an entity whose deletion is allowed, in memory or in  *)
(* what a start would find, once every change so far is acknowledged.      *)
LEMMA DeletedUnused ==
  ASSUME IInv, power = "up", NEW i \in Ids, ~ Referenced(i), \A b \in Cells : tried[b] = {}
  PROVE  \A d \in Collections : CellUnused(d, file[d], mem[d], gone \cup {i})
<1> SUFFICES ASSUME NEW d \in Collections
             PROVE  CellUnused(d, file[d], mem[d], gone \cup {i})
  OBVIOUS
<1>1. d \in Cells /\ d # "settings"
  BY Collected
<1>2. CellOK(d, file[d], mem[d], {}) /\ CellUnused(d, file[d], mem[d], gone)
  BY <1>1 DEF IInv, Contents, Unreferenced
<1>3. \A e \in mem[d] : Refers(d, e)
  BY <1>1, <1>2 DEF CellOK, Proper
<1>4. ASSUME NEW e \in mem[d], i \in e.refs PROVE FALSE
  <2>1. d \in Referrers[TypeOf[i]] \cap Collections
    BY <1>3, <1>4 DEF Refers
  <2> QED  BY <1>4, <2>1 DEF Referenced
<1>5. Unused(mem[d], gone \cup {i})
  BY <1>2, <1>4 DEF CellUnused, Unused
<1>6. ASSUME NEW x \in Finds(d, file[d]) PROVE x = mem[d]
  <2>1. Kept(d, x) = Kept(d, mem[d])
    BY <1>2, <1>6 DEF CellOK, Recalls
  <2>2. CASE d = "schedules"
    <3>1. todo = <<>> /\ power # "off"
      BY DEF IInv, Starting
    <3>2. Live(mem[d]) = mem[d] /\ Purged(file[d])
      BY <2>2, <3>1, Waiting DEF IInv, Repairing, SchedulesHeld, SchedulesPurged
    <3> QED  BY <1>6, <2>1, <2>2, <3>2 DEF Purged, Kept
  <2>3. CASE d # "schedules"
    BY <2>1, <2>3 DEF Kept
  <2> QED  BY <2>2, <2>3
<1> QED  BY <1>5, <1>6 DEF CellUnused

RegistryTries ==
  tried'["registry"] = IF regfile' = Whole(registry') /\ power' = "up" THEN {}
                       ELSE tried["registry"] \cup {registry} \cup Wreck("registry")

LEMMA RegistrySaved ==
  ASSUME RegistryKnown, registry' \subseteq Devices, SavesRegistry, RegistryTries
  PROVE  RegistryKnown'
<1>1. regfile' \in {regfile, Torn, Whole(registry')}
  BY DEF SavesRegistry
<1>2. ~ Readable(Torn) /\ Readable(Whole(registry')) /\ Whole(registry').content = registry'
  BY NotWhole, IsWhole
<1>3. IsSlot(regfile', SUBSET Devices)
  <2> DEFINE G == SUBSET Devices
  <2>1. registry' \in G /\ IsSlot(regfile, G)
    BY DEF RegistryKnown
  <2> HIDE DEF G
  <2>2. IsSlot(Whole(registry'), G) /\ IsSlot(Torn, G)
    BY <2>1, Slots
  <2> QED  BY <1>1, <2>1, <2>2 DEF G
<1>4. {} \in Wreck("registry")
  BY DEF Wreck
<1>5. CASE regfile' = Whole(registry')
  BY <1>2, <1>3, <1>5 DEF RegistryKnown, RegistryFinds
<1>6. CASE regfile' # Whole(registry')
  <2>1. tried'["registry"] = tried["registry"] \cup {registry} \cup Wreck("registry")
    BY <1>6 DEF RegistryTries
  <2>2. CASE regfile' = regfile
    BY <1>3, <2>1, <2>2 DEF RegistryKnown, RegistryFinds
  <2>3. CASE regfile' = Torn
    BY <1>2, <1>3, <1>4, <2>1, <2>3 DEF RegistryKnown, RegistryFinds
  <2> QED  BY <1>1, <1>6, <2>2, <2>3
<1> QED  BY <1>5, <1>6

(* The third outcome of a deletion: the endpoint is gone, its device       *)
(* leaves the registry and is told so.                                     *)
LEMMA ReleaseEffect ==
  ASSUME Shape, NEW c \in Cells, NEW v, NEW w,
         Puts(file', file, c, Saved(file[c], v)), Puts(mem', mem, c, v),
         tried' = [tried EXCEPT ![c] = {}, !["registry"] = w]
  PROVE  Shape' /\ Saving(c, v) /\ Settles(c, v) /\ tried'["registry"] = w
<1> DEFINE T == Cells \cup {"registry"}
           u == [tried EXCEPT ![c] = {}]
<1>1. IsMap(file, Cells) /\ IsMap(mem, Cells) /\ IsMap(tried, T)
  BY DEF Shape
<1>2. c \in T /\ "registry" \in T /\ c # "registry" /\ "registry" \notin Cells
      /\ \A d \in Cells : d \in T
  BY Collected
<1>3. Puts(u, tried, c, {}) /\ Puts(tried', u, "registry", w)
  BY DEF Puts
<1> HIDE DEF T, u
<1>4. IsMap(file', Cells) /\ file'[c] = Saved(file[c], v)
        /\ \A d \in Cells : d # c => file'[d] = file[d]
  BY <1>1, MapExcept
<1>5. IsMap(mem', Cells) /\ mem'[c] = v /\ \A d \in Cells : d # c => mem'[d] = mem[d]
  BY <1>1, MapExcept
<1>6. IsMap(u, T) /\ u[c] = {} /\ \A d \in T : d # c => u[d] = tried[d]
  BY <1>1, <1>2, <1>3, MapExcept
<1>7. PICK k : k = tried'
  OBVIOUS
<1>8. IsMap(k, T) /\ k["registry"] = w /\ \A d \in T : d # "registry" => k[d] = u[d]
  <2>1. Puts(k, u, "registry", w)
    BY <1>3, <1>7
  <2> QED  BY <1>2, <1>6, <2>1, MapExcept
<1>9. \A d \in Cells : k[d] = u[d]
  BY <1>2, <1>8
<1>10. Shape'
  BY <1>4, <1>5, <1>7, <1>8 DEF Shape, T
<1>11. Settles(c, v)
  BY <1>4, <1>5, <1>6, <1>7, <1>9 DEF Settles
<1>12. Others(c)
  BY <1>2, <1>4, <1>5, <1>6, <1>7, <1>9 DEF Others, Same
<1> QED  BY <1>7, <1>8, <1>10, <1>11, <1>12 DEF Saving

Rest(i) == Without(mem[TypeOf[i]], i)
DeviceOf(i) == Find(mem[TypeOf[i]], i).dev
Released(i) ==
  /\ Shape' /\ Saving(TypeOf[i], Rest(i)) /\ Settles(TypeOf[i], Rest(i))
  /\ registry' = registry \ {DeviceOf(i)} /\ SavesRegistry /\ RegistryTries
  /\ TypeOf[i] = "endpoints" /\ Releasable(DeviceOf(i), Rest(i))
  /\ told' \subseteq told \cup {DeviceOf(i)}

(* A deletion saves the collection and no more, or releases the device;    *)
(* the id counts as gone when every change before it is acknowledged.      *)
LEMMA DeleteEffect ==
  ASSUME Shape, NEW i \in Ids, Delete(i)
  PROVE  /\ Save(TypeOf[i], Rest(i)) \/ Released(i)
         /\ gone' = gone \/ (gone' = gone \cup {i} /\ \A b \in Cells : tried[b] = {})
<1> DEFINE c == TypeOf[i]
           v == Without(mem[c], i)
           d == Find(mem[c], i).dev
           frees == c = "endpoints" /\ Releasable(d, v)
           older == gone' = gone \/ (gone' = gone \cup {i} /\ \A b \in Cells : tried[b] = {})
<1>1. v = Rest(i) /\ d = DeviceOf(i) /\ c = TypeOf[i]
  BY DEF Rest, DeviceOf
<1>2. CASE /\ ~ frees
           /\ Save(c, v)
           /\ gone' = IF mem' = mem \/ \E b \in Cells : tried[b] # {} THEN gone
                      ELSE gone \cup {i}
  BY <1>1, <1>2
<1>3. CASE /\ frees
           /\ (Raises(c, v) /\ Stays) \/ IsCutOff(c, v)
           /\ UNCHANGED <<regfile, registry, told, gone>>
  BY <1>1, <1>3 DEF Save
<1>4. CASE /\ frees
           /\ file' = [file EXCEPT ![c] = Saved(@, v)]
           /\ mem' = [mem EXCEPT ![c] = v]
           /\ registry' = registry \ {d}
           /\ SavesRegistry
           /\ tried' = [tried EXCEPT ![c] = {}, !["registry"] =
                          IF regfile' = Whole(registry') /\ power' = "up" THEN {}
                          ELSE @ \cup {registry} \cup Wreck("registry")]
           /\ told' \in {told} \cup IF power' = "up" THEN {told \cup ({d} \cap registry)} ELSE {}
           /\ gone' = IF \E b \in Cells : tried[b] # {} THEN gone ELSE gone \cup {i}
  <2> DEFINE w == IF regfile' = Whole(registry') /\ power' = "up" THEN {}
                  ELSE tried["registry"] \cup {registry} \cup Wreck("registry")
  <2>1. PICK k : k = w
    OBVIOUS
  <2>2. c \in Cells /\ c # "registry"
    BY Collected
  <2>3. /\ Puts(file', file, c, Saved(file[c], v)) /\ Puts(mem', mem, c, v)
        /\ tried' = [tried EXCEPT ![c] = {}, !["registry"] = k]
    BY <1>4, <2>1, <2>2 DEF Puts
  <2>4. told' \subseteq told \cup {d} /\ older /\ registry' = registry \ {d}
        /\ SavesRegistry /\ c = "endpoints" /\ Releasable(d, v)
    BY <1>4
  <2> HIDE DEF c, v, d, w, older
  <2>5. Shape' /\ Saving(c, v) /\ Settles(c, v) /\ tried'["registry"] = k
    BY <2>2, <2>3, ReleaseEffect
  <2>6. RegistryTries
    BY <2>1, <2>5 DEF RegistryTries, w
  <2> QED  BY <1>1, <2>4, <2>5, <2>6 DEF Released, older
<1> QED  BY <1>2, <1>3, <1>4 DEF Delete

LEMMA DeleteKeeps ==
  ASSUME IInv, NEW i \in Ids, Delete(i)
  PROVE  IInv'
<1> DEFINE c == TypeOf[i]
           v == Rest(i)
<1>1. power = "up" /\ ~ Referenced(i)
  BY DEF Delete, Ready, Deletable
<1>2. c \in Collections /\ c \in Cells /\ c # "settings"
  BY Collected
<1>3. /\ Save(c, v) \/ Released(i)
      /\ gone' = gone \/ (gone' = gone \cup {i} /\ \A b \in Cells : tried[b] = {})
  BY DeleteEffect DEF IInv
<1>4. mem[c] \in SUBSET Entity /\ \A x \in mem[c] : Refers(c, x)
  BY <1>2 DEF IInv, Contents, CellOK, Proper
<1>5. v \subseteq mem[c]
  BY DEF Rest, Without
<1> HIDE DEF c, v
<1>6. v \in Proper(c)
  BY <1>2, <1>4, <1>5 DEF Proper
<1>7. \A b \in Collections : CellUnused(b, file[b], mem[b], gone')
  <2>1. CASE gone' = gone
    BY <2>1 DEF IInv, Unreferenced
  <2>2. CASE gone' = gone \cup {i} /\ \A b \in Cells : tried[b] = {}
    BY <1>1, <2>2, DeletedUnused
  <2> QED  BY <1>3, <2>1, <2>2
<1>8. Unused(v, gone')
  BY <1>2, <1>5, <1>7 DEF CellUnused, Unused
<1>9. c = "schedules" => Live(v) = v
  <2>1. ASSUME c = "schedules" PROVE Live(mem[c]) = mem[c]
    BY <1>1, <1>2, <2>1, Waiting DEF IInv, Repairing, SchedulesHeld, Starting
  <2> QED  BY <1>5, <2>1 DEF Live
<1>10. CASE Save(c, v)
  BY <1>1, <1>2, <1>6, <1>7, <1>8, <1>9, <1>10, SaveKeeps
<1>11. CASE Released(i)
  <2>1. /\ Shape' /\ Saving(c, v) /\ SavesRegistry /\ RegistryTries
        /\ registry' \subseteq registry
    BY <1>11 DEF Released, c, v
  <2>2. RegistryKnown'
    BY <2>1, RegistrySaved DEF IInv, RegistryKnown
  <2>3. OffOr(power, todo)
    BY <2>1 DEF SavesRegistry, Stays, OffOr
  <2> QED  BY <1>1, <1>2, <1>6, <1>7, <1>8, <1>9, <2>1, <2>2, <2>3, UpKeeps
<1> QED  BY <1>3, <1>10, <1>11

(* Steps that leave the cells alone.                                       *)
Calm == file' = file /\ mem' = mem /\ gone' = gone
          /\ \A c \in Cells : tried'[c] = tried[c]

LEMMA CalmKeeps ==
  ASSUME IInv, Calm
  PROVE  Contents' /\ Unreferenced'
BY DEF IInv, Contents, Unreferenced, Calm

LEMMA JoinKeeps ==
  ASSUME IInv, NEW d \in Devices, Join(d)
  PROVE  IInv'
<1> DEFINE T == Cells \cup {"registry"}
           w == IF regfile' = Whole(registry') /\ power' = "up" THEN {}
                ELSE tried["registry"] \cup {registry} \cup Wreck("registry")
<1>1. power = "up" /\ registry' = registry \cup {d} /\ SavesRegistry
      /\ file' = file /\ mem' = mem /\ gone' = gone
  BY DEF Join, Ready
<1>2. PICK k : k = w
  OBVIOUS
<1>3. Puts(tried', tried, "registry", k)
  BY <1>2 DEF Join, RegistryDoubt, Puts
<1>4. IsMap(tried, T) /\ "registry" \in T /\ \A c \in Cells : c \in T /\ c # "registry"
  BY Collected DEF IInv, Shape
<1> HIDE DEF T
<1>5. IsMap(tried', T) /\ tried'["registry"] = k /\ \A c \in T : c # "registry" => tried'[c] = tried[c]
  BY <1>3, <1>4, MapExcept
<1>6. Shape'
  BY <1>1, <1>5 DEF IInv, Shape, T
<1>7. Calm
  BY <1>1, <1>4, <1>5 DEF Calm
<1>8. RegistryKnown'
  <2>1. RegistryTries
    BY <1>2, <1>5 DEF RegistryTries
  <2> QED  BY <1>1, <2>1, RegistrySaved DEF IInv, RegistryKnown
<1>9. OffOr(power, todo)
  BY <1>1 DEF SavesRegistry, Stays, OffOr
<1>10. todo = <<>>
  BY <1>1 DEF IInv, Starting
<1>11. Starting'
  BY <1>1, <1>9, <1>10, Waiting DEF Starting, OffOr
<1>12. Repairing'
  BY <1>1, <1>9, <1>10 DEF IInv, Repairing, SchedulesHeld, SchedulesPurged, ElevationSet, OffOr
<1> QED  BY <1>6, <1>7, <1>8, <1>11, <1>12, CalmKeeps DEF IInv

LEMMA PowerOnKeeps ==
  ASSUME IInv, PowerOn
  PROVE  IInv'
<1> DEFINE plan == Types \o <<"registry", "settings", "purge", "backfill">>
<1>1. /\ power' = "starting" /\ todo' = plan
      /\ file' = file /\ mem' = mem /\ regfile' = regfile /\ registry' = registry
      /\ tried' = tried /\ gone' = gone
  BY DEF PowerOn, disk, history
<1>2. InOrder(plan) /\ plan # <<>> /\ Steps(plan) = Cells \cup {"registry"} \cup Repairs
  BY WholeStart
<1> HIDE DEF plan
<1>3. Starting'
  BY <1>1, <1>2 DEF Starting
<1>4. Repairing'
  <2>1. Steps(todo') = Cells \cup {"registry"} \cup Repairs
    BY <1>1, <1>2
  <2>2. "purge" \in Steps(todo') /\ "backfill" \in Steps(todo')
        /\ ("schedules" \in Collections => "schedules" \in Steps(todo'))
    BY <2>1, Collected DEF Repairs
  <2> QED  BY <2>2 DEF Repairing, SchedulesHeld, SchedulesPurged, ElevationSet
<1>5. Calm /\ Shape' /\ RegistryKnown'
  BY <1>1 DEF Calm, IInv, Shape, RegistryKnown, RegistryFinds
<1> QED  BY <1>3, <1>4, <1>5, CalmKeeps DEF IInv

LEMMA PowerCutKeeps ==
  ASSUME IInv, PowerCut
  PROVE  IInv'
<1>1. /\ power' = "off" /\ todo' = <<>>
      /\ file' = file /\ mem' = mem /\ regfile' = regfile /\ registry' = registry
      /\ tried' = tried /\ gone' = gone
  BY DEF PowerCut, disk, history
<1>2. Starting' /\ Repairing'
  BY <1>1, Waiting DEF Starting, Repairing, SchedulesHeld, SchedulesPurged, ElevationSet
<1>3. Calm /\ Shape' /\ RegistryKnown'
  BY <1>1 DEF Calm, IInv, Shape, RegistryKnown, RegistryFinds
<1> QED  BY <1>2, <1>3, CalmKeeps DEF IInv

LEMMA AdvanceStarting ==
  ASSUME Starting, power = "starting", Advances
  PROVE  /\ Starting' /\ power' # "off" /\ Steps(todo) = {Head(todo)} \cup Steps(todo')
         /\ Head(todo) \in Repairs => Steps(todo) \subseteq Repairs
         /\ Head(todo) \notin Repairs => Repairs \subseteq Steps(todo')
<1>1. InOrder(todo) /\ todo # <<>>
  BY DEF Starting
<1>2. /\ InOrder(Tail(todo)) /\ Steps(todo) = {Head(todo)} \cup Steps(Tail(todo))
      /\ Len(todo) = 1 <=> Tail(todo) = <<>>
      /\ Head(todo) \in Repairs => Steps(todo) \subseteq Repairs
      /\ Head(todo) \notin Repairs => Repairs \subseteq Steps(Tail(todo))
  BY <1>1, InOrderTail
<1>3. todo' = Tail(todo) /\ power' = IF Len(todo) = 1 THEN "up" ELSE "starting"
  BY DEF Advances
<1> QED  BY <1>2, <1>3 DEF Starting

LEMMA ResetKeeps ==
  ASSUME power' = "off", todo' = <<>>
  PROVE  Starting' /\ Repairing'
BY Waiting DEF Starting, Repairing, SchedulesHeld, SchedulesPurged, ElevationSet

(* A load that goes on holds no retired schedules, and has the file in     *)
(* place.                                                                  *)
LEMMA AdvanceRepairing ==
  ASSUME IInv, power = "starting", NEW c \in Cells, Head(todo) = c, Advances, Others(c),
         c = "schedules" => Live(mem'[c]) = mem'[c] /\ Settled(file'[c])
  PROVE  Starting' /\ Repairing'
<1>1. c \notin Repairs
  BY Collected DEF Repairs, Cells
<1>2. /\ Starting' /\ power' # "off" /\ Steps(todo) = {c} \cup Steps(todo')
      /\ Repairs \subseteq Steps(todo')
  BY <1>1, AdvanceStarting DEF IInv
<1>3. ASSUME "schedules" \in Collections, "schedules" \notin Steps(todo'), c # "schedules"
      PROVE  Live(mem'["schedules"]) = mem'["schedules"] /\ Settled(file'["schedules"])
  <2>1. "schedules" \notin Steps(todo) /\ "schedules" \in Cells /\ "purge" \in Steps(todo)
    BY <1>2, <1>3, Collected DEF Repairs
  <2>2. Live(mem["schedules"]) = mem["schedules"] /\ Settled(file["schedules"])
    BY <1>3, <2>1 DEF IInv, Repairing, SchedulesHeld
  <2>3. Same("schedules")
    BY <1>3, <2>1 DEF Others
  <2> QED  BY <2>2, <2>3 DEF Same
<1>4. Repairing'
  BY <1>2, <1>3 DEF Repairing, SchedulesHeld, SchedulesPurged, ElevationSet, Repairs
<1> QED  BY <1>2, <1>4

LEMMA LoadRightKeeps ==
  ASSUME IInv, NEW c \in Cells, At(c), LoadCleanly(c) \/ LoadWithError(c),
         regfile' = regfile, registry' = registry, gone' = gone
  PROVE  IInv'
<1>1. /\ power = "starting" /\ Head(todo) = c
  BY DEF At
<1>2. Shape' /\ Loading(c) /\ RegistryTried
  BY <1>1, LoadEffect DEF IInv
<1>3. Contents' /\ Unreferenced'
  BY <1>1, <1>2, LoadingContents, LoadingUnreferenced DEF IInv
<1>4. RegistryKnown'
  BY <1>1, <1>2 DEF IInv, RegistryKnown, RegistryFinds, RegistryTried
<1>5. CASE Resets
  BY <1>2, <1>3, <1>4, <1>5, ResetKeeps DEF IInv, Resets
<1>6. CASE Advances /\ (Taking(c) \/ Falling(c))
  <2>1. ASSUME c = "schedules"
        PROVE  Live(mem'[c]) = mem'[c] /\ Settled(file'[c])
    <3>1. PICK v : Takes(c, file[c], file'[c], v) /\ mem'[c] = Live(v)
      BY <1>6, <2>1 DEF Taking, Falling, Kept
    <3> QED  BY <3>1, LiveOnce DEF Takes
  <2>2. Starting' /\ Repairing'
    BY <1>1, <1>2, <1>6, <2>1, AdvanceRepairing DEF Loading
  <2> QED  BY <1>2, <1>3, <1>4, <2>2 DEF IInv
<1> QED  BY <1>2, <1>5, <1>6 DEF Loading, Taking, Falling, Ending

LEMMA LoadMisreadKeeps ==
  ASSUME IInv, NEW c \in Cells, At(c), LoadMisread(c), regfile' = regfile, registry' = registry
  PROVE  IInv'
<1>1. /\ power = "starting" /\ Head(todo) = c
      /\ gone' = gone \ IF c \in Collections THEN RefsOf(UNION Wholes(file[c])) ELSE {}
  BY DEF At, LoadMisread
<1>2. Shape' /\ Misreading(c) /\ RegistryTried
  BY MisreadEffect DEF IInv
<1>3. Contents' /\ Unreferenced'
  BY <1>1, <1>2, MisreadingContents, MisreadingUnreferenced DEF IInv
<1>4. RegistryKnown'
  BY <1>2 DEF IInv, RegistryKnown, RegistryFinds, RegistryTried
<1>5. CASE Resets
  BY <1>2, <1>3, <1>4, <1>5, ResetKeeps DEF IInv, Resets
<1>6. CASE Advances /\ ~ Resets
  <2>1. ASSUME c = "schedules"
        PROVE  Live(mem'[c]) = mem'[c] /\ Settled(file'[c])
    <3>1. PICK v : Turns(c, file[c], file'[c], v) /\ mem'[c] = Live(v)
      BY <1>2, <1>6, <2>1 DEF Misreading, Mistaking, Losing, Kept
    <3> QED  BY <3>1, LiveOnce DEF Turns
  <2>2. Starting' /\ Repairing'
    BY <1>1, <1>2, <1>6, <2>1, AdvanceRepairing DEF Misreading
  <2> QED  BY <1>2, <1>3, <1>4, <2>2 DEF IInv
<1> QED  BY <1>2, <1>5, <1>6 DEF Misreading, Mistaking, Losing

LEMMA LoadKeeps ==
  ASSUME IInv, NEW c \in Cells, Load(c)
  PROVE  IInv'
BY LoadRightKeeps, LoadMisreadKeeps DEF Load

LEMMA LoadRegistryKeeps ==
  ASSUME IInv, LoadRegistry
  PROVE  IInv'
<1> DEFINE T == Cells \cup {"registry"}
<1>1. /\ power = "starting" /\ Head(todo) = "registry" /\ Advances
      /\ file' = file /\ mem' = mem /\ regfile' = regfile /\ gone' = gone
  BY DEF LoadRegistry, At, disk
<1>8. PICK w : /\ Puts(tried', tried, "registry", w)
               /\ \/ registry' = RegistryFinds /\ w = {}
                  \/ registry' = {} /\ w = tried["registry"] \cup {registry}
  BY DEF LoadRegistry, RegistryFinds, Puts
<1>2. IsMap(tried, T) /\ "registry" \in T /\ \A c \in Cells : c \in T /\ c # "registry"
  BY Collected DEF IInv, Shape
<1> HIDE DEF T
<1>3. IsMap(tried', T) /\ tried'["registry"] = w
        /\ \A c \in T : c # "registry" => tried'[c] = tried[c]
  BY <1>2, <1>8, MapExcept
<1>4. Shape' /\ Calm
  BY <1>1, <1>2, <1>3 DEF IInv, Shape, Calm, T
<1>5. RegistryKnown'
  <2>1. registry' \subseteq Devices
    <3>1. RegistryFinds \subseteq Devices
      BY Slots DEF IInv, RegistryKnown, RegistryFinds
    <3> QED  BY <1>8, <3>1
  <2>2. RegistryFinds' = RegistryFinds
    BY <1>1 DEF RegistryFinds
  <2>3. RegistryFinds \in {registry} \cup tried["registry"]
    BY DEF IInv, RegistryKnown
  <2>4. RegistryFinds \in {registry'} \cup tried'["registry"]
    BY <1>3, <1>8, <2>3
  <2> QED  BY <1>1, <2>1, <2>2, <2>4 DEF IInv, RegistryKnown
<1>6. /\ Starting' /\ power' # "off" /\ Steps(todo) = {"registry"} \cup Steps(todo')
      /\ Repairs \subseteq Steps(todo')
  BY <1>1, AdvanceStarting DEF IInv, Repairs
<1>7. Repairing'
  <2>1. "purge" \in Steps(todo') /\ "backfill" \in Steps(todo')
        /\ ("schedules" \notin Steps(todo') => "schedules" \notin Steps(todo))
        /\ "purge" \in Steps(todo)
    BY <1>6 DEF Repairs
  <2> QED  BY <1>1, <2>1 DEF IInv, Repairing, SchedulesHeld, SchedulesPurged, ElevationSet
<1> QED  BY <1>4, <1>5, <1>6, <1>7, CalmKeeps DEF IInv

(* A migration saves a proper content, or ends the start.                  *)
LEMMA RepairKeeps ==
  ASSUME IInv, NEW c \in Cells, NEW v \in Proper(c), Repair(c, v),
         c \in Collections => Unused(v, gone),
         regfile' = regfile, registry' = registry, gone' = gone,
         Advances /\ Settles(c, v) /\ Saving(c, v) => Starting' /\ Repairing'
  PROVE  IInv'
<1>1. Ends(c, v) \/ Raises(c, v) \/ IsCutOff(c, v)
  BY DEF Repair
<1>2. Shape' /\ Saving(c, v) /\ RegistryTried /\ (Ends(c, v) => Settles(c, v))
  BY <1>1, SaveEffect DEF IInv
<1>3. Contents' /\ Unreferenced'
  BY <1>2, SavingContents, SavingUnreferenced DEF IInv, Unreferenced
<1>4. RegistryKnown'
  BY <1>2 DEF IInv, RegistryKnown, RegistryFinds, RegistryTried
<1>5. (Ends(c, v) /\ Advances) \/ (power' = "off" /\ todo' = <<>>)
  BY DEF Repair, Resets, IsCutOff
<1>6. Starting' /\ Repairing'
  BY <1>2, <1>5, ResetKeeps
<1> QED  BY <1>2, <1>3, <1>4, <1>6 DEF IInv

LEMMA PurgeKeeps ==
  ASSUME IInv, Purge
  PROVE  IInv'
<1> DEFINE c == "schedules"
           v == mem["schedules"]
<1>1. /\ power = "starting" /\ Head(todo) = "purge"
      /\ regfile' = regfile /\ registry' = registry /\ gone' = gone
  BY DEF Purge, At
<1>2. "purge" \in Repairs
  BY DEF Repairs
<1>3. ASSUME Advances
      PROVE  /\ Starting' /\ power' # "off" /\ Steps(todo) = {"purge"} \cup Steps(todo')
             /\ c \notin Steps(todo) /\ c \notin Steps(todo')
             /\ mem["settings"].elev = mem'["settings"].elev => ElevationSet'
  <2>1. /\ Starting' /\ power' # "off" /\ Steps(todo) = {"purge"} \cup Steps(todo')
        /\ Steps(todo) \subseteq Repairs
    BY <1>1, <1>2, <1>3, AdvanceStarting DEF IInv
  <2>2. c \notin Repairs /\ "backfill" # "purge"
    BY DEF Repairs
  <2> QED  BY <1>1, <2>1, <2>2 DEF IInv, Repairing, ElevationSet
<1>4. CASE c \in Collections /\ Dropped(file[c].pri)
  <2>1. Repair(c, v) /\ c \in Cells /\ c # "settings"
    BY <1>4, Collected DEF Purge
  <2>2. v \in Proper(c) /\ Unused(v, gone)
    BY <1>4, <2>1 DEF IInv, Contents, CellOK, Unreferenced, CellUnused
  <2>3. ASSUME Advances, Settles(c, v), Saving(c, v)
        PROVE  Starting' /\ Repairing'
    <3>1. /\ Starting' /\ power' # "off" /\ c \notin Steps(todo)
          /\ mem["settings"].elev = mem'["settings"].elev => ElevationSet'
      BY <1>3, <2>3
    <3>2. Live(v) = v
      BY <1>1, <1>4, <3>1 DEF IInv, Repairing, SchedulesHeld
    <3>3. mem'[c] = v /\ Finds(c, file'[c]) = {v} /\ Settled(file'[c])
      BY <2>1, <2>2, <2>3, SavingFinds DEF IInv, Settles
    <3>4. mem'["settings"] = mem["settings"]
      BY <2>1, <2>3, Collected DEF Saving, Others, Same
    <3> QED  BY <3>1, <3>2, <3>3, <3>4
             DEF Repairing, SchedulesHeld, SchedulesPurged, Purged
  <2> QED  BY <1>1, <2>1, <2>2, <2>3, RepairKeeps
<1>5. CASE ~ (c \in Collections /\ Dropped(file[c].pri))
  <2>1. /\ Advances /\ file' = file /\ mem' = mem /\ tried' = tried
    BY <1>5 DEF Purge
  <2>2. /\ Starting' /\ power' # "off" /\ Steps(todo) = {"purge"} \cup Steps(todo')
        /\ c \notin Steps(todo) /\ ElevationSet'
    BY <1>3, <2>1
  <2>3. ASSUME c \in Collections
        PROVE  Live(v) = v /\ Settled(file[c]) /\ Purged(file[c])
    <3>1. Live(v) = v /\ Settled(file[c])
      BY <1>1, <2>2, <2>3 DEF IInv, Repairing, SchedulesHeld
    <3>2. CASE file[c] = Only(Absent)
      BY <3>1, <3>2 DEF Purged, Finds, Empty, Live
    <3>3. CASE file[c] # Only(Absent) /\ Readable(file[c].pri)
      BY <1>5, <2>3, <3>1, <3>3 DEF Purged, Finds, Dropped
    <3> QED  BY <3>1, <3>2, <3>3 DEF Settled
  <2>4. Repairing'
    BY <2>1, <2>2, <2>3 DEF Repairing, SchedulesHeld, SchedulesPurged
  <2>5. Calm /\ Shape' /\ RegistryKnown'
    BY <1>1, <2>1 DEF Calm, IInv, Shape, RegistryKnown, RegistryFinds
  <2> QED  BY <2>2, <2>4, <2>5, CalmKeeps DEF IInv
<1> QED  BY <1>4, <1>5

LEMMA BackfilledSound ==
  ASSUME NEW s \in Settings
  PROVE  Backfilled(s) \in Proper("settings") /\ Backfilled(s).elev # Unset
<1> DEFINE p == Effective(s).place
           v == Backfilled(s)
<1>1. DefaultCity \in Cities /\ Unset \notin Cities /\ Own # Unset /\ "sea" # Unset
  BY CitiesApart
<1>2. p \in Cities \cup {Own} /\ p # Unset
  BY <1>1 DEF Settings, Effective
<1>3. v = [place |-> p, elev |-> ElevationAt(p)]
  BY DEF Backfilled, Effective
<1>4. v.place = p /\ v.elev = ElevationAt(p)
  BY <1>3
<1>5. ElevationAt(p) \in Elevations /\ ElevationAt(p) # Unset /\ (p \in Cities => ElevationAt(p) = p)
  BY <1>1, <1>2 DEF ElevationAt, Elevations
<1> HIDE DEF p
<1>6. v \in Settings
  BY <1>2, <1>3, <1>5 DEF Settings
<1> HIDE DEF v
<1>7. Effective(v).place = p /\ Effective(v).elev = v.elev
  BY <1>2, <1>4, <1>5 DEF Effective
<1>8. Located(v)
  BY <1>4, <1>5, <1>7 DEF Located
<1> QED  BY <1>4, <1>5, <1>6, <1>8 DEF Proper, v

LEMMA BackfillKeeps ==
  ASSUME IInv, Backfill
  PROVE  IInv'
<1> DEFINE c == "settings"
           v == Backfilled(mem["settings"])
<1>1. /\ power = "starting" /\ Head(todo) = "backfill"
      /\ regfile' = regfile /\ registry' = registry /\ gone' = gone
      /\ c \in Cells /\ c \notin Collections
  BY Collected DEF Backfill, At
<1>2. "backfill" \in Repairs
  BY DEF Repairs
<1>3. ASSUME Advances, \A d \in Cells : d # c => Same(d), mem'[c].elev # Unset
      PROVE  Starting' /\ Repairing'
  <2>1. Starting' /\ power' # "off" /\ Steps(todo) = {"backfill"} \cup Steps(todo')
    BY <1>1, <1>2, <1>3, AdvanceStarting DEF IInv
  <2>2. /\ "purge" \in Steps(todo) <=> "purge" \in Steps(todo')
        /\ "schedules" \in Steps(todo) <=> "schedules" \in Steps(todo')
    BY <2>1
  <2>3. ASSUME "schedules" \in Collections
        PROVE  mem'["schedules"] = mem["schedules"] /\ file'["schedules"] = file["schedules"]
    BY <1>3, <2>3, Collected DEF Same
  <2>4. SchedulesHeld'
    BY <1>1, <2>2, <2>3 DEF IInv, Repairing, SchedulesHeld
  <2>5. SchedulesPurged'
    BY <1>1, <2>2, <2>3 DEF IInv, Repairing, SchedulesPurged
  <2> QED  BY <1>3, <2>1, <2>4, <2>5 DEF Repairing, ElevationSet
<1>4. CASE LacksElevation(mem[c])
  <2>1. Repair(c, v)
    BY <1>4 DEF Backfill
  <2>2. v \in Proper(c) /\ v.elev # Unset
    BY <1>1, BackfilledSound DEF IInv, Contents, CellOK, Proper
  <2>3. ASSUME Advances, Settles(c, v), Saving(c, v)
        PROVE  Starting' /\ Repairing'
    BY <1>3, <2>2, <2>3 DEF Settles, Saving, Others
  <2> HIDE DEF v
  <2> QED  BY <1>1, <2>1, <2>2, <2>3, RepairKeeps
<1>5. CASE ~ LacksElevation(mem[c])
  <2>1. /\ Advances /\ file' = file /\ mem' = mem /\ tried' = tried
    BY <1>5 DEF Backfill
  <2>2. Starting' /\ Repairing'
    BY <1>3, <1>5, <2>1 DEF Same, LacksElevation
  <2>3. Calm /\ Shape' /\ RegistryKnown'
    BY <1>1, <2>1 DEF Calm, IInv, Shape, RegistryKnown, RegistryFinds
  <2> QED  BY <2>2, <2>3, CalmKeeps DEF IInv
<1> QED  BY <1>4, <1>5

-----------------------------------------------------------------------------
(* The invariant holds, and what follows from it                           *)

LEMMA OnlyFinds ==
  ASSUME NEW c, NEW x
  PROVE  /\ IsFileOf(Only(Absent), Proper(c)) /\ Finds(c, Only(Absent)) = {Empty(c)}
         /\ x \in Proper(c) =>
              IsFileOf(Only(Whole(x)), Proper(c)) /\ Finds(c, Only(Whole(x))) = {x}
<1> DEFINE G == Proper(c)
<1>1. IsSlot(Absent, G) /\ (x \in G => IsSlot(Whole(x), G))
  BY Slots
<1>2. Readable(Whole(x)) /\ Whole(x).content = x /\ Whole(x) # Absent
  BY IsWhole
<1> HIDE DEF G
<1>3. Only(Absent) = Names3(Absent, Absent, Absent) /\ Only(Whole(x)) = Names3(Whole(x), Absent, Absent)
  BY OnlyIs
<1>4. IsFileOf(Only(Absent), G) /\ (x \in G => IsFileOf(Only(Whole(x)), G))
  BY <1>1, <1>3, FileParts
<1>5. Finds(c, Only(Absent)) = {Empty(c)} /\ Finds(c, Only(Whole(x))) = {x}
  BY <1>2, <1>3, FindsIs
<1> QED  BY <1>4, <1>5 DEF G

LEMMA ShippedProper ==
  ASSUME NEW s \in Shipped, NEW c \in Cells, s[c] # Absent
  PROVE  s[c] = Whole(s[c].content) /\ s[c].content \in Proper(c)
<1>1. s[c].content \in ContentOf(c) /\ s[c] = Whole(s[c].content)
  BY CatalogAssumption
<1>2. IF c = "settings" THEN s[c].content.elev # Unset => Located(s[c].content)
      ELSE \A e \in s[c].content : Refers(c, e)
  BY ShippedAssumption
<1>3. CASE c = "settings"
  BY <1>1, <1>2, <1>3 DEF ContentOf, Proper
<1>4. CASE c # "settings"
  BY <1>1, <1>2, <1>4 DEF ContentOf, Proper
<1> QED  BY <1>1, <1>3, <1>4

LEMMA InitHolds == Init => IInv
<1> SUFFICES ASSUME Init PROVE IInv
  OBVIOUS
<1> DEFINE T == Cells \cup {"registry"}
<1>1. PICK s \in Shipped :
        /\ file = [c \in Cells |-> Only(s[c])]
        /\ mem = [c \in Cells |-> IF s[c] = Absent THEN Empty(c) ELSE s[c].content]
  BY DEF Init
<1>2. /\ regfile = Absent /\ registry = {} /\ power = "off" /\ todo = <<>>
      /\ tried = [c \in T |-> {}] /\ gone = {}
  BY DEF Init
<1>3. \A c \in Cells : file[c] = Only(s[c]) /\ tried[c] = {}
        /\ mem[c] = IF s[c] = Absent THEN Empty(c) ELSE s[c].content
  BY <1>1, <1>2
<1>4. tried["registry"] = {}
  BY <1>2
<1>5. Shape
  <2>1. IsMap(file, Cells)
    BY <1>1, <1>3 DEF IsMap
  <2>2. IsMap(mem, Cells)
    BY <1>1, <1>3 DEF IsMap
  <2>3. IsMap(tried, T)
    BY <1>2 DEF IsMap
  <2> QED  BY <2>1, <2>2, <2>3 DEF Shape
<1>6. ASSUME NEW c \in Cells PROVE CellOK(c, file[c], mem[c], tried[c])
  <2>1. CASE s[c] = Absent
    <3>1. file[c] = Only(Absent) /\ mem[c] = Empty(c)
      BY <1>3, <2>1
    <3> QED  BY <3>1, OnlyFinds, EmptyProper DEF CellOK, Recalls
  <2>2. CASE s[c] # Absent
    <3> DEFINE x == s[c].content
    <3>1. s[c] = Whole(x) /\ x \in Proper(c)
      BY <2>2, ShippedProper
    <3>2. file[c] = Only(s[c]) /\ mem[c] = x
      BY <1>3, <2>2
    <3> HIDE DEF x
    <3>3. file[c] = Only(Whole(x))
      BY <3>1, <3>2
    <3> QED  BY <3>1, <3>2, <3>3, OnlyFinds DEF CellOK, Recalls
  <2> QED  BY <2>1, <2>2
<1>7. Contents
  BY <1>6 DEF Contents
<1>8. Unreferenced
  BY <1>2 DEF Unreferenced, CellUnused, Unused
<1>9. RegistryKnown
  BY <1>2, NotWhole, Slots DEF RegistryKnown, RegistryFinds
<1>10. Starting /\ Repairing
  BY <1>2, Waiting DEF Starting, Repairing, SchedulesHeld, SchedulesPurged, ElevationSet
<1> QED  BY <1>5, <1>7, <1>8, <1>9, <1>10 DEF IInv

LEMMA NextKeeps == IInv /\ [Next]_vars => IInv'
<1> SUFFICES ASSUME IInv, [Next]_vars PROVE IInv'
  OBVIOUS
<1>1. CASE Operation
  BY <1>1, CreateKeeps, SetEnabledKeeps, DeleteKeeps, UpdateSettingsKeeps, JoinKeeps
     DEF Operation
<1>2. CASE PowerOn
  BY <1>2, PowerOnKeeps
<1>3. CASE StartStep
  BY <1>3, LoadKeeps, LoadRegistryKeeps, PurgeKeeps, BackfillKeeps DEF StartStep
<1>4. CASE PowerCut
  BY <1>4, PowerCutKeeps
<1>5. CASE UNCHANGED vars
  BY <1>5 DEF vars, disk, history, counters, IInv, Shape, Contents, Unreferenced, RegistryKnown,
         RegistryFinds, Starting, Repairing, SchedulesHeld, SchedulesPurged, ElevationSet
<1> QED  BY <1>1, <1>2, <1>3, <1>4, <1>5 DEF Next

(* The invariant is inductive.                                             *)
THEOREM CatalogInductive == Spec => []IInv
<1>1. Init => IInv
  BY InitHolds
<1>2. IInv /\ [Next]_vars => IInv'
  BY NextKeeps
<1> QED  BY <1>1, <1>2, PTL DEF Spec

(* Type correctness: every name of every file is absent, a fragment or a   *)
(* whole content of its cell, after any failed saves, cuts and recoveries. *)
THEOREM CatalogTypeCorrect == Spec => []TypeOK
<1>1. IInv => TypeOK
  <2> SUFFICES ASSUME IInv PROVE TypeOK
    OBVIOUS
  <2>1. DOMAIN file = Cells
    BY DEF IInv, Shape, IsMap
  <2>2. ASSUME NEW c \in Cells PROVE IsFile(c, file[c]) /\ mem[c] \in ContentOf(c)
    <3> DEFINE f == file[c]
               G == Proper(c)
    <3>1. IsFileOf(f, G) /\ mem[c] \in G
      BY DEF IInv, Contents, CellOK
    <3>2. f = [pri |-> f.pri, tmp |-> f.tmp, bak |-> f.bak]
      BY <3>1 DEF IsFileOf, Names3
    <3>3. f["pri"] = f.pri /\ f["tmp"] = f.tmp /\ f["bak"] = f.bak
      OBVIOUS
    <3>4. \A x : IsSlot(x, G) =>
            x \in {Absent, Torn} \/ (x = Whole(x.content) /\ x.content \in ContentOf(c))
      BY ProperContent DEF IsSlot
    <3> HIDE DEF f, G
    <3>5. \A n \in Names : \/ f[n] \in {Absent, Torn}
                           \/ f[n] = Whole(f[n].content) /\ f[n].content \in ContentOf(c)
      BY <3>1, <3>3, <3>4 DEF Names, IsFileOf
    <3>6. IsFile(c, f)
      BY <3>2, <3>5 DEF IsFile
    <3> QED  BY <3>1, <3>6, ProperContent DEF f, G
  <2>3. regfile \in {Absent, Torn} \cup {Whole(r) : r \in SUBSET Devices}
    BY DEF IInv, RegistryKnown, IsSlot
  <2>4. registry \subseteq Devices /\ power \in {"off", "starting", "up"}
          /\ (power = "starting") = (todo # <<>>)
    BY DEF IInv, RegistryKnown, Starting
  <2> QED  BY <2>1, <2>2, <2>3, <2>4 DEF TypeOK
<1> QED  BY <1>1, CatalogInductive, PTL

(* What is up works on sound contents: nothing refers to what was deleted  *)
(* (CrudService.delete), and what older releases wrote is repaired         *)
(* (apply_all), however often a start was cut off.                         *)
THEOREM SoundContents == Spec => []SoundOnceUp
<1>1. IInv => SoundOnceUp
  <2> SUFFICES ASSUME IInv, power = "up" PROVE GoneStaysUnused /\ Repaired
    BY DEF SoundOnceUp
  <2>1. todo = <<>>
    BY DEF IInv, Starting
  <2>2. GoneStaysUnused
    BY DEF IInv, Unreferenced, CellUnused, Unused, GoneStaysUnused
  <2>3. Located(mem["settings"])
    BY <2>1, Waiting, Collected
       DEF IInv, Repairing, ElevationSet, Contents, CellOK, Proper
  <2>4. ASSUME "schedules" \in Collections,
               NEW e \in mem["schedules"] \cup Found(file["schedules"])
        PROVE  e.mark # "retired"
    <3> DEFINE f == file["schedules"]
    <3>1. Live(mem["schedules"]) = mem["schedules"] /\ Purged(f)
      BY <2>1, <2>4, Waiting DEF IInv, Repairing, SchedulesHeld, SchedulesPurged
    <3>2. IsFileOf(f, Proper("schedules"))
      BY <2>4, Collected DEF IInv, Contents, CellOK
    <3>3. Found(f) = {} \/ Found(f) \in Finds("schedules", f)
      BY <3>2, FileFound
    <3>4. Live(Found(f)) = Found(f)
      BY <3>1, <3>3 DEF Purged, Live
    <3> QED  BY <2>4, <3>1, <3>4 DEF Live
  <2> QED  BY <2>2, <2>3, <2>4 DEF Repaired
<1> QED  BY <1>1, CatalogInductive, PTL

LEMMA DeleteLeaves ==
  ASSUME IInv, NEW i \in Ids, Delete(i)
  PROVE  LeavesUnused
<1> DEFINE c == TypeOf[i]
           v == Rest(i)
<1>1. c \in Cells
  BY Collected
<1>2. CASE Save(c, v)
  BY <1>2 DEF Save, LeavesUnused
<1>3. CASE Released(i)
  <2>1. /\ Settles(c, v) /\ c = "endpoints" /\ Releasable(DeviceOf(i), v)
        /\ told' \subseteq told \cup {DeviceOf(i)}
    BY <1>3 DEF Released
  <2>2. IsFileOf(file[c], Proper(c)) /\ mem[c] \in Proper(c)
    BY <1>1 DEF IInv, Contents, CellOK
  <2>3. v \in Proper(c)
    BY <2>1, <2>2 DEF Proper, Rest, Without
  <2> HIDE DEF c, v
  <2>4. IsFileOf(Saved(file[c], v), Proper(c)) /\ Saved(file[c], v).pri = Whole(v)
    BY <2>2, <2>3, FileSaved
  <2>5. Readable(Whole(v)) /\ Whole(v).content = v
    BY IsWhole
  <2>6. Found(Saved(file[c], v)) = v
    BY <2>4, <2>5, FileFound
  <2>7. mem'[c] = v /\ Found(file'[c]) = v
    BY <2>1, <2>6 DEF Settles
  <2> QED  BY <2>1, <2>7 DEF Releasable, LeavesUnused
<1> QED  BY <1>2, <1>3, DeleteEffect DEF IInv

(* A device is told to leave the mesh only when no endpoint uses it, in    *)
(* memory or in the file a restart would read (_release_radio_device).     *)
THEOREM ReleasesUnused == Spec => ReleasedOnlyUnused
<1>1. IInv /\ [Next]_vars => [LeavesUnused]_vars
  <2> SUFFICES ASSUME IInv, [Next]_vars PROVE LeavesUnused
    OBVIOUS
  <2>1. CASE \E i \in Ids : Delete(i)
    BY <2>1, DeleteLeaves
  <2>2. CASE told' = told
    BY <2>2 DEF LeavesUnused
  <2>3. ASSUME Operation, ~ \E i \in Ids : Delete(i) PROVE told' = told
    BY <2>3 DEF Operation, Create, Update, SetEnabled, UpdateSettings, Join, Write, Save
  <2>4. StartStep \/ PowerOn \/ PowerCut \/ UNCHANGED vars => told' = told
    BY DEF StartStep, Load, LoadRegistry, Purge, Backfill, PowerOn, PowerCut, vars, history
  <2> QED  BY <2>1, <2>2, <2>3, <2>4 DEF Next
<1> QED  BY <1>1, CatalogInductive, PTL DEF Spec, ReleasedOnlyUnused

-----------------------------------------------------------------------------
(* Catalog implements DurableStore                                         *)

ShownAt(c) == IF c = "registry" THEN registry ELSE mem[c]
Read(c) == power # "off" /\ c \notin Steps(todo)
Stored == Cells \cup {"registry"}

Reopens(c) ==
  /\ ~ Read(c)
  /\ \/ /\ \E v \in {ShownAt(c)} \cup tried[c] : ShownAt(c)' = Kept(c, v)
        /\ tried'[c] = {}
     \/ /\ ShownAt(c)' \in Wreck(c)
        /\ tried'[c] = tried[c] \cup {ShownAt(c)}
LeftAt(c) ==
  IF c # "registry" THEN Wholes(file[c])
  ELSE IF Readable(regfile) THEN {regfile.content} ELSE {}
Misreads(c) ==
  /\ ~ Read(c) /\ misreads' = misreads + 1
  /\ \/ /\ \E v \in LeftAt(c) : ShownAt(c)' = Kept(c, v)
        /\ tried'[c] = {}
     \/ /\ ShownAt(c)' = ShownAt(c) \/ ShownAt(c)' \in Wreck(c)
        /\ tried'[c] = tried[c] \cup {ShownAt(c)} \cup LeftAt(c)
Leaving(c) ==
  LeftAt(c)' \subseteq LeftAt(c) \cup tried[c] \cup tried'[c] \cup {ShownAt(c), ShownAt(c)'}
Moves(c) ==
  \/ ShownAt(c)' = ShownAt(c) /\ tried'[c] = tried[c]
  \/ Read(c) /\ tried'[c] = {}
  \/ /\ Read(c) /\ ShownAt(c)' = ShownAt(c)
     /\ \E v \in tried'[c] : tried'[c] = tried[c] \cup {v} \cup Wreck(c)
  \/ Read(c) /\ Wreck(c) # {} /\ tried'[c] = tried[c] \cup {ShownAt(c)} \cup Wreck(c)
  \/ Reopens(c)
  \/ Misreads(c)
KeepsPromise ==
  /\ \A c \in Stored : Moves(c)
  /\ \A c \in Stored : Read(c)' /\ ~ Read(c) => Reopens(c) \/ Misreads(c)
  /\ \A c \in Stored : Leaving(c)

LEMMA StoreNext ==
  ASSUME InOrder(todo), InOrder(todo'), KeepsPromise
  PROVE  Store!Next
<1>1. /\ DOMAIN todo = 1 .. Len(todo) /\ DOMAIN todo' = 1 .. Len(todo')
  BY LenProperties DEF InOrder
<1> DEFINE o == {c \in Stored : power # "off" /\ \A k \in DOMAIN todo : todo[k] # c}
           s == [c \in Stored |-> IF c = "registry" THEN registry ELSE mem[c]]
           l == [c \in Stored |->
                   IF c # "registry" THEN Wholes(file[c])
                   ELSE IF Readable(regfile) THEN {regfile.content} ELSE {}]
<1>2. \A c \in Stored : (c \in o <=> Read(c)) /\ (c \in o' <=> Read(c)')
  BY <1>1 DEF Read, Steps
<1>3. \A c \in Stored : s[c] = ShownAt(c) /\ s'[c] = ShownAt(c)'
  BY DEF ShownAt
<1>7. \A c \in Stored : l[c] = LeftAt(c) /\ l'[c] = LeftAt(c)'
  BY DEF LeftAt
<1> HIDE DEF o, s, l
<1> DEFINE Resting(c) == s'[c] = s[c] /\ tried'[c] = tried[c]
           Settling(c) == c \in o /\ tried'[c] = {}
           Doubting(c) == /\ c \in o /\ s'[c] = s[c]
                          /\ \E v \in tried'[c] : tried'[c] = tried[c] \cup {v} \cup Wreck(c)
           Proceeding(c) == /\ c \in o /\ Wreck(c) # {}
                            /\ tried'[c] = tried[c] \cup {s[c]} \cup Wreck(c)
           Reopening(c) == /\ c \notin o
                           /\ \/ /\ \E v \in {s[c]} \cup tried[c] : s'[c] = Kept(c, v)
                                 /\ tried'[c] = {}
                              \/ s'[c] \in Wreck(c) /\ tried'[c] = tried[c] \cup {s[c]}
           Erring(c) == /\ c \notin o /\ misreads' = misreads + 1
                            /\ \/ /\ \E v \in l[c] : s'[c] = Kept(c, v)
                                  /\ tried'[c] = {}
                               \/ /\ s'[c] = s[c] \/ s'[c] \in Wreck(c)
                                  /\ tried'[c] = tried[c] \cup {s[c]} \cup l[c]
           Keeping(c) == l'[c] \subseteq l[c] \cup tried[c] \cup tried'[c] \cup {s[c], s'[c]}
<1>8. ASSUME NEW c \in Stored, Misreads(c) PROVE Erring(c)
  BY <1>2, <1>3, <1>7, <1>8 DEF Misreads
<1>9. ASSUME NEW c \in Stored PROVE Keeping(c)
  BY <1>3, <1>7, <1>9 DEF KeepsPromise, Leaving
<1>4. ASSUME NEW c \in Stored, Reopens(c) PROVE Reopening(c)
  BY <1>2, <1>3, <1>4 DEF Reopens
<1>5. ASSUME NEW c \in Stored
      PROVE  \/ Resting(c) \/ Settling(c) \/ Doubting(c) \/ Proceeding(c) \/ Reopening(c)
             \/ Erring(c)
  <2>1. Moves(c) /\ (c \in o <=> Read(c)) /\ s[c] = ShownAt(c) /\ s'[c] = ShownAt(c)'
    BY <1>2, <1>3 DEF KeepsPromise
  <2> QED  BY <1>4, <1>8, <2>1 DEF Moves
<1>6. ASSUME NEW c \in o' \ o PROVE Reopening(c) \/ Erring(c)
  <2>1. c \in Stored
    BY <1>6 DEF o, Stored
  <2> QED  BY <1>2, <1>4, <1>6, <1>8, <2>1 DEF KeepsPromise
<1> QED  BY <1>5, <1>6, <1>9
         DEF Store!Next, Store!Rest, Store!Settle, Store!Doubt, Store!Proceed, Store!Reopen,
             Store!Misread, Store!Leaves, o, s, l, Stored

RegistryRests == registry' = registry /\ RegistryTried /\ regfile' = regfile

(* A save leaves what was there and the new content.                       *)
LEMMA SavingLeaves ==
  ASSUME Contents, NEW c \in Cells, NEW v, Saving(c, v)
  PROVE  \A d \in Cells : Leaving(d)
<1> SUFFICES ASSUME NEW d \in Cells PROVE Leaving(d)
  OBVIOUS
<1>1. d # "registry"
  BY Collected
<1>2. LeftAt(d) = Wholes(file[d]) /\ LeftAt(d)' = Wholes(file'[d]) /\ ShownAt(d)' = mem'[d]
  BY <1>1 DEF LeftAt, ShownAt
<1>3. CASE Same(d)
  BY <1>2, <1>3 DEF Same, Leaving
<1>4. CASE d = c
  <2> DEFINE f == file[c]
             G == Wholes(f) \cup {v}
  <2>1. IsFileOf(f, Proper(c))
    BY DEF Contents, CellOK
  <2>2. IsFileOf(f, G) /\ v \in G
    BY <2>1, FileWholes
  <2> HIDE DEF f, G
  <2>3. IsFileOf(Saved(f, v), G) /\ \A g \in Refused(f, v) : IsFileOf(g, G)
    BY <2>2, FileSaved, FileRefused
  <2>4. IsFileOf(file'[c], G) /\ (mem'[c] = v \/ v \in tried'[c])
    BY <2>3 DEF Saving, Settles, Doubts, f
  <2>5. Wholes(file'[c]) \subseteq G
    BY <2>4, FileWholes
  <2> QED  BY <1>2, <1>4, <2>4, <2>5 DEF Leaving, G, f
<1> QED  BY <1>3, <1>4 DEF Saving, Others

LEMMA RegistryLeaves ==
  ASSUME RegistryRests \/ (SavesRegistry /\ RegistryTries)
  PROVE  Leaving("registry")
<1>1. regfile' \in {regfile, Torn, Whole(registry')}
  BY DEF RegistryRests, SavesRegistry
<1>2. ~ Readable(Torn) /\ Readable(Whole(registry')) /\ Whole(registry').content = registry'
  BY NotWhole, IsWhole
<1>3. LeftAt("registry")' \subseteq LeftAt("registry") \cup {registry'}
  BY <1>1, <1>2 DEF LeftAt
<1> QED  BY <1>3 DEF Leaving, ShownAt

(* While everything is up a changed cell is settled or in doubt.           *)
LEMMA UpPromises ==
  ASSUME IInv, power = "up", RegistryRests \/ (SavesRegistry /\ RegistryTries),
         \/ \E c \in Cells : \E v : Saving(c, v)
         \/ \A c \in Cells : Same(c)
  PROVE  KeepsPromise
<1>1. \A c \in Stored : Read(c)
  BY Waiting DEF IInv, Starting, Read
<1>2. Moves("registry")
  <2>1. Wreck("registry") = {{}} /\ "registry" \in Stored
    BY DEF Wreck, Stored
  <2>2. CASE RegistryRests
    BY <2>2 DEF RegistryRests, RegistryTried, Moves, ShownAt
  <2>3. CASE RegistryTries
    BY <1>1, <2>1, <2>3 DEF RegistryTries, Moves, ShownAt
  <2> QED  BY <2>2, <2>3
<1>3. ASSUME NEW c \in Cells PROVE Moves(c)
  <2>1. c \in Stored /\ c # "registry" /\ ShownAt(c) = mem[c] /\ ShownAt(c)' = mem'[c]
    BY <1>3, Collected DEF Stored, ShownAt
  <2>2. CASE Same(c)
    BY <2>1, <2>2 DEF Same, Moves
  <2>3. ASSUME NEW v, Settles(c, v) \/ Doubts(c, v) PROVE Moves(c)
    <3>1. CASE Settles(c, v)
      BY <1>1, <2>1, <3>1 DEF Settles, Moves
    <3>2. CASE Doubts(c, v)
      <4>1. v \in tried'[c] /\ tried'[c] = tried[c] \cup {v} \cup Wreck(c) /\ mem'[c] = mem[c]
        BY <3>2 DEF Doubts
      <4> QED  BY <1>1, <2>1, <4>1 DEF Moves
    <3> QED  BY <2>3, <3>1, <3>2
  <2> QED  BY <1>3, <2>2, <2>3 DEF Saving, Others
<1>4. \A c \in Stored : Leaving(c)
  <2>1. \A c \in Cells : Leaving(c)
    <3>1. CASE \E c \in Cells : \E v : Saving(c, v)
      BY <3>1, SavingLeaves DEF IInv
    <3>2. CASE \A c \in Cells : Same(c)
      BY <3>2, Collected DEF Same, Leaving, LeftAt
    <3> QED  BY <3>1, <3>2
  <2>2. Leaving("registry")
    BY RegistryLeaves
  <2> QED  BY <2>1, <2>2 DEF Stored
<1> QED  BY <1>1, <1>2, <1>3, <1>4 DEF KeepsPromise, Stored

LEMMA SavePromises ==
  ASSUME IInv, power = "up", NEW c \in Cells, NEW v, Save(c, v)
  PROVE  KeepsPromise
<1>1. Saving(c, v) /\ RegistryTried
  BY SaveEffect DEF Save, IInv
<1>2. RegistryRests
  BY <1>1 DEF Save, RegistryRests
<1> QED  BY <1>1, <1>2, UpPromises

LEMMA OperationPromises ==
  ASSUME IInv, Operation
  PROVE  KeepsPromise
<1>1. power = "up"
  BY DEF Operation, Create, Update, SetEnabled, Delete, UpdateSettings, Join, Ready
<1>2. ASSUME NEW e, TypeOf[e.id] \in Cells, Write(e) PROVE KeepsPromise
  BY <1>1, <1>2, SavePromises DEF Write
<1>3. ASSUME NEW i \in Ids, NEW e \in Bodies[i], Create(e) \/ Update(e) PROVE KeepsPromise
  <2>1. e.id = i /\ TypeOf[i] \in Cells
    BY CatalogAssumption, Collected
  <2> QED  BY <1>2, <1>3, <2>1 DEF Create, Update
<1>4. ASSUME NEW i \in Ids, NEW m, SetEnabled(i, m) PROVE KeepsPromise
  <2> DEFINE x == Find(mem["schedules"], i)
             e == [x EXCEPT !.mark = m]
  <2>1. TypeOf[i] = "schedules" /\ Has(mem["schedules"], i) /\ Write(e)
    BY <1>4 DEF SetEnabled
  <2>2. "schedules" \in Cells
    BY <2>1, Collected
  <2>3. x \in mem["schedules"] /\ x.id = i
    BY <2>1 DEF Has, Find
  <2>4. x \in Entity
    BY <2>2, <2>3 DEF IInv, Contents, CellOK, Proper
  <2> HIDE DEF x
  <2>5. e.id = i
    BY <2>3, <2>4 DEF Entity
  <2> HIDE DEF e
  <2> QED  BY <1>2, <2>1, <2>2, <2>5
<1>5. ASSUME NEW i \in Ids, Delete(i) PROVE KeepsPromise
  <2>1. TypeOf[i] \in Cells
    BY Collected
  <2>2. CASE Save(TypeOf[i], Rest(i))
    BY <1>1, <2>1, <2>2, SavePromises
  <2>3. CASE Released(i)
    BY <1>1, <2>1, <2>3, UpPromises DEF Released
  <2> QED  BY <1>5, <2>2, <2>3, DeleteEffect DEF IInv
<1>6. ASSUME NEW p, UpdateSettings(p) PROVE KeepsPromise
  BY <1>1, <1>6, SavePromises, Collected DEF UpdateSettings
<1>7. ASSUME NEW d \in Devices, Join(d) PROVE KeepsPromise
  <2> DEFINE T == Stored
             w == IF regfile' = Whole(registry') /\ power' = "up" THEN {}
                  ELSE tried["registry"] \cup {registry} \cup Wreck("registry")
  <2>1. file' = file /\ mem' = mem
    BY <1>7 DEF Join
  <2>2. PICK k : k = w
    OBVIOUS
  <2>3. Puts(tried', tried, "registry", k)
    BY <1>7, <2>2 DEF Join, RegistryDoubt, Puts
  <2>4. IsMap(tried, T) /\ "registry" \in T /\ \A c \in Cells : c \in T /\ c # "registry"
    BY Collected DEF IInv, Shape, Stored
  <2> HIDE DEF T
  <2>5. tried'["registry"] = k /\ \A c \in T : c # "registry" => tried'[c] = tried[c]
    BY <2>3, <2>4, MapExcept
  <2>6. RegistryTries
    BY <2>2, <2>5 DEF RegistryTries
  <2>7. \A c \in Cells : Same(c)
    BY <2>1, <2>4, <2>5 DEF Same
  <2>8. SavesRegistry
    BY <1>7 DEF Join
  <2> QED  BY <1>1, <2>6, <2>7, <2>8, UpPromises
<1> QED  BY <1>3, <1>4, <1>5, <1>6, <1>7 DEF Operation

(* No cell is read before its step of the start.                           *)
LEMMA StillRead ==
  ASSUME IInv, power = "starting", NEW h, h = Head(todo), Advances
  PROVE  /\ \A c : Read(c)' /\ c # h => Read(c)
         /\ Read(h) => FALSE
         /\ h \in Repairs => \A c \in Cells : Read(c)
<1>1. /\ power' # "off" /\ Steps(todo) = {h} \cup Steps(todo')
      /\ h \in Repairs => Steps(todo) \subseteq Repairs
  BY AdvanceStarting DEF IInv
<1>2. \A c \in Cells : c \notin Repairs
  BY Collected DEF Cells, Repairs
<1> QED  BY <1>1, <1>2 DEF Read

LEMMA LoadLeaves ==
  ASSUME NEW c \in Cells, Holds(c, file[c], file'[c]), Others(c), regfile' = regfile
  PROVE  \A d \in Stored : Leaving(d)
<1>1. LeftAt("registry")' = LeftAt("registry")
  BY DEF LeftAt
<1>2. \A d \in Cells : LeftAt(d) = Wholes(file[d]) /\ LeftAt(d)' = Wholes(file'[d])
  BY Collected DEF LeftAt
<1>3. \A d \in Cells : Wholes(file'[d]) \subseteq Wholes(file[d])
  BY DEF Holds, Others, Same
<1> QED  BY <1>1, <1>2, <1>3 DEF Leaving, Stored

LEMMA LoadMisreadPromises ==
  ASSUME IInv, NEW c \in Cells, At(c), LoadMisread(c), registry' = registry, regfile' = regfile
  PROVE  KeepsPromise
<1>1. power = "starting" /\ Head(todo) = c /\ misreads' = misreads + 1
  BY DEF LoadMisread, At
<1>2. Misreading(c) /\ RegistryTried
  BY MisreadEffect DEF IInv
<1>3. \A d \in Stored : d # c => ShownAt(d)' = ShownAt(d) /\ tried'[d] = tried[d]
  BY <1>2 DEF Misreading, Others, Same, RegistryTried, ShownAt, Stored
<1>4. c \in Stored /\ c # "registry" /\ ShownAt(c) = mem[c] /\ ShownAt(c)' = mem'[c]
  BY Collected DEF ShownAt, Stored
<1>5. LeftAt(c) = Wholes(file[c])
  BY <1>4 DEF LeftAt
<1>6. \A d \in Stored : Leaving(d)
  <2>1. Holds(c, file[c], file'[c]) /\ Others(c)
    BY <1>2 DEF Misreading, Mistaking, Losing, Turns, Exposes
  <2> QED  BY <2>1, LoadLeaves
<1>7. ~ Read(c) /\ \A d \in Stored : d # c /\ Read(d)' => Read(d)
  <2>1. InOrder(todo) /\ todo # <<>>
    BY <1>1 DEF IInv, Starting
  <2>2. c \in Steps(todo)
    BY <1>1, <2>1, InOrderTail
  <2>3. CASE Advances
    BY <1>1, <2>3, StillRead
  <2>4. CASE Resets
    BY <2>2, <2>4 DEF Resets, Read
  <2> QED  BY <1>2, <2>3, <2>4 DEF Misreading, Mistaking, Losing
<1>8. Misreads(c)
  <2>1. CASE Mistaking(c)
    <3>1. PICK v : v \in LeftAt(c) /\ mem'[c] = Kept(c, v)
      BY <1>5, <2>1 DEF Mistaking, Turns
    <3> QED  BY <1>1, <1>4, <1>7, <2>1, <3>1 DEF Misreads, Mistaking
  <2>2. CASE Losing(c)
    <3>1. mem'[c] = mem[c] \/ mem'[c] \in Wreck(c)
      BY <2>2 DEF Losing, Wreck
    <3> QED  BY <1>1, <1>4, <1>5, <1>7, <2>2, <3>1 DEF Misreads, Losing
  <2> QED  BY <1>2, <2>1, <2>2 DEF Misreading
<1> QED  BY <1>3, <1>6, <1>7, <1>8 DEF KeepsPromise, Moves

LEMMA LoadRightPromises ==
  ASSUME IInv, NEW c \in Cells, At(c), LoadCleanly(c) \/ LoadWithError(c),
         registry' = registry, regfile' = regfile
  PROVE  KeepsPromise
<1>1. power = "starting" /\ Head(todo) = c
  BY DEF At
<1>7. \A d \in Stored : Leaving(d)
  <2>1. Loading(c)
    BY LoadEffect DEF IInv
  <2>2. Holds(c, file[c], file'[c]) /\ Others(c)
    BY <2>1 DEF Loading, Taking, Falling, Ending, Takes, Spares
  <2> QED  BY <2>2, LoadLeaves
<1>2. Shape' /\ Loading(c) /\ RegistryTried
  BY <1>1, LoadEffect DEF IInv
<1>3. \A d \in Stored : d # c => ShownAt(d)' = ShownAt(d) /\ tried'[d] = tried[d]
  BY <1>1, <1>2 DEF Loading, Others, Same, RegistryTried, ShownAt, Stored
<1>4. c \in Stored /\ ShownAt(c) = mem[c] /\ ShownAt(c)' = mem'[c]
  BY Collected DEF ShownAt, Stored
<1>5. CASE Ending(c)
  <2>1. ~ Read(c)' /\ \A d \in Stored : ~ Read(d)'
    BY <1>5 DEF Ending, Resets, Read
  <2>2. Moves(c)
    BY <1>4, <1>5 DEF Ending, Moves
  <2> QED  BY <1>3, <1>7, <2>1, <2>2 DEF KeepsPromise, Moves
<1>6. CASE Advances /\ (Taking(c) \/ Falling(c))
  <2>1. (\A d : Read(d)' /\ d # c => Read(d)) /\ ~ Read(c)
    BY <1>1, <1>6, StillRead
  <2>2. Reopens(c)
    <3>1. CASE Taking(c)
      <4>1. PICK x : Takes(c, file[c], file'[c], x) /\ mem'[c] = Kept(c, x)
        BY <3>1 DEF Taking
      <4>2. Recalls(c, mem[c], tried[c], x)
        BY <4>1 DEF Takes, IInv, Contents, CellOK
      <4>3. \E v \in {mem[c]} \cup tried[c] : mem'[c] = Kept(c, v)
        BY <4>1, <4>2 DEF Recalls
      <4> QED  BY <1>4, <2>1, <3>1, <4>3 DEF Reopens, Taking
    <3>2. CASE Falling(c)
      <4>1. mem'[c] \in Wreck(c) /\ tried'[c] = tried[c] \cup {mem[c]}
        BY <3>2 DEF Falling, Wreck
      <4> QED  BY <1>4, <2>1, <4>1 DEF Reopens
    <3> QED  BY <1>6, <3>1, <3>2
  <2> QED  BY <1>3, <1>7, <2>1, <2>2 DEF KeepsPromise, Moves
<1> QED  BY <1>2, <1>5, <1>6 DEF Loading, Taking, Falling

LEMMA LoadPromises ==
  ASSUME IInv, NEW c \in Cells, Load(c)
  PROVE  KeepsPromise
BY LoadRightPromises, LoadMisreadPromises DEF Load

LEMMA LoadRegistryPromises ==
  ASSUME IInv, LoadRegistry
  PROVE  KeepsPromise
<1>1. /\ power = "starting" /\ Head(todo) = "registry" /\ Advances
      /\ mem' = mem /\ file' = file /\ regfile' = regfile
  BY DEF LoadRegistry, At, disk
<1>7. PICK w : /\ Puts(tried', tried, "registry", w)
               /\ \/ registry' = RegistryFinds /\ w = {}
                  \/ registry' = {} /\ w = tried["registry"] \cup {registry}
  BY DEF LoadRegistry, RegistryFinds, Puts
<1>8. \A c \in Stored : Leaving(c)
  BY <1>1 DEF Leaving, LeftAt
<1>2. IsMap(tried, Stored) /\ "registry" \in Stored
  BY DEF IInv, Shape, Stored
<1>3. tried'["registry"] = w /\ \A c \in Stored : c # "registry" => tried'[c] = tried[c]
  BY <1>2, <1>7, MapExcept
<1>4. (\A d : Read(d)' /\ d # "registry" => Read(d)) /\ ~ Read("registry")
  BY <1>1, StillRead
<1>5. Reopens("registry")
  <2>1. RegistryFinds \in {registry} \cup tried["registry"]
    BY DEF IInv, RegistryKnown
  <2>2. \A v : Kept("registry", v) = v
    BY DEF Kept
  <2>3. ShownAt("registry") = registry /\ ShownAt("registry")' = registry'
    BY DEF ShownAt
  <2>4. {} \in Wreck("registry")
    BY DEF Wreck
  <2> QED  BY <1>3, <1>4, <1>7, <2>1, <2>2, <2>3, <2>4 DEF Reopens
<1>6. \A c \in Stored : c # "registry" => ShownAt(c)' = ShownAt(c)
  BY <1>1 DEF ShownAt
<1> QED  BY <1>3, <1>4, <1>5, <1>6, <1>8 DEF KeepsPromise, Moves

LEMMA RepairPromises ==
  ASSUME IInv, power = "starting", Head(todo) \in Repairs,
         registry' = registry, regfile' = regfile,
         \/ \E c \in Cells : \E v : Repair(c, v)
         \/ Advances /\ mem' = mem /\ tried' = tried /\ file' = file
  PROVE  KeepsPromise
<1>1. InOrder(todo) /\ todo # <<>>
  BY DEF IInv, Starting
<1>2. Steps(todo) \subseteq Repairs
  BY <1>1, InOrderTail
<1>3. \A c \in Stored : Read(c)
  <2>1. \A c \in Stored : c \notin Repairs
    BY Collected DEF Stored, Cells, Repairs
  <2> QED  BY <1>2, <2>1 DEF Read
<1>4. CASE Advances /\ mem' = mem /\ tried' = tried /\ file' = file
  <2>1. \A c \in Stored : Leaving(c)
    BY <1>4 DEF Leaving, LeftAt
  <2> QED  BY <1>3, <1>4, <2>1 DEF KeepsPromise, Moves, ShownAt
<1>5. ASSUME NEW c \in Cells, NEW v, Repair(c, v) PROVE KeepsPromise
  <2>1. Saving(c, v) /\ RegistryTried
    BY <1>5, SaveEffect DEF Repair, IInv
  <2>2. ASSUME NEW d \in Stored PROVE Moves(d)
    <3>1. CASE d = "registry"
      BY <2>1, <3>1 DEF Moves, ShownAt, RegistryTried
    <3>2. CASE d # "registry"
      <4>1. d \in Cells /\ ShownAt(d) = mem[d] /\ ShownAt(d)' = mem'[d] /\ Read(d)
        BY <1>3, <2>2, <3>2 DEF Stored, ShownAt
      <4>2. CASE Same(d)
        BY <4>1, <4>2 DEF Same, Moves
      <4>3. CASE Settles(d, v)
        BY <4>1, <4>3 DEF Settles, Moves
      <4>4. CASE Doubts(d, v)
        <5>1. v \in tried'[d] /\ tried'[d] = tried[d] \cup {v} \cup Wreck(d) /\ mem'[d] = mem[d]
          BY <4>4 DEF Doubts
        <5> QED  BY <4>1, <5>1 DEF Moves
      <4> QED  BY <2>1, <4>1, <4>2, <4>3, <4>4 DEF Saving, Others
    <3> QED  BY <3>1, <3>2
  <2>3. \A d \in Stored : Leaving(d)
    <3>1. \A d \in Cells : Leaving(d)
      BY <2>1, SavingLeaves DEF IInv
    <3>2. Leaving("registry")
      BY <2>1, RegistryLeaves DEF RegistryRests
    <3> QED  BY <3>1, <3>2 DEF Stored
  <2> QED  BY <1>3, <2>2, <2>3 DEF KeepsPromise
<1> QED  BY <1>4, <1>5

LEMMA PowerPromises ==
  ASSUME IInv, PowerOn \/ PowerCut
  PROVE  KeepsPromise
<1>1. /\ mem' = mem /\ registry' = registry /\ tried' = tried
      /\ file' = file /\ regfile' = regfile
  BY DEF PowerOn, PowerCut, history, disk
<1>3. \A c \in Stored : Leaving(c)
  BY <1>1 DEF Leaving, LeftAt
<1>2. \A c \in Stored : ~ Read(c)'
  <2>1. CASE PowerCut
    BY <2>1 DEF PowerCut, Read
  <2>2. CASE PowerOn
    <3>1. Steps(todo') = Cells \cup {"registry"} \cup Repairs
      BY <2>2, WholeStart DEF PowerOn
    <3> QED  BY <3>1 DEF Read, Stored
  <2> QED  BY <2>1, <2>2
<1> QED  BY <1>1, <1>2, <1>3 DEF KeepsPromise, Moves, ShownAt

(* Every collection, the settings and the registry file keep the promise   *)
(* of DurableStore: each step of a save, a load, a recovery or a migration *)
(* settles a cell, puts it in doubt, reopens it or leaves it alone.        *)
THEOREM CatalogDurable == Spec => Durable
<1>1. Init => Store!Init
  <2> SUFFICES ASSUME Init PROVE Store!Init
    OBVIOUS
  <2>1. PICK x \in Shipped :
          /\ file = [c \in Cells |-> Only(x[c])]
          /\ mem = [c \in Cells |-> IF x[c] = Absent THEN Empty(c) ELSE x[c].content]
    BY DEF Init
  <2>2. ASSUME NEW c \in Cells PROVE Wholes(file[c]) \subseteq {mem[c]}
    <3>1. Only(x[c]) = Names3(x[c], Absent, Absent)
      BY OnlyIs
    <3>4. PICK y : y = x[c]
      OBVIOUS
    <3>5. file[c] = Names3(y, Absent, Absent)
      BY <2>1, <3>1, <3>4
    <3>6. Held(Absent) = {}
      BY HeldIs
    <3>7. Wholes(Names3(y, Absent, Absent)) = Held(y) \cup Held(Absent) \cup Held(Absent)
      BY WholesIs
    <3>2. Wholes(file[c]) = Held(x[c])
      BY <3>4, <3>5, <3>6, <3>7
    <3>3. x[c] = Absent => Held(x[c]) = {}
      BY HeldIs
    <3> QED  BY <2>1, <3>2, <3>3 DEF Held
  <2>3. power = "off" /\ tried = [c \in Cells \cup {"registry"} |-> {}]
        /\ regfile = Absent /\ ~ Readable(Absent)
    BY NotWhole DEF Init
  <2> QED  BY <2>2, <2>3 DEF Store!Init
<1>2. IInv /\ IInv' /\ [Next]_vars => [Store!Next]_Store!vars
  <2> SUFFICES ASSUME IInv, IInv', [Next]_vars PROVE [Store!Next]_Store!vars
    OBVIOUS
  <2>1. InOrder(todo) /\ InOrder(todo')
    BY DEF IInv, Starting
  <2>2. CASE UNCHANGED vars
    BY <2>2 DEF vars, disk, history, counters, Store!vars
  <2>3. CASE Next
    <3>1. ASSUME Purge PROVE KeepsPromise
      <4>1. /\ power = "starting" /\ Head(todo) \in Repairs
            /\ registry' = registry /\ regfile' = regfile
        BY <3>1 DEF Purge, At, Repairs
      <4>2. \/ \E c \in Cells : \E v : Repair(c, v)
            \/ Advances /\ mem' = mem /\ tried' = tried /\ file' = file
        BY <3>1, Collected DEF Purge
      <4> QED  BY <4>1, <4>2, RepairPromises
    <3>2. ASSUME Backfill PROVE KeepsPromise
      <4>1. /\ power = "starting" /\ Head(todo) \in Repairs
            /\ registry' = registry /\ regfile' = regfile
        BY <3>2 DEF Backfill, At, Repairs
      <4>2. \/ \E c \in Cells : \E v : Repair(c, v)
            \/ Advances /\ mem' = mem /\ tried' = tried /\ file' = file
        BY <3>2, Collected DEF Backfill
      <4> QED  BY <4>1, <4>2, RepairPromises
    <3>3. KeepsPromise
      BY <2>3, <3>1, <3>2, OperationPromises, LoadPromises, LoadRegistryPromises, PowerPromises
         DEF Next, StartStep
    <3> QED  BY <2>1, <3>3, StoreNext
  <2> QED  BY <2>2, <2>3
<1> QED  BY <1>1, <1>2, CatalogInductive, PTL DEF Spec, Durable, Store!Spec

=============================================================================

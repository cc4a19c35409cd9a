------------------------------ MODULE EventJournal ------------------------------
(***************************************************************************)
(* JsonEventJournal on its medium: the append-only journal.log, its        *)
(* compaction through journal.log.tmp and journal.log.bak, storage errors  *)
(* and power cuts at every step, also of the recovery at start.            *)
(*                                                                         *)
(* A file is a sequence of lines; a line is the id of its record, or       *)
(* Broken when it does not parse.  `ended` tells whether the last line has *)
(* its newline.  The path of a journal.json of an older release            *)
(* (_load_legacy_records) is left out.                                     *)
(***************************************************************************)
EXTENDS Integers, Sequences, FiniteSets, SequencesExt

CONSTANTS
  Events,         \* event ids
  Broken,         \* a line that is no record
  MaxRecords,     \* max_records
  AtomicReplace,  \* os.replace (CPython), or remove and rename (MicroPython)
  TornAnywhere,   \* may an interrupted append lose nothing but the newline?
  MaxCuts,        \* bound: power cuts
  MaxErrors       \* bound: OSErrors, of calls of record and of starts

ASSUME BrokenAssumption == Broken \notin Events
ASSUME JournalBounds ==
  /\ MaxRecords \in Nat \ {0} /\ MaxCuts \in Nat /\ MaxErrors \in Nat
  /\ AtomicReplace \in BOOLEAN /\ TornAnywhere \in BOOLEAN

Names == {"log", "tmp", "bak"}
Stages == {"idle", "append", "copy", "backup", "install"}
None == "none"
ASSUME NoneIsNoEvent == None \notin Events

Absent == [present |-> FALSE, lines |-> <<>>, ended |-> TRUE]
Lines(s) == [present |-> TRUE, lines |-> s, ended |-> TRUE]

VARIABLES
  file,       \* file[n]: content of journal.log, .tmp, .bak
  power,      \* "down", "up", or "dead": the journal could not be loaded
  skipped,    \* candidates behind the running start, of which one met an OSError
  records,    \* _records: ids known in memory, oldest first
  physical,   \* _physical_record_count
  compact,    \* _needs_compaction
  stage,      \* step of the running call of record()
  recording,  \* its event, None when idle
  cuts, errors,  \* bound counters
  (* history *)
  acked,      \* the ids known when the last call was acknowledged
  tried,      \* ids a call tried to record since
  misread     \* has a start met an OSError since the journal was last up?

boot == <<power, skipped, misread>>
ram == <<records, physical, compact>>
call == <<stage, recording>>
vars == <<file, boot, ram, call, cuts, errors, acked, tried>>

-----------------------------------------------------------------------------
(* Files                                                                   *)

(* One more line: it runs into a last line that lacks its newline.         *)
AddLine(f, line, ended) ==
  [present |-> TRUE,
   lines   |-> IF f.ended THEN Append(f.lines, line)
               ELSE Append(Front(f.lines), Broken),
   ended   |-> ended]

(* What can be left of one line whose write was interrupted: nothing, a    *)
(* fragment, or all of the record but its newline.                         *)
Torn(f, line) ==
  {[f EXCEPT !.present = TRUE], AddLine(f, Broken, FALSE)}
    \cup IF TornAnywhere THEN {AddLine(f, line, FALSE)} ELSE {}

(* ... and of a whole file.                                                *)
TornCopy(s) ==
  {Lines(<<>>)} \cup
  UNION {Torn(Lines(SubSeq(s, 1, n - 1)), s[n]) : n \in DOMAIN s}

(* Mutant of Readable: no tolerance for a truncated tail.                  *)
ReadableWhole(f) == f.present /\ \A i \in DOMAIN f.lines : f.lines[i] # Broken

(* _read_log: only a last line without newline may fail to parse.          *)
Readable(f) ==
  /\ f.present
  /\ \A i \in DOMAIN f.lines : f.lines[i] = Broken => i = Len(f.lines) /\ ~ f.ended

TruncatedTail(f) == f.lines # <<>> /\ Last(f.lines) = Broken

Parsed(f) == IF TruncatedTail(f) THEN Front(f.lines) ELSE f.lines

(* The lines of s at the positions S, in their order.                      *)
NthOf(S, k) == CHOOSE i \in S : Cardinality({j \in S : j <= i}) = k
At(s, S) == [k \in 1 .. Cardinality(S) |-> s[NthOf(S, k)]]

Lasts(s) == {i \in DOMAIN s : \A j \in DOMAIN s : j > i => s[j] # s[i]}
Newest(s) == {i \in Lasts(s) : Cardinality({j \in Lasts(s) : j >= i}) <= MaxRecords}

(* Mutant of SetRecords: the oldest records win.                           *)
SetRecordsOldest(s) ==
  LET keep == {i \in DOMAIN s : \A j \in DOMAIN s : j < i => s[j] # s[i]}
  IN  At(s, {i \in keep : Cardinality({j \in keep : j <= i}) <= MaxRecords})

(* _set_records: the last record of each id, the newest max_records.       *)
SetRecords(s) == At(s, Newest(s))

(* _records_with.                                                          *)
RecordsWith(s, e) ==
  LET longer == Append(At(s, {i \in DOMAIN s : s[i] # e}), e)
  IN  SubSeq(longer, Max({1, Len(longer) - MaxRecords + 1}), Len(longer))

-----------------------------------------------------------------------------
Init ==
  /\ file = [n \in Names |-> Absent]
  /\ power = "down" /\ skipped = {} /\ misread = FALSE
  /\ records = <<>> /\ physical = 0 /\ compact = FALSE
  /\ stage = "idle" /\ recording = None
  /\ cuts = 0 /\ errors = 0
  /\ acked = <<>> /\ tried = {}

-----------------------------------------------------------------------------
(* Start: JsonEventJournal.__init__ and _load_log.                         *)

(* The first of journal.log, .tmp, .bak that can be read, of those still   *)
(* to try.                                                                 *)
Found(n) == Readable(file[n]) /\ n \notin skipped
Candidate ==
  IF Found("log") THEN "log" ELSE IF Found("tmp") THEN "tmp" ELSE IF Found("bak") THEN "bak" ELSE None
UpTo(n) == CASE n = "log" -> {"log"} [] n = "tmp" -> {"log", "tmp"} [] n = "bak" -> Names

Moved(from, to) == [file EXCEPT ![to] = file[from], ![from] = Absent]

(* What was read becomes the memory.                                       *)
Loaded(f) ==
  /\ power' = "up" /\ skipped' = {} /\ misread' = FALSE
  /\ records' = SetRecords(Parsed(f))
  /\ physical' = Len(Parsed(f))
  /\ compact' = (TruncatedTail(f) \/ Len(Parsed(f)) # Len(SetRecords(Parsed(f))))
  /\ acked' = SetRecords(Parsed(f))
  /\ tried' = {}
  /\ UNCHANGED <<call, cuts, errors>>

(* RepositoryCorruptionError: the products do not start.  If a storage     *)
(* error was the reason, the next start tries again.                       *)
Refused ==
  /\ power' = IF skipped = {} THEN "dead" ELSE "down"
  /\ skipped' = {}
  /\ UNCHANGED <<file, misread, ram, call, cuts, errors, acked, tried>>

(* An empty medium is a journal without records.                           *)
Boot ==
  /\ power = "down"
  /\ \/ Candidate \in {"tmp", "bak"} /\ Loaded(file[Candidate]) /\ file' = Moved(Candidate, "log")
     \/ Candidate = None /\ (\E n \in Names : file[n].present) /\ Refused
     \/ /\ Candidate = "log" \/ ~ \E n \in Names : file[n].present
        /\ Loaded(file["log"]) /\ UNCHANGED file

(* A candidate that was to be moved may have been, or the unreadable       *)
(* journal.log removed for it.                                             *)
HalfMoved ==
  {file} \cup IF Candidate = "log" THEN {} ELSE
                {Moved(Candidate, "log")}
                  \cup IF AtomicReplace THEN {} ELSE {[file EXCEPT !["log"] = Absent]}

(* An OSError of the open, the read, the move or the sync: the start goes  *)
(* on with the next candidate, which may be an old copy.                   *)
Misread ==
  /\ power = "down" /\ Candidate # None
  /\ errors < MaxErrors /\ errors' = errors + 1
  /\ file' \in HalfMoved
  /\ skipped' = UpTo(Candidate) /\ misread' = TRUE
  /\ UNCHANGED <<power, ram, call, cuts, acked, tried>>

-----------------------------------------------------------------------------
(* record()                                                                *)

ShouldCompact == compact \/ physical + 1 > MaxRecords * 2

(* The executor records an id only after was_executed said no.             *)
Record(e) ==
  /\ power = "up" /\ stage = "idle"
  /\ e \notin Range(records)
  /\ recording' = e
  /\ stage' = IF ShouldCompact THEN "copy" ELSE "append"
  /\ tried' = tried \cup {e}
  /\ UNCHANGED <<file, boot, ram, cuts, errors, acked>>

Acknowledge(count) ==
  /\ records' = SetRecords(RecordsWith(records, recording))
  /\ physical' = count
  /\ stage' = "idle" /\ recording' = None
  /\ acked' = records' /\ tried' = {}
  /\ UNCHANGED <<boot, cuts, errors>>

(* _append                                                                 *)
AppendDone ==
  /\ stage = "append"
  /\ file' = [file EXCEPT !["log"] = AddLine(@, recording, TRUE)]
  /\ Acknowledge(physical + 1)
  /\ UNCHANGED compact

(* What an append that did not finish leaves of journal.log.               *)
HalfAppended ==
  {[file EXCEPT !["log"] = f] :
     f \in {file["log"], AddLine(file["log"], recording, TRUE)}
           \cup Torn(file["log"], recording)}

(* _write_compacted                                                        *)
CopyDone ==
  /\ stage = "copy"
  /\ file' = [file EXCEPT !["tmp"] = Lines(RecordsWith(records, recording))]
  /\ stage' = IF file["log"].present THEN "backup" ELSE "install"
  /\ UNCHANGED <<boot, ram, recording, cuts, errors, acked, tried>>

HalfCopied ==
  {[file EXCEPT !["tmp"] = f] :
     f \in {file["tmp"], Lines(RecordsWith(records, recording))}
           \cup TornCopy(RecordsWith(records, recording))}

BackupDone ==
  /\ stage = "backup"
  /\ file' = Moved("log", "bak")
  /\ stage' = "install"
  /\ UNCHANGED <<boot, ram, recording, cuts, errors, acked, tried>>

(* _replace without os.replace removes the old backup first.               *)
HalfBackedUp ==
  {file} \cup IF AtomicReplace THEN {} ELSE {[file EXCEPT !["bak"] = Absent]}

InstallDone ==
  /\ stage = "install"
  /\ file' = Moved("tmp", "log")
  /\ Acknowledge(Len(RecordsWith(records, recording)))
  /\ compact' = FALSE

(* The rename failed and the backup was put back, or the sync failed.      *)
HalfInstalled ==
  {Moved("tmp", "log")}
    \cup IF file["bak"].present THEN {Moved("bak", "log")} ELSE {file}

(* Mutant of Fail: the failure is not remembered.                          *)
FailForgotten(leaves) ==
  /\ errors < MaxErrors /\ errors' = errors + 1
  /\ file' \in leaves
  /\ stage' = "idle" /\ recording' = None
  /\ UNCHANGED <<boot, ram, cuts, acked, tried>>

(* An OSError: the call raises, the memory stays as it was.                *)
Fail(leaves) ==
  /\ errors < MaxErrors /\ errors' = errors + 1
  /\ file' \in leaves
  /\ compact' = TRUE
  /\ stage' = "idle" /\ recording' = None
  /\ UNCHANGED <<boot, records, physical, cuts, acked, tried>>

(* Power cut; the files stay as `leaves` says.                             *)
Cut(leaves) ==
  /\ cuts < MaxCuts /\ cuts' = cuts + 1
  /\ file' \in leaves
  /\ power' = "down" /\ skipped' = {}
  /\ records' = <<>> /\ physical' = 0 /\ compact' = FALSE
  /\ stage' = "idle" /\ recording' = None
  /\ UNCHANGED <<errors, acked, tried, misread>>

Interrupted ==
  \/ stage = "append"  /\ (Fail(HalfAppended) \/ Cut(HalfAppended))
  \/ stage = "copy"    /\ (Fail(HalfCopied) \/ Cut(HalfCopied))
  \/ stage = "backup"  /\ (Fail(HalfBackedUp) \/ Cut(HalfBackedUp))
  \/ stage = "install" /\ (Fail(HalfInstalled) \/ Cut({file, Moved("tmp", "log")}))
  \/ stage = "idle" /\ power = "up" /\ Cut({file})

(* Power cut while the recovered file is moved to journal.log: without     *)
(* os.replace the unreadable one, if there is one, is removed first.       *)
CutInBoot ==
  /\ power = "down" /\ Candidate \in {"tmp", "bak"}
  /\ Cut(HalfMoved)

Next ==
  \/ Boot \/ Misread \/ CutInBoot
  \/ \E e \in Events : Record(e)
  \/ AppendDone \/ CopyDone \/ BackupDone \/ InstallDone
  \/ Interrupted

Spec == Init /\ [][Next]_vars

-----------------------------------------------------------------------------
(* Properties                                                              *)

FileType ==
  [present : BOOLEAN, lines : Seq(Events \cup {Broken}), ended : BOOLEAN]

TypeOK ==
  /\ file \in [Names -> FileType]
  /\ power \in {"down", "up", "dead"}
  /\ skipped \subseteq Names /\ misread \in BOOLEAN
  /\ records \in Seq(Events) /\ Len(records) <= MaxRecords
  /\ physical \in 0 .. 2 * MaxRecords
  /\ compact \in BOOLEAN
  /\ stage \in Stages /\ recording \in Events \cup {None}
  /\ stage = "idle" <=> recording = None
  /\ cuts \in 0 .. MaxCuts /\ errors \in 0 .. MaxErrors
  /\ acked \in Seq(Events) /\ tried \subseteq Events

(* README: a previously journaled event is known after every reboot.  What *)
(* a start reads is what was last acknowledged, or that and one call that  *)
(* did not get to acknowledge; unless a start has met an OSError, after    *)
(* which an old .tmp or .bak takes the place of a good journal.log.        *)
AckedSurvives ==
  [][power = "down" /\ power' = "up" /\ ~ misread =>
       records' \in {acked} \cup {RecordsWith(acked, e) : e \in tried}]_vars

(* _atomic_io: a power cut mid-write never leaves a device with no         *)
(* readable data; the products cannot start without a readable journal.    *)
(* Nor does an error of a start, whatever it makes of the files.           *)
AlwaysBoots == power # "dead"

(* Unless a failure has asked for a compaction, what was_executed answers  *)
(* from memory is what journal.log says, in no more than twice the lines   *)
(* of the records that are kept.                                           *)
MemoryIsTheLog ==
  /\ power = "up" /\ stage = "idle" /\ ~ compact =>
       SetRecords(Parsed(file["log"])) = records
  /\ Len(file["log"].lines) <= 2 * MaxRecords
=============================================================================

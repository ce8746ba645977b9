------------------------------ MODULE Session -------------------------------
(***************************************************************************)
(* The life of one file: a Writer creates it, is filled by put and del,    *)
(* and is finished or dropped; a Db opens the file, possibly while finish  *)
(* is still writing it or after a crash that cost some of its pages, and   *)
(* looks up and scans what is there.                                       *)
(*                                                                         *)
(* finish consumes the writer, so from then on pages is what the file was  *)
(* meant to hold, and Stored the dictionary a reader should see.           *)
(***************************************************************************)
EXTENDS BTreeWriter

CONSTANTS
  Faults,     (* what may go wrong: "partial" for a finish that does not   *)
              (* get to its end, or is seen before it has; "lost" for      *)
              (* pages that a crash leaves as zeros                        *)
  MaxLost,    (* bound: how many pages a crash may cost                    *)
  MinStored,  (* bound: files with fewer pairs than this are not finished  *)
  Together    (* bound: whether one Db serves lookups and a scan, or only  *)
              (* the one or the other (they share nothing that changes)    *)

ASSUME SessionAssumption ==
  /\ Faults \subseteq {"partial", "lost"}
  /\ MaxLost \in Nat
  /\ MinStored \in Nat
  /\ Together \in BOOLEAN

VARIABLES
  wst,       (* the writer: "none", "open", "finishing", "finished" or     *)
             (* "gone" (dropped, failed in finish, or died in a crash)     *)
  disk,      (* the file                                                   *)
  io,        (* what the last create_new, finish or open returned          *)
  db,        (* the number of pages a Db has mapped, 0 when there is none  *)
  lookup, answer, iter, scanned, scanEnd     (* the reader, see Reader     *)

readVars == <<lookup, answer, iter, scanned, scanEnd>>

sessionVars == <<vars, wst, disk, io, db, readVars>>

\* A file: the pages it has in full (the meta page is page 0), whether a part
\* of another page follows, and what a crash has cost.
File(n, tail, lost) == [pages |-> n, tail |-> tail, lost |-> lost]

NoFile == [absent |-> TRUE]
EmptyFile == File(0, FALSE, {})

\* The number of pages finish writes.
Total == Len(pages) + 1

Zeros == [zeros |-> TRUE]

\* What the Db has mapped, the meta page left out.
Image ==
  [p \in 1 .. db - 1 |-> IF p \in disk.lost THEN Zeros ELSE pages[p]]

R == INSTANCE Reader WITH image <- Image

SessionInit ==
  /\ Init
  /\ wst = "none"
  /\ disk = NoFile
  /\ io = "none"
  /\ db = 0
  /\ R!ReaderInit

-----------------------------------------------------------------------------
(* The writer's end.                                                       *)

fileVars == <<wst, disk, io, db>>

CreateNew ==
  /\ wst = "none"
  /\ disk = NoFile
  /\ wst' = "open"
  /\ disk' = EmptyFile
  /\ io' = "ok"
  /\ UNCHANGED <<vars, db, readVars>>

\* create_new does not open a file that exists, whoever left it there.
CreateNewFails ==
  /\ wst \in {"finished", "gone"}
  /\ disk # NoFile
  /\ io' = "Io"
  /\ UNCHANGED <<vars, wst, disk, db, readVars>>

\* put and del change the arena only.
WriterCall ==
  /\ wst = "open"
  /\ Next
  /\ UNCHANGED <<fileVars, readVars>>

\* A writer is dropped, or lost to a panic, before finish: nothing is written.
Drop ==
  /\ wst = "open"
  /\ pc \in {"idle", "panicked"}
  /\ wst' = "gone"
  /\ UNCHANGED <<vars, disk, io, db, readVars>>

\* Mutated form of FinishBegin: finish leaves the writer usable.
FinishBeginKeepsWriter ==
  /\ wst = "open"
  /\ pc = "idle"
  /\ \E n \in {Total} : disk' = File(n, FALSE, {})
  /\ UNCHANGED <<vars, wst, io, db, readVars>>

\* finish takes the writer and puts the meta page into its slot.
FinishBegin ==
  /\ wst = "open"
  /\ pc = "idle"
  /\ Cardinality(Stored) >= MinStored
  /\ wst' = "finishing"
  /\ UNCHANGED <<vars, disk, io, db, readVars>>

\* Mutated form of FinishWrite: the meta page goes in front of the arena.
FinishWriteExtra ==
  /\ wst = "finishing"
  /\ disk.pages < Total
  /\ disk' = File(Total + 1, FALSE, {})
  /\ UNCHANGED <<vars, wst, io, db, readVars>>

\* write_all and flush hand the arena over from its beginning, in pieces.
FinishWrite ==
  /\ wst = "finishing"
  /\ \E n \in disk.pages .. Total : \E tail \in BOOLEAN :
       /\ n > disk.pages \/ tail
       /\ n = Total => ~ tail
       /\ "partial" \in Faults \/ n = Total
       /\ disk' = File(n, tail, {})
  /\ UNCHANGED <<vars, wst, io, db, readVars>>

\* Mutated form of FinishDone: Ok is returned without the flush.
FinishDoneUnflushed ==
  /\ wst = "finishing"
  /\ wst' = "finished"
  /\ io' = "ok"
  /\ UNCHANGED <<vars, disk, db, readVars>>

FinishDone ==
  /\ wst = "finishing"
  /\ disk.pages = Total
  /\ wst' = "finished"
  /\ io' = "ok"
  /\ UNCHANGED <<vars, disk, db, readVars>>

\* A write fails, or the process ends, with any part of the file written.
\* (All of it, if a write failed and the BufWriter has written the rest
\* when it was dropped.)
FinishFails ==
  /\ "partial" \in Faults
  /\ wst = "finishing"
  /\ wst' = "gone"
  /\ io' = "Io"
  /\ UNCHANGED <<vars, disk, db, readVars>>

-----------------------------------------------------------------------------
(* The reader's end.                                                       *)

NoReader ==
  /\ lookup' = R!NoLookup
  /\ answer' = R!NoAnswer
  /\ iter' = R!Pristine
  /\ scanned' = <<>>
  /\ scanEnd' = "open"

\* The checks of Db::open that a file of this writer, whole or not, can fail:
\* too short for a meta page, no magic number, not a whole number of pages.
\* (A part of the first page may be shorter or longer than the meta page's
\* fields.)  Version, page size and flags are those build_meta writes; files
\* from elsewhere are the matter of MetaPage.
OpenOutcomes ==
  IF disk = NoFile THEN {"Io"}
  ELSE IF disk.pages = 0 /\ ~ disk.tail THEN {"ShortFile"}
  ELSE (IF disk.pages = 0 THEN {"ShortFile"} ELSE {})
         \cup {IF 0 \in disk.lost THEN "BadMagic"
               ELSE IF disk.tail THEN "UnalignedFileLength"
               ELSE "ok"}

\* The mapping has the length the file has now.
Open ==
  /\ db = 0
  /\ "ok" \in OpenOutcomes
  /\ db' = disk.pages
  /\ io' = "ok"
  /\ NoReader
  /\ UNCHANGED <<vars, wst, disk>>

OpenFails ==
  /\ db = 0
  /\ \E e \in OpenOutcomes \ {"ok"} : io' = e
  /\ UNCHANGED <<vars, wst, disk, db, readVars>>

Close ==
  /\ db > 0
  /\ db' = 0
  /\ NoReader
  /\ UNCHANGED <<vars, wst, disk, io>>

Lookup ==
  /\ db > 0
  /\ Together \/ iter = R!Pristine
  /\ R!LookupStep \/ \E k \in Keys : R!Get(k)
  /\ UNCHANGED <<vars, fileVars>>

Scan ==
  /\ db > 0
  /\ Together \/ (lookup = R!NoLookup /\ answer = R!NoAnswer)
  /\ R!IterStep
  /\ UNCHANGED <<vars, fileVars>>

-----------------------------------------------------------------------------

\* The pages of the file, of which a crash may cost at most MaxLost.
SomePages == UNION {kSubset(n, 0 .. disk.pages - 1) : n \in 1 .. MaxLost}

\* The machine stops.  Nothing was fsynced: of the pages the file has, some
\* may not have reached the disk.
Crash ==
  /\ wst \in {"finishing", "finished", "gone"}
  /\ "lost" \in Faults
  /\ disk.lost = {}
  /\ \E lost \in SomePages : disk' = File(disk.pages, disk.tail, lost)
  /\ wst' = "gone"
  /\ db' = 0
  /\ NoReader
  /\ UNCHANGED <<vars, io>>

SessionNext ==
  \/ CreateNew \/ CreateNewFails \/ WriterCall \/ Drop
  \/ FinishBegin \/ FinishWrite \/ FinishDone \/ FinishFails
  \/ Open \/ OpenFails \/ Close \/ Lookup \/ Scan
  \/ Crash

SessionSpec == SessionInit /\ [][SessionNext]_sessionVars

\* Inside a call: search's loop, initial_state's and advance_leaf's.
InIterCall == iter.st \in {"descending", "advancing"}

\* A reader's call that has begun goes on to its end.  (When to ask for the
\* next entry is the caller's business.)
SessionFairSpec ==
  /\ SessionSpec
  /\ WF_sessionVars(Lookup /\ lookup # R!NoLookup)
  /\ WF_sessionVars(Scan /\ InIterCall)

-----------------------------------------------------------------------------
(* Properties.                                                             *)

\* Every variable keeps its shape; a lookup or scan in progress is at a page
\* number, whatever was read to get there.
SessionTypeOK ==
  /\ TypeOK
  /\ wst \in {"none", "open", "finishing", "finished", "gone"}
  /\ disk = NoFile \/ disk \in [pages : 0 .. Total, tail : BOOLEAN,
                                lost : SUBSET (0 .. Total)]
  /\ io \in {"none", "ok", "Io", "ShortFile", "BadMagic", "UnalignedFileLength"}
  /\ db \in 0 .. Total
  /\ R!ReaderTypeOK

\* What a Db has mapped does not change under it, though the file may still
\* be growing: finish has taken the writer.
MappedStays == [][db > 0 /\ db' > 0 => Image' = Image]_sessionVars

OpenErrors == {"ShortFile", "BadMagic", "UnalignedFileLength"}

\* A file whose finish returned Ok opens, until a crash costs it a page.
FinishedOpens == wst = "finished" => io \notin OpenErrors

Whole == disk # NoFile /\ disk.pages = Total /\ disk.lost = {}

\* (A Db that was opened while finish was writing has less of the file.)
Snap == INSTANCE Snapshot
  WITH dict <- IF db > 0 THEN Stored ELSE {},
       whole <- db = Total /\ Whole,
       Errors <- {"PageOutOfBounds", "CorruptPage"}

\* Whatever part of the file a crash or an unfinished finish has left, what a
\* lookup or a scan returns is what was stored, in order, or an error; on a
\* file that is whole it is no error.
ImplementsSnapshot == Snap!Spec

\* The leftmost leaf, which initial_state comes to.
FirstLeafEmpty ==
  \E p \in DOMAIN pages :
    /\ pages[p].leaf
    /\ pages[p].prev = P_INVALID
    /\ pages[p].ents = <<>>

Scanned == {<<scanned[i].key, scanned[i].val>> : i \in DOMAIN scanned}

\* A scan that ends without an error has returned everything, but when
\* deletions have emptied the first leaf, and then it returns nothing.
ScanAllOrFirstLeafEmpty ==
  scanEnd = "None" => Scanned = (IF FirstLeafEmpty THEN {} ELSE Stored)

\* "Begin a forward iteration over all key/value pairs" (Db::iter): a scan
\* that ends without an error has returned everything.
ScanComplete == scanEnd = "None" => Scanned = Stored

\* When advance_leaf fails, one entry is lost with the error, though it was
\* read: everything before the last entry of the last leaf that could be
\* read has been returned, and that entry has not.
ErrorCostsOneEntry ==
  [][ iter.st = "advancing" /\ scanEnd' \notin {"open", "None"} =>
        LET lost == R!Current
        IN  /\ <<lost.key, lost.val>> \in Stored
            /\ Scanned' = {kv \in Stored : kv[1] < lost.key} ]_sessionVars

\* A call of get or next that has begun returns: no cycle of links holds it.
ReaderCallsEnd ==
  /\ lookup # R!NoLookup ~> lookup = R!NoLookup
  /\ InIterCall ~> ~ InIterCall
=============================================================================

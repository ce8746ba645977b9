------------------------------ MODULE MetaPage ------------------------------
(***************************************************************************)
(* The first 24 bytes of a file and what Db::open makes of them.  Every    *)
(* number in a file is stored in the byte order of the host that wrote it; *)
(* a reader tells from the magic number alone whether to swap, and then    *)
(* swaps every number it reads, here and in the header of every page.      *)
(*                                                                         *)
(* A number is written as its bytes, the most significant first.           *)
(***************************************************************************)
EXTENDS Integers

CONSTANTS
  PsizeWords,  (* page sizes of the files that this or another writer made *)
  Words,       (* what a field of any other file may hold                  *)
  Lengths,     (* the lengths of such files                                *)
  Fields32,    (* what a four-byte field of a page's header may hold       *)
  Fields16     (* and what a two-byte field may                            *)

Byte == 0 .. 255
Quad == Byte \X Byte \X Byte \X Byte
Pair == Byte \X Byte

ASSUME MetaAssumption ==
  /\ PsizeWords \subseteq Quad
  /\ Words \subseteq Quad
  /\ Lengths \subseteq Nat
  /\ Fields32 \subseteq Quad
  /\ Fields16 \subseteq Pair

Hosts == {"little", "big"}

BTREE_MAGIC == <<0, 5, 49, 98>>      (* 0x00053162 *)
BTREE_VERSION == <<0, 0, 0, 3>>
B_NODUPS == <<0, 0, 0, 32>>
NoFlags == <<0, 0, 0, 0>>
P_INVALID == <<0, 0, 0, 0>>
DEFAULT_PSIZE == <<0, 0, 16, 0>>
MIN_PSIZE == 512
MAX_PSIZE == 32768
META_SIZE == 24

\* The offsets of magic, version, psize, free, nrecs and flags.
Offsets == {0, 4, 8, 12, 16, 20}

VARIABLES
  writer,   (* the host that wrote the file, or "none" for any other file  *)
  raw,      (* its length, the words of the meta page and one field of     *)
            (* each width of a page's header, all in the file's byte order *)
  field32,  (* what that host wrote to the header fields                   *)
  field16,
  opened    (* by host: what open returned, when it was called             *)

metaVars == <<writer, raw, field32, field16, opened>>

Swap32(b) == <<b[4], b[3], b[2], b[1]>>
Swap16(b) == <<b[2], b[1]>>

\* from_ne_bytes and to_ne_bytes are the same exchange.
Ne32(h, b) == IF h = "little" THEN Swap32(b) ELSE b
Ne16(h, b) == IF h = "little" THEN Swap16(b) ELSE b

\* The number itself, when its upper half is zero.
Small(b) == b[1] = 0 /\ b[2] = 0
Num(b) == 256 * b[3] + b[4]

\* Mutated form of build_meta: the words are written with to_be_bytes.
BuildMetaBigEndian(h, psize) ==
  [o \in Offsets |-> CASE o = 0 -> BTREE_MAGIC
                       [] o = 4 -> BTREE_VERSION
                       [] o = 8 -> psize
                       [] o = 20 -> B_NODUPS
                       [] OTHER -> P_INVALID]

\* The meta page a host writes; free is P_INVALID and nrecs 0.
build_meta(h, psize) ==
  [o \in Offsets |->
     Ne32(h, CASE o = 0 -> BTREE_MAGIC
               [] o = 4 -> BTREE_VERSION
               [] o = 8 -> psize
               [] o = 20 -> B_NODUPS
               [] OTHER -> P_INVALID)]

NotOpened == [is |-> "none"]

\* create_new and finish on some host; page sizes other than the default are
\* those of another writer.
InitWritten ==
  /\ writer \in Hosts
  /\ field32 \in Fields32
  /\ field16 \in Fields16
  /\ \E psize \in PsizeWords, n \in 2 .. 3 :
       raw = [len |-> n * Num(psize), meta |-> build_meta(writer, psize),
               hdr32 |-> Ne32(writer, field32), hdr16 |-> Ne16(writer, field16)]

\* Any other file, one that was damaged among them.
InitOther ==
  /\ writer = "none"
  /\ field32 \in Fields32
  /\ field16 \in Fields16
  /\ \E meta \in [{0, 4, 8, 20} -> Words], n \in Lengths :
       raw = [len |-> n,
               meta |-> [o \in Offsets |-> IF o \in DOMAIN meta THEN meta[o]
                                           ELSE P_INVALID],
               hdr32 |-> field32, hdr16 |-> field16]

MetaInit ==
  /\ InitWritten \/ InitOther
  /\ opened = [h \in Hosts |-> NotOpened]

-----------------------------------------------------------------------------
(* Reading.                                                                *)

\* read_u32_bytes and read_u16_bytes.
ReadU32(h, b, swap) == IF swap THEN Swap32(Ne32(h, b)) ELSE Ne32(h, b)
ReadU16(h, b, swap) == IF swap THEN Swap16(Ne16(h, b)) ELSE Ne16(h, b)

\* Meta::parse: anything but the magic number in this host's order is taken
\* for the other order ...
ParseSwap(h) == Ne32(h, raw.meta[0]) # BTREE_MAGIC

\* Mutated form of Parsed: the page size is not swapped.
ParsedPsizeAsIs(h, o) ==
  ReadU32(h, raw.meta[o], ParseSwap(h) /\ o # 8)

\* ... and every field is read so.
Parsed(h, o) == ReadU32(h, raw.meta[o], ParseSwap(h))

GoodPsize(b) ==
  /\ Small(b)
  /\ Num(b) \in MIN_PSIZE .. MAX_PSIZE
  /\ Num(b) % 2 = 0

\* Db::open's checks in their order, and what it returns.
OpenResult(h) ==
  IF raw.len < META_SIZE THEN [is |-> "ShortFile"]
  ELSE IF Parsed(h, 0) # BTREE_MAGIC
    THEN [is |-> "BadMagic", magic |-> Parsed(h, 0)]
  ELSE IF Parsed(h, 4) # BTREE_VERSION
    THEN [is |-> "BadVersion", version |-> Parsed(h, 4)]
  ELSE IF ~ GoodPsize(Parsed(h, 8))
    THEN [is |-> "BadPageSize", psize |-> Parsed(h, 8)]
  ELSE IF Parsed(h, 20) \notin {NoFlags, B_NODUPS}
    THEN [is |-> "UnsupportedFlags", flags |-> Parsed(h, 20)]
  ELSE IF raw.len % Num(Parsed(h, 8)) # 0
    THEN [is |-> "UnalignedFileLength", len |-> raw.len, psize |-> Parsed(h, 8)]
  ELSE [is |-> "ok", psize |-> Parsed(h, 8), swap |-> ParseSwap(h)]

Open(h) ==
  /\ opened[h] = NotOpened
  /\ opened' = [opened EXCEPT ![h] = OpenResult(h)]
  /\ UNCHANGED <<writer, raw, field32, field16>>

MetaNext == \E h \in Hosts : Open(h)

MetaSpec == MetaInit /\ [][MetaNext]_metaVars

-----------------------------------------------------------------------------
(* Properties.                                                             *)

\* What a Db makes of the header fields on host h.
Header32(h) == ReadU32(h, raw.hdr32, opened[h].swap)
Header16(h) == ReadU16(h, raw.hdr16, opened[h].swap)

\* A whole file opens on every host, whichever wrote it, and every number in
\* it is read as it was written.
OpensAnywhere ==
  \A h \in Hosts : writer \in Hosts /\ opened[h] # NotOpened =>
    /\ opened[h].is = "ok"
    /\ opened[h].swap = (h # writer)
    /\ opened[h].psize = ReadU32(writer, raw.meta[8], FALSE)
    /\ Header32(h) = field32
    /\ Header16(h) = field16

\* Hosts of the two byte orders agree on every file, damaged ones included:
\* both open it, with the same page size and the same reading of its pages,
\* or both refuse it for the same reason and name the same value (which for
\* a bad magic number depends on the host).
HostsAgree ==
  LET l == opened["little"]
      b == opened["big"]
  IN  l # NotOpened /\ b # NotOpened =>
        /\ l.is = b.is
        /\ l.is = "ok" =>
             /\ l.psize = b.psize
             /\ Header32("little") = Header32("big")
             /\ Header16("little") = Header16("big")
        /\ l.is \notin {"ok", "BadMagic"} => l = b
=============================================================================

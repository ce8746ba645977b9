---------------------------- MODULE Bytes_proofs ----------------------------
(***************************************************************************)
(* What is read from the bytes of a file: proofs about the meta page,      *)
(* about the decoding of a page, about the order of byte strings with the  *)
(* prefix rule for separators, and about chains of overflow pages, for     *)
(* every content of the file.                                              *)
(***************************************************************************)
EXTENDS MetaPage, PageDecode, MCByteKeys, Overflow, SequenceFacts,
        FiniteSetTheorems

-----------------------------------------------------------------------------
(* Hosts of both byte orders read every file alike: HostsAgree for every   *)
(* content of the first page, every length and every field.                *)

\* A file has words of four bytes where words are read.
FileOK ==
  /\ \A o \in Offsets : raw.meta[o] \in Quad
  /\ raw.hdr32 \in Quad
  /\ raw.hdr16 \in Pair

\* The file does not change, so what open returned on a host is what it
\* would return again.
MetaInv ==
  /\ FileOK
  /\ opened \in [Hosts -> {NotOpened, OpenResult("little"), OpenResult("big")}]
  /\ \A h \in Hosts : opened[h] # NotOpened => opened[h] = OpenResult(h)

\* Exchanging the bytes twice changes nothing, and keeps a word a word.
LEMMA SwapTwice ==
  /\ \A b \in Quad : Swap32(b) \in Quad /\ Swap32(Swap32(b)) = b
  /\ \A b \in Pair : Swap16(b) \in Pair /\ Swap16(Swap16(b)) = b
<1>1. ASSUME NEW b \in Quad
      PROVE  Swap32(b) \in Quad /\ Swap32(Swap32(b)) = b
  BY DEF Quad, Swap32
<1>2. ASSUME NEW b \in Pair
      PROVE  Swap16(b) \in Pair /\ Swap16(Swap16(b)) = b
  BY DEF Pair, Swap16
<1> QED  BY <1>1, <1>2

\* The magic number is a word and differs from itself in the other order.
LEMMA MagicTellsOrder ==
  BTREE_MAGIC \in Quad /\ Swap32(BTREE_MAGIC) # BTREE_MAGIC
  BY DEF BTREE_MAGIC, Swap32, Quad, Byte

\* What a host reads, in terms of the bytes as they are in the file.
LEMMA LittleReads ==
  ASSUME NEW b \in Quad, NEW s \in BOOLEAN
  PROVE  ReadU32("little", b, s) = IF s THEN b ELSE Swap32(b)
  BY SwapTwice DEF ReadU32, Ne32

\* The same, on a big-endian host.
LEMMA BigReads ==
  ASSUME NEW b \in Quad, NEW s \in BOOLEAN
  PROVE  ReadU32("big", b, s) = IF s THEN Swap32(b) ELSE b
  BY DEF ReadU32, Ne32

\* And the same for fields of two bytes.
LEMMA LittleReads16 ==
  ASSUME NEW b \in Pair, NEW s \in BOOLEAN
  PROVE  ReadU16("little", b, s) = IF s THEN b ELSE Swap16(b)
  BY SwapTwice DEF ReadU16, Ne16

\* On a big-endian host.
LEMMA BigReads16 ==
  ASSUME NEW b \in Pair, NEW s \in BOOLEAN
  PROVE  ReadU16("big", b, s) = IF s THEN Swap16(b) ELSE b
  BY DEF ReadU16, Ne16

\* When the magic number is there in either order, the hosts take opposite
\* decisions and parse the same numbers.
LEMMA SameParse ==
  ASSUME FileOK,
         raw.meta[0] \in {BTREE_MAGIC, Swap32(BTREE_MAGIC)}
  PROVE  /\ ParseSwap("little") = ~ ParseSwap("big")
         /\ \A o \in Offsets : Parsed("little", o) = Parsed("big", o)
<1>1. raw.meta[0] \in Quad  BY DEF FileOK, Offsets
<1>2. ParseSwap("little") = ~ ParseSwap("big")
  BY <1>1, MagicTellsOrder, SwapTwice DEF ParseSwap, Ne32
<1>3. ParseSwap("little") \in BOOLEAN /\ ParseSwap("big") \in BOOLEAN
  BY DEF ParseSwap
<1>4. ASSUME NEW o \in Offsets
      PROVE  Parsed("little", o) = Parsed("big", o)
  BY <1>2, <1>3, <1>4, LittleReads, BigReads DEF FileOK, Parsed
<1> QED  BY <1>2, <1>4

\* When it is not, neither host finds it.
LEMMA NeitherFinds ==
  ASSUME FileOK,
         raw.meta[0] \notin {BTREE_MAGIC, Swap32(BTREE_MAGIC)}
  PROVE  /\ Parsed("little", 0) # BTREE_MAGIC
         /\ Parsed("big", 0) # BTREE_MAGIC
<1>1. raw.meta[0] \in Quad  BY DEF FileOK, Offsets
<1>2. ParseSwap("little") /\ ParseSwap("big")
  BY <1>1, MagicTellsOrder, SwapTwice DEF ParseSwap, Ne32
<1>3. Parsed("little", 0) = raw.meta[0]
  BY <1>1, <1>2, LittleReads DEF Parsed
<1>4. Parsed("big", 0) = Swap32(raw.meta[0])
  BY <1>1, <1>2, BigReads DEF Parsed
<1>5. Swap32(raw.meta[0]) # BTREE_MAGIC
  BY <1>1, SwapTwice
<1> QED  BY <1>3, <1>4, <1>5

\* What two hosts make of one file.
LEMMA ResultsAgree ==
  ASSUME FileOK
  PROVE  LET l == OpenResult("little")
             b == OpenResult("big")
         IN  /\ l.is = b.is
             /\ l.is = "ok" => l.psize = b.psize /\ l.swap = ~ b.swap
             /\ l.is \notin {"ok", "BadMagic"} => l = b
<1>1. CASE raw.meta[0] \in {BTREE_MAGIC, Swap32(BTREE_MAGIC)}
  <2>1. /\ ParseSwap("little") = ~ ParseSwap("big")
        /\ Parsed("little", 0) = Parsed("big", 0)
        /\ Parsed("little", 4) = Parsed("big", 4)
        /\ Parsed("little", 8) = Parsed("big", 8)
        /\ Parsed("little", 20) = Parsed("big", 20)
    BY <1>1, SameParse DEF Offsets
  <2> QED  BY <2>1 DEF OpenResult
<1>2. CASE raw.meta[0] \notin {BTREE_MAGIC, Swap32(BTREE_MAGIC)}
  BY <1>2, NeitherFinds DEF OpenResult
<1> QED  BY <1>1, <1>2

-----------------------------------------------------------------------------

\* The words build_meta writes, and those of any other file, are words.
LEMMA InitEstablishesMeta == MetaInit => MetaInv
<1> SUFFICES ASSUME MetaInit PROVE MetaInv  OBVIOUS
<1> USE MetaAssumption
<1>1. opened = [h \in Hosts |-> NotOpened]  BY DEF MetaInit
<1>2. ASSUME InitWritten PROVE FileOK
  <2>1. PICK psize \in PsizeWords, n \in 2 .. 3 :
          raw = [len |-> n * Num(psize), meta |-> build_meta(writer, psize),
                  hdr32 |-> Ne32(writer, field32), hdr16 |-> Ne16(writer, field16)]
    BY <1>2 DEF InitWritten
  <2>2. /\ psize \in Quad
        /\ field32 \in Quad
        /\ field16 \in Pair
    BY <1>2 DEF InitWritten
  <2>3. /\ BTREE_VERSION \in Quad
        /\ P_INVALID \in Quad
        /\ B_NODUPS \in Quad
    BY DEF BTREE_VERSION, P_INVALID, B_NODUPS, Quad, Byte
  <2>4. \A b \in Quad : Ne32(writer, b) \in Quad
    BY SwapTwice DEF Ne32
  <2>5. Ne16(writer, field16) \in Pair
    BY <2>2, SwapTwice DEF Ne16
  <2>6. ASSUME NEW o \in Offsets PROVE build_meta(writer, psize)[o] \in Quad
    BY <2>2, <2>3, <2>4, <2>6, MagicTellsOrder DEF build_meta, Offsets
  <2> QED  BY <2>1, <2>2, <2>4, <2>5, <2>6 DEF FileOK
<1>3. ASSUME InitOther PROVE FileOK
  <2>1. PICK meta \in [{0, 4, 8, 20} -> Words], n \in Lengths :
          raw = [len |-> n,
                  meta |-> [o \in Offsets |-> IF o \in DOMAIN meta THEN meta[o]
                                              ELSE P_INVALID],
                  hdr32 |-> field32, hdr16 |-> field16]
    BY <1>3 DEF InitOther
  <2>2. field32 \in Quad /\ field16 \in Pair
    BY <1>3 DEF InitOther
  <2>3. P_INVALID \in Quad
    BY DEF P_INVALID, Quad, Byte
  <2>4. ASSUME NEW o \in Offsets PROVE raw.meta[o] \in Quad
    BY <2>1, <2>3
  <2> QED  BY <2>1, <2>2, <2>4 DEF FileOK
<1> QED  BY <1>1, <1>2, <1>3 DEF MetaInv, MetaInit

\* Opening the file keeps the invariant: the file does not change.
LEMMA NextPreservesMeta == MetaInv /\ [MetaNext]_metaVars => MetaInv'
<1> SUFFICES ASSUME MetaInv, [MetaNext]_metaVars PROVE MetaInv'  OBVIOUS
<1>1. raw' = raw  BY DEF MetaNext, Open, metaVars
<1>2. FileOK'  BY <1>1 DEF MetaInv, FileOK
<1>3. OpenResult("little")' = OpenResult("little") /\ OpenResult("big")' = OpenResult("big")
  BY <1>1 DEF OpenResult, Parsed, ParseSwap
<1>4. \A h \in Hosts : OpenResult(h)' = OpenResult(h)
  BY <1>3 DEF Hosts
<1>5. CASE MetaNext
  BY <1>2, <1>3, <1>4, <1>5 DEF MetaInv, MetaNext, Open, Hosts
<1>6. CASE UNCHANGED metaVars
  BY <1>2, <1>3, <1>4, <1>6 DEF MetaInv, metaVars
<1> QED  BY <1>5, <1>6

\* The two hosts agree wherever both have opened the file.
LEMMA MetaImpliesHostsAgree == MetaInv => HostsAgree
<1> SUFFICES ASSUME MetaInv,
                    opened["little"] # NotOpened,
                    opened["big"] # NotOpened
             PROVE  LET l == opened["little"]
                        b == opened["big"]
                    IN  /\ l.is = b.is
                        /\ l.is = "ok" =>
                             /\ l.psize = b.psize
                             /\ Header32("little") = Header32("big")
                             /\ Header16("little") = Header16("big")
                        /\ l.is \notin {"ok", "BadMagic"} => l = b
  BY DEF HostsAgree
<1>1. /\ opened["little"] = OpenResult("little")
      /\ opened["big"] = OpenResult("big")
  BY DEF MetaInv, Hosts
<1>2. FileOK  BY DEF MetaInv
<1>3. ASSUME opened["little"].is = "ok"
      PROVE  /\ opened["little"].swap \in BOOLEAN
             /\ opened["big"].swap \in BOOLEAN
             /\ opened["little"].swap = ~ opened["big"].swap
  <2>1. /\ OpenResult("little").is = "ok"
        /\ OpenResult("big").is = "ok"
        /\ OpenResult("little").swap = ~ OpenResult("big").swap
    BY <1>1, <1>2, <1>3, ResultsAgree
  <2>2. /\ OpenResult("little").swap = ParseSwap("little")
        /\ OpenResult("big").swap = ParseSwap("big")
    BY <2>1 DEF OpenResult
  <2> QED  BY <1>1, <2>1, <2>2 DEF ParseSwap
<1>4. ASSUME opened["little"].is = "ok"
      PROVE  /\ Header32("little") = Header32("big")
             /\ Header16("little") = Header16("big")
  <2>1. raw.hdr32 \in Quad /\ raw.hdr16 \in Pair
    BY <1>2 DEF FileOK
  <2>2. Header32("little") = Header32("big")
    BY <1>3, <1>4, <2>1, LittleReads, BigReads DEF Header32
  <2>3. Header16("little") = Header16("big")
    BY <1>3, <1>4, <2>1, LittleReads16, BigReads16 DEF Header16
  <2> QED  BY <2>2, <2>3
<1> QED  BY <1>1, <1>2, <1>4, ResultsAgree

\* Whatever a file holds in its first page and however long it is, hosts of
\* the two byte orders open it with the same page size and read its headers
\* alike, or refuse it for the same reason.
THEOREM HostsAlwaysAgree == MetaSpec => []HostsAgree
<1>1. MetaInit => MetaInv  BY InitEstablishesMeta
<1>2. MetaInv /\ [MetaNext]_metaVars => MetaInv'  BY NextPreservesMeta
<1>3. MetaInv => HostsAgree  BY MetaImpliesHostsAgree
<1> QED  BY <1>1, <1>2, <1>3, PTL DEF MetaSpec

-----------------------------------------------------------------------------
(* Nothing a page holds makes the decoder reach outside it: ItemsReadable  *)
(* for every page size, every content and every width of usize that holds  *)
(* a four-byte number.                                                     *)

\* The variables the invariant needs keep their shape.
DecodeTypeOK ==
  /\ size \in PageSizes
  /\ nentries \in Int
  /\ off \in Nat
  /\ ksize \in 0 .. UsizeMax
  /\ dsize \in 0 .. UsizeMax
  /\ pc \in {"parse", "offset", "header", "payload", "key", "data", "decoded", "corrupt"}

\* What each step has made sure of, and the steps after it rely on.
LinpInPage ==
  pc \notin {"parse", "corrupt"} => PAGE_HEADER_SIZE + 2 * nentries <= size

HeaderRead ==
  pc \in {"payload", "key", "data", "decoded"} => off + ENTRY_HEADER_SIZE <= size

PayloadChecked ==
  pc \in {"key", "data", "decoded"} => off + ENTRY_HEADER_SIZE + ksize + dsize <= size

KeyDecoded ==
  pc \in {"data", "decoded"} =>
    /\ keyItem.off = off + ENTRY_HEADER_SIZE
    /\ keyItem.len \in 0 .. ksize

DataDecoded ==
  pc = "decoded" =>
    /\ dataItem.off = off + ENTRY_HEADER_SIZE + ksize
    /\ dataItem.len \in 0 .. dsize

DecodeInv ==
  /\ DecodeTypeOK /\ LinpInPage /\ HeaderRead /\ PayloadChecked
  /\ KeyDecoded /\ DataDecoded

\* A sum that usize can hold does not wrap.
LEMMA PlusExact ==
  ASSUME NEW a \in Nat, NEW b \in Nat, a + b <= UsizeMax
  PROVE  Plus(a, b) = a + b
  BY DecodeAssumption DEF Plus

\* An item is no longer than its place.
LEMMA ItemInPlace ==
  ASSUME NEW o \in Nat, NEW n \in Nat, NEW big, NEW it \in Items(o, n, big)
  PROVE  it.off = o /\ it.len \in 0 .. n
<1>1. CASE ~ big
  BY <1>1 DEF Items, Inline
<1>2. CASE big
  BY <1>2 DEF Items, OverflowRef, NOVFLSIZE
<1> QED  BY <1>1, <1>2

\* The initial state satisfies the invariant.
LEMMA InitEstablishesDecode == DecodeInit => DecodeInv
  BY DecodeAssumption
  DEF DecodeInit, DecodeInv, DecodeTypeOK, LinpInPage, HeaderRead, PayloadChecked, KeyDecoded, DataDecoded

\* Every step keeps the invariant.
LEMMA NextPreservesDecode == DecodeInv /\ [DecodeNext]_decodeVars => DecodeInv'
<1> SUFFICES ASSUME DecodeInv, [DecodeNext]_decodeVars PROVE DecodeInv'  OBVIOUS
<1> USE DEF DecodeInv
<1>0. UsizeMax \in Nat /\ size \in PAGE_HEADER_SIZE .. UsizeMax
  BY DecodeAssumption DEF DecodeTypeOK
<1>1. ASSUME Corrupt PROVE DecodeInv'
  BY <1>1 DEF Corrupt, DecodeTypeOK, LinpInPage, HeaderRead, PayloadChecked, KeyDecoded, DataDecoded
<1>2. CASE Parse
  <2>1. PICK lo \in U16, up \in U16 :
          GoodBounds(lo, up) /\ nentries' = (lo - PAGE_HEADER_SIZE) \div 2
    BY <1>2 DEF Parse
  <2>2. lo \in Nat /\ up \in Nat  BY DecodeAssumption
  <2>3. nentries' \in Int /\ PAGE_HEADER_SIZE + 2 * nentries' <= size
    BY <1>0, <2>1, <2>2 DEF GoodBounds, PAGE_HEADER_SIZE
  <2> QED
    BY <1>2, <2>3
    DEF Parse, DecodeTypeOK, LinpInPage, HeaderRead, PayloadChecked, KeyDecoded, DataDecoded
<1>3. CASE EntryOffset
  BY <1>3, DecodeAssumption
  DEF EntryOffset, DecodeTypeOK, LinpInPage, HeaderRead, PayloadChecked, KeyDecoded, DataDecoded
<1>4. CASE ReadHeader
  <2>1. off + 4 <= UsizeMax  BY <1>4 DEF ReadHeader, HeaderInPage, InPage
  <2>2. Plus(off, 4) = off + 4  BY <2>1, PlusExact DEF DecodeTypeOK
  <2>3. off + 8 <= UsizeMax  BY <1>4, <2>2 DEF ReadHeader, HeaderInPage, InPage, DecodeTypeOK
  <2>4. Plus(off, 8) = off + 8  BY <2>3, PlusExact DEF DecodeTypeOK
  <2>5. off + ENTRY_HEADER_SIZE <= size
    BY <1>0, <1>4, <2>4 DEF ReadHeader, HeaderInPage, InPage, DecodeTypeOK, ENTRY_HEADER_SIZE
  <2>6. ksize' \in 0 .. UsizeMax /\ dsize' \in 0 .. UsizeMax
    <3>1. ksize' \in U32 /\ (dsize' \in U32 \/ dsize' = 0)
      BY <1>4 DEF ReadHeader
    <3>2. U32 \subseteq 0 .. UsizeMax /\ 0 \in 0 .. UsizeMax
      BY <1>0, DecodeAssumption
    <3> QED  BY <3>1, <3>2
  <2> QED
    BY <1>4, <2>5, <2>6
    DEF ReadHeader, DecodeTypeOK, LinpInPage, HeaderRead, PayloadChecked, KeyDecoded, DataDecoded
<1>5. ASSUME pc \in {"payload", "key", "data"}
      PROVE  Payload = off + ENTRY_HEADER_SIZE
  <2>1. off + ENTRY_HEADER_SIZE <= UsizeMax
    BY <1>0, <1>5 DEF HeaderRead, DecodeTypeOK, ENTRY_HEADER_SIZE
  <2> QED  BY <2>1, PlusExact DEF Payload, DecodeTypeOK, ENTRY_HEADER_SIZE
<1>6. CASE CheckPayload
  BY <1>5, <1>6
  DEF CheckPayload, PayloadInPage, DecodeTypeOK, LinpInPage, HeaderRead, PayloadChecked,
      KeyDecoded, DataDecoded
<1>7. CASE DecodeKey
  <2>1. keyItem' \in Items(off + ENTRY_HEADER_SIZE, ksize, bigkey)
    BY <1>5, <1>7 DEF DecodeKey, KeyItems
  <2>2. off + ENTRY_HEADER_SIZE \in Nat /\ ksize \in Nat
    BY <1>0 DEF DecodeTypeOK, ENTRY_HEADER_SIZE
  <2>3. keyItem'.off = off + ENTRY_HEADER_SIZE /\ keyItem'.len \in 0 .. ksize
    BY <2>1, <2>2, ItemInPlace
  <2> QED
    BY <1>7, <2>3
    DEF DecodeKey, DecodeTypeOK, LinpInPage, HeaderRead, PayloadChecked, KeyDecoded, DataDecoded
<1>8. CASE DecodeData
  <2>1. off + ENTRY_HEADER_SIZE + ksize <= UsizeMax
    BY <1>0, <1>8 DEF DecodeData, PayloadChecked, DecodeTypeOK, ENTRY_HEADER_SIZE
  <2>2. off + ENTRY_HEADER_SIZE \in Nat /\ ksize \in Nat /\ dsize \in Nat
    BY <1>0 DEF DecodeTypeOK, ENTRY_HEADER_SIZE
  <2>3. Plus(Payload, ksize) = off + ENTRY_HEADER_SIZE + ksize
    BY <1>5, <1>8, <2>1, <2>2, PlusExact DEF DecodeData
  <2>4. dataItem' \in Items(off + ENTRY_HEADER_SIZE + ksize, dsize, bigdata)
    BY <1>8, <2>3 DEF DecodeData, DataItems
  <2>5. /\ dataItem'.off = off + ENTRY_HEADER_SIZE + ksize
        /\ dataItem'.len \in 0 .. dsize
    BY <2>2, <2>4, ItemInPlace
  <2> QED
    BY <1>8, <2>5
    DEF DecodeData, DecodeTypeOK, LinpInPage, HeaderRead, PayloadChecked, KeyDecoded, DataDecoded
<1>9. CASE UNCHANGED decodeVars
  BY <1>9
  DEF decodeVars, DecodeTypeOK, LinpInPage, HeaderRead, PayloadChecked, KeyDecoded, DataDecoded
<1> QED
  BY <1>1, <1>2, <1>3, <1>4, <1>6, <1>7, <1>8, <1>9
  DEF DecodeNext, ParseFails, EntryOffsetFails, ReadHeaderFails, CheckPayloadFails,
      DecodeKeyFails, DecodeDataFails

\* The invariant says where the items lie.
LEMMA DecodeImpliesReadable == DecodeInv => ItemsReadable
  BY DecodeAssumption
  DEF DecodeInv, DecodeTypeOK, LinpInPage, PayloadChecked, KeyDecoded, DataDecoded, ItemsReadable,
      PAGE_HEADER_SIZE, ENTRY_HEADER_SIZE

\* What is decoded from a page, whatever it holds, lies in the page, and no
\* sum on the way wraps, on a 32-bit target either.
THEOREM ItemsAlwaysReadable == DecodeSpec => []ItemsReadable
<1>1. DecodeInit => DecodeInv  BY InitEstablishesDecode
<1>2. DecodeInv /\ [DecodeNext]_decodeVars => DecodeInv'  BY NextPreservesDecode
<1>3. DecodeInv => ItemsReadable  BY DecodeImpliesReadable
<1> QED  BY <1>1, <1>2, <1>3, PTL DEF DecodeSpec

-----------------------------------------------------------------------------
(* A file that was written opens everywhere.                               *)

\* What a host reads from what a host wrote, when it swaps for the other's.
LEMMA ReadsBack ==
  ASSUME NEW h \in Hosts, NEW w \in Hosts
  PROVE  /\ \A b \in Quad : ReadU32(h, Ne32(w, b), h # w) = b
         /\ \A b \in Pair : ReadU16(h, Ne16(w, b), h # w) = b
<1>1. ASSUME NEW b \in Quad PROVE ReadU32(h, Ne32(w, b), h # w) = b
  BY SwapTwice DEF ReadU32, Ne32, Hosts
<1>2. ASSUME NEW b \in Pair PROVE ReadU16(h, Ne16(w, b), h # w) = b
  BY SwapTwice DEF ReadU16, Ne16, Hosts
<1> QED  BY <1>1, <1>2

\* A file of two or three pages is a whole number of them.
LEMMA WholePages ==
  ASSUME NEW x \in Nat \ {0}, NEW n \in 2 .. 3
  PROVE  (n * x) % x = 0
<1> DEFINE a == n * x
           q == a \div x
           r == a % x
<1>1. a \in Nat
  OBVIOUS
<1> HIDE DEF a
<1>2. q \in Int /\ r \in 0 .. x - 1 /\ a = x * q + r
  BY <1>1
<1> HIDE DEF q, r
<1>3. n = 2 \/ n = 3
  OBVIOUS
<1>4. (n = 2 => a = x + x) /\ (n = 3 => a = x + x + x)
  BY DEF a
<1>5. (q <= 1 => x * q <= x) /\ (q >= 4 => x * q >= 4 * x)
  BY <1>2
<1>6. /\ q = 2 => x * q = x + x
      /\ q = 3 => x * q = x + x + x
  OBVIOUS
<1>7. r = 0
  <2> DEFINE y == x * q
  <2>1. y \in Int
    BY <1>2
  <2>2. /\ q <= 1 => y <= x
        /\ q = 2 => y = x + x
        /\ q = 3 => y = x + x + x
        /\ q >= 4 => y >= x + x + x + x
    BY <1>5, <1>6
  <2>3. a = y + r
    BY <1>2
  <2> HIDE DEF y
  <2> QED  BY <1>1, <1>2, <1>3, <1>4, <2>1, <2>2, <2>3
<1> QED  BY <1>7 DEF r, a

\* The page sizes that Db::open takes are those that are written.
GoodPsizes == \A b \in PsizeWords : GoodPsize(b)

\* The file is as the writer left it.
Written ==
  writer \in Hosts =>
    /\ field32 \in Fields32
    /\ field16 \in Fields16
    /\ \E psize \in PsizeWords, n \in 2 .. 3 :
         raw = [len |-> n * Num(psize), meta |-> build_meta(writer, psize),
                hdr32 |-> Ne32(writer, field32), hdr16 |-> Ne16(writer, field16)]

\* Db::open finds nothing wrong with such a file.
LEMMA OpensWritten ==
  ASSUME GoodPsizes, Written, writer \in Hosts, NEW h \in Hosts
  PROVE  /\ OpenResult(h) = [is |-> "ok", swap |-> h # writer,
                             psize |-> ReadU32(writer, raw.meta[8], FALSE)]
         /\ ReadU32(h, raw.hdr32, h # writer) = field32
         /\ ReadU16(h, raw.hdr16, h # writer) = field16
<1>1. PICK psize \in PsizeWords, n \in 2 .. 3 :
        raw = [len |-> n * Num(psize), meta |-> build_meta(writer, psize),
               hdr32 |-> Ne32(writer, field32), hdr16 |-> Ne16(writer, field16)]
  BY DEF Written
<1>2. psize \in Quad /\ field32 \in Quad /\ field16 \in Pair
  BY MetaAssumption DEF Written
<1>3. BTREE_MAGIC \in Quad /\ BTREE_VERSION \in Quad /\ B_NODUPS \in Quad
  BY DEF BTREE_MAGIC, BTREE_VERSION, B_NODUPS, Quad, Byte
<1>4. /\ raw.meta[0] = Ne32(writer, BTREE_MAGIC)
      /\ raw.meta[4] = Ne32(writer, BTREE_VERSION)
      /\ raw.meta[8] = Ne32(writer, psize)
      /\ raw.meta[20] = Ne32(writer, B_NODUPS)
  BY <1>1 DEF build_meta, Offsets
<1>5. raw.len = n * Num(psize) /\ raw.hdr32 = Ne32(writer, field32)
        /\ raw.hdr16 = Ne16(writer, field16)
  BY <1>1
<1>6. ParseSwap(h) = (h # writer)
  <2>1. Ne32(h, Ne32(h, BTREE_MAGIC)) = BTREE_MAGIC
    BY <1>3, SwapTwice DEF Ne32, Hosts
  <2>2. h # writer => Ne32(h, Ne32(writer, BTREE_MAGIC)) = Swap32(BTREE_MAGIC)
    BY DEF Ne32, Hosts
  <2> QED  BY <1>4, <2>1, <2>2, MagicTellsOrder DEF ParseSwap
<1>7. /\ Parsed(h, 0) = BTREE_MAGIC
      /\ Parsed(h, 4) = BTREE_VERSION
      /\ Parsed(h, 8) = psize
      /\ Parsed(h, 20) = B_NODUPS
  BY <1>2, <1>3, <1>4, <1>6, ReadsBack DEF Parsed
<1>8. GoodPsize(psize) /\ Num(psize) \in Int /\ 24 <= Num(psize)
  <2>1. GoodPsize(psize)
    BY DEF GoodPsizes
  <2>2. Num(psize) \in MIN_PSIZE .. MAX_PSIZE
    BY <2>1 DEF GoodPsize
  <2>3. MIN_PSIZE \in Int /\ MAX_PSIZE \in Int /\ 24 <= MIN_PSIZE
    BY SMT DEF MIN_PSIZE, MAX_PSIZE
  <2> QED  BY <2>1, <2>2, <2>3
<1>9. raw.len \in Int /\ raw.len >= 24 /\ raw.len % Num(psize) = 0
  <2> DEFINE x == Num(psize)
  <2>1. x \in Int /\ 24 <= x
    BY <1>8
  <2> HIDE DEF x
  <2>2. x \in Nat \ {0} /\ n * x \in Int /\ n * x >= 24
    BY <2>1
  <2>3. (n * x) % x = 0
    BY <2>2, WholePages
  <2> QED  BY <1>5, <2>2, <2>3 DEF x
<1>10. ReadU32(writer, raw.meta[8], FALSE) = psize
  BY <1>2, <1>4, SwapTwice DEF ReadU32, Ne32
<1>11. OpenResult(h) = [is |-> "ok", psize |-> psize, swap |-> h # writer]
  <2>1. ~ (raw.len < META_SIZE)
    BY <1>9 DEF META_SIZE
  <2> QED  BY <1>6, <1>7, <1>8, <1>9, <2>1 DEF OpenResult
<1>12. /\ ReadU32(h, raw.hdr32, h # writer) = field32
       /\ ReadU16(h, raw.hdr16, h # writer) = field16
  BY <1>2, <1>5, ReadsBack
<1> QED  BY <1>10, <1>11, <1>12

\* If the page sizes written are among those that Db::open takes (even, from
\* 512 to 32768), then a whole file opens on hosts of both byte orders,
\* whichever wrote it, and its page size and the fields of its pages are read
\* as they were written: for every such size and every content of the fields.
THEOREM OpensOnEveryHost == GoodPsizes => (MetaSpec => []OpensAnywhere)
<1> DEFINE Inv == Written /\ MetaInv
<1> SUFFICES ASSUME GoodPsizes PROVE MetaSpec => []OpensAnywhere
  OBVIOUS
<1>1. MetaInit => Inv
  <2>1. MetaInit => Written
    BY DEF MetaInit, InitWritten, InitOther, Written, Hosts
  <2> QED  BY <2>1, InitEstablishesMeta
<1>2. Inv /\ [MetaNext]_metaVars => Inv'
  <2>1. Written /\ [MetaNext]_metaVars => Written'
    BY DEF Written, MetaNext, Open, metaVars, build_meta, Ne32, Ne16
  <2> QED  BY <2>1, NextPreservesMeta
<1>3. Inv => OpensAnywhere
  <2> SUFFICES ASSUME Inv, NEW h \in Hosts, writer \in Hosts, opened[h] # NotOpened
               PROVE  /\ opened[h].is = "ok"
                      /\ opened[h].swap = (h # writer)
                      /\ opened[h].psize = ReadU32(writer, raw.meta[8], FALSE)
                      /\ Header32(h) = field32
                      /\ Header16(h) = field16
    BY DEF OpensAnywhere
  <2>1. opened[h] = OpenResult(h)
    BY DEF MetaInv
  <2>2. /\ OpenResult(h) = [is |-> "ok", swap |-> h # writer,
                              psize |-> ReadU32(writer, raw.meta[8], FALSE)]
        /\ ReadU32(h, raw.hdr32, h # writer) = field32
        /\ ReadU16(h, raw.hdr16, h # writer) = field16
    BY OpensWritten
  <2>3. /\ opened[h].is = "ok"
        /\ opened[h].swap = (h # writer)
        /\ opened[h].psize = ReadU32(writer, raw.meta[8], FALSE)
    BY <2>1, <2>2
  <2> QED  BY <2>2, <2>3 DEF Header32, Header16
<1> QED  BY <1>1, <1>2, <1>3, PTL DEF MetaSpec

-----------------------------------------------------------------------------
(* The prefix rule, on byte strings of any length.                         *)

Strings == Seq(Nat)

\* What is left of a string that is cut short.
LEMMA TruncatedFacts ==
  ASSUME NEW b \in Strings, NEW n \in 0 .. Len(b)
  PROVE  /\ Truncated(b, n) \in Strings /\ Len(Truncated(b, n)) = n
         /\ DOMAIN Truncated(b, n) = 1 .. n
         /\ \A j \in 1 .. n : Truncated(b, n)[j] = b[j]
<1> DEFINE k == 1
           t == SubSeq(b, k, n)
<1>1. k \in Nat \ {0} /\ k = 1 /\ Len(b) \in Nat
  BY DEF Strings
<1> HIDE DEF k
<1>2. /\ t \in Seq(Nat) /\ Len(t) = IF k <= n THEN n - k + 1 ELSE 0
      /\ \A j \in 1 .. Len(t) : t[j] = b[k + j - 1]
  BY <1>1, SubSeqFacts DEF Strings
<1>3. Truncated(b, n) = t
  BY <1>1 DEF Truncated
<1> HIDE DEF t
<1>4. Len(t) = n
  BY <1>1, <1>2
<1>5. \A j \in 1 .. n : t[j] = b[j]
  <2> TAKE j \in 1 .. n
  <2>1. k + j - 1 = j
    BY <1>1
  <2> QED  BY <1>2, <1>4, <2>1
<1>6. DOMAIN t = 1 .. n
  BY <1>2, <1>4, SeqFacts
<1> QED  BY <1>2, <1>3, <1>4, <1>5, <1>6 DEF Strings

\* A string is at or above what is left of it when it is cut short.
LEMMA TruncatedIsBelow ==
  ASSUME NEW b \in Strings, NEW n \in 0 .. Len(b)
  PROVE  PrecedesEq(Truncated(b, n), b)
<1> DEFINE t == Truncated(b, n)
<1>1. t \in Strings /\ Len(t) = n /\ \A j \in 1 .. n : t[j] = b[j]
  BY TruncatedFacts
<1>2. Len(b) \in Nat /\ n \in Nat /\ n <= Len(b)
  BY DEF Strings
<1>3. SubSeq(b, 1, n) = t
  BY DEF Truncated
<1> HIDE DEF t
<1>4. CASE n = Len(b)
  <2>1. t = b
    BY <1>1, <1>4, SameSeq DEF Strings
  <2> QED  BY <2>1 DEF PrecedesEq, t
<1>5. CASE n < Len(b)
  <2>1. Precedes(t, b)
    BY <1>1, <1>3, <1>5 DEF Precedes
  <2> QED  BY <2>1 DEF PrecedesEq, t
<1> QED  BY <1>2, <1>4, <1>5

\* How one string comes to be below another: it ends where the other goes on,
\* or a byte decides.
LEMMA PrecedesCases ==
  ASSUME NEW a \in Strings, NEW b \in Strings, Precedes(a, b)
  PROVE  \/ /\ Len(a) < Len(b)
            /\ \A j \in 1 .. Len(a) : a[j] = b[j]
         \/ \E i \in 1 .. Len(a) :
              /\ i <= Len(b) /\ a[i] < b[i]
              /\ \A j \in 1 .. i - 1 : a[j] = b[j]
<1>1. /\ Len(a) \in Nat /\ Len(b) \in Nat
      /\ DOMAIN a = 1 .. Len(a) /\ DOMAIN b = 1 .. Len(b)
  BY SeqFacts DEF Strings
<1>2. CASE Len(a) < Len(b) /\ SubSeq(b, 1, Len(a)) = a
  <2>1. Len(a) \in 0 .. Len(b)
    BY <1>1, <1>2
  <2>2. Truncated(b, Len(a)) = a
    BY <1>2 DEF Truncated
  <2>3. \A j \in 1 .. Len(a) : Truncated(b, Len(a))[j] = b[j]
    BY <2>1, TruncatedFacts
  <2> QED  BY <1>2, <2>2, <2>3
<1>3. CASE \E i \in DOMAIN a \cap DOMAIN b :
             a[i] < b[i] /\ \A j \in 1 .. i - 1 : a[j] = b[j]
  BY <1>1, <1>3
<1> QED  BY <1>2, <1>3 DEF Precedes

\* No cut that ends before the strings differ is above the lower one.
LEMMA TooShort ==
  ASSUME NEW a \in Strings, NEW b \in Strings, NEW n \in 0 .. Len(b),
         n <= Len(a), \A j \in 1 .. n : a[j] = b[j]
  PROVE  ~ Precedes(a, Truncated(b, n))
<1> DEFINE t == Truncated(b, n)
<1>1. t \in Strings /\ Len(t) = n /\ \A j \in 1 .. n : t[j] = b[j]
  BY TruncatedFacts
<1>2. Len(a) \in Nat /\ \A j \in 1 .. Len(a) : a[j] \in Nat
  BY DEF Strings
<1> HIDE DEF t
<1>3. SUFFICES ASSUME Precedes(a, t) PROVE FALSE
  BY DEF t
<1>4. PICK i \in 1 .. Len(a) : i <= Len(t) /\ a[i] < t[i]
  BY <1>1, <1>2, <1>3, PrecedesCases
<1>5. i \in 1 .. n
  BY <1>1, <1>4
<1>6. t[i] = a[i] /\ a[i] \in Nat
  BY <1>1, <1>2, <1>5
<1> QED  BY <1>4, <1>6

\* What bt_defpfx returns for two strings in order: the first place where the
\* byte of the lower one is smaller, or one place behind its end.
LEMMA DefpfxFacts ==
  ASSUME NEW a \in Strings, NEW b \in Strings, Precedes(a, b)
  PROVE  \E i \in Nat \ {0} :
           /\ BtDefpfx(a, b) = i
           /\ i <= Len(b) /\ i <= Len(a) + 1
           /\ \A j \in 1 .. i - 1 : a[j] = b[j]
           /\ i <= Len(a) => a[i] < b[i]
<1> DEFINE common == DOMAIN a \cap DOMAIN b
           differ == {i \in common : a[i] # b[i]}
           First(i) == i \in differ /\ \A j \in differ : i <= j
<1>1. /\ Len(a) \in Nat /\ Len(b) \in Nat
      /\ DOMAIN a = 1 .. Len(a) /\ DOMAIN b = 1 .. Len(b)
      /\ \A j \in 1 .. Len(a) : a[j] \in Nat
      /\ \A j \in 1 .. Len(b) : b[j] \in Nat
  BY SeqFacts DEF Strings
<1>2. \A j : j \in differ <=> j \in 1 .. Len(a) /\ j <= Len(b) /\ a[j] # b[j]
  BY <1>1
<1>3. BtDefpfx(a, b) = IF differ # {} THEN CHOOSE i \in differ : \A j \in differ : i <= j
                       ELSE IF Len(a) < Len(b) THEN Len(a) + 1 ELSE Len(a)
  BY DEF BtDefpfx
<1> HIDE DEF differ
<1>4. CASE \E i \in 1 .. Len(a) :
             /\ i <= Len(b) /\ a[i] < b[i]
             /\ \A j \in 1 .. i - 1 : a[j] = b[j]
  <2>1. PICK i \in 1 .. Len(a) :
          /\ i <= Len(b) /\ a[i] < b[i]
          /\ \A j \in 1 .. i - 1 : a[j] = b[j]
    BY <1>4
  <2>2. i \in differ
    <3>1. i \in 1 .. Len(b) /\ a[i] \in Nat /\ b[i] \in Nat
      BY <1>1, <2>1
    <3>2. a[i] # b[i]
      BY <2>1, <3>1
    <3> QED  BY <1>2, <2>1, <3>2
  <2>3. \A j \in differ : i <= j
    BY <1>1, <1>2, <2>1
  <2>4. \A k \in differ : (\A j \in differ : k <= j) => k = i
    BY <1>1, <1>2, <2>1, <2>2, <2>3
  <2>5. (CHOOSE k \in differ : \A j \in differ : k <= j) = i
    BY <2>2, <2>3, <2>4
  <2>6. BtDefpfx(a, b) = i
    BY <1>3, <2>2, <2>5
  <2> QED  BY <1>1, <2>1, <2>6
<1>5. CASE Len(a) < Len(b) /\ \A j \in 1 .. Len(a) : a[j] = b[j]
  <2>1. differ = {}
    BY <1>2, <1>5
  <2>2. BtDefpfx(a, b) = Len(a) + 1
    BY <1>3, <1>5, <2>1
  <2> QED  BY <1>1, <1>5, <2>2
<1> QED  BY <1>4, <1>5, PrecedesCases

\* The separator that the prefix rule makes of two strings in order.
LEMMA PrefixDivides ==
  ASSUME NEW a \in Strings, NEW b \in Strings, Precedes(a, b)
  PROVE  LET s == Truncated(b, BtDefpfx(a, b))
         IN  /\ Precedes(a, s)
             /\ PrecedesEq(s, b)
             /\ \A n \in 0 .. Len(s) - 1 : ~ Precedes(a, Truncated(b, n))
<1>1. PICK i \in Nat \ {0} :
        /\ BtDefpfx(a, b) = i
        /\ i <= Len(b) /\ i <= Len(a) + 1
        /\ \A j \in 1 .. i - 1 : a[j] = b[j]
        /\ i <= Len(a) => a[i] < b[i]
  BY DefpfxFacts
<1>2. Len(a) \in Nat /\ Len(b) \in Nat /\ DOMAIN a = 1 .. Len(a) /\ i \in 0 .. Len(b)
  BY <1>1, SeqFacts DEF Strings
<1> DEFINE s == Truncated(b, i)
<1>3. /\ s \in Strings /\ Len(s) = i /\ DOMAIN s = 1 .. i
      /\ \A j \in 1 .. i : s[j] = b[j]
  BY <1>2, TruncatedFacts
<1>4. PrecedesEq(s, b)
  BY <1>2, TruncatedIsBelow
<1> HIDE DEF s
<1>5. Precedes(a, s)
  <2>1. CASE i <= Len(a)
    <3>1. i \in DOMAIN a \cap DOMAIN s /\ s[i] = b[i]
      BY <1>1, <1>2, <1>3, <2>1
    <3>2. \A j \in 1 .. i - 1 : a[j] = s[j]
      BY <1>1, <1>3
    <3> QED  BY <1>1, <2>1, <3>1, <3>2 DEF Precedes
  <2>2. CASE i = Len(a) + 1
    <3> DEFINE n == Len(a)
               t == Truncated(s, n)
    <3>1. n \in 0 .. Len(s) /\ n < Len(s)
      BY <1>2, <1>3, <2>2
    <3>2. t \in Strings /\ Len(t) = n /\ \A j \in 1 .. n : t[j] = s[j]
      BY <1>3, <3>1, TruncatedFacts
    <3>3. \A j \in 1 .. n : a[j] = s[j]
      BY <1>1, <1>2, <1>3, <2>2
    <3>4. t = a
      <4> HIDE DEF t
      <4>1. Len(t) = Len(a) /\ \A j \in 1 .. Len(t) : t[j] = a[j]
        BY <3>2, <3>3
      <4> QED  BY <3>2, <4>1, SameSeq DEF Strings
    <3>5. SubSeq(s, 1, Len(a)) = a
      BY <3>4 DEF Truncated
    <3> QED  BY <3>1, <3>5 DEF Precedes
  <2> QED  BY <1>1, <1>2, <2>1, <2>2
<1>6. ASSUME NEW n \in 0 .. Len(s) - 1 PROVE ~ Precedes(a, Truncated(b, n))
  <2>1. n \in 0 .. Len(b) /\ n <= Len(a) /\ \A j \in 1 .. n : a[j] = b[j]
    BY <1>1, <1>2, <1>3
  <2> QED  BY <2>1, TooShort
<1> QED  BY <1>1, <1>4, <1>5, <1>6 DEF s

\* The bytes are numbers.
StringsTypeOK == left \in Strings /\ right \in Strings

\* The separator that bt_defpfx and write_binternal_inline make divides the
\* two pages and is the shortest that does, for strings of any length over any
\* alphabet of bytes.
THEOREM SeparatorAlwaysDivides ==
  StringsInit /\ [][StringsNext]_stringVars => []SeparatorDivides
<1>1. StringsInit => StringsTypeOK
  BY DEF StringsInit, StringsTypeOK, Strings
<1>2. StringsTypeOK /\ [StringsNext]_stringVars => StringsTypeOK'
  <2> SUFFICES ASSUME StringsTypeOK, [StringsNext]_stringVars PROVE StringsTypeOK'
    OBVIOUS
  <2>1. \A x \in 0 .. NLetters - 1 : x \in Nat
    BY AlphabetAssumption
  <2>2. CASE GrowLeft
    BY <2>1, <2>2, AppendFacts DEF GrowLeft, StringsTypeOK, Strings
  <2>3. CASE GrowRight
    BY <2>1, <2>3, AppendFacts DEF GrowRight, StringsTypeOK, Strings
  <2>4. CASE UNCHANGED stringVars
    BY <2>4 DEF stringVars, StringsTypeOK
  <2> QED  BY <2>2, <2>3, <2>4 DEF StringsNext
<1>3. StringsTypeOK => SeparatorDivides
  BY PrefixDivides DEF StringsTypeOK, SeparatorDivides, Separator
<1> QED  BY <1>1, <1>2, <1>3, PTL

-----------------------------------------------------------------------------
(* The order of strings, by their first difference.                        *)

\* Agreement up to a place, read without SubSeq.
Agree(a, b, n) == \A j \in 1 .. n : a[j] = b[j]

\* Two strings that do not agree have a first difference.
LEMMA FirstDifference ==
  ASSUME NEW a, NEW b, NEW n \in Nat, ~ Agree(a, b, n)
  PROVE  \E i \in 1 .. n : a[i] # b[i] /\ Agree(a, b, i - 1)
<1> DEFINE T == {i \in 1 .. n : a[i] # b[i]}
<1>1. T \in SUBSET Nat /\ T # {}
  BY DEF Agree
<1> HIDE DEF T
<1>2. PICK i \in T : \A j \in T : i <= j
  BY <1>1, LeastNat
<1>3. i \in 1 .. n /\ a[i] # b[i] /\ \A j \in 1 .. n : a[j] # b[j] => i <= j
  BY <1>2 DEF T
<1>4. Agree(a, b, i - 1)
  <2> SUFFICES ASSUME NEW j \in 1 .. i - 1 PROVE a[j] = b[j]
    BY DEF Agree
  <2>1. j \in 1 .. n /\ ~ (i <= j)
    BY <1>3
  <2> QED  BY <1>3, <2>1
<1> QED  BY <1>3, <1>4

\* The byte at the first difference decides.
LEMMA ByteDecides ==
  ASSUME NEW a \in Strings, NEW b \in Strings, NEW i \in 1 .. Len(a), i <= Len(b),
         a[i] # b[i], Agree(a, b, i - 1)
  PROVE  Precedes(a, b) <=> a[i] < b[i]
<1>1. /\ Len(a) \in Nat /\ Len(b) \in Nat
      /\ DOMAIN a = 1 .. Len(a) /\ DOMAIN b = 1 .. Len(b)
      /\ \A j \in 1 .. Len(a) : a[j] \in Nat
      /\ \A j \in 1 .. Len(b) : b[j] \in Nat
  BY SeqFacts DEF Strings
<1>2. i \in DOMAIN a \cap DOMAIN b
  BY <1>1
<1>3. a[i] < b[i] => Precedes(a, b)
  BY <1>2 DEF Precedes, Agree
<1>4. ASSUME Precedes(a, b) PROVE a[i] < b[i]
  <2>1. CASE Len(a) < Len(b) /\ \A j \in 1 .. Len(a) : a[j] = b[j]
    BY <2>1
  <2>2. CASE \E k \in 1 .. Len(a) :
               k <= Len(b) /\ a[k] < b[k] /\ \A j \in 1 .. k - 1 : a[j] = b[j]
    <3>1. PICK k \in 1 .. Len(a) :
            k <= Len(b) /\ a[k] < b[k] /\ \A j \in 1 .. k - 1 : a[j] = b[j]
      BY <2>2
    <3>2. ~ (i < k)
      <4> SUFFICES ASSUME i < k PROVE FALSE
        OBVIOUS
      <4>1. i \in 1 .. k - 1
        OBVIOUS
      <4> QED  BY <3>1, <4>1
    <3>3. ~ (k < i)
      <4> SUFFICES ASSUME k < i PROVE FALSE
        OBVIOUS
      <4>1. k \in 1 .. i - 1 /\ k \in 1 .. Len(b)
        BY <1>1, <3>1
      <4>2. a[k] = b[k] /\ b[k] \in Nat
        BY <1>1, <4>1 DEF Agree
      <4> QED  BY <3>1, <4>2
    <3>4. i = k
      BY <1>1, <3>2, <3>3
    <3> QED  BY <3>1, <3>4
  <2> QED  BY <1>4, <2>1, <2>2, PrecedesCases
<1> QED  BY <1>3, <1>4

\* A string that ends where another goes on is below it.
LEMMA EndDecides ==
  ASSUME NEW a \in Strings, NEW b \in Strings, Len(a) < Len(b), Agree(a, b, Len(a))
  PROVE  Precedes(a, b)
<1> DEFINE n == Len(a)
           t == Truncated(b, n)
<1>1. n \in Nat /\ n \in 0 .. Len(b)
  BY DEF Strings
<1>2. t \in Strings /\ Len(t) = n /\ \A j \in 1 .. n : t[j] = b[j]
  <2> HIDE DEF n
  <2> QED  BY <1>1, TruncatedFacts
<1>3. \A j \in 1 .. Len(a) : a[j] = t[j]
  BY <1>2 DEF Agree
<1> HIDE DEF t
<1>4. a = t
  BY <1>2, <1>3, SameSeq DEF Strings
<1> QED  BY <1>4 DEF t, Truncated, Precedes

\* No string is below one that it begins with.
LEMMA NotBelowItsBeginning ==
  ASSUME NEW a \in Strings, NEW b \in Strings, Len(b) <= Len(a), Agree(a, b, Len(b))
  PROVE  ~ Precedes(a, b)
<1>1. Len(a) \in Nat /\ Len(b) \in Nat /\ \A j \in 1 .. Len(b) : b[j] \in Nat
  BY SeqFacts DEF Strings
<1>2. SUFFICES ASSUME Precedes(a, b) PROVE FALSE
  OBVIOUS
<1>3. ~ (Len(a) < Len(b))
  BY <1>1
<1>4. PICK i \in 1 .. Len(a) : i <= Len(b) /\ a[i] < b[i]
  BY <1>2, <1>3, PrecedesCases
<1>5. i \in 1 .. Len(b)
  BY <1>4
<1>6. a[i] = b[i] /\ b[i] \in Nat
  BY <1>1, <1>5 DEF Agree
<1> QED  BY <1>4, <1>6

\* Behind a part that is the same, the rests of two strings decide their order
\* if they differ.
LEMMA RestsDecide ==
  ASSUME NEW a \in Strings, NEW b \in Strings, NEW c \in Nat, NEW n \in Nat,
         c + n <= Len(a), c + n <= Len(b), Agree(a, b, c),
         NEW p \in Strings, NEW q \in Strings, Len(p) = n, Len(q) = n,
         \A j \in 1 .. n : p[j] = a[c + j] /\ q[j] = b[c + j], p # q
  PROVE  /\ Precedes(p, q) <=> Precedes(a, b)
         /\ \E i \in 1 .. c + n : a[i] # b[i]
<1>1. ~ Agree(p, q, n)
  <2> SUFFICES ASSUME Agree(p, q, n) PROVE FALSE
    OBVIOUS
  <2>1. p = q
    BY SameSeq DEF Agree, Strings
  <2> QED  BY <2>1
<1>2. PICK i \in 1 .. n : p[i] # q[i] /\ Agree(p, q, i - 1)
  BY <1>1, FirstDifference
<1> DEFINE k == c + i
<1>3. k \in 1 .. c + n /\ k \in 1 .. Len(a) /\ k <= Len(b)
  BY DEF Strings
<1>4. p[i] = a[k] /\ q[i] = b[k]
  OBVIOUS
<1>5. Agree(a, b, k - 1)
  <2> SUFFICES ASSUME NEW j \in 1 .. k - 1 PROVE a[j] = b[j]
    BY DEF Agree
  <2>1. CASE j <= c
    BY <2>1 DEF Agree
  <2>2. CASE ~ (j <= c)
    <3> DEFINE m == j - c
    <3>1. m \in 1 .. i - 1 /\ m \in 1 .. n /\ c + m = j
      BY <2>2
    <3> HIDE DEF m
    <3>2. p[m] = q[m] /\ p[m] = a[c + m] /\ q[m] = b[c + m]
      BY <1>2, <3>1 DEF Agree
    <3> QED  BY <3>1, <3>2
  <2> QED  BY <2>1, <2>2
<1> HIDE DEF k
<1>6. a[k] # b[k]
  BY <1>2, <1>4
<1>7. Precedes(a, b) <=> a[k] < b[k]
  BY <1>3, <1>5, <1>6, ByteDecides
<1>8. i \in 1 .. Len(p) /\ i <= Len(q)
  OBVIOUS
<1>9. Precedes(p, q) <=> p[i] < q[i]
  BY <1>2, <1>8, ByteDecides
<1> QED  BY <1>3, <1>4, <1>6, <1>7, <1>9

-----------------------------------------------------------------------------
(* Ranks.  The tree modules take a key to be its rank among the strings    *)
(* that may occur: what they assume of ranks is so of every set of strings.*)

\* A byte puts one string below another.
LEMMA ByteBelow ==
  ASSUME NEW a \in Strings, NEW b \in Strings, NEW i \in 1 .. Len(a), i <= Len(b),
         a[i] < b[i], \A j \in 1 .. i - 1 : a[j] = b[j]
  PROVE  Precedes(a, b)
<1>1. i \in DOMAIN a \cap DOMAIN b
  <2>1. DOMAIN a = 1 .. Len(a) /\ DOMAIN b = 1 .. Len(b)
    BY SeqFacts DEF Strings
  <2> QED  BY <2>1
<1> QED  BY <1>1 DEF Precedes

\* No string is below itself.
LEMMA PrecedesNotSelf ==
  ASSUME NEW a \in Strings
  PROVE  ~ Precedes(a, a)
  BY NotBelowItsBeginning DEF Agree, Strings

\* What is below a lower string is below the upper one.
LEMMA PrecedesTransitive ==
  ASSUME NEW a \in Strings, NEW b \in Strings, NEW c \in Strings,
         Precedes(a, b), Precedes(b, c)
  PROVE  Precedes(a, c)
<1> DEFINE Ends(s, t) == Len(s) < Len(t) /\ \A j \in 1 .. Len(s) : s[j] = t[j]
           Byte0(s, t, i) == /\ i \in 1 .. Len(s) /\ i <= Len(t) /\ s[i] < t[i]
                             /\ \A j \in 1 .. i - 1 : s[j] = t[j]
<1>1. /\ Ends(a, b) \/ \E i : Byte0(a, b, i)
      /\ Ends(b, c) \/ \E i : Byte0(b, c, i)
  BY PrecedesCases
<1>2. /\ Len(a) \in Nat /\ Len(b) \in Nat /\ Len(c) \in Nat
      /\ \A j \in 1 .. Len(a) : a[j] \in Nat
      /\ \A j \in 1 .. Len(b) : b[j] \in Nat
      /\ \A j \in 1 .. Len(c) : c[j] \in Nat
  BY DEF Strings
<1>3. CASE Ends(a, b) /\ Ends(b, c)
  <2>1. Len(a) < Len(c)
    BY <1>2, <1>3
  <2>2. Agree(a, c, Len(a))
    BY <1>2, <1>3 DEF Agree
  <2> QED  BY <2>1, <2>2, EndDecides
<1>4. ASSUME Ends(a, b), NEW k, Byte0(b, c, k) PROVE Precedes(a, c)
  <2>1. CASE k <= Len(a)
    <3>1. k \in 1 .. Len(a) /\ k <= Len(c)
      BY <1>2, <1>4, <2>1
    <3>2. a[k] < c[k]
      BY <1>4, <3>1
    <3>3. \A j \in 1 .. k - 1 : a[j] = c[j]
      BY <1>2, <1>4, <3>1
    <3> QED  BY <3>1, <3>2, <3>3, ByteBelow
  <2>2. CASE ~ (k <= Len(a))
    <3>1. Len(a) < Len(c)
      BY <1>2, <1>4, <2>2
    <3>2. Agree(a, c, Len(a))
      BY <1>2, <1>4, <2>2 DEF Agree
    <3> QED  BY <3>1, <3>2, EndDecides
  <2> QED  BY <2>1, <2>2
<1>5. ASSUME NEW i, Byte0(a, b, i), Ends(b, c) PROVE Precedes(a, c)
  <2>1. i \in 1 .. Len(a) /\ i \in 1 .. Len(b) /\ i <= Len(c)
    BY <1>2, <1>5
  <2>2. a[i] < c[i]
    BY <1>5, <2>1
  <2>3. \A j \in 1 .. i - 1 : a[j] = c[j]
    BY <1>2, <1>5, <2>1
  <2> QED  BY <2>1, <2>2, <2>3, ByteBelow
<1>6. ASSUME NEW i, Byte0(a, b, i), NEW k, Byte0(b, c, k) PROVE Precedes(a, c)
  <2>1. /\ i \in 1 .. Len(a) /\ i \in 1 .. Len(b)
        /\ k \in 1 .. Len(b) /\ k \in 1 .. Len(c)
    BY <1>2, <1>6
  <2>2. /\ a[i] \in Nat /\ b[i] \in Nat /\ b[k] \in Nat /\ c[k] \in Nat
        /\ a[i] < b[i] /\ b[k] < c[k]
    BY <1>2, <1>6, <2>1
  <2>3. CASE i <= k
    <3>1. i \in 1 .. Len(c)
      BY <1>2, <2>1, <2>3
    <3>2. a[i] < c[i]
      <4>1. CASE i = k
        BY <2>2, <4>1
      <4>2. CASE i # k
        <5>1. i \in 1 .. k - 1
          BY <2>1, <2>3, <4>2
        <5>2. b[i] = c[i]
          BY <1>6, <5>1
        <5> QED  BY <2>2, <5>2
      <4> QED  BY <4>1, <4>2
    <3>3. \A j \in 1 .. i - 1 : a[j] = c[j]
      <4> TAKE j \in 1 .. i - 1
      <4>1. j \in 1 .. k - 1
        BY <2>1, <2>3
      <4> QED  BY <1>6, <4>1
    <3> QED  BY <2>1, <3>1, <3>2, <3>3, ByteBelow
  <2>4. CASE k < i
    <3>1. k \in 1 .. Len(a) /\ k \in 1 .. i - 1
      BY <1>2, <2>1, <2>4
    <3>2. a[k] < c[k]
      BY <1>6, <2>2, <3>1
    <3>3. \A j \in 1 .. k - 1 : a[j] = c[j]
      <4> TAKE j \in 1 .. k - 1
      <4>1. j \in 1 .. i - 1
        BY <2>1, <2>4
      <4> QED  BY <1>6, <4>1
    <3> QED  BY <2>1, <3>1, <3>2, <3>3, ByteBelow
  <2> QED  BY <2>1, <2>3, <2>4
<1> QED  BY <1>1, <1>3, <1>4, <1>5, <1>6

\* Of two strings one is below the other.
LEMMA PrecedesTotal ==
  ASSUME NEW a \in Strings, NEW b \in Strings, a # b
  PROVE  Precedes(a, b) \/ Precedes(b, a)
<1> DEFINE n == IF Len(a) < Len(b) THEN Len(a) ELSE Len(b)
<1>1. /\ Len(a) \in Nat /\ Len(b) \in Nat /\ n \in Nat
      /\ n <= Len(a) /\ n <= Len(b)
      /\ \A j \in 1 .. Len(a) : a[j] \in Nat
      /\ \A j \in 1 .. Len(b) : b[j] \in Nat
  BY DEF Strings
<1>2. CASE Agree(a, b, n)
  <2>1. CASE Len(a) < Len(b)
    BY <1>2, <2>1, EndDecides
  <2>2. CASE Len(b) < Len(a)
    <3>1. Agree(b, a, Len(b))
      BY <1>1, <1>2, <2>2 DEF Agree
    <3> QED  BY <2>2, <3>1, EndDecides
  <2>3. CASE Len(a) = Len(b)
    <3>1. a = b
      BY <1>2, <2>3, SameSeq DEF Agree, Strings
    <3> QED  BY <3>1
  <2> QED  BY <1>1, <2>1, <2>2, <2>3
<1>3. CASE ~ Agree(a, b, n)
  <2> HIDE DEF n
  <2>1. PICK i \in 1 .. n : a[i] # b[i] /\ Agree(a, b, i - 1)
    BY <1>1, <1>3, FirstDifference
  <2>2. i \in 1 .. Len(a) /\ i \in 1 .. Len(b) /\ i <= Len(a) /\ i <= Len(b)
    BY <1>1, <2>1
  <2>3. a[i] < b[i] \/ b[i] < a[i]
    BY <1>1, <2>1, <2>2
  <2>4. /\ \A j \in 1 .. i - 1 : a[j] = b[j]
        /\ \A j \in 1 .. i - 1 : b[j] = a[j]
    BY <2>1 DEF Agree
  <2> QED  BY <2>2, <2>3, <2>4, ByteBelow
<1> QED  BY <1>2, <1>3

\* The rank of a string among finitely many others is a number, and says
\* which strings are below which.
LEMMA RankFacts ==
  ASSUME NEW U \in SUBSET Strings, IsFiniteSet(U), NEW a \in U, NEW b \in U
  PROVE  /\ Rank(U, a) \in Nat
         /\ Rank(U, a) < Rank(U, b) <=> Precedes(a, b)
         /\ Rank(U, a) = Rank(U, b) <=> a = b
<1> DEFINE Below(s) == {t \in U : Precedes(t, s)}
<1>1. \A s \in U : /\ IsFiniteSet(Below(s)) /\ Cardinality(Below(s)) \in Nat
                   /\ Rank(U, s) = Cardinality(Below(s))
  <2> TAKE s \in U
  <2>1. Below(s) \in SUBSET U
    OBVIOUS
  <2>2. IsFiniteSet(Below(s))
    <3> HIDE DEF Below
    <3> QED  BY <2>1, FS_Subset
  <2>3. Cardinality(Below(s)) \in Nat
    <3> HIDE DEF Below
    <3> QED  BY <2>2, FS_CardinalityType
  <2> QED  BY <2>2, <2>3 DEF Rank
<1>2. ASSUME NEW s \in U, NEW t \in U, Precedes(s, t) PROVE Rank(U, s) < Rank(U, t)
  <2>1. Below(s) \in SUBSET Below(t)
    BY <1>2, PrecedesTransitive
  <2>2. s \in Below(t) /\ s \notin Below(s)
    BY <1>2, PrecedesNotSelf
  <2> HIDE DEF Below
  <2>3. Below(s) # Below(t)
    BY <2>2
  <2>4. /\ Cardinality(Below(s)) <= Cardinality(Below(t))
        /\ Cardinality(Below(s)) = Cardinality(Below(t)) => Below(s) = Below(t)
    BY <1>1, <2>1, FS_Subset
  <2>5. Cardinality(Below(s)) # Cardinality(Below(t))
    BY <2>3, <2>4
  <2> DEFINE x == Cardinality(Below(s))
             y == Cardinality(Below(t))
  <2>6. x \in Nat /\ y \in Nat /\ x <= y /\ x # y /\ Rank(U, s) = x /\ Rank(U, t) = y
    BY <1>1, <2>4, <2>5
  <2> HIDE DEF x, y
  <2> QED  BY <2>6
<1>3. a = b \/ Precedes(a, b) \/ Precedes(b, a)
  BY PrecedesTotal
<1>4. Rank(U, a) \in Nat /\ Rank(U, b) \in Nat
  BY <1>1
<1>5. ~ Precedes(a, a)
  BY PrecedesNotSelf
<1>6. Precedes(a, b) => Rank(U, a) < Rank(U, b)
  BY <1>2
<1>7. Precedes(b, a) => Rank(U, b) < Rank(U, a)
  BY <1>2
<1> QED  BY <1>3, <1>4, <1>5, <1>6, <1>7

\* What the tree modules assume of keys that are ranks (StringsAssumption,
\* PfxAssumption) is so of the ranks of any finite set of byte strings that
\* has what its members begin with: ranks are numbers, in the order of the
\* strings, the empty string's is 0, and the prefix that bt_defpfx cuts has a
\* rank above the lower string's and not above the upper one's.
THEOREM RanksWillDo ==
  ASSUME NEW U \in SUBSET Strings, IsFiniteSet(U), <<>> \in U,
         \A s \in U : \A n \in 0 .. Len(s) : Truncated(s, n) \in U
  PROVE  /\ \A a \in U : Rank(U, a) \in Nat
         /\ Rank(U, <<>>) = 0
         /\ \A a, b \in U : /\ Rank(U, a) = Rank(U, b) <=> a = b
                            /\ Rank(U, a) < Rank(U, b) <=> Precedes(a, b)
         /\ \A a, b \in U :
              LET s == Truncated(b, BtDefpfx(a, b))
              IN  Rank(U, a) < Rank(U, b) =>
                    s \in U /\ Rank(U, a) < Rank(U, s) /\ Rank(U, s) <= Rank(U, b)
<1>1. \A a, b \in U : /\ Rank(U, a) \in Nat
                      /\ Rank(U, a) = Rank(U, b) <=> a = b
                      /\ Rank(U, a) < Rank(U, b) <=> Precedes(a, b)
  BY RankFacts
<1>2. Rank(U, <<>>) = 0
  <2>1. \A t \in U : ~ Precedes(t, <<>>)
    <3> TAKE t \in U
    <3> DEFINE e == <<>>
    <3>1. e \in Strings /\ Len(e) = 0 /\ Len(t) \in Nat
      BY DEF Strings
    <3>2. Len(e) <= Len(t) /\ Agree(t, e, Len(e))
      BY <3>1 DEF Agree
    <3> HIDE DEF e
    <3>3. ~ Precedes(t, e)
      BY <3>1, <3>2, NotBelowItsBeginning
    <3> QED  BY <3>3 DEF e
  <2>2. {t \in U : Precedes(t, <<>>)} = {}
    BY <2>1
  <2> QED  BY <2>2, FS_EmptySet DEF Rank
<1>3. ASSUME NEW a \in U, NEW b \in U, Rank(U, a) < Rank(U, b)
      PROVE  LET s == Truncated(b, BtDefpfx(a, b))
             IN  s \in U /\ Rank(U, a) < Rank(U, s) /\ Rank(U, s) <= Rank(U, b)
  <2> DEFINE s == Truncated(b, BtDefpfx(a, b))
  <2>1. Precedes(a, b)
    BY <1>1, <1>3
  <2>2. Precedes(a, s) /\ PrecedesEq(s, b)
    BY <2>1, PrefixDivides
  <2>3. s \in U
    <3>1. PICK i \in Nat \ {0} : BtDefpfx(a, b) = i /\ i <= Len(b)
      BY <2>1, DefpfxFacts
    <3>2. i \in 0 .. Len(b)
      BY <3>1 DEF Strings
    <3>3. Truncated(b, i) \in U
      BY <3>2
    <3> QED  BY <3>1, <3>3
  <2> HIDE DEF s
  <2>4. Rank(U, a) < Rank(U, s)
    BY <1>1, <2>2, <2>3
  <2>5. Rank(U, s) <= Rank(U, b)
    <3>1. CASE s = b
      BY <1>1, <3>1
    <3>2. CASE Precedes(s, b)
      <4>1. Rank(U, s) < Rank(U, b) /\ Rank(U, s) \in Nat /\ Rank(U, b) \in Nat
        BY <1>1, <2>3, <3>2
      <4> QED  BY <4>1
    <3> QED  BY <2>2, <3>1, <3>2 DEF PrecedesEq
  <2> QED  BY <2>3, <2>4, <2>5 DEF s
<1> QED  BY <1>1, <1>2, <1>3

-----------------------------------------------------------------------------
(* Chains of overflow pages.                                               *)

\* The quotient and the remainder are the two numbers that make a number up.
LEMMA QuotientIs ==
  ASSUME NEW c \in Nat \ {0}, NEW k \in Nat, NEW r \in 0 .. c - 1, NEW a \in Nat,
         a = c * k + r
  PROVE  a \div c = k /\ a % c = r
<1> DEFINE q == a \div c
           s == a % c
           x == c * q
           y == c * k
<1>1. q \in Int /\ s \in 0 .. c - 1 /\ a = x + s
  OBVIOUS
<1>2. a = y + r /\ y \in Int /\ x \in Int
  BY <1>1
<1> HIDE DEF q, s
<1>3. q < k => x + c <= y
  <2> SUFFICES ASSUME q < k PROVE x + c <= y
    OBVIOUS
  <2>1. q + 1 <= k /\ q + 1 \in Int
    BY <1>1
  <2>2. c * (q + 1) <= c * k
    BY <2>1
  <2>3. c * (q + 1) = c * q + c
    BY <1>1
  <2> QED  BY <2>2, <2>3
<1>4. k < q => y + c <= x
  <2> SUFFICES ASSUME k < q PROVE y + c <= x
    OBVIOUS
  <2>1. k + 1 <= q /\ k + 1 \in Int
    BY <1>1
  <2>2. c * (k + 1) <= c * q
    BY <1>1, <2>1
  <2>3. c * (k + 1) = c * k + c
    BY <1>1
  <2> QED  BY <2>2, <2>3
<1> HIDE DEF x, y
<1>5. q = k
  BY <1>1, <1>2, <1>3, <1>4
<1>6. s = r
  BY <1>1, <1>2, <1>5 DEF x, y
<1> QED  BY <1>5, <1>6 DEF q, s

\* Which numbers have a quotient below k.
LEMMA QuotientBelow ==
  ASSUME NEW c \in Nat \ {0}, NEW k \in Nat, NEW a \in Nat
  PROVE  /\ a \div c \in Nat
         /\ a % c \in 0 .. c - 1
         /\ a < c * k => a \div c < k
         /\ c * k <= a => k <= a \div c
<1> DEFINE q == a \div c
           s == a % c
           x == c * q
           y == c * k
<1>1. q \in Nat /\ s \in 0 .. c - 1 /\ a = x + s
  OBVIOUS
<1>2. y \in Int /\ x \in Int
  BY <1>1
<1> HIDE DEF q, s
<1>3. k <= q => y <= x
  BY <1>1
<1>4. q < k => x + c <= y
  <2> SUFFICES ASSUME q < k PROVE x + c <= y
    OBVIOUS
  <2>1. q + 1 <= k /\ q + 1 \in Int
    BY <1>1
  <2>2. c * (q + 1) <= c * k
    BY <2>1
  <2>3. c * (q + 1) = c * q + c
    BY <1>1
  <2> QED  BY <2>2, <2>3
<1>5. a < y => q < k
  <2> HIDE DEF x, y
  <2> QED  BY <1>1, <1>2, <1>3
<1>6. y <= a => k <= q
  <2> HIDE DEF x, y
  <2> QED  BY <1>1, <1>2, <1>4
<1> QED  BY <1>1, <1>5, <1>6 DEF q, s

\* The file, the entry and the key are what they were at first.
ChainFile ==
  /\ file \in [1 .. NPages -> PageOfFile]
  /\ item \in [pgno : Nat, size : Nat]
  /\ key \in Seq(Nat)

\* A page of a chain has a full payload and leads somewhere.
LEMMA ReachedPage ==
  ASSUME ChainFile, NEW p, Reach(p) = "ok"
  PROVE  /\ file[p].data \in Seq(Nat) /\ Len(file[p].data) = Cap
         /\ file[p].next \in Nat
<1>1. p \in DOMAIN file /\ file[p].type = "overflow"
  BY DEF Reach
<1>2. file[p] \in PageOfFile
  BY <1>1 DEF ChainFile
<1>3. PICK d \in [1 .. Cap -> Bytes], n \in 0 .. NPages + 1 : file[p] = OverflowPage(d, n)
  BY <1>1, <1>2 DEF PageOfFile, BadPage, OtherPage
<1>4. file[p].data = d /\ file[p].next = n
  BY <1>3 DEF OverflowPage
<1>5. Cap \in Nat /\ Bytes \subseteq Nat /\ NPages \in Nat
  BY OverflowAssumption
<1>6. d \in [1 .. Cap -> Nat]
  BY <1>5
<1>7. d \in Seq(Nat) /\ Len(d) = Cap
  BY <1>5, <1>6
<1> QED  BY <1>4, <1>5, <1>7

\* What follows page p on the way.
After(p) == IF Reach(p) = "ok" THEN file[p].next ELSE NoPage

\* The way is what its definition describes.
LEMMA WalkFacts ==
  ASSUME ChainFile
  PROVE  /\ Walk[0] = item.pgno
         /\ \A i \in 1 .. item.size : Walk[i] = After(Walk[i - 1])
<1> DEFINE n == item.size
           F(w) == [i \in 0 .. n |-> IF i = 0 THEN item.pgno
                                     ELSE IF Reach(w[i - 1]) = "ok" THEN file[w[i - 1]].next
                                     ELSE NoPage]
           Steps(m, w) == w[0] = item.pgno /\ \A i \in 1 .. m : w[i] = After(w[i - 1])
           T == {m \in Nat : m <= n => \E w \in [0 .. n -> Nat] : Steps(m, w)}
<1>0. n \in Nat /\ item.pgno \in Nat /\ \A p : After(p) \in Nat
  BY ReachedPage DEF ChainFile, After, NoPage
<1>1. Walk = CHOOSE w : w = F(w)
  BY DEF Walk
<1>2. \A w : F(w) = [i \in 0 .. n |-> IF i = 0 THEN item.pgno ELSE After(w[i - 1])]
  BY DEF After
<1> HIDE DEF n
<1>3. 0 \in T
  <2>1. [i \in 0 .. n |-> item.pgno] \in [0 .. n -> Nat] /\ Steps(0, [i \in 0 .. n |-> item.pgno])
    BY <1>0
  <2> HIDE DEF Steps
  <2> QED  BY <2>1
<1>4. ASSUME NEW m \in T PROVE m + 1 \in T
  <2>1. m \in Nat /\ m + 1 \in Nat
    OBVIOUS
  <2> SUFFICES ASSUME m + 1 <= n
               PROVE  \E w \in [0 .. n -> Nat] : Steps(m + 1, w)
    BY <2>1
  <2>2. PICK w \in [0 .. n -> Nat] : Steps(m, w)
    BY <1>0, <2>1
  <2> DEFINE v == [w EXCEPT ![m + 1] = After(w[m])]
  <2>3. m \in 0 .. n /\ m + 1 \in 1 .. n
    BY <1>0, <2>1
  <2>4. v \in [0 .. n -> Nat]
    BY <1>0, <2>2, <2>3
  <2>5. (\A i \in 0 .. m : v[i] = w[i]) /\ v[m + 1] = After(w[m])
    BY <1>0, <2>2, <2>3
  <2> HIDE DEF v
  <2>6. ASSUME NEW i \in 1 .. m + 1 PROVE v[i] = After(v[i - 1])
    <3>1. CASE i = m + 1
      BY <2>1, <2>5, <3>1
    <3>2. CASE i # m + 1
      <4>1. i \in 1 .. m /\ i \in 0 .. m /\ i - 1 \in 0 .. m
        BY <2>1, <3>2
      <4> QED  BY <2>2, <2>5, <4>1
    <3> QED  BY <3>1, <3>2
  <2>7. Steps(m + 1, v)
    BY <2>1, <2>2, <2>5, <2>6
  <2> HIDE DEF Steps
  <2> QED  BY <2>4, <2>7
<1>5. T = Nat
  <2>1. T \in SUBSET Nat
    OBVIOUS
  <2> HIDE DEF T
  <2> QED  BY <1>3, <1>4, <2>1, NatInd
<1>6. PICK w \in [0 .. n -> Nat] : Steps(n, w)
  <2>1. n \in T
    <3> HIDE DEF T
    <3> QED  BY <1>0, <1>5
  <2>2. n <= n
    BY <1>0
  <2> HIDE DEF Steps
  <2> QED  BY <2>1, <2>2
<1>7. w = F(w)
  <2>1. \A i \in 0 .. n : i # 0 => i \in 1 .. n
    BY <1>0
  <2>2. \A i \in 0 .. n : (IF i = 0 THEN item.pgno ELSE After(w[i - 1])) = w[i]
    BY <1>6, <2>1
  <2> HIDE DEF F
  <2> QED  BY <1>2, <1>6, <2>2
<1> DEFINE u == Walk
<1>8. u = F(u)
  <2> HIDE DEF F
  <2> QED  BY <1>1, <1>7
<1>9. u = [i \in 0 .. n |-> IF i = 0 THEN item.pgno ELSE After(u[i - 1])]
  <2> HIDE DEF F, u
  <2> QED  BY <1>2, <1>8
<1> HIDE DEF u
<1>10. u[0] = item.pgno /\ \A i \in 1 .. n : u[i] = After(u[i - 1])
  <2>1. 0 \in 0 .. n /\ \A i \in 1 .. n : i \in 0 .. n /\ i # 0
    BY <1>0
  <2> QED  BY <1>9, <2>1
<1> QED  BY <1>10 DEF u, n

\* The part of a page's payload that counts.
LEMMA TakenFacts ==
  ASSUME ChainFile, NEW p, Reach(p) = "ok", NEW done \in Nat, done < item.size
  PROVE  /\ Taken(p, done) \in Seq(Nat)
         /\ Len(Taken(p, done)) = IF item.size - done <= Cap THEN item.size - done ELSE Cap
         /\ \A j \in 1 .. Len(Taken(p, done)) : Taken(p, done)[j] = file[p].data[j]
<1> DEFINE d == file[p].data
           a == item.size - done
           n == Min({a, Cap})
           k == 1
           t == SubSeq(d, k, n)
<1>1. d \in Seq(Nat) /\ Len(d) = Cap /\ Cap \in Nat /\ a \in Nat \ {0}
  BY ReachedPage, OverflowAssumption DEF ChainFile
<1>2. n = IF a <= Cap THEN a ELSE Cap
  <2> HIDE DEF a
  <2> QED  BY <1>1 DEF Min
<1>3. n \in 0 .. Len(d) /\ k \in Nat \ {0}
  BY <1>1, <1>2
<1>4. Taken(p, done) = t
  BY DEF Taken
<1> HIDE DEF d, n, k
<1>5. /\ t \in Seq(Nat)
      /\ Len(t) = IF k <= n THEN n - k + 1 ELSE 0
      /\ \A i \in 1 .. Len(t) : t[i] = d[k + i - 1]
  BY <1>1, <1>3, SubSeqFacts
<1>6. Len(t) = n
  BY <1>3, <1>5 DEF k
<1> HIDE DEF t
<1>7. \A j \in 1 .. Len(t) : t[j] = d[j]
  <2> TAKE j \in 1 .. Len(t)
  <2>1. k + j - 1 = j
    BY <1>3, <1>6 DEF k
  <2> QED  BY <1>5, <2>1
<1> QED  BY <1>2, <1>4, <1>5, <1>6, <1>7 DEF d

\* The bytes of page Walk[k] are those of the chain behind its first k pages.
LEMMA BytesOfPage ==
  ASSUME NEW k \in Nat, NEW j \in 1 .. Cap
  PROVE  ChainByte(Cap * k + j) = file[Walk[k]].data[j]
<1>1. Cap \in Nat \ {0} /\ j - 1 \in 0 .. Cap - 1 /\ (j - 1) + 1 = j
  BY OverflowAssumption
<1> DEFINE a == Cap * k + j - 1
           x == Cap * k
<1>2. x \in Nat
  BY <1>1
<1>3. a \in Nat /\ a = x + (j - 1)
  <2> HIDE DEF x
  <2> QED  BY <1>1, <1>2 DEF x
<1>4. a = Cap * k + (j - 1)
  BY <1>3
<1> HIDE DEF a, x
<1>5. a \div Cap = k /\ a % Cap = j - 1
  <2> DEFINE r == j - 1
  <2>1. r \in 0 .. Cap - 1 /\ a = Cap * k + r
    BY <1>1, <1>4
  <2> DEFINE c == Cap
  <2>2. c \in Nat \ {0} /\ k \in Nat /\ r \in 0 .. c - 1 /\ a \in Nat /\ a = c * k + r
    BY <1>1, <1>3, <2>1
  <2> HIDE DEF r, c
  <2>3. a \div c = k /\ a % c = r
    BY ONLY <2>2, QuotientIs
  <2>4. a \div Cap = k /\ a % Cap = r
    BY <2>3 DEF c
  <2> QED  BY <2>4 DEF r
<1> QED  BY <1>1, <1>5 DEF ChainByte, a

-----------------------------------------------------------------------------
(* Fetching.                                                               *)

Results == {"ok", "CorruptOverflow", "PageOutOfBounds", "CorruptPage"}

\* out is what the first k pages of the chain hold, as far as it counts.
FetchedTo(k, out) ==
  /\ k \in 0 .. item.size
  /\ out \in Seq(Nat) /\ Len(out) <= item.size
  /\ Len(out) <= Cap * k
  /\ Len(out) < item.size => Len(out) = Cap * k
  /\ \A j \in 0 .. k - 1 : Reach(Walk[j]) = "ok"
  /\ \A i \in 1 .. Len(out) : out[i] = ChainByte(i)

FetchAt(k) ==
  /\ FetchedTo(k, fetch.out)
  /\ fetch.result = "none" => fetch.pgno = Walk[k]
  /\ fetch.result = "ok" => Len(fetch.out) = item.size
  /\ fetch.result \notin {"none", "ok"} =>
       Len(fetch.out) < item.size /\ Reach(Walk[k]) = fetch.result

FetchRecord == [pgno : Nat, out : Seq(Nat), result : Results \cup {"none"}]

FetchInv == ChainFile /\ fetch \in FetchRecord /\ \E k : FetchAt(k)

\* Reach has four answers.
LEMMA ReachResults == \A p : Reach(p) \in Results
  BY DEF Reach, Results

\* One page more of the chain.
LEMMA OnePageMore ==
  ASSUME ChainFile, NEW k, NEW out, FetchedTo(k, out), Len(out) < item.size,
         Reach(Walk[k]) = "ok"
  PROVE  /\ FetchedTo(k + 1, out \o Taken(Walk[k], Len(out)))
         /\ Walk[k + 1] = file[Walk[k]].next
<1> DEFINE d == file[Walk[k]].data
           t == Taken(Walk[k], Len(out))
           m == Len(out)
           n == item.size
           l == Len(t)
           x == Cap * k
           u == out \o t
<1>1. /\ k \in 0 .. n /\ out \in Seq(Nat) /\ m \in Nat /\ m < n /\ n \in Nat
      /\ Cap \in Nat \ {0}
  BY OverflowAssumption DEF FetchedTo, ChainFile
<1>2. m = x
  BY DEF FetchedTo
<1>3. /\ t \in Seq(Nat)
      /\ l = IF n - m <= Cap THEN n - m ELSE Cap
      /\ \A j \in 1 .. l : t[j] = d[j]
  BY <1>1, TakenFacts
<1>4. k + 1 \in 0 .. n
  <2>1. k <= x
    BY <1>1
  <2> HIDE DEF x, m, n
  <2> QED  BY <1>1, <1>2, <2>1
<1>5. Cap * (k + 1) = x + Cap
  BY <1>1
<1> DEFINE y == Cap * (k + 1)
<1> HIDE DEF t, x, y, l, n
<1>6. l \in Nat /\ l = Len(t)
  BY <1>1, <1>3 DEF l
<1> HIDE DEF m
<1>7. m = Len(out)
  BY DEF m
<1>8. /\ u \in Seq(Nat) /\ Len(u) = m + l
      /\ \A i \in 1 .. m : u[i] = out[i]
      /\ \A i \in 1 .. l : u[m + i] = t[i]
  <2>1. m \in Nat /\ t \in Seq(Nat) /\ out \in Seq(Nat) /\ l \in Nat
    BY <1>1, <1>3, <1>6, <1>7
  <2> DEFINE s == out \o t
  <2>2. /\ s \in Seq(Nat) /\ Len(s) = m + l
        /\ \A i \in 1 .. m : s[i] = out[i]
        /\ \A i \in 1 .. l : s[m + i] = t[i]
    BY ONLY <1>6, <1>7, <2>1, ConcatFacts
  <2> QED  BY <2>2
<1> HIDE DEF u
<1>9. y = x + Cap
  BY <1>5 DEF y
<1>10. Len(u) <= n /\ Len(u) <= y /\ (Len(u) < n => Len(u) = y)
  <2>1. m \in Nat /\ l \in Nat /\ n \in Nat /\ Cap \in Nat /\ x = m /\ y = m + Cap
    BY <1>1, <1>2, <1>6, <1>7, <1>9 DEF n
  <2>2. l = IF n - m <= Cap THEN n - m ELSE Cap
    BY <1>3
  <2> DEFINE e == Len(u)
  <2>3. e = m + l
    BY <1>8
  <2> HIDE DEF e
  <2>4. e <= n /\ e <= y /\ (e < n => e = y)
    BY <2>1, <2>2, <2>3
  <2> QED  BY <2>4 DEF e
<1>11. ASSUME NEW j \in 0 .. (k + 1) - 1 PROVE Reach(Walk[j]) = "ok"
  <2>1. j \in 0 .. k - 1 \/ j = k
    BY <1>1
  <2> QED  BY <2>1 DEF FetchedTo
<1>12. ASSUME NEW i \in 1 .. Len(u) PROVE u[i] = ChainByte(i)
  <2>1. CASE i \in 1 .. m
    BY <1>7, <1>8, <2>1 DEF FetchedTo
  <2>2. CASE i \notin 1 .. m
    <3> DEFINE j == i - m
    <3>1. m \in Nat /\ n \in Nat /\ Cap \in Nat /\ i \in 1 .. m + l
      BY <1>1, <1>6, <1>7, <1>8 DEF n
    <3>2. l <= Cap
      BY <1>3, <1>6, <3>1
    <3>3. j \in 1 .. l /\ j \in 1 .. Cap /\ i = m + j
      BY <1>6, <2>2, <3>1, <3>2
    <3> HIDE DEF j
    <3>4. u[i] = d[j]
      BY <1>3, <1>8, <3>3
    <3>5. i = Cap * k + j /\ k \in Nat
      BY <1>1, <1>2, <3>3 DEF x
    <3>6. ChainByte(i) = d[j]
      BY <3>3, <3>5, BytesOfPage
    <3> QED  BY <3>4, <3>6
  <2> QED  BY <2>1, <2>2
<1>13. FetchedTo(k + 1, u)
  BY <1>4, <1>8, <1>10, <1>11, <1>12 DEF FetchedTo, n, y
<1>14. Walk[k + 1] = file[Walk[k]].next
  <2>1. k + 1 \in 1 .. item.size /\ (k + 1) - 1 = k
    BY <1>1, <1>4 DEF n
  <2>2. Walk[k + 1] = After(Walk[(k + 1) - 1])
    BY <2>1, WalkFacts
  <2> QED  BY <2>1, <2>2 DEF After
<1> QED  BY <1>13, <1>14 DEF u, t, m

\* A chain begins where the entry says, with nothing fetched.
LEMMA InitEstablishesFetch == OverflowInit => FetchInv
<1> SUFFICES ASSUME OverflowInit PROVE FetchInv
  OBVIOUS
<1>1. ChainFile
  <2>1. item \in [pgno : Nat, size : Nat]
    BY OverflowAssumption DEF OverflowInit
  <2>2. key \in Seq(Nat)
    <3>1. PICK l \in 0 .. MaxKey : key \in [1 .. l -> Bytes]
      BY DEF OverflowInit, KeysUpTo
    <3>2. l \in Nat /\ Bytes \subseteq Nat
      BY <3>1, OverflowAssumption
    <3>3. key \in [1 .. l -> Nat]
      BY <3>1, <3>2
    <3> QED  BY <3>2, <3>3
  <2> QED  BY <2>1, <2>2 DEF OverflowInit, ChainFile
<1>2. fetch = [pgno |-> item.pgno, out |-> <<>>, result |-> "none"]
  BY DEF OverflowInit
<1>3. item.pgno \in Nat /\ item.size \in Nat
  BY <1>1 DEF ChainFile
<1>4. fetch \in FetchRecord
  BY <1>2, <1>3 DEF FetchRecord
<1>5. FetchAt(0)
  <2>1. Cap * 0 = 0
    BY OverflowAssumption
  <2>2. fetch.pgno = Walk[0]
    BY <1>1, <1>2, WalkFacts
  <2>3. fetch.out \in Seq(Nat) /\ Len(fetch.out) = 0 /\ fetch.result = "none"
    BY <1>2
  <2>4. FetchedTo(0, fetch.out)
    BY <1>3, <2>1, <2>3 DEF FetchedTo
  <2> QED  BY <2>2, <2>3, <2>4 DEF FetchAt
<1> QED  BY <1>1, <1>4, <1>5 DEF FetchInv

\* The chain's page and bytes do not change.
LEMMA SameChain ==
  ASSUME UNCHANGED <<file, item, key>>
  PROVE  /\ ChainFile => ChainFile'
         /\ \A p : Reach(p)' = Reach(p)
         /\ Walk' = Walk
         /\ \A i : ChainByte(i)' = ChainByte(i)
<1>1. \A p : Reach(p)' = Reach(p)
  BY DEF Reach
<1>2. Walk' = Walk
  BY DEF Walk, Reach
<1>3. \A i : ChainByte(i)' = ChainByte(i)
  BY <1>2 DEF ChainByte
<1>4. ChainFile => ChainFile'
  BY DEF ChainFile
<1> QED  BY <1>1, <1>2, <1>3, <1>4

\* Every step of either loop keeps what was fetched right.
LEMMA NextPreservesFetch == FetchInv /\ [OverflowNext]_overflowVars => FetchInv'
<1> SUFFICES ASSUME FetchInv, [OverflowNext]_overflowVars PROVE FetchInv'
  OBVIOUS
<1>1. UNCHANGED <<file, item, key>>
  BY DEF OverflowNext, overflowVars, FetchFails, FetchPage, FetchReturns, CompareFails,
         CompareDecides, ComparePage, CompareReturns
<1>2. /\ ChainFile' /\ ChainFile
      /\ \A p : Reach(p)' = Reach(p)
      /\ Walk' = Walk
      /\ \A i : ChainByte(i)' = ChainByte(i)
  BY <1>1, SameChain DEF FetchInv
<1>3. PICK k : FetchAt(k)
  BY DEF FetchInv
<1>4. fetch \in FetchRecord
  BY DEF FetchInv
<1>5. \A n, out : FetchedTo(n, out) => FetchedTo(n, out)'
  BY <1>1, <1>2 DEF FetchedTo
<1>6. ASSUME NEW n, FetchedTo(n, fetch'.out),
             fetch'.result = "none" => fetch'.pgno = Walk[n],
             fetch'.result = "ok" => Len(fetch'.out) = item.size,
             fetch'.result \notin {"none", "ok"} =>
               Len(fetch'.out) < item.size /\ Reach(Walk[n]) = fetch'.result,
             fetch' \in FetchRecord
      PROVE  FetchInv'
  <2>1. FetchedTo(n, fetch.out)'
    BY <1>1, <1>2, <1>6 DEF FetchedTo
  <2>2. FetchAt(n)'
    BY <1>1, <1>2, <1>6, <2>1 DEF FetchAt
  <2>3. fetch' \in FetchRecord'
    BY <1>6 DEF FetchRecord, Results
  <2> QED  BY <1>2, <2>2, <2>3 DEF FetchInv
<1>7. CASE UNCHANGED fetch
  BY <1>3, <1>4, <1>6, <1>7 DEF FetchAt
<1>8. CASE FetchFails
  <2>1. /\ fetch.result = "none" /\ Len(fetch.out) < item.size
        /\ Reach(fetch.pgno) # "ok"
        /\ fetch' = [fetch EXCEPT !.result = Reach(fetch.pgno)]
    BY <1>8 DEF FetchFails, Fetching
  <2>2. /\ fetch'.out = fetch.out /\ fetch'.result = Reach(fetch.pgno)
        /\ fetch' \in FetchRecord
    BY <1>4, <2>1, ReachResults DEF FetchRecord
  <2>3. fetch'.result \notin {"none", "ok"}
    BY <2>1, <2>2, ReachResults DEF Results
  <2>4. FetchedTo(k, fetch.out) /\ fetch.pgno = Walk[k]
    BY <1>3, <2>1 DEF FetchAt
  <2> QED  BY <1>6, <2>1, <2>2, <2>3, <2>4
<1>9. CASE FetchPage
  <2>1. /\ fetch.result = "none" /\ Len(fetch.out) < item.size
        /\ Reach(fetch.pgno) = "ok"
        /\ fetch' = [fetch EXCEPT !.out = @ \o Taken(fetch.pgno, Len(@)),
                                  !.pgno = file[fetch.pgno].next]
    BY <1>9 DEF FetchPage, Fetching
  <2>2. FetchedTo(k, fetch.out) /\ fetch.pgno = Walk[k]
    BY <1>3, <2>1 DEF FetchAt
  <2> DEFINE out == fetch.out \o Taken(fetch.pgno, Len(fetch.out))
  <2>3. FetchedTo(k + 1, out) /\ Walk[k + 1] = file[fetch.pgno].next
    BY <1>2, <2>1, <2>2, OnePageMore
  <2>4. /\ fetch'.out = out /\ fetch'.pgno = file[fetch.pgno].next
        /\ fetch'.result = "none"
    BY <1>4, <2>1 DEF FetchRecord
  <2>5. fetch' \in FetchRecord
    <3>1. out \in Seq(Nat) /\ file[fetch.pgno].next \in Nat
      BY <1>2, <2>1, <2>3, ReachedPage DEF FetchedTo
    <3> HIDE DEF out
    <3>2. fetch' = [fetch EXCEPT !.out = out, !.pgno = file[fetch.pgno].next]
      BY <1>4, <2>1 DEF FetchRecord, out
    <3> QED  BY <1>4, <3>1, <3>2 DEF FetchRecord
  <2> QED  BY <1>6, <2>3, <2>4, <2>5
<1>10. CASE FetchReturns
  <2>1. /\ fetch.result = "none" /\ ~ (Len(fetch.out) < item.size)
        /\ fetch' = [fetch EXCEPT !.result = "ok"]
    BY <1>10 DEF FetchReturns, Fetching
  <2>2. fetch'.out = fetch.out /\ fetch'.result = "ok" /\ fetch' \in FetchRecord
    BY <1>4, <2>1 DEF FetchRecord, Results
  <2>3. FetchedTo(k, fetch.out)
    BY <1>3 DEF FetchAt
  <2>4. Len(fetch.out) = item.size
    BY <1>2, <2>1, <2>3 DEF FetchedTo, ChainFile
  <2> QED  BY <1>6, <2>2, <2>3, <2>4
<1> QED  BY <1>7, <1>8, <1>9, <1>10 DEF OverflowNext, overflowVars, CompareFails,
                                       CompareDecides, ComparePage, CompareReturns

\* What fetch_overflow returns is the chain's first size bytes, and it fails
\* only at a page that it needs, for every file and every payload size: the
\* chain may run in a circle, and its last page be taken in part.
THEOREM FetchAlwaysRight == OverflowSpec => []FetchRight
<1>1. FetchInv => FetchRight
  <2> SUFFICES ASSUME FetchInv PROVE FetchRight
    OBVIOUS
  <2>1. PICK k : FetchAt(k)
    BY DEF FetchInv
  <2>2. ChainFile /\ FetchedTo(k, fetch.out)
    BY <2>1 DEF FetchAt, FetchInv
  <2>3. /\ item.size \in Nat /\ k \in Nat /\ Cap \in Nat \ {0}
    BY <2>2, OverflowAssumption DEF ChainFile, FetchedTo
  <2>4. ASSUME fetch.result = "ok"
        PROVE  /\ \A i \in 1 .. item.size : Reach(Walk[(i - 1) \div Cap]) = "ok"
               /\ fetch.out = [i \in 1 .. item.size |-> ChainByte(i)]
    <3>1. Len(fetch.out) = item.size
      BY <2>1, <2>4 DEF FetchAt
    <3>2. ASSUME NEW i \in 1 .. item.size PROVE Reach(Walk[(i - 1) \div Cap]) = "ok"
      <4> DEFINE a == i - 1
                 x == Cap * k
      <4>1. item.size <= x
        BY <2>2, <3>1 DEF FetchedTo
      <4>2. a \in Nat /\ x \in Nat
        BY <2>3
      <4>3. a < x
        <5> HIDE DEF x
        <5> QED  BY <2>3, <4>1, <4>2
      <4>4. a < Cap * k
        BY <4>3
      <4> HIDE DEF a, x
      <4>5. a \div Cap \in Nat /\ a \div Cap < k
        BY <2>3, <4>2, <4>4, QuotientBelow
      <4>6. a \div Cap \in 0 .. k - 1
        BY <2>3, <4>5
      <4>7. Reach(Walk[a \div Cap]) = "ok"
        BY <2>2, <4>6 DEF FetchedTo
      <4> QED  BY <4>7 DEF a
    <3>3. fetch.out = [i \in 1 .. item.size |-> ChainByte(i)]
      BY <2>2, <3>1, SeqFacts DEF FetchedTo
    <3> QED  BY <3>2, <3>3
  <2>5. ASSUME fetch.result \notin {"none", "ok"}
        PROVE  \E i \in 0 .. (item.size - 1) \div Cap : Reach(Walk[i]) = fetch.result
    <3>1. Len(fetch.out) < item.size /\ Reach(Walk[k]) = fetch.result
      BY <2>1, <2>5 DEF FetchAt
    <3> DEFINE a == item.size - 1
    <3>2. Len(fetch.out) \in Nat /\ a \in Nat
      BY <2>2, <2>3, <3>1 DEF FetchedTo
    <3>3. Cap * k <= a
      BY <2>2, <2>3, <3>1, <3>2 DEF FetchedTo
    <3> HIDE DEF a
    <3>4. a \div Cap \in Nat /\ k <= a \div Cap
      BY <2>3, <3>2, <3>3, QuotientBelow
    <3>5. k \in 0 .. a \div Cap
      BY <2>3, <3>4
    <3> QED  BY <3>1, <3>5 DEF a
  <2> QED  BY <2>4, <2>5 DEF FetchRight
<1> QED  BY <1>1, InitEstablishesFetch, NextPreservesFetch, PTL DEF OverflowSpec

-----------------------------------------------------------------------------
(* Comparing.                                                              *)

CompareResults == Results \cup {"none", "Less", "Equal", "Greater"}

CompareRecord == [pgno : Nat, consumed : Nat, result : CompareResults]

\* The bytes of the key that were compared are those of the first k pages of
\* the chain.
CompareAt(k) ==
  /\ compare.consumed \in 0 .. Len(key)
  /\ FetchedTo(k, Truncated(key, compare.consumed))
  /\ compare.pgno = Walk[k]

CompareInv ==
  /\ FetchInv
  /\ compare \in CompareRecord
  /\ compare.result = "none" => \E k : CompareAt(k)
  /\ compare.result # "none" => fetch.result # "none"
  /\ CompareAgrees

\* More pages hold no less.
LEMMA Times ==
  ASSUME NEW c \in Nat, NEW k \in Nat, NEW m \in Nat
  PROVE  /\ c * k \in Nat
         /\ k <= m => c * k <= c * m
  OBVIOUS

\* Whatever else was read along the chain is the beginning of what fetch has
\* when it ends.
LEMMA FetchedIsLongest ==
  ASSUME FetchInv, fetch.result # "none", NEW k, NEW p, FetchedTo(k, p)
  PROVE  /\ fetch.out \in Strings /\ p \in Strings
         /\ Len(p) <= Len(fetch.out) /\ Agree(p, fetch.out, Len(p))
<1>1. PICK n : FetchAt(n)
  BY DEF FetchInv
<1>2. FetchedTo(n, fetch.out)
  BY <1>1 DEF FetchAt
<1> DEFINE l == Len(p)
           o == Len(fetch.out)
           s == item.size
<1>3. l \in Nat /\ o \in Nat /\ s \in Nat /\ k \in Nat /\ n \in Nat /\ Cap \in Nat
  BY <1>2, OverflowAssumption DEF FetchedTo, FetchInv, ChainFile
<1>4. l <= s
  BY DEF FetchedTo
<1>5. l <= o
  <2>1. CASE fetch.result = "ok"
    BY <1>1, <1>4, <2>1 DEF FetchAt
  <2>2. CASE fetch.result # "ok"
    <3>1. o = Cap * n /\ Reach(Walk[n]) # "ok"
      BY <1>1, <1>2, <2>2 DEF FetchAt, FetchedTo
    <3>2. ~ (n < k)
      <4> SUFFICES ASSUME n < k PROVE FALSE
        OBVIOUS
      <4>1. n \in 0 .. k - 1
        BY <1>3
      <4> QED  BY <3>1, <4>1 DEF FetchedTo
    <3>3. l <= Cap * k
      BY DEF FetchedTo
    <3> DEFINE x == Cap * k
               y == Cap * n
    <3>4. x \in Nat /\ y \in Nat /\ x <= y
      BY <1>3, <3>2, Times
    <3>5. l <= x /\ o = y
      BY <3>1, <3>3
    <3> HIDE DEF x, y, l, o, s
    <3> QED  BY <1>3, <3>4, <3>5
  <2> QED  BY <2>1, <2>2
<1>6. Agree(p, fetch.out, l)
  <2> SUFFICES ASSUME NEW j \in 1 .. l PROVE p[j] = fetch.out[j]
    BY DEF Agree
  <2>1. j \in 1 .. Len(fetch.out)
    BY <1>3, <1>5
  <2> QED  BY <1>2, <2>1 DEF FetchedTo
<1> QED  BY <1>2, <1>5, <1>6 DEF FetchedTo, Strings

\* Agreement is seen in both directions, and with what a string is cut from.
LEMMA AgreeCut ==
  ASSUME NEW a \in Strings, NEW b, NEW n \in 0 .. Len(a), Agree(Truncated(a, n), b, n)
  PROVE  Agree(a, b, n)
<1>1. \A j \in 1 .. n : Truncated(a, n)[j] = a[j]
  BY TruncatedFacts
<1> QED  BY <1>1 DEF Agree

\* A beginning, with SubSeq as in IsPrefixOf, is an agreement.
LEMMA PrefixIsAgreement ==
  ASSUME NEW a \in Strings, NEW b \in Strings
  PROVE  IsPrefixOf(a, b) <=> Len(a) <= Len(b) /\ Agree(b, a, Len(a))
<1> DEFINE n == Len(a)
           t == Truncated(b, n)
<1>1. n \in Nat /\ Len(b) \in Nat
  BY DEF Strings
<1>2. CASE n <= Len(b)
  <2>1. n \in 0 .. Len(b)
    BY <1>1, <1>2
  <2>2. t \in Strings /\ Len(t) = n /\ \A j \in 1 .. n : t[j] = b[j]
    <3> HIDE DEF n
    <3> QED  BY <2>1, TruncatedFacts
  <2>3. IsPrefixOf(a, b) <=> t = a
    BY <1>2 DEF IsPrefixOf, Truncated
  <2> HIDE DEF t
  <2>4. ASSUME Agree(b, a, n) PROVE t = a
    <3>1. \A j \in 1 .. Len(t) : t[j] = a[j]
      BY <2>2, <2>4 DEF Agree
    <3> QED  BY <2>2, <3>1, SameSeq DEF Strings
  <2>5. t = a => Agree(b, a, n)
    BY <2>2 DEF Agree
  <2> QED  BY <1>2, <2>3, <2>4, <2>5
<1>3. CASE ~ (n <= Len(b))
  BY <1>3 DEF IsPrefixOf
<1> QED  BY <1>2, <1>3

\* What the comparison is to answer, by what the strings have in common.
LEMMA AnswerFacts ==
  ASSUME NEW key0 \in Strings, NEW out0 \in Strings
  PROVE  /\ Len(key0) < Len(out0) /\ Agree(key0, out0, Len(key0)) => Precedes(key0, out0)
         /\ Len(out0) <= Len(key0) /\ Agree(key0, out0, Len(out0)) =>
              ~ Precedes(key0, out0) /\ IsPrefixOf(out0, key0)
         /\ \A i \in 1 .. Len(out0) : key0[i] # out0[i] =>
              key0 # out0 /\ ~ IsPrefixOf(out0, key0)
<1>1. Len(key0) < Len(out0) /\ Agree(key0, out0, Len(key0)) => Precedes(key0, out0)
  BY EndDecides
<1>2. Len(out0) <= Len(key0) /\ Agree(key0, out0, Len(out0)) =>
        ~ Precedes(key0, out0) /\ IsPrefixOf(out0, key0)
  BY NotBelowItsBeginning, PrefixIsAgreement
<1>3. \A i \in 1 .. Len(out0) : key0[i] # out0[i] =>
        key0 # out0 /\ ~ IsPrefixOf(out0, key0)
  BY PrefixIsAgreement DEF Agree
<1> QED  BY <1>1, <1>2, <1>3

\* What the comparison is to answer.
Answer ==
  IF Precedes(key, fetch.out) THEN "Less"
  ELSE IF fetch.result # "ok" /\ IsPrefixOf(fetch.out, key) THEN fetch.result
  ELSE IF key = fetch.out THEN "Equal"
  ELSE "Greater"

\* Between two pages the key has agreed with what fetch has returned.
LEMMA ComparedFacts ==
  ASSUME CompareInv, fetch.result # "none", NEW k, CompareAt(k)
  PROVE  /\ key \in Strings /\ fetch.out \in Strings
         /\ compare.consumed \in 0 .. Len(key)
         /\ compare.consumed <= Len(fetch.out)
         /\ Agree(key, fetch.out, compare.consumed)
         /\ Truncated(key, compare.consumed) \in Strings
         /\ Len(Truncated(key, compare.consumed)) = compare.consumed
<1> DEFINE c == compare.consumed
           p == Truncated(key, c)
<1>1. key \in Strings /\ c \in 0 .. Len(key)
  BY DEF CompareInv, FetchInv, ChainFile, CompareAt, Strings
<1>2. p \in Strings /\ Len(p) = c
  <2> HIDE DEF c
  <2> QED  BY <1>1, TruncatedFacts
<1>3. FetchedTo(k, p)
  BY DEF CompareAt
<1>4. /\ fetch.out \in Strings
      /\ Len(p) <= Len(fetch.out) /\ Agree(p, fetch.out, Len(p))
  <2> HIDE DEF p
  <2> QED  BY <1>3, FetchedIsLongest DEF CompareInv
<1>5. Agree(key, fetch.out, c)
  <2> HIDE DEF c
  <2> QED  BY <1>1, <1>2, <1>4, AgreeCut
<1> QED  BY <1>1, <1>2, <1>4, <1>5

\* A page that cannot be reached is the one fetch failed at.
LEMMA FailsAlike ==
  ASSUME CompareInv, Comparing, Reach(compare.pgno) # "ok"
  PROVE  Reach(compare.pgno) = Answer
<1>1. fetch.result # "none" /\ compare.result = "none" /\ compare.consumed < item.size
  BY DEF Comparing
<1>2. PICK k : CompareAt(k)
  BY <1>1 DEF CompareInv
<1>3. PICK n : FetchAt(n)
  BY DEF CompareInv, FetchInv
<1> DEFINE c == compare.consumed
           s == item.size
           o == Len(fetch.out)
           x == Cap * k
           y == Cap * n
<1>4. /\ FetchedTo(n, fetch.out) /\ FetchedTo(k, Truncated(key, c))
      /\ compare.pgno = Walk[k]
  BY <1>2, <1>3 DEF FetchAt, CompareAt
<1>5. /\ key \in Strings /\ fetch.out \in Strings /\ c \in 0 .. Len(key)
      /\ Agree(key, fetch.out, c)
      /\ Len(Truncated(key, c)) = c
  BY <1>1, <1>2, ComparedFacts
<1>6. k \in Nat /\ n \in Nat /\ Cap \in Nat \ {0} /\ o \in Nat /\ s \in Nat /\ c \in Nat
  BY <1>4, <1>5, OverflowAssumption DEF FetchedTo, CompareInv, FetchInv, ChainFile, Strings
<1>7. c = x
  BY <1>1, <1>4, <1>5 DEF FetchedTo
<1>8. x \in Nat /\ y \in Nat /\ (n <= k => y <= x)
  BY <1>6, Times
<1>9. ~ (k < n)
  <2> SUFFICES ASSUME k < n PROVE FALSE
    OBVIOUS
  <2>1. k \in 0 .. n - 1
    BY <1>6
  <2> QED  BY <1>4, <2>1 DEF FetchedTo
<1>10. o <= y
  BY <1>4 DEF FetchedTo
<1>11. o < s
  <2> HIDE DEF c, s, o, x, y
  <2> QED  BY <1>1, <1>6, <1>7, <1>8, <1>9, <1>10 DEF c, s
<1>12. fetch.result # "ok" /\ Reach(Walk[n]) = fetch.result
  BY <1>1, <1>3, <1>6, <1>11 DEF FetchAt
<1>13. ~ (n < k)
  <2> SUFFICES ASSUME n < k PROVE FALSE
    OBVIOUS
  <2>1. n \in 0 .. k - 1
    BY <1>6
  <2>2. Reach(Walk[n]) = "ok"
    BY <1>4, <2>1 DEF FetchedTo
  <2> QED  BY <1>12, <2>2
<1>14. n = k
  BY <1>6, <1>9, <1>13
<1>15. o = c
  BY <1>4, <1>7, <1>11, <1>14 DEF FetchedTo
<1>16. o <= Len(key) /\ Agree(key, fetch.out, o)
  BY <1>5, <1>15
<1>17. ~ Precedes(key, fetch.out) /\ IsPrefixOf(fetch.out, key)
  BY <1>5, <1>16, AnswerFacts
<1> QED  BY <1>4, <1>12, <1>14, <1>17 DEF Answer

\* When everything was equal, fetch has not failed, and the lengths are left.
LEMMA ReturnsAlike ==
  ASSUME CompareInv, fetch.result # "none", compare.result = "none", ~ Comparing
  PROVE  Answer = IF Len(key) = item.size THEN "Equal"
                  ELSE IF Len(key) < item.size THEN "Less"
                  ELSE "Greater"
<1>1. ~ (compare.consumed < item.size)
  BY DEF Comparing
<1>2. PICK k : CompareAt(k)
  BY DEF CompareInv
<1>3. PICK n : FetchAt(n)
  BY DEF CompareInv, FetchInv
<1> DEFINE c == compare.consumed
           s == item.size
           o == Len(fetch.out)
<1>4. FetchedTo(n, fetch.out) /\ FetchedTo(k, Truncated(key, c))
  BY <1>2, <1>3 DEF FetchAt, CompareAt
<1>5. /\ key \in Strings /\ fetch.out \in Strings /\ c \in 0 .. Len(key)
      /\ c <= o /\ Agree(key, fetch.out, c)
      /\ Len(Truncated(key, c)) = c
  BY <1>2, ComparedFacts
<1>6. o \in Nat /\ s \in Nat /\ c \in Nat /\ Len(key) \in Nat
  BY <1>4, <1>5 DEF FetchedTo, CompareInv, FetchInv, ChainFile, Strings
<1>7. c = s /\ o = s /\ s <= Len(key)
  <2>1. c <= s /\ o <= s
    BY <1>4, <1>5 DEF FetchedTo
  <2> QED  BY <1>1, <1>5, <1>6, <2>1
<1>8. fetch.result = "ok"
  <2>1. ~ (o < s)
    BY <1>6, <1>7
  <2> QED  BY <1>3, <2>1 DEF FetchAt
<1>9. o <= Len(key) /\ Agree(key, fetch.out, o)
  BY <1>5, <1>7
<1>10. ~ Precedes(key, fetch.out)
  BY <1>5, <1>9, AnswerFacts
<1>11. Len(key) = s => key = fetch.out
  <2> SUFFICES ASSUME Len(key) = s PROVE key = fetch.out
    OBVIOUS
  <2>1. Len(key) = Len(fetch.out) /\ \A i \in 1 .. Len(key) : key[i] = fetch.out[i]
    BY <1>5, <1>7 DEF Agree
  <2> QED  BY <1>5, <2>1, SameSeq DEF Strings
<1>12. Len(key) # s => key # fetch.out
  BY <1>7
<1>13. ~ (Len(key) < s)
  BY <1>6, <1>7
<1> QED  BY <1>8, <1>10, <1>11, <1>12, <1>13 DEF Answer

\* The parts of the key and of the page that are compared, read without
\* SubSeq, and the page read as a part of what fetch has returned.
LEMMA PartFacts ==
  ASSUME CompareInv, AtPayload, NEW k, CompareAt(k)
  PROVE  /\ KeyPart \in Strings /\ Len(KeyPart) = CmpLen
         /\ OtherPart \in Strings /\ Len(OtherPart) = CmpLen
         /\ Len(KeyRest) = Len(key) - compare.consumed
         /\ Len(Other) \in Nat
         /\ CmpLen = IF Len(KeyRest) < Len(Other) THEN Len(KeyRest) ELSE Len(Other)
         /\ compare.consumed + Len(Other) <= Len(fetch.out)
         /\ \A j \in 1 .. CmpLen : /\ KeyPart[j] = key[compare.consumed + j]
                                   /\ OtherPart[j] = fetch.out[compare.consumed + j]
         /\ FetchedTo(k + 1, Truncated(key, compare.consumed) \o Other)
         /\ Walk[k + 1] = file[compare.pgno].next
         /\ Other \in Strings
         /\ \A j \in 1 .. CmpLen : OtherPart[j] = Other[j]
<1> DEFINE c == compare.consumed
           p == Truncated(key, c)
           e == c + 1
           l == Len(key)
           kr == SubSeq(key, e, l)
           n == CmpLen
           one == 1
           kp == SubSeq(KeyRest, one, n)
           op == SubSeq(Other, one, n)
<1>1. /\ fetch.result # "none" /\ compare.result = "none" /\ c < item.size
      /\ Reach(compare.pgno) = "ok"
  BY DEF AtPayload, Comparing
<1>2. /\ key \in Strings /\ fetch.out \in Strings /\ c \in 0 .. l
      /\ p \in Strings /\ Len(p) = c
  BY <1>1, ComparedFacts
<1>3. FetchedTo(k, p) /\ compare.pgno = Walk[k]
  BY DEF CompareAt
<1>4. Other = Taken(Walk[k], Len(p))
  BY <1>2, <1>3 DEF Other
<1>5. ChainFile
  BY DEF CompareInv, FetchInv
<1>6. l \in Nat /\ c \in Nat
  BY <1>2 DEF Strings
<1>7. Other \in Strings /\ Len(Other) \in Nat
  <2>1. Taken(Walk[k], Len(p)) \in Seq(Nat)
    <3> HIDE DEF p
    <3> QED  BY <1>1, <1>2, <1>3, <1>5, <1>6, TakenFacts
  <2> QED  BY <1>4, <2>1 DEF Strings
<1>8. FetchedTo(k + 1, p \o Other) /\ Walk[k + 1] = file[compare.pgno].next
  <2> HIDE DEF p
  <2> QED  BY <1>1, <1>2, <1>3, <1>4, <1>5, OnePageMore
<1>9. /\ kr \in Strings /\ Len(kr) = l - c
      /\ \A j \in 1 .. Len(kr) : kr[j] = key[c + j]
  <2>1. e \in Nat \ {0} /\ l \in 0 .. Len(key) /\ e = c + 1 /\ key \in Seq(Nat)
    BY <1>2, <1>6 DEF Strings
  <2> HIDE DEF e, l
  <2>2. /\ kr \in Seq(Nat) /\ Len(kr) = IF e <= l THEN l - e + 1 ELSE 0
        /\ \A j \in 1 .. Len(kr) : kr[j] = key[e + j - 1]
    BY <2>1, SubSeqFacts
  <2> HIDE DEF kr
  <2>3. Len(kr) = l - c
    BY <1>2, <1>6, <2>1, <2>2
  <2>4. \A j \in 1 .. Len(kr) : e + j - 1 = c + j
    BY <1>6, <2>1, <2>3
  <2> QED  BY <2>2, <2>3, <2>4 DEF Strings
<1>10. KeyRest = kr
  BY DEF KeyRest
<1> HIDE DEF kr
<1>11. n = (IF Len(KeyRest) < Len(Other) THEN Len(KeyRest) ELSE Len(Other)) /\ n \in Nat
  <2> DEFINE a == Len(KeyRest)
             b == Len(Other)
  <2>1. a \in Nat /\ b \in Nat
    BY <1>6, <1>7, <1>9, <1>10, <1>2
  <2>2. n = Min({a, b})
    BY DEF CmpLen
  <2> HIDE DEF a, b, n
  <2>3. n = IF a < b THEN a ELSE b
    BY <2>1, <2>2 DEF Min
  <2> QED  BY <2>1, <2>3 DEF a, b
<1>12. KeyPart = kp /\ OtherPart = op
  BY DEF KeyPart, OtherPart
<1>13. KeyRest \in Seq(Nat) /\ Other \in Seq(Nat) /\ one \in Nat \ {0} /\ one = 1
  BY <1>7, <1>9, <1>10 DEF Strings
<1>14. n \in 0 .. Len(KeyRest) /\ n \in 0 .. Len(Other)
  BY <1>2, <1>6, <1>7, <1>9, <1>10, <1>11
<1> HIDE DEF one, n
<1>15. /\ kp \in Seq(Nat) /\ Len(kp) = IF one <= n THEN n - one + 1 ELSE 0
       /\ \A j \in 1 .. Len(kp) : kp[j] = KeyRest[one + j - 1]
  BY <1>13, <1>14, SubSeqFacts
<1>16. /\ op \in Seq(Nat) /\ Len(op) = IF one <= n THEN n - one + 1 ELSE 0
       /\ \A j \in 1 .. Len(op) : op[j] = Other[one + j - 1]
  BY <1>13, <1>14, SubSeqFacts
<1> HIDE DEF kp, op
<1>17. Len(kp) = n /\ Len(op) = n /\ \A j \in 1 .. n : one + j - 1 = j
  BY <1>11, <1>13, <1>15, <1>16
<1>18. \A j \in 1 .. n : kp[j] = key[c + j] /\ op[j] = Other[j]
  <2> TAKE j \in 1 .. n
  <2>1. j \in 1 .. Len(kr)
    BY <1>10, <1>14
  <2> QED  BY <1>9, <1>10, <1>15, <1>16, <1>17, <2>1
<1> DEFINE m == Len(Other)
           u == p \o Other
<1>19. /\ u \in Seq(Nat) /\ Len(u) = c + m
       /\ \A j \in 1 .. m : u[c + j] = Other[j]
  <2>1. p \in Seq(Nat) /\ c = Len(p) /\ m \in Nat
    BY <1>2, <1>7 DEF Strings
  <2>2. m = Len(Other)
    OBVIOUS
  <2> HIDE DEF p, c, m
  <2> QED  BY <1>6, <1>13, <2>1, <2>2, ConcatFacts
<1>20. Len(u) <= Len(fetch.out) /\ Agree(u, fetch.out, Len(u))
  <2> HIDE DEF u
  <2> QED  BY <1>1, <1>8, FetchedIsLongest DEF CompareInv, u
<1>21. \A j \in 1 .. n : op[j] = fetch.out[c + j]
  <2> TAKE j \in 1 .. n
  <2>1. j \in 1 .. m /\ c + j \in 1 .. c + m
    BY <1>6, <1>7, <1>14
  <2> HIDE DEF u, c, m
  <2> QED  BY <1>18, <1>19, <1>20, <2>1 DEF Agree
<1> QED  BY <1>2, <1>7, <1>8, <1>9, <1>10, <1>11, <1>12, <1>15, <1>16, <1>17, <1>18, <1>19,
            <1>20, <1>21 DEF n, Strings

\* Where the two parts are equal the key has agreed with fetch's bytes to the
\* end of the part.
LEMMA EqualPart ==
  ASSUME CompareInv, AtPayload, NEW k, CompareAt(k), KeyPart = OtherPart
  PROVE  Agree(key, fetch.out, compare.consumed + CmpLen)
<1> DEFINE c == compare.consumed
           n == CmpLen
<1>1. c \in Nat /\ Agree(key, fetch.out, c)
  BY ComparedFacts DEF AtPayload, Comparing
<1>2. \A j \in 1 .. n : KeyPart[j] = key[c + j] /\ OtherPart[j] = fetch.out[c + j]
  BY PartFacts
<1>3. n \in Nat
  BY PartFacts DEF Strings
<1> HIDE DEF c, n
<1>4. Agree(key, fetch.out, c + n)
  <2> SUFFICES ASSUME NEW j \in 1 .. c + n PROVE key[j] = fetch.out[j]
    BY DEF Agree
  <2>1. CASE j <= c
    BY <1>1, <1>3, <2>1 DEF Agree
  <2>2. CASE ~ (j <= c)
    <3> DEFINE i == j - c
    <3>1. i \in 1 .. n /\ c + i = j
      BY <1>1, <1>3, <2>2
    <3> HIDE DEF i
    <3> QED  BY <1>2, <3>1
  <2> QED  BY <2>1, <2>2
<1> QED  BY <1>4 DEF c, n

\* What a page decides is what the whole strings decide.
LEMMA DecidesAlike ==
  ASSUME CompareInv, AtPayload, Decided # "none"
  PROVE  Decided = Answer
<1>1. compare.result = "none" /\ fetch.result # "none"
  BY DEF AtPayload, Comparing
<1>2. PICK k : CompareAt(k)
  BY <1>1 DEF CompareInv
<1> DEFINE c == compare.consumed
           n == CmpLen
<1>3. /\ key \in Strings /\ fetch.out \in Strings /\ c \in 0 .. Len(key)
      /\ Agree(key, fetch.out, c)
  BY <1>1, <1>2, ComparedFacts
<1>4. /\ KeyPart \in Strings /\ Len(KeyPart) = n
      /\ OtherPart \in Strings /\ Len(OtherPart) = n
      /\ Len(KeyRest) = Len(key) - c /\ Len(Other) \in Nat
      /\ n = IF Len(KeyRest) < Len(Other) THEN Len(KeyRest) ELSE Len(Other)
      /\ c + Len(Other) <= Len(fetch.out)
      /\ \A j \in 1 .. n : KeyPart[j] = key[c + j] /\ OtherPart[j] = fetch.out[c + j]
  BY <1>2, PartFacts
<1>5. Len(key) \in Nat /\ Len(fetch.out) \in Nat /\ c \in Nat /\ n \in Nat
  BY <1>3, <1>4 DEF Strings
<1>6. CASE KeyRanOut
  <2>1. KeyPart = OtherPart /\ Len(KeyRest) < Len(Other)
    BY <1>6 DEF KeyRanOut
  <2>2. Agree(key, fetch.out, c + n)
    BY <1>2, <2>1, EqualPart
  <2>3. c + n = Len(key) /\ Len(key) < Len(fetch.out)
    <3> DEFINE a == Len(KeyRest)
               b == Len(Other)
               l == Len(key)
               o == Len(fetch.out)
    <3>1. n = a /\ a < b /\ a = l - c /\ c + b <= o /\ b \in Nat
      BY <1>4, <2>1
    <3> HIDE DEF a, b, l, o, c, n
    <3>2. l \in Nat /\ o \in Nat
      BY <1>5 DEF l, o
    <3>3. c + n = l /\ l < o
      BY <1>5, <3>1, <3>2
    <3> QED  BY <3>3 DEF l, o
  <2>4. Precedes(key, fetch.out)
    BY <1>3, <2>2, <2>3, AnswerFacts
  <2> QED  BY <1>6, <2>4 DEF Decided, Answer
<1>7. CASE ~ KeyRanOut
  <2>1. KeyPart # OtherPart
    BY <1>7 DEF Decided
  <2>2. c + n <= Len(key) /\ c + n <= Len(fetch.out)
    <3> DEFINE a == Len(KeyRest)
               b == Len(Other)
               l == Len(key)
               o == Len(fetch.out)
    <3>1. n = (IF a < b THEN a ELSE b) /\ a = l - c /\ c + b <= o /\ b \in Nat
      BY <1>4
    <3> HIDE DEF a, b, l, o, c, n
    <3>2. l \in Nat /\ o \in Nat
      BY <1>5 DEF l, o
    <3>3. c + n <= l /\ c + n <= o
      BY <1>5, <3>1, <3>2
    <3> QED  BY <3>3 DEF l, o
  <2>3. /\ Precedes(KeyPart, OtherPart) <=> Precedes(key, fetch.out)
        /\ \E i \in 1 .. c + n : key[i] # fetch.out[i]
    <3> DEFINE p == KeyPart
               q == OtherPart
               b == fetch.out
    <3>1. /\ key \in Strings /\ b \in Strings /\ p \in Strings /\ q \in Strings
          /\ c \in Nat /\ n \in Nat
          /\ c + n <= Len(key) /\ c + n <= Len(b) /\ Agree(key, b, c)
          /\ Len(p) = n /\ Len(q) = n /\ p # q
          /\ \A j \in 1 .. n : p[j] = key[c + j] /\ q[j] = b[c + j]
      BY <1>3, <1>4, <1>5, <2>1, <2>2
    <3> HIDE DEF c, n, p, q, b
    <3>2. /\ Precedes(p, q) <=> Precedes(key, b)
          /\ \E i \in 1 .. c + n : key[i] # b[i]
      BY ONLY <3>1, RestsDecide
    <3> QED  BY <3>2 DEF p, q, b
  <2>4. \E i \in 1 .. Len(fetch.out) : key[i] # fetch.out[i]
    <3>1. \A i \in 1 .. c + n : i \in 1 .. Len(fetch.out)
      BY <1>5, <2>2
    <3> QED  BY <2>3, <3>1
  <2>5. key # fetch.out /\ ~ IsPrefixOf(fetch.out, key)
    BY <1>3, <2>4, AnswerFacts
  <2> QED  BY <1>7, <2>1, <2>3, <2>5 DEF Decided, Answer
<1> QED  BY <1>6, <1>7

\* A page that decides nothing is the key's next part.
LEMMA ComparedMore ==
  ASSUME CompareInv, AtPayload, Decided = "none", NEW k, CompareAt(k)
  PROVE  /\ compare.consumed + Len(Other) \in 0 .. Len(key)
         /\ FetchedTo(k + 1, Truncated(key, compare.consumed + Len(Other)))
         /\ Walk[k + 1] = file[compare.pgno].next
<1> DEFINE c == compare.consumed
           n == CmpLen
           m == Len(Other)
           l == Len(key)
           e == c + m
           p == Truncated(key, c)
           q == Truncated(key, e)
           u == p \o Other
<1>1. /\ key \in Strings /\ c \in 0 .. l /\ p \in Strings /\ Len(p) = c
  BY ComparedFacts DEF AtPayload, Comparing
<1>2. /\ Len(KeyRest) = l - c /\ m \in Nat
      /\ n = IF Len(KeyRest) < m THEN Len(KeyRest) ELSE m
      /\ \A j \in 1 .. n : /\ KeyPart[j] = key[c + j] /\ OtherPart[j] = Other[j]
      /\ FetchedTo(k + 1, u) /\ Walk[k + 1] = file[compare.pgno].next
      /\ Other \in Strings
  BY PartFacts
<1>3. KeyPart = OtherPart /\ ~ (Len(KeyRest) < m)
  BY DEF Decided, KeyRanOut
<1>4. n = m /\ c \in Nat /\ l \in Nat /\ e \in 0 .. l
  BY <1>1, <1>2, <1>3 DEF Strings
<1>5. /\ u \in Seq(Nat) /\ Len(u) = c + m
      /\ \A j \in 1 .. c : u[j] = p[j]
      /\ \A j \in 1 .. m : u[c + j] = Other[j]
  <2>1. p \in Seq(Nat) /\ Other \in Seq(Nat) /\ c = Len(p) /\ m \in Nat
    BY <1>1, <1>2 DEF Strings
  <2>2. m = Len(Other)
    OBVIOUS
  <2> HIDE DEF p, c, m
  <2> QED  BY <1>4, <2>1, <2>2, ConcatFacts
<1>6. q \in Seq(Nat) /\ Len(q) = e /\ \A j \in 1 .. e : q[j] = key[j]
  <2> HIDE DEF e
  <2> QED  BY <1>1, <1>4, TruncatedFacts DEF Strings
<1>7. \A j \in 1 .. c : p[j] = key[j]
  <2> HIDE DEF c
  <2> QED  BY <1>1, <1>4, TruncatedFacts
<1> HIDE DEF u, q, p
<1>8. ASSUME NEW j \in 1 .. e PROVE u[j] = q[j]
  <2>1. CASE j <= c
    BY <1>4, <1>5, <1>6, <1>7, <2>1
  <2>2. CASE ~ (j <= c)
    <3> DEFINE i == j - c
    <3>1. i \in 1 .. m /\ c + i = j
      BY <1>2, <1>4, <2>2
    <3> HIDE DEF i
    <3>2. u[j] = Other[i] /\ q[j] = key[c + i]
      BY <1>5, <1>6, <3>1
    <3>3. KeyPart[i] = key[c + i] /\ OtherPart[i] = Other[i]
      BY <1>2, <1>4, <3>1
    <3> QED  BY <1>3, <3>2, <3>3
  <2> QED  BY <2>1, <2>2
<1>9. u = q
  <2>1. Len(u) = Len(q) /\ \A j \in 1 .. Len(u) : u[j] = q[j]
    BY <1>5, <1>6, <1>8
  <2> QED  BY <1>5, <1>6, <2>1, SameSeq
<1> QED  BY <1>2, <1>4, <1>9 DEF q

\* A comparison begins where the entry says, with nothing compared.
LEMMA InitEstablishesCompare == OverflowInit => CompareInv
<1> SUFFICES ASSUME OverflowInit PROVE CompareInv
  OBVIOUS
<1>1. FetchInv
  BY InitEstablishesFetch
<1>2. compare = [pgno |-> item.pgno, consumed |-> 0, result |-> "none"]
  BY DEF OverflowInit
<1>3. item.pgno \in Nat /\ item.size \in Nat /\ key \in Strings
  BY <1>1 DEF FetchInv, ChainFile, Strings
<1>4. compare \in CompareRecord
  BY <1>2, <1>3 DEF CompareRecord, CompareResults
<1>5. CompareAt(0)
  <2> DEFINE z == 0
  <2>1. z \in 0 .. Len(key) /\ z = 0
    BY <1>3 DEF Strings
  <2> HIDE DEF z
  <2>2. Truncated(key, z) \in Strings /\ Len(Truncated(key, z)) = z
    BY <1>3, <2>1, TruncatedFacts
  <2>3. Cap * 0 = 0
    BY OverflowAssumption
  <2>4. FetchedTo(0, Truncated(key, z))
    BY <1>3, <2>1, <2>2, <2>3 DEF FetchedTo, Strings
  <2>5. compare.consumed = z /\ compare.pgno = Walk[0]
    BY <1>1, <1>2, <2>1, WalkFacts DEF FetchInv
  <2> QED  BY <2>1, <2>4, <2>5 DEF CompareAt
<1>6. compare.result = "none"
  BY <1>2
<1> QED  BY <1>1, <1>4, <1>5, <1>6 DEF CompareInv, CompareAgrees

\* Every step of either loop keeps the comparison right.
LEMMA NextPreservesCompare == CompareInv /\ [OverflowNext]_overflowVars => CompareInv'
<1> SUFFICES ASSUME CompareInv, [OverflowNext]_overflowVars PROVE CompareInv'
  OBVIOUS
<1>1. UNCHANGED <<file, item, key>>
  BY DEF OverflowNext, overflowVars, FetchFails, FetchPage, FetchReturns, CompareFails,
         CompareDecides, ComparePage, CompareReturns
<1>2. /\ FetchInv'
      /\ Walk' = Walk
      /\ \A p : Reach(p)' = Reach(p)
      /\ \A i : ChainByte(i)' = ChainByte(i)
  BY <1>1, SameChain, NextPreservesFetch DEF CompareInv
<1>3. \A n, p : FetchedTo(n, p) => FetchedTo(n, p)'
  BY <1>1, <1>2 DEF FetchedTo
<1>4. ASSUME UNCHANGED compare, compare.result = "none" PROVE CompareInv'
  <2>1. PICK k : CompareAt(k)
    BY <1>4 DEF CompareInv
  <2>2. CompareAt(k)'
    <3>1. FetchedTo(k, Truncated(key, compare.consumed))
      BY <2>1 DEF CompareAt
    <3>2. FetchedTo(k, Truncated(key, compare.consumed))'
      BY <1>1, <1>2, <1>4, <3>1 DEF FetchedTo, Truncated
    <3> QED  BY <1>1, <1>2, <1>4, <2>1, <3>2 DEF CompareAt
  <2>3. compare' \in CompareRecord'
    BY <1>4 DEF CompareInv, CompareRecord, CompareResults, Results
  <2> QED  BY <1>2, <1>4, <2>2, <2>3 DEF CompareInv, CompareAgrees
<1>5. ASSUME UNCHANGED fetch, fetch.result # "none", compare' \in CompareRecord,
             compare'.result # "none", compare'.result = Answer
      PROVE  CompareInv'
  <2>1. compare' \in CompareRecord'
    BY <1>5 DEF CompareRecord, CompareResults, Results
  <2>2. CompareAgrees'
    BY <1>1, <1>5 DEF CompareAgrees, Answer, Precedes, IsPrefixOf
  <2> QED  BY <1>2, <1>5, <2>1, <2>2 DEF CompareInv
<1>6. CASE FetchFails \/ FetchPage \/ FetchReturns
  <2>1. fetch.result = "none" /\ UNCHANGED compare
    BY <1>6 DEF FetchFails, FetchPage, FetchReturns, Fetching
  <2>2. compare.result = "none"
    BY <2>1 DEF CompareInv
  <2> QED  BY <1>4, <2>1, <2>2
<1>7. CASE CompareFails
  <2>1. /\ Comparing /\ Reach(compare.pgno) # "ok" /\ UNCHANGED fetch
        /\ compare' = [compare EXCEPT !.result = Reach(compare.pgno)]
    BY <1>7 DEF CompareFails
  <2>2. compare \in CompareRecord /\ Reach(compare.pgno) \in Results
    BY ReachResults DEF CompareInv
  <2>3. compare' \in CompareRecord /\ compare'.result = Reach(compare.pgno)
    BY <2>1, <2>2 DEF CompareRecord, CompareResults
  <2>4. Reach(compare.pgno) = Answer
    BY <2>1, FailsAlike
  <2>5. compare'.result # "none"
    BY <2>2, <2>3 DEF Results
  <2> QED  BY <1>5, <2>1, <2>3, <2>4, <2>5 DEF Comparing
<1>8. CASE CompareDecides
  <2>1. /\ AtPayload /\ Decided # "none" /\ UNCHANGED fetch
        /\ compare' = [compare EXCEPT !.result = Decided]
    BY <1>8 DEF CompareDecides
  <2>2. compare \in CompareRecord /\ Decided \in CompareResults
    BY DEF CompareInv, Decided, CompareResults
  <2>3. compare' \in CompareRecord /\ compare'.result = Decided
    BY <2>1, <2>2 DEF CompareRecord
  <2>4. Decided = Answer
    BY <2>1, DecidesAlike
  <2> QED  BY <1>5, <2>1, <2>3, <2>4 DEF AtPayload, Comparing
<1>9. CASE ComparePage
  <2>1. /\ AtPayload /\ Decided = "none" /\ UNCHANGED <<fetch, key>>
        /\ compare' = [compare EXCEPT !.consumed = @ + Len(Other),
                                      !.pgno = file[compare.pgno].next]
    BY <1>9 DEF ComparePage
  <2>2. compare.result = "none" /\ fetch.result # "none" /\ Reach(compare.pgno) = "ok"
    BY <2>1 DEF AtPayload, Comparing
  <2>3. PICK k : CompareAt(k)
    BY <2>2 DEF CompareInv
  <2> DEFINE e == compare.consumed + Len(Other)
             g == file[compare.pgno].next
  <2>4. /\ e \in 0 .. Len(key) /\ FetchedTo(k + 1, Truncated(key, e)) /\ Walk[k + 1] = g
    BY <2>1, <2>3, ComparedMore
  <2>5. g \in Nat
    BY <2>2, ReachedPage DEF CompareInv, FetchInv
  <2>6. e \in Nat
    BY <2>4
  <2>7. compare \in CompareRecord /\ compare' = [compare EXCEPT !.consumed = e, !.pgno = g]
    BY <2>1 DEF CompareInv, CompareRecord
  <2> HIDE DEF e, g
  <2>8. /\ compare'.consumed = e /\ compare'.pgno = g /\ compare'.result = compare.result
        /\ compare' \in CompareRecord
    BY <2>5, <2>6, <2>7 DEF CompareRecord
  <2>9. CompareAt(k + 1)'
    <3>1. FetchedTo(k + 1, Truncated(key, e))
      BY <2>4
    <3>2. Truncated(key, compare.consumed)' = Truncated(key, e)
      BY <2>1, <2>8 DEF Truncated
    <3>3. FetchedTo(k + 1, Truncated(key, compare.consumed))'
      BY <1>1, <1>2, <3>1, <3>2 DEF FetchedTo
    <3> QED  BY <1>1, <1>2, <2>4, <2>8, <3>3 DEF CompareAt
  <2>10. compare' \in CompareRecord'
    BY <2>8 DEF CompareRecord, CompareResults, Results
  <2> QED  BY <1>2, <2>2, <2>8, <2>9, <2>10 DEF CompareInv, CompareAgrees
<1>10. CASE CompareReturns
  <2> DEFINE a == IF Len(key) = item.size THEN "Equal"
                  ELSE IF Len(key) < item.size THEN "Less"
                  ELSE "Greater"
  <2>1. /\ fetch.result # "none" /\ compare.result = "none" /\ ~ Comparing /\ UNCHANGED fetch
        /\ compare' = [compare EXCEPT !.result = a]
    BY <1>10 DEF CompareReturns
  <2>2. a = Answer
    BY <2>1, ReturnsAlike
  <2>3. a \in {"Less", "Equal", "Greater"}
    OBVIOUS
  <2> HIDE DEF a
  <2>4. compare' \in CompareRecord /\ compare'.result = a
    BY <2>1, <2>3 DEF CompareInv, CompareRecord, CompareResults
  <2> QED  BY <1>5, <2>1, <2>2, <2>3, <2>4
<1>11. CASE UNCHANGED overflowVars
  <2>1. UNCHANGED <<fetch, compare>>
    BY <1>11 DEF overflowVars
  <2>2. CASE compare.result = "none"
    BY <1>4, <2>1, <2>2
  <2>3. CASE compare.result # "none"
    <3>1. /\ fetch.result # "none" /\ compare' \in CompareRecord
          /\ compare'.result # "none" /\ compare'.result = Answer
      BY <2>1, <2>3 DEF CompareInv, CompareAgrees, Answer
    <3> QED  BY <1>5, <2>1, <3>1
  <2> QED  BY <2>2, <2>3
<1> QED  BY <1>6, <1>7, <1>8, <1>9, <1>10, <1>11 DEF OverflowNext

\* A lookup's comparison and a scan's fetch agree on every file, damaged or
\* not, for every key and every payload size.
THEOREM CompareAlwaysAgrees == OverflowSpec => []CompareAgrees
<1>1. CompareInv => CompareAgrees
  BY DEF CompareInv
<1> QED  BY <1>1, InitEstablishesCompare, NextPreservesCompare, PTL DEF OverflowSpec
=============================================================================

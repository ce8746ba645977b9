------------------------------ MODULE MCBytes -------------------------------
(***************************************************************************)
(* What the bytes of keys and files say: the prefix rule on pairs of       *)
(* strings, the meta page in both byte orders, one entry of a page of any  *)
(* content, and an overflow chain.  The four share no state: a behaviour   *)
(* is a behaviour of one of them, and the others rest.                     *)
(***************************************************************************)
EXTENDS MCByteKeys, MetaPage, PageDecode, Overflow

VARIABLE part   (* the one that runs *)

-----------------------------------------------------------------------------
(* The meta page: files of both byte orders, and files that hold the right *)
(* values in the wrong order, wrong values or too few bytes.               *)

\* 512, the default of 4096, and 32768.
MCPsizeWords == {<<0, 0, 2, 0>>, DEFAULT_PSIZE, <<0, 0, 128, 0>>}

\* Both orders of the magic number, the version, a flag and a page size whose
\* two orders are 512 and 131072; an odd page size, one below the least and
\* one above the greatest; and zero.
MCWords ==
  LET once == {BTREE_MAGIC, BTREE_VERSION, B_NODUPS, <<0, 0, 2, 0>>, <<0, 0, 2, 1>>,
               <<0, 0, 1, 254>>, <<0, 0, 128, 2>>}
  IN  once \cup {Swap32(w) : w \in once} \cup {P_INVALID}

\* Fields that no exchange of bytes leaves as they are.
MCFields32 == {<<1, 2, 3, 4>>}
MCFields16 == {<<16, 0>>}

MCLengths == {0, 23, 24, 1024, 1025}

-----------------------------------------------------------------------------
(* Decoding: pages of 32 and 40 bytes, with a usize of seven bits.         *)

\* Around the header's end, the ends of both pages and what is left of them
\* behind an entry's header, and the greatest number.
MCU16 == {0, 19, 20, 21, 22, 23, 24, 27, 28, 31, 32, 33, 36, 40, 41, 127}
MCU32 == {0, 1, 2, 3, 4, 7, 8, 9, 10, 12, 31, 40, 87, 95, 96, 99, 119, 120, 127}

-----------------------------------------------------------------------------
(* The parts at rest.                                                      *)

NothingToOpen ==
  /\ writer = "none"
  /\ field32 = P_INVALID
  /\ field16 = <<0, 0>>
  /\ raw = [len |-> 0, meta |-> [o \in Offsets |-> P_INVALID],
            hdr32 |-> field32, hdr16 |-> field16]
  /\ opened = [h \in Hosts |-> NotOpened]

NothingToDecode ==
  /\ size = PAGE_HEADER_SIZE
  /\ nentries = 0
  /\ pc = "parse"
  /\ off = 0 /\ ksize = 0 /\ dsize = 0
  /\ bigkey = FALSE /\ bigdata = FALSE
  /\ keyItem = NoItem /\ dataItem = NoItem

\* An empty chain, fetched and compared.
NoChain ==
  /\ file = <<>>
  /\ item = [pgno |-> NoPage, size |-> 0]
  /\ key = <<>>
  /\ fetch = [pgno |-> NoPage, out |-> <<>>, result |-> "ok"]
  /\ compare = [pgno |-> NoPage, consumed |-> 0, result |-> "Equal"]

BytesInit ==
  \/ part = "prefix" /\ StringsInit /\ NothingToOpen /\ NothingToDecode /\ NoChain
  \/ part = "open"   /\ StringsInit /\ MetaInit /\ NothingToDecode /\ NoChain
  \/ part = "decode" /\ StringsInit /\ NothingToOpen /\ DecodeInit /\ NoChain
  \/ part = "chain"  /\ StringsInit /\ NothingToOpen /\ NothingToDecode /\ OverflowInit

PrefixStep ==
  /\ part = "prefix" /\ StringsNext
  /\ UNCHANGED <<part, metaVars, decodeVars, overflowVars>>

OpenStep ==
  /\ part = "open" /\ MetaNext
  /\ UNCHANGED <<part, stringVars, decodeVars, overflowVars>>

DecodeStep ==
  /\ part = "decode" /\ DecodeNext
  /\ UNCHANGED <<part, stringVars, metaVars, overflowVars>>

ChainStep ==
  /\ part = "chain" /\ OverflowNext
  /\ UNCHANGED <<part, stringVars, metaVars, decodeVars>>

BytesNext == PrefixStep \/ OpenStep \/ DecodeStep \/ ChainStep

bytesVars == <<part, stringVars, metaVars, decodeVars, overflowVars>>

\* Fairness as in OverflowFairSpec.
BytesFairSpec == BytesInit /\ [][BytesNext]_bytesVars /\ WF_bytesVars(ChainStep)
=============================================================================

----------------------------- MODULE MCSession ------------------------------
(***************************************************************************)
(* Small instances of Session, with keys as in MCBTreeWriter.              *)
(***************************************************************************)
EXTENDS Session, MCBTreeWriter

\* The long keys again, one or two fewer of them.
FourLongKeys == { <<1, 0, 0, 0, 0, 0, 0, i>> : i \in 0 .. 3 }
ThreeLongKeys == { <<1, 0, 0, 0, 0, 0, 0, i>> : i \in 0 .. 2 }
=============================================================================

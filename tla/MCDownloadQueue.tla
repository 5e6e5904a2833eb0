--------------------------- MODULE MCDownloadQueue ---------------------------
(***************************************************************************)
(* Instances of DownloadQueue for TLC: two manga chapters of one source    *)
(* and a novel chapter of another compete for two slots; or one of each    *)
(* compete for the only slot.                                              *)
(***************************************************************************)
EXTENDS DownloadQueue

CONSTANTS manga1, manga2, novel, src1, src2

Three == {manga1, manga2, novel}
Two == {manga1, novel}
MCNovels == {novel}
MCSourceOf == [c \in Three |-> IF c = novel THEN src2 ELSE src1]

=============================================================================

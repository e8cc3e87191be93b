----------------------------- MODULE MCInodeData -----------------------------
(***************************************************************************)
(* Two files of up to seven blocks of two words (one direct, two under the *)
(* indirect, four under the doubly indirect entry) on a disk of five data  *)
(* blocks.  A write of no words only saves a size; one of three words      *)
(* starts or ends within a block and spans two; one of thirteen (in        *)
(* MCInodeDataFull.cfg) goes from an empty file to a full disk at once.    *)
(* Writes of three words to both files need more blocks than there are.    *)
(* After two calls of lseek an offset is close to W, and offset + len      *)
(* wraps.                                                                  *)
(***************************************************************************)
EXTENDS InodeData

\* To the doubly indirect blocks, to the last word, back to the start.
MCSeeks == {<<"SET", 6>>, <<"ADD", 9>>, <<"SUB", 15>>}
=============================================================================

--------------------------- MODULE MCVoodooTexture ---------------------------
(* VoodooTexture with a memory of two pages of four bytes and three         *)
(* textures: brick fills the first page, sky lies in both with two ranges,  *)
(* and moss lies across the boundary with its second page never marked.     *)
EXTENDS VoodooTexture

CONSTANTS brick, sky, moss
MCTextures == {brick, sky, moss}
Bytes(a, b) == [start |-> a, end |-> b]
MCRanges == [t \in MCTextures |-> CASE t = brick -> {Bytes(0, 4)}
                                    [] t = sky -> {Bytes(1, 4), Bytes(4, 6)}
                                    [] t = moss -> {Bytes(3, 5)}]
ASSUME MCTracked == Tracked(brick) /\ Tracked(sky) /\ ~Tracked(moss)

(* Which ranges are tracked: those that end within texture memory, do not   *)
(* fill it, and whose odd bytes do not run over one more page boundary than *)
(* the steps of the marks.  Those aligned to a page are among them.         *)
ASSUME TrackedRanges ==
  \A a, b \in 0 .. TEX_PAGE * TEX_PAGES :
    a < b /\ ~(a < TEX_PAGE /\ b = TEX_PAGE * TEX_PAGES) =>
      (/\ Covers(Bytes(a, b)) \subseteq Evicts(Bytes(a, b))
       /\ Covers(Bytes(a, b)) \subseteq Marks(Bytes(a, b)) <=>
            (a % TEX_PAGE) + ((b - a) % TEX_PAGE) <= TEX_PAGE)
=============================================================================

------------------------------ MODULE MCInspect ------------------------------
(***************************************************************************)
(* TLC instance of Inspect.  Four blocks are enough for a fork of length   *)
(* two to overtake the chain it left; the texts name every block, one more *)
(* than there can be, and mix well-formed and malformed pieces.            *)
(***************************************************************************)
EXTENDS Inspect

Piece ==
  {[form |-> "hash", value |-> h] : h \in 1 .. MaxBlocks + 1}
    \cup {[form |-> f, value |-> n] : f \in {"number", "padded"}, n \in {0, 1, 2}}
    \cup {[form |-> "big", value |-> 9], [form |-> "other", value |-> 0]}
    \cup {[form |-> "bytes", value |-> [encodes |-> e, content |-> <<<<0, 1>>>>]] :
             e \in {"block", "extrinsic"}}

\* One piece; a block and an index; and something after the index.
MCTexts ==
  {<<p>> : p \in Piece}
    \cup {<<p, q>> : p \in Piece, q \in {i \in Piece : i.form # "hash"}}
    \cup {<<p, [form |-> "number", value |-> 0], [form |-> "other", value |-> 0]>> : p \in Piece}

=============================================================================

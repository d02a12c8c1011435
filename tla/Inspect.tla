------------------------------- MODULE Inspect -------------------------------
(***************************************************************************)
(* The inspect subcommand, node/inspect/src: parse the address of a block  *)
(* or of an extrinsic, look it up in the node's database and print it.     *)
(* The node that filled the database imported forks, switched between them *)
(* and discarded the bodies of old blocks before the command is run; the   *)
(* command itself holds the database's lock, so nothing changes meanwhile. *)
(*                                                                         *)
(* A text is abstracted to its pieces, the parts between the separators    *)
(* '.' and ':'.  A piece is a record [form, value]; its form decides which *)
(* of the library parsers (fixed-hash, core::str, sp_core::bytes) accept   *)
(* it.  The code separates at a blank as well, but a hex parser may skip   *)
(* blanks: texts with one are left out.                                    *)
(***************************************************************************)
EXTENDS Integers, Sequences

CONSTANTS
  MaxBlocks,       \* bound on the blocks imported, genesis included
  MaxExtrinsics,   \* bound on the extrinsics of a block
  Texts            \* the texts inspect is called with

ASSUME BoundsAssumption == MaxBlocks \in Nat \ {0} /\ MaxExtrinsics \in Nat

\* Splitting a text yields at least one piece.  The bytes of a piece are told
\* apart by what they encode; the value of any other well-formed piece is a
\* number or stands for a hash.
ASSUME TextsAssumption ==
  \A text \in Texts :
    /\ Len(text) \in Nat \ {0}
    /\ \A i \in 1 .. Len(text) :
         /\ text[i].form \in {"hash", "number", "padded", "big", "bytes", "other"}
         /\ text[i].form \in {"hash", "number", "padded", "big"} => text[i].value \in Nat

VARIABLES
  blocks,   \* the headers: blocks[h] has the hash h, genesis is blocks[1]
  bodies,   \* the hashes whose body is stored
  best,     \* the hash of the best block
  command,  \* the subcommand and its text
  result    \* what was printed or the error that was returned

vars == <<blocks, bodies, best, command, result>>

Ok(v)  == [ok |-> TRUE, value |-> v]
Err(e) == [ok |-> FALSE, value |-> e]

\* Option::Some and Option::None as sets; the value of a Some.
Some(v)     == {v}
None        == {}
Unwrap(opt) == CHOOSE v \in opt : TRUE

-----------------------------------------------------------------------------
(* The database *)

\* A set of blocks that has the parents of its blocks.
Closed(s) == \A h \in s : blocks[h].parent \in s \cup {0}

\* The best block and its ancestors, the least closed set that has the best
\* block: the chain that block numbers refer to.
Canonical ==
  {h \in DOMAIN blocks : \A s \in SUBSET DOMAIN blocks : best \in s /\ Closed(s) => h \in s}

\* The block a BlockId stands for: forks are known by hash, but a number is
\* looked up on the canonical chain.
Resolve(id) ==
  IF id.by = "Hash" THEN {id.of} \cap DOMAIN blocks
                    ELSE {h \in Canonical : blocks[h].number = id.of}

\* A block's extrinsics, told apart by the block they belong to.
ExtrinsicsOf(h) == [i \in 1 .. blocks[h].count |-> <<h, i>>]

\* BlockBackend::block_body and HeaderBackend::header.
BlockBody(id) == {ExtrinsicsOf(h) : h \in Resolve(id) \cap bodies}
Header(id)    == {[hash |-> h, number |-> blocks[h].number] : h \in Resolve(id)}

-----------------------------------------------------------------------------
(* Parsing *)

\* 64 hex digits without 0x are a hash.  So are 64 decimal digits: a number
\* padded with zeros reads as a hash no block has.
ParseHash(piece) ==
  CASE piece.form = "hash"   -> Some(piece.value)
    [] piece.form = "padded" -> Some(0)
    [] OTHER                 -> None

\* Decimal digits within a u32 are a number, leading zeros allowed.
ParseNumber(piece) == IF piece.form \in {"number", "padded"} THEN Some(piece.value) ELSE None

\* An index is a usize: digits beyond a u32 still fit.
ParseIndex(piece) ==
  IF piece.form \in {"number", "padded", "big"} THEN Some(piece.value) ELSE None

\* Hex digits with 0x are bytes.
FromHex(piece) == IF piece.form = "bytes" THEN Some(piece.value) ELSE None

\* BlockAddress::from_str: a hash, then a number, then bytes.
ParseBlockAddress(piece) ==
  IF ParseHash(piece) # None THEN Ok([by |-> "Hash", of |-> Unwrap(ParseHash(piece))])
  ELSE IF ParseNumber(piece) # None THEN Ok([by |-> "Number", of |-> Unwrap(ParseNumber(piece))])
  ELSE IF FromHex(piece) # None THEN Ok([by |-> "Bytes", of |-> Unwrap(FromHex(piece))])
  ELSE Err("NoAddress")

\* A block's address is one piece: no parser accepts a '.' or a ':'.
ParseBlockText(text) == IF Len(text) = 1 THEN ParseBlockAddress(text[1]) ELSE Err("NoAddress")

\* ExtrinsicAddress::from_str: the whole text as bytes; else its first piece as
\* a block, whose error comes first, and its second piece as an index.
ParseExtrinsicText(text) ==
  LET block == ParseBlockAddress(text[1])
  IN  IF Len(text) = 1 /\ FromHex(text[1]) # None
      THEN Ok([by |-> "Bytes", of |-> Unwrap(FromHex(text[1]))])
      ELSE IF ~block.ok THEN block
      ELSE IF Len(text) = 1 THEN Err("IndexMissing")
      ELSE IF ParseIndex(text[2]) = None THEN Err("InvalidIndex")
      ELSE Ok([by |-> "Block", of |-> block.value, index |-> Unwrap(ParseIndex(text[2]))])

-----------------------------------------------------------------------------
(* Looking up *)

\* Decode as a block or as an extrinsic; the bytes say what they encode.
DecodeBlock(bytes) ==
  IF bytes.encodes = "block"
  THEN Ok([header |-> [hash |-> 0, number |-> 0], extrinsics |-> bytes.content])
  ELSE Err("Codec")

DecodeExtrinsic(bytes) ==
  IF bytes.encodes = "extrinsic" THEN Ok(bytes.content[1]) ELSE Err("Codec")

\* A plausible bug: the header is always looked up by number.
GetBlockHeaderByNumber(address) ==
  IF address.by = "Bytes" THEN DecodeBlock(address.of)
  ELSE IF BlockBody(address) = None THEN Err("NotFound")
  ELSE LET number == CHOOSE n \in {blocks[h].number : h \in Resolve(address)} : TRUE
           header == Header([by |-> "Number", of |-> number])
       IN  IF header = None THEN Err("NotFound")
           ELSE Ok([header |-> Unwrap(header), extrinsics |-> Unwrap(BlockBody(address))])

\* Inspector::get_block: bytes are decoded; otherwise the body, then the header
\* are read, and either may be missing.  The two reads are one step because of
\* the database's lock.
GetBlock(address) ==
  IF address.by = "Bytes" THEN DecodeBlock(address.of)
  ELSE IF BlockBody(address) = None \/ Header(address) = None THEN Err("NotFound")
  ELSE Ok([header |-> Unwrap(Header(address)), extrinsics |-> Unwrap(BlockBody(address))])

\* A plausible bug: indices are taken to start at one.
GetExtrinsicFromOne(address) ==
  LET block == GetBlock(address.of)
  IN  IF ~block.ok THEN block
      ELSE IF address.index \in DOMAIN block.value.extrinsics
           THEN Ok(block.value.extrinsics[address.index])
           ELSE Err("NotFound")

\* The extrinsic of a block at an index that starts at zero.
GetExtrinsic(address) ==
  LET block == GetBlock(address.of)
  IN  IF ~block.ok THEN block
      ELSE IF address.index + 1 \in DOMAIN block.value.extrinsics
           THEN Ok(block.value.extrinsics[address.index + 1])
           ELSE Err("NotFound")

\* Inspector::block and Inspector::extrinsic on a text.
InspectBlock(text) ==
  LET address == ParseBlockText(text)
  IN  IF address.ok THEN GetBlock(address.value) ELSE address

InspectExtrinsic(text) ==
  LET address == ParseExtrinsicText(text)
  IN  CASE ~address.ok -> address
        [] address.ok /\ address.value.by = "Bytes" -> DecodeExtrinsic(address.value.of)
        [] OTHER -> GetExtrinsic(address.value)

-----------------------------------------------------------------------------
(* Actions *)

Idle == command.sub = "none"

Init ==
  /\ \E n \in 0 .. MaxExtrinsics : blocks = <<[parent |-> 0, number |-> 0, count |-> n]>>
  /\ bodies = {1}
  /\ best = 1
  /\ command = [sub |-> "none", text |-> << >>]
  /\ result = Err("none")

\* A plausible bug: only the header is stored.
ImportBlockNoBody(parent, count) ==
  LET number == blocks[parent].number + 1
  IN  /\ Idle
      /\ Len(blocks) < MaxBlocks
      /\ blocks' = Append(blocks, [parent |-> parent, number |-> number, count |-> count])
      /\ best' = IF number > blocks[best].number THEN Len(blocks) + 1 ELSE best
      /\ UNCHANGED <<bodies, command, result>>

\* The node imports a block on top of one it knows.  A longer chain becomes the
\* canonical one.
ImportBlock(parent, count) ==
  LET number == blocks[parent].number + 1
      hash   == Len(blocks) + 1
  IN  /\ Idle
      /\ Len(blocks) < MaxBlocks
      /\ blocks' = Append(blocks, [parent |-> parent, number |-> number, count |-> count])
      /\ bodies' = bodies \cup {hash}
      /\ best' = IF number > blocks[best].number THEN hash ELSE best
      /\ UNCHANGED <<command, result>>

\* It discards the body of a block below the best one and keeps its header.
PruneBody(h) ==
  /\ Idle
  /\ blocks[h].number < blocks[best].number
  /\ bodies' = bodies \ {h}
  /\ UNCHANGED <<blocks, best, command, result>>

\* The text makes the command read the database.
LooksUp(sub, text) ==
  LET address == IF sub = "block" THEN ParseBlockText(text) ELSE ParseExtrinsicText(text)
      block   == IF sub = "block" THEN address.value ELSE address.value.of
  IN  address.ok /\ address.value.by # "Bytes" /\ block.by # "Bytes"

\* InspectCmd::run when the client cannot be built, before the text is parsed,
\* or when a read of the database fails.
RunFails(sub, text) ==
  /\ Idle
  /\ command' = [sub |-> sub, text |-> text]
  /\ \/ result' = Err("Client")
     \/ LooksUp(sub, text) /\ result' = Err("Blockchain")
  /\ UNCHANGED <<blocks, bodies, best>>

\* InspectCmd::run, once per process.
Run(sub, text) ==
  /\ Idle
  /\ command' = [sub |-> sub, text |-> text]
  /\ result' = IF sub = "block" THEN InspectBlock(text) ELSE InspectExtrinsic(text)
  /\ UNCHANGED <<blocks, bodies, best>>

Next ==
  \/ \E parent \in DOMAIN blocks, count \in 0 .. MaxExtrinsics : ImportBlock(parent, count)
  \/ \E h \in bodies : PruneBody(h)
  \/ \E sub \in {"block", "extrinsic"}, text \in Texts :
        Run(sub, text) \/ RunFails(sub, text)

Spec == Init /\ [][Next]_vars

-----------------------------------------------------------------------------
(* Properties *)

Answers ==
  {[header |-> [hash |-> h, number |-> blocks[h].number], extrinsics |-> ExtrinsicsOf(h)] :
     h \in DOMAIN blocks}

\* Every variable has its type; the chain of the best block is complete.
TypeOK ==
  /\ \A h \in DOMAIN blocks :
       blocks[h] \in [parent : 0 .. h - 1, number : 0 .. MaxBlocks, count : 0 .. MaxExtrinsics]
  /\ Len(blocks) \in 1 .. MaxBlocks
  /\ bodies \subseteq DOMAIN blocks
  /\ best \in bodies
  /\ command.sub \in {"none", "block", "extrinsic"}
  /\ result.ok \in BOOLEAN

\* A block that is printed is the one that was named: the body and the header,
\* two separate reads of the database, belong to the same block; a hash names
\* that block even on a fork, and a number the block of the canonical chain,
\* also after the chain was reorganised.
PrintsTheNamedBlock ==
  (command.sub = "block" /\ result.ok /\ command.text[1].form # "bytes") =>
    LET piece == command.text[1]
    IN  /\ result.value \in Answers
        /\ piece.form = "hash" => result.value.header.hash = piece.value
        /\ piece.form = "number" => /\ result.value.header.number = piece.value
                                    /\ result.value.header.hash \in Canonical
        /\ piece.form # "padded"

\* "{block}:{index}": an extrinsic that is printed is the one at that index,
\* counted from zero, of the block that was named.
PrintsTheNamedExtrinsic ==
  (command.sub = "extrinsic" /\ result.ok /\ command.text[1].form \in {"hash", "number"}) =>
    LET block == command.text[1]
    IN  \E h \in DOMAIN blocks :
          /\ result.value = <<h, command.text[2].value + 1>>
          /\ block.form = "hash" => h = block.value
          /\ block.form = "number" => h \in Canonical /\ blocks[h].number = block.value

\* "Could not find block" is the truth: no block of that hash or number has
\* both its header and its body in the database, or it has no extrinsic at the
\* index asked for.
NotFoundIsTrue ==
  (~result.ok /\ result.value = "NotFound" /\ command.text[1].form \in {"hash", "number"}) =>
    LET piece == command.text[1]
        named == {h \in bodies : IF piece.form = "hash" THEN h = piece.value
                                 ELSE h \in Canonical /\ blocks[h].number = piece.value}
    IN  \A h \in named : command.sub = "extrinsic" /\ command.text[2].value >= blocks[h].count

\* Help text of InspectSubCmd::Extrinsic, "in the form of `{block}:{index}`": a
\* text with anything after the index is refused.  The code does not satisfy
\* this: from_str takes two pieces from the split and drops the others.
NothingAfterIndex ==
  (command.sub = "extrinsic" /\ result.ok) => Len(command.text) <= 2

=============================================================================

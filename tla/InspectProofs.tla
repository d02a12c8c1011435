---------------------------- MODULE InspectProofs ----------------------------
(***************************************************************************)
(* Proofs that the inspect subcommand prints what was named, for a database *)
(* of any number of blocks and for any texts.  The body and the header of  *)
(* a block that is named by its number are read one after the other; that  *)
(* they belong together rests on the canonical chain having one block of   *)
(* each number.                                                            *)
(***************************************************************************)
EXTENDS Inspect, SequenceTheorems, TLAPS

-----------------------------------------------------------------------------
(* The canonical chain *)

\* A block comes after its parent and is numbered one above it.
Chained ==
  /\ blocks \in Seq([parent : Nat, number : Nat, count : Nat])
  /\ \A h \in DOMAIN blocks :
       /\ blocks[h].parent < h
       /\ blocks[h].number < h
       /\ blocks[h].count <= MaxExtrinsics
       /\ blocks[h].parent = 0 \/ blocks[h].number = blocks[blocks[h].parent].number + 1
  /\ best \in DOMAIN blocks

\* What the numbers of two blocks are.
LEMMA Fields ==
  ASSUME Chained, NEW h \in DOMAIN blocks
  PROVE  /\ h \in Nat /\ h >= 1 /\ h <= Len(blocks)
         /\ blocks[h].parent \in Nat /\ blocks[h].number \in Nat /\ blocks[h].count \in Nat
         /\ blocks[h].parent # 0 => blocks[h].parent \in DOMAIN blocks
<1>1. blocks \in Seq([parent : Nat, number : Nat, count : Nat]) /\ blocks[h].parent < h
  BY DEF Chained
<1>2. Len(blocks) \in Nat /\ DOMAIN blocks = 1 .. Len(blocks)
  BY <1>1
<1>3. blocks[h] \in [parent : Nat, number : Nat, count : Nat]
  BY <1>1, <1>2, ElementOfSeq
<1> QED
  BY <1>1, <1>2, <1>3

\* Canonical is the least closed set that has the best block.
LEMMA LeastClosed ==
  ASSUME Chained
  PROVE  /\ best \in Canonical
         /\ Canonical \subseteq DOMAIN blocks
         /\ Closed(Canonical)
         /\ \A s \in SUBSET DOMAIN blocks : best \in s /\ Closed(s) => Canonical \subseteq s
<1>1. best \in Canonical /\ Canonical \subseteq DOMAIN blocks
  BY DEF Canonical, Chained
<1>2. \A s \in SUBSET DOMAIN blocks : best \in s /\ Closed(s) => Canonical \subseteq s
  BY DEF Canonical
<1>3. Closed(Canonical)
  <2> SUFFICES ASSUME NEW h \in Canonical, blocks[h].parent # 0
               PROVE  blocks[h].parent \in Canonical
    BY DEF Closed
  <2>1. blocks[h].parent \in DOMAIN blocks
    BY <1>1, Fields
  <2>2. ASSUME NEW s \in SUBSET DOMAIN blocks, best \in s, Closed(s)
        PROVE  blocks[h].parent \in s
    BY <1>2, <2>2 DEF Closed
  <2> QED
    BY <2>1, <2>2 DEF Canonical
<1> QED
  BY <1>1, <1>2, <1>3

\* The best block has the greatest number of its chain.
LEMMA BestIsHighest ==
  ASSUME Chained
  PROVE  \A h \in Canonical : blocks[h].number <= blocks[best].number
<1> DEFINE s == {h \in DOMAIN blocks : blocks[h].number <= blocks[best].number}
<1>1. best \in s
  BY Fields DEF Chained
<1>2. Closed(s)
  <2> SUFFICES ASSUME NEW h \in s, blocks[h].parent # 0 PROVE blocks[h].parent \in s
    BY DEF Closed
  <2>1. blocks[h].parent \in DOMAIN blocks /\ blocks[h].number \in Nat
    BY Fields
  <2>2. blocks[h].number = blocks[blocks[h].parent].number + 1
    BY DEF Chained
  <2>3. blocks[blocks[h].parent].number \in Nat
    BY <2>1, Fields
  <2>4. blocks[best].number \in Nat /\ blocks[h].number <= blocks[best].number
    BY Fields DEF Chained
  <2>5. blocks[blocks[h].parent].number <= blocks[best].number
    BY <2>2, <2>3, <2>4
  <2> QED
    BY <2>1, <2>5
<1>3. Canonical \subseteq s
  BY <1>1, <1>2, LeastClosed
<1> QED
  BY <1>3

\* Every block of the chain but the best has a successor on it.
LEMMA HasChild ==
  ASSUME Chained, NEW h \in Canonical, h # best
  PROVE  \E c \in Canonical : blocks[c].parent = h
<1> SUFFICES ASSUME \A c \in Canonical : blocks[c].parent # h PROVE FALSE
  OBVIOUS
<1> DEFINE s == Canonical \ {h}
<1>1. best \in s /\ s \in SUBSET DOMAIN blocks
  BY LeastClosed
<1>2. Closed(s)
  BY LeastClosed DEF Closed
<1> QED
  BY <1>1, <1>2, LeastClosed

\* The canonical chain has one block of each number.
LEMMA OnePerNumber ==
  ASSUME Chained
  PROVE  \A g, h \in Canonical : blocks[g].number = blocks[h].number => g = h
<1> DEFINE Alone(x) == \A y \in Canonical : blocks[y].number = blocks[x].number => y = x
           s == {x \in Canonical : Alone(x)}
<1>1. ASSUME NEW y \in Canonical, y # best
      PROVE  \E c \in Canonical : /\ blocks[c].parent = y
                                  /\ blocks[c].number = blocks[y].number + 1
                                  /\ blocks[c].number <= blocks[best].number
  <2>1. PICK c \in Canonical : blocks[c].parent = y
    BY <1>1, HasChild
  <2>2. y \in DOMAIN blocks /\ c \in DOMAIN blocks
    BY LeastClosed
  <2>3. y # 0
    BY <2>2, Fields
  <2>4. blocks[c].number = blocks[y].number + 1
    BY <2>1, <2>2, <2>3 DEF Chained
  <2> QED
    BY <2>1, <2>4, BestIsHighest
<1>2. best \in s
  <2>1. ASSUME NEW y \in Canonical, blocks[y].number = blocks[best].number, y # best PROVE FALSE
    <3>1. blocks[y].number + 1 <= blocks[best].number
      BY <1>1, <2>1
    <3>2. blocks[best].number \in Nat
      BY Fields DEF Chained
    <3> QED
      BY <2>1, <3>1, <3>2
  <2> QED
    BY <2>1, LeastClosed
<1>3. Closed(s)
  <2> SUFFICES ASSUME NEW x \in s, blocks[x].parent # 0 PROVE blocks[x].parent \in s
    BY DEF Closed
  <2> DEFINE p == blocks[x].parent
  <2>1. x \in Canonical /\ p \in Canonical /\ Alone(x)
    BY LeastClosed DEF Closed
  <2>2. x \in DOMAIN blocks /\ p \in DOMAIN blocks
    BY <2>1, LeastClosed
  <2>3. blocks[x].number = blocks[p].number + 1
    BY <2>2 DEF Chained
  <2>4. ASSUME NEW y \in Canonical, blocks[y].number = blocks[p].number PROVE y = p
    <3>1. y # best
      <4>1. blocks[x].number <= blocks[best].number
        BY <2>1, BestIsHighest
      <4>2. blocks[p].number \in Nat
        BY <2>2, Fields
      <4> QED
        BY <2>3, <2>4, <4>1, <4>2
    <3>2. PICK c \in Canonical : blocks[c].parent = y /\ blocks[c].number = blocks[y].number + 1
      BY <1>1, <3>1
    <3>3. c = x
      BY <2>1, <2>3, <2>4, <3>2
    <3> QED
      BY <3>2, <3>3
  <2> QED
    BY <2>1, <2>4
<1>4. Canonical \subseteq s
  <2>1. s \in SUBSET DOMAIN blocks
    BY LeastClosed
  <2> HIDE DEF s
  <2> QED
    BY <1>2, <1>3, <2>1, LeastClosed
<1> QED
  BY <1>4

-----------------------------------------------------------------------------
(* Looking up *)

\* The value of an option that has one.
LEMMA UnwrapSome ==
  ASSUME NEW v
  PROVE  Unwrap({v}) = v
  BY DEF Unwrap

\* What the database returns for the block it resolves an identifier to.
LEMMA Reads ==
  ASSUME NEW id, NEW h, Resolve(id) = {h}
  PROVE  /\ Header(id) = {[hash |-> h, number |-> blocks[h].number]}
         /\ h \in bodies => BlockBody(id) = {ExtrinsicsOf(h)}
         /\ h \notin bodies => BlockBody(id) = {}
<1>1. Header(id) = {[hash |-> h, number |-> blocks[h].number]}
  BY DEF Header
<1>2. h \in bodies => Resolve(id) \cap bodies = {h}
  OBVIOUS
<1>3. h \notin bodies => Resolve(id) \cap bodies = {}
  OBVIOUS
<1> QED
  BY <1>1, <1>2, <1>3 DEF BlockBody

\* The block h is what the address names.
Names(address, h) ==
  /\ h \in DOMAIN blocks
  /\ address.by = "Hash" => h = address.of
  /\ address.by = "Number" => h \in Canonical /\ blocks[h].number = address.of

\* Every address resolves to the block it names, if there is one.
LEMMA Resolves ==
  ASSUME Chained, NEW address, address.by \in {"Hash", "Number"}
  PROVE  /\ \A h \in Resolve(address) : Names(address, h) /\ Resolve(address) = {h}
         /\ \A h : Names(address, h) => h \in Resolve(address)
<1>1. CASE address.by = "Hash"
  BY <1>1 DEF Resolve, Names
<1>2. CASE address.by = "Number"
  <2>1. Resolve(address) = {h \in Canonical : blocks[h].number = address.of}
    BY <1>2 DEF Resolve
  <2>2. \A h \in Resolve(address) : Resolve(address) = {h}
    BY <2>1, OnePerNumber
  <2> QED
    BY <1>2, <2>1, <2>2, LeastClosed DEF Names
<1> QED
  BY <1>1, <1>2

\* get_block returns the block that was named, with its own body, when the body
\* is stored, and reports NotFound otherwise.
LEMMA GetsNamed ==
  ASSUME Chained, NEW address, address.by \in {"Hash", "Number"}
  PROVE  \/ /\ GetBlock(address) = Err("NotFound")
            /\ \A h \in bodies : ~Names(address, h)
         \/ \E h \in DOMAIN blocks :
              /\ Names(address, h)
              /\ \A g : Names(address, g) => g = h
              /\ GetBlock(address) =
                   Ok([header |-> [hash |-> h, number |-> blocks[h].number],
                       extrinsics |-> ExtrinsicsOf(h)])
<1>1. address.by # "Bytes"
  OBVIOUS
<1>2. CASE Resolve(address) = {}
  <2>1. BlockBody(address) = None
    BY <1>2 DEF BlockBody, None
  <2>2. GetBlock(address) = Err("NotFound")
    BY <1>1, <2>1 DEF GetBlock
  <2> QED
    BY <1>2, <2>2, Resolves
<1>3. ASSUME NEW h \in Resolve(address)
      PROVE  \/ /\ GetBlock(address) = Err("NotFound")
                /\ \A g \in bodies : ~Names(address, g)
             \/ /\ h \in DOMAIN blocks /\ Names(address, h)
                /\ \A g : Names(address, g) => g = h
                /\ GetBlock(address) =
                     Ok([header |-> [hash |-> h, number |-> blocks[h].number],
                         extrinsics |-> ExtrinsicsOf(h)])
  <2>1. Resolve(address) = {h} /\ Names(address, h) /\ \A g : Names(address, g) => g = h
    BY Resolves
  <2>2. Header(address) = {[hash |-> h, number |-> blocks[h].number]}
    BY <2>1, Reads
  <2>3. CASE h \notin bodies
    <3>1. BlockBody(address) = None
      BY <2>1, <2>3, Reads DEF None
    <3>2. GetBlock(address) = Err("NotFound")
      BY <1>1, <3>1 DEF GetBlock
    <3> QED
      BY <2>1, <2>3, <3>2
  <2>4. CASE h \in bodies
    <3>1. BlockBody(address) = {ExtrinsicsOf(h)}
      BY <2>1, <2>4, Reads
    <3>2. Header(address) # None /\ BlockBody(address) # None
      BY <2>2, <3>1 DEF None
    <3>3. /\ Unwrap(Header(address)) = [hash |-> h, number |-> blocks[h].number]
          /\ Unwrap(BlockBody(address)) = ExtrinsicsOf(h)
      BY <2>2, <3>1, UnwrapSome
    <3>4. GetBlock(address) = Ok([header |-> Unwrap(Header(address)),
                                  extrinsics |-> Unwrap(BlockBody(address))])
      BY <1>1, <3>2 DEF GetBlock
    <3> QED
      BY <2>1, <3>3, <3>4 DEF Names
  <2> QED
    BY <2>3, <2>4
<1> QED
  BY <1>2, <1>3

-----------------------------------------------------------------------------
(* Parsing *)

\* What a piece that stands for a block is read as; one padded with zeros to
\* the length of a hash is never read as the number it looks like.
LEMMA ParsesBlock ==
  ASSUME NEW piece
  PROVE  /\ piece.form = "hash" => ParseBlockAddress(piece) = Ok([by |-> "Hash", of |-> piece.value])
         /\ piece.form = "number" => ParseBlockAddress(piece) = Ok([by |-> "Number", of |-> piece.value])
         /\ piece.form = "padded" => ParseBlockAddress(piece) = Ok([by |-> "Hash", of |-> 0])
         /\ piece.form = "bytes" => ParseBlockAddress(piece) = Ok([by |-> "Bytes", of |-> piece.value])
         /\ piece.form \in {"big", "other"} => ParseBlockAddress(piece) = Err("NoAddress")
<1>1. CASE piece.form = "hash"
  <2>1. ParseHash(piece) = {piece.value} /\ {piece.value} # {}
    BY <1>1 DEF ParseHash, Some
  <2> QED
    BY <1>1, <2>1, UnwrapSome DEF ParseBlockAddress, None
<1>2. CASE piece.form = "padded"
  <2>1. ParseHash(piece) = {0} /\ {0} # {}
    BY <1>2 DEF ParseHash, Some
  <2> QED
    BY <1>2, <2>1, UnwrapSome DEF ParseBlockAddress, None
<1>3. ASSUME piece.form \notin {"hash", "padded"}
      PROVE  ParseHash(piece) = None
  BY <1>3 DEF ParseHash
<1>4. CASE piece.form = "number"
  <2>1. ParseNumber(piece) = {piece.value} /\ {piece.value} # {} /\ ParseHash(piece) = None
    BY <1>3, <1>4 DEF ParseNumber, Some
  <2> QED
    BY <1>4, <2>1, UnwrapSome DEF ParseBlockAddress, None
<1>5. ASSUME piece.form \notin {"hash", "padded", "number"}
      PROVE  ParseHash(piece) = None /\ ParseNumber(piece) = None
  BY <1>3, <1>5 DEF ParseNumber
<1>6. CASE piece.form = "bytes"
  <2>1. /\ FromHex(piece) = {piece.value} /\ {piece.value} # {}
        /\ ParseHash(piece) = None /\ ParseNumber(piece) = None
    BY <1>5, <1>6 DEF FromHex, Some
  <2> QED
    BY <1>6, <2>1, UnwrapSome DEF ParseBlockAddress, None
<1>7. CASE piece.form \in {"big", "other"}
  <2>1. FromHex(piece) = None /\ ParseHash(piece) = None /\ ParseNumber(piece) = None
    BY <1>5, <1>7 DEF FromHex
  <2> QED
    BY <1>7, <2>1 DEF ParseBlockAddress
<1> QED
  BY <1>1, <1>2, <1>4, <1>6, <1>7

\* The block h is what the piece names.
Named(piece, h) ==
  /\ h \in DOMAIN blocks
  /\ piece.form = "hash" => h = piece.value
  /\ piece.form = "number" => h \in Canonical /\ blocks[h].number = piece.value

\* What get_block does with the address that a piece is parsed to.
LEMMA GetsPiece ==
  ASSUME Chained, NEW piece, piece.form \in {"hash", "number"},
         NEW address, ParseBlockAddress(piece) = Ok(address)
  PROVE  /\ address.by # "Bytes"
         /\ \/ /\ GetBlock(address) = Err("NotFound")
               /\ \A h \in bodies : ~Named(piece, h)
            \/ \E h \in DOMAIN blocks :
                 /\ Named(piece, h)
                 /\ \A g : Named(piece, g) => g = h
                 /\ GetBlock(address) =
                      Ok([header |-> [hash |-> h, number |-> blocks[h].number],
                          extrinsics |-> ExtrinsicsOf(h)])
<1>1. /\ address.by \in {"Hash", "Number"} /\ address.of = piece.value
      /\ address.by = "Hash" <=> piece.form = "hash"
      /\ address.by = "Number" <=> piece.form = "number"
  BY ParsesBlock DEF Ok
<1>2. \A h : Names(address, h) <=> Named(piece, h)
  BY <1>1 DEF Names, Named
<1>3. \/ /\ GetBlock(address) = Err("NotFound")
         /\ \A h \in bodies : ~Names(address, h)
      \/ \E h \in DOMAIN blocks :
           /\ Names(address, h)
           /\ \A g : Names(address, g) => g = h
           /\ GetBlock(address) =
                Ok([header |-> [hash |-> h, number |-> blocks[h].number],
                    extrinsics |-> ExtrinsicsOf(h)])
  BY <1>1, GetsNamed
<1> QED
  BY <1>1, <1>2, <1>3

\* A number padded to the length of a hash finds nothing.
LEMMA PaddedFindsNothing ==
  ASSUME Chained
  PROVE  GetBlock([by |-> "Hash", of |-> 0]) = Err("NotFound")
<1> DEFINE address == [by |-> "Hash", of |-> 0]
<1>1. address.by = "Hash" /\ address.of = 0
  OBVIOUS
<1> HIDE DEF address
<1>2. \A h : ~Names(address, h)
  BY <1>1, Fields DEF Names
<1>3. address.by \in {"Hash", "Number"}
  BY <1>1
<1>4. \/ /\ GetBlock(address) = Err("NotFound")
         /\ \A h \in bodies : ~Names(address, h)
      \/ \E h \in DOMAIN blocks :
           /\ Names(address, h)
           /\ \A g : Names(address, g) => g = h
           /\ GetBlock(address) =
                Ok([header |-> [hash |-> h, number |-> blocks[h].number],
                    extrinsics |-> ExtrinsicsOf(h)])
  BY <1>3, GetsNamed
<1>5. GetBlock(address) = Err("NotFound")
  BY <1>2, <1>4
<1> QED
  BY <1>5 DEF address

\* Every result is a value or an error.
LEMMA Results ==
  ASSUME NEW v
  PROVE  /\ Ok(v).ok = TRUE /\ Ok(v).value = v
         /\ Err(v).ok = FALSE /\ Err(v).value = v
  BY DEF Ok, Err

\* What `inspect block` answers.
LEMMA BlockAnswers ==
  ASSUME Chained, NEW text \in Texts, NEW r, r = InspectBlock(text)
  PROVE  /\ r.ok \in BOOLEAN
         /\ r.ok /\ text[1].form # "bytes" =>
              /\ text[1].form # "padded"
              /\ \E h \in DOMAIN blocks :
                   /\ Named(text[1], h)
                   /\ r.value = [header |-> [hash |-> h, number |-> blocks[h].number],
                                 extrinsics |-> ExtrinsicsOf(h)]
         /\ ~r.ok /\ r.value = "NotFound" /\ text[1].form \in {"hash", "number"} =>
              \A h \in bodies : ~Named(text[1], h)
<1> DEFINE piece == text[1]
<1>1. piece.form \in {"hash", "number", "padded", "big", "bytes", "other"}
  BY TextsAssumption
<1>2. CASE Len(text) # 1
  <2>1. r = Err("NoAddress")
    BY <1>2, Results DEF InspectBlock, ParseBlockText
  <2> QED
    BY <2>1, Results
<1>3. CASE Len(text) = 1
  <2>1. r = IF ParseBlockAddress(piece).ok THEN GetBlock(ParseBlockAddress(piece).value)
            ELSE ParseBlockAddress(piece)
    BY <1>3 DEF InspectBlock, ParseBlockText
  <2>2. CASE piece.form \in {"hash", "number"}
    <3>1. PICK address : ParseBlockAddress(piece) = Ok(address)
      BY <2>2, ParsesBlock
    <3>2. r = GetBlock(address)
      BY <2>1, <3>1, Results
    <3>3. CASE r = Err("NotFound") /\ \A h \in bodies : ~Named(piece, h)
      BY <3>3, Results
    <3>4. CASE \E h \in DOMAIN blocks :
                 /\ Named(piece, h)
                 /\ r = Ok([header |-> [hash |-> h, number |-> blocks[h].number],
                            extrinsics |-> ExtrinsicsOf(h)])
      BY <2>2, <3>4, Results
    <3> QED
      BY <2>2, <3>1, <3>2, <3>3, <3>4, GetsPiece
  <2>3. CASE piece.form = "padded"
    <3>1. ParseBlockAddress(piece) = Ok([by |-> "Hash", of |-> 0])
      BY <2>3, ParsesBlock
    <3>2. /\ ParseBlockAddress(piece).ok = TRUE
          /\ ParseBlockAddress(piece).value = [by |-> "Hash", of |-> 0]
      BY <3>1, Results
    <3>3. r = Err("NotFound")
      BY <2>1, <3>2, PaddedFindsNothing
    <3> QED
      BY <2>3, <3>3, Results
  <2>4. CASE piece.form = "bytes"
    <3> DEFINE address == [by |-> "Bytes", of |-> piece.value]
    <3>1. ParseBlockAddress(piece) = Ok(address)
      BY <2>4, ParsesBlock
    <3>2. ParseBlockAddress(piece).ok = TRUE /\ ParseBlockAddress(piece).value = address
      BY <3>1, Results
    <3>3. address.by = "Bytes" /\ address.of = piece.value
      OBVIOUS
    <3> HIDE DEF address
    <3>4. r = DecodeBlock(piece.value)
      BY <2>1, <3>2, <3>3 DEF GetBlock
    <3>5. r.ok \in BOOLEAN
      BY <3>4, Results DEF DecodeBlock
    <3> QED
      BY <2>4, <3>5
  <2>5. CASE piece.form \in {"big", "other"}
    <3>1. r = Err("NoAddress")
      BY <2>1, <2>5, ParsesBlock, Results
    <3> QED
      BY <3>1, Results
  <2> QED
    BY <1>1, <2>2, <2>3, <2>4, <2>5
<1> QED
  BY <1>2, <1>3

\* What `inspect extrinsic` answers.
LEMMA ExtrinsicAnswers ==
  ASSUME Chained, NEW text \in Texts, NEW r, r = InspectExtrinsic(text)
  PROVE  /\ r.ok \in BOOLEAN
         /\ r.ok /\ text[1].form \in {"hash", "number"} =>
              \E h \in DOMAIN blocks : Named(text[1], h) /\ r.value = <<h, text[2].value + 1>>
         /\ ~r.ok /\ r.value = "NotFound" /\ text[1].form \in {"hash", "number"} =>
              \A h \in bodies : Named(text[1], h) => text[2].value >= blocks[h].count
<1> DEFINE piece == text[1]
           index == text[2]
<1>1. /\ piece.form \in {"hash", "number", "padded", "big", "bytes", "other"}
      /\ Len(text) \in Nat \ {0}
  BY TextsAssumption
<1>2. CASE piece.form \in {"hash", "number"}
  <2>1. PICK address : ParseBlockAddress(piece) = Ok(address)
    BY <1>2, ParsesBlock
  <2>2. FromHex(piece) = None
    BY <1>2 DEF FromHex
  <2>3. CASE Len(text) = 1
    <3>1. ParseExtrinsicText(text) = Err("IndexMissing")
      BY <2>1, <2>2, <2>3, Results DEF ParseExtrinsicText
    <3>2. r = Err("IndexMissing")
      BY <3>1, Results DEF InspectExtrinsic
    <3> QED
      BY <3>2, Results
  <2>4. CASE Len(text) # 1 /\ ParseIndex(index) = None
    <3>1. ParseExtrinsicText(text) = Err("InvalidIndex")
      BY <2>1, <2>4, Results DEF ParseExtrinsicText
    <3>2. r = Err("InvalidIndex")
      BY <3>1, Results DEF InspectExtrinsic
    <3> QED
      BY <3>2, Results
  <2>5. CASE Len(text) # 1 /\ ParseIndex(index) # None
    <3>1. index.value \in Nat /\ Unwrap(ParseIndex(index)) = index.value
      <4>1. index.form \in {"number", "padded", "big"} /\ ParseIndex(index) = {index.value}
        BY <2>5 DEF ParseIndex, Some
      <4>2. 2 \in 1 .. Len(text)
        BY <1>1, <2>5
      <4>3. index.value \in Nat
        BY <4>1, <4>2, TextsAssumption
      <4> QED
        BY <4>1, <4>3, UnwrapSome
    <3> DEFINE parsed == [by |-> "Block", of |-> address, index |-> index.value]
    <3>2. ParseExtrinsicText(text) = Ok(parsed)
      BY <2>1, <2>5, <3>1, Results DEF ParseExtrinsicText
    <3>3. /\ parsed.by = "Block" /\ parsed.of = address /\ parsed.index = index.value
          /\ r = GetExtrinsic(parsed)
      <4>1. parsed.by = "Block" /\ parsed.of = address /\ parsed.index = index.value
        OBVIOUS
      <4>2. ParseExtrinsicText(text).ok = TRUE /\ ParseExtrinsicText(text).value = parsed
        BY <3>2, Results
      <4> HIDE DEF parsed
      <4> QED
        BY <4>1, <4>2 DEF InspectExtrinsic
    <3> HIDE DEF parsed
    <3>4. CASE GetBlock(address) = Err("NotFound") /\ \A h \in bodies : ~Named(piece, h)
      <4>1. r = Err("NotFound")
        BY <3>3, <3>4, Results DEF GetExtrinsic
      <4> QED
        BY <3>4, <4>1, Results
    <3>5. ASSUME NEW h \in DOMAIN blocks, Named(piece, h), \A g : Named(piece, g) => g = h,
                 GetBlock(address) = Ok([header |-> [hash |-> h, number |-> blocks[h].number],
                                         extrinsics |-> ExtrinsicsOf(h)])
          PROVE  \/ r = Ok(<<h, index.value + 1>>)
                 \/ r = Err("NotFound") /\ index.value >= blocks[h].count
      <4>1. /\ GetBlock(parsed.of).ok = TRUE
            /\ GetBlock(parsed.of).value.extrinsics = ExtrinsicsOf(h)
            /\ parsed.index = index.value
        <5> DEFINE block == [header |-> [hash |-> h, number |-> blocks[h].number],
                             extrinsics |-> ExtrinsicsOf(h)]
        <5>1. block.extrinsics = ExtrinsicsOf(h)
          OBVIOUS
        <5>2. GetBlock(parsed.of) = Ok(block)
          BY <3>3, <3>5
        <5> HIDE DEF block
        <5> QED
          BY <3>3, <5>1, <5>2, Results
      <4>2. DOMAIN ExtrinsicsOf(h) = 1 .. blocks[h].count /\ blocks[h].count \in Nat
        BY Fields DEF ExtrinsicsOf
      <4>3. CASE index.value + 1 \in 1 .. blocks[h].count
        <5>1. ExtrinsicsOf(h)[index.value + 1] = <<h, index.value + 1>>
          BY <4>3 DEF ExtrinsicsOf
        <5> QED
          BY <3>3, <4>1, <4>2, <4>3, <5>1 DEF GetExtrinsic
      <4>4. CASE index.value + 1 \notin 1 .. blocks[h].count
        <5>1. index.value >= blocks[h].count
          BY <3>1, <4>2, <4>4
        <5> QED
          BY <3>3, <4>1, <4>2, <4>4, <5>1 DEF GetExtrinsic
      <4> QED
        BY <4>3, <4>4
    <3>6. CASE \E h \in DOMAIN blocks :
                 /\ Named(piece, h) /\ \A g : Named(piece, g) => g = h
                 /\ \/ r = Ok(<<h, index.value + 1>>)
                    \/ r = Err("NotFound") /\ index.value >= blocks[h].count
      <4>1. PICK h \in DOMAIN blocks :
                 /\ Named(piece, h) /\ \A g : Named(piece, g) => g = h
                 /\ \/ r = Ok(<<h, index.value + 1>>)
                    \/ r = Err("NotFound") /\ index.value >= blocks[h].count
        BY <3>6
      <4> QED
        BY <4>1, Results
    <3>7. \/ GetBlock(address) = Err("NotFound") /\ \A h \in bodies : ~Named(piece, h)
          \/ \E h \in DOMAIN blocks :
               /\ Named(piece, h) /\ \A g : Named(piece, g) => g = h
               /\ GetBlock(address) = Ok([header |-> [hash |-> h, number |-> blocks[h].number],
                                          extrinsics |-> ExtrinsicsOf(h)])
      BY <1>2, <2>1, GetsPiece
    <3>8. CASE \E h \in DOMAIN blocks :
                 /\ Named(piece, h) /\ \A g : Named(piece, g) => g = h
                 /\ GetBlock(address) = Ok([header |-> [hash |-> h, number |-> blocks[h].number],
                                            extrinsics |-> ExtrinsicsOf(h)])
      <4>1. \E h \in DOMAIN blocks :
                 /\ Named(piece, h) /\ \A g : Named(piece, g) => g = h
                 /\ \/ r = Ok(<<h, index.value + 1>>)
                    \/ r = Err("NotFound") /\ index.value >= blocks[h].count
        BY <3>5, <3>8
      <4> QED
        BY <3>6, <4>1
    <3> QED
      BY <3>4, <3>7, <3>8
  <2> QED
    BY <2>3, <2>4, <2>5
<1>3. ASSUME NEW address PROVE GetBlock(address).ok \in BOOLEAN
  BY Results DEF GetBlock, DecodeBlock
<1>4. ASSUME NEW address PROVE GetExtrinsic(address).ok \in BOOLEAN
  BY <1>3, Results DEF GetExtrinsic
<1>5. ParseExtrinsicText(text).ok \in BOOLEAN
  BY Results DEF ParseExtrinsicText, ParseBlockAddress
<1>6. r.ok \in BOOLEAN
  <2>1. DecodeExtrinsic(ParseExtrinsicText(text).value.of).ok \in BOOLEAN
    BY Results DEF DecodeExtrinsic
  <2>2. GetExtrinsic(ParseExtrinsicText(text).value).ok \in BOOLEAN
    BY <1>4
  <2> QED
    BY <1>5, <2>1, <2>2 DEF InspectExtrinsic
<1> QED
  BY <1>2, <1>6

-----------------------------------------------------------------------------
(* The invariant *)

\* Nothing has been answered before the command is run.
NoAnswerYet == Idle => ~result.ok /\ result.value # "NotFound"

IInv ==
  /\ Chained
  /\ TypeOK
  /\ NoAnswerYet
  /\ PrintsTheNamedBlock
  /\ PrintsTheNamedExtrinsic
  /\ NotFoundIsTrue

\* The blocks of a chain have the types TypeOK asks for.
BlocksTyped ==
  \A h \in DOMAIN blocks :
    blocks[h] \in [parent : 0 .. h - 1, number : 0 .. MaxBlocks, count : 0 .. MaxExtrinsics]

LEMMA ChainedTypes == Chained /\ Len(blocks) \in 1 .. MaxBlocks => BlocksTyped
<1> SUFFICES ASSUME Chained, Len(blocks) \in 1 .. MaxBlocks, NEW h \in DOMAIN blocks
             PROVE  blocks[h] \in [parent : 0 .. h - 1, number : 0 .. MaxBlocks, count : 0 .. MaxExtrinsics]
  BY DEF BlocksTyped
<1>1. /\ h \in Nat /\ h >= 1 /\ h <= Len(blocks)
      /\ blocks[h].parent \in Nat /\ blocks[h].number \in Nat /\ blocks[h].count \in Nat
      /\ blocks[h].parent < h /\ blocks[h].number < h /\ blocks[h].count <= MaxExtrinsics
  BY Fields DEF Chained
<1>2. /\ blocks[h].parent \in 0 .. h - 1 /\ blocks[h].number \in 0 .. MaxBlocks
      /\ blocks[h].count \in 0 .. MaxExtrinsics
  BY <1>1, BoundsAssumption
<1>3. blocks[h] \in [parent : Nat, number : Nat, count : Nat]
  <2>1. blocks \in Seq([parent : Nat, number : Nat, count : Nat])
    BY DEF Chained
  <2>2. h \in 1 .. Len(blocks)
    BY <1>1
  <2> QED
    BY <2>1, <2>2, ElementOfSeq
<1> QED
  BY <1>2, <1>3

\* While the command has not run, the database may change in any way that keeps
\* it a chain.
LEMMA IdleKeeps ==
  ASSUME IInv, Idle, UNCHANGED <<command, result>>, Chained',
         Len(blocks') \in 1 .. MaxBlocks, bodies' \subseteq DOMAIN blocks', best' \in bodies'
  PROVE  IInv'
<1>1. Chained' /\ (Len(blocks) \in 1 .. MaxBlocks)' => BlocksTyped'
  BY ChainedTypes, PTL
<1>2. TypeOK'
  BY <1>1 DEF IInv, TypeOK, BlocksTyped
<1>3. command'.sub = "none" /\ ~result'.ok /\ result'.value # "NotFound"
  BY DEF IInv, NoAnswerYet, Idle
<1>4. NoAnswerYet' /\ PrintsTheNamedBlock' /\ PrintsTheNamedExtrinsic' /\ NotFoundIsTrue'
  BY <1>3 DEF NoAnswerYet, PrintsTheNamedBlock, PrintsTheNamedExtrinsic, NotFoundIsTrue
<1> QED
  BY <1>2, <1>4 DEF IInv

LEMMA InitIInv == Init => IInv
<1> SUFFICES ASSUME Init PROVE IInv
  OBVIOUS
<1>1. PICK n \in 0 .. MaxExtrinsics : blocks = <<[parent |-> 0, number |-> 0, count |-> n]>>
  BY DEF Init
<1>2. n \in Nat /\ n <= MaxExtrinsics
  BY BoundsAssumption
<1>3. /\ blocks \in Seq([parent : Nat, number : Nat, count : Nat])
      /\ Len(blocks) = 1 /\ DOMAIN blocks = {1}
      /\ blocks[1] = [parent |-> 0, number |-> 0, count |-> n]
  BY <1>1, <1>2
<1>4. Chained
  BY <1>2, <1>3 DEF Init, Chained
<1>5. TypeOK
  <2>1. Len(blocks) \in 1 .. MaxBlocks
    BY <1>3, BoundsAssumption
  <2>2. BlocksTyped
    BY <1>4, <2>1, ChainedTypes
  <2>3. bodies \subseteq DOMAIN blocks /\ best \in bodies
    BY <1>3 DEF Init
  <2>4. command.sub = "none" /\ result.ok = FALSE
    BY DEF Init, Err
  <2> QED
    BY <2>1, <2>2, <2>3, <2>4 DEF TypeOK, BlocksTyped
<1>6. command.sub = "none" /\ ~result.ok /\ result.value # "NotFound"
  BY DEF Init, Err
<1>7. NoAnswerYet /\ PrintsTheNamedBlock /\ PrintsTheNamedExtrinsic /\ NotFoundIsTrue
  BY <1>6 DEF NoAnswerYet, PrintsTheNamedBlock, PrintsTheNamedExtrinsic, NotFoundIsTrue
<1> QED
  BY <1>4, <1>5, <1>7 DEF IInv

\* An import adds a block above its parent.
LEMMA ImportStep ==
  ASSUME IInv, NEW parent \in DOMAIN blocks, NEW count \in 0 .. MaxExtrinsics,
         ImportBlock(parent, count)
  PROVE  IInv'
<1> DEFINE number == blocks[parent].number + 1
           hash   == Len(blocks) + 1
           block  == [parent |-> parent, number |-> number, count |-> count]
<1>1. /\ Idle /\ Len(blocks) < MaxBlocks
      /\ blocks' = Append(blocks, block)
      /\ bodies' = bodies \cup {hash}
      /\ best' = IF number > blocks[best].number THEN hash ELSE best
      /\ UNCHANGED <<command, result>>
  BY DEF ImportBlock
<1>2. /\ Chained /\ blocks \in Seq([parent : Nat, number : Nat, count : Nat])
      /\ bodies \subseteq DOMAIN blocks /\ best \in bodies
  BY DEF IInv, TypeOK, Chained
<1>3. Len(blocks) \in Nat /\ DOMAIN blocks = 1 .. Len(blocks)
  BY <1>2
<1>4. /\ parent \in Nat /\ parent >= 1 /\ parent < hash /\ blocks[parent].number \in Nat
      /\ blocks[parent].number < parent
  BY <1>2, <1>3, Fields DEF Chained
<1>5. /\ block.parent = parent /\ block.number = number /\ block.count = count
      /\ number \in Nat /\ number < hash /\ count \in Nat /\ count <= MaxExtrinsics
  BY <1>3, <1>4, BoundsAssumption
<1>6. block \in [parent : Nat, number : Nat, count : Nat]
  BY <1>4, <1>5
<1> HIDE DEF block
<1>7. /\ blocks' \in Seq([parent : Nat, number : Nat, count : Nat])
      /\ Len(blocks') = hash /\ blocks'[hash] = block
      /\ \A h \in DOMAIN blocks : blocks'[h] = blocks[h]
  BY <1>1, <1>2, <1>3, <1>6, AppendProperties
<1>8. DOMAIN blocks' = DOMAIN blocks \cup {hash} /\ hash \in Nat
  BY <1>3, <1>7
<1>9. best' \in bodies' /\ bodies' \subseteq DOMAIN blocks'
  BY <1>1, <1>2, <1>8
<1>10. Chained'
  <2>1. ASSUME NEW h \in DOMAIN blocks
        PROVE  /\ blocks'[h].parent < h /\ blocks'[h].number < h /\ blocks'[h].count <= MaxExtrinsics
               /\ \/ blocks'[h].parent = 0
                  \/ blocks'[h].number = blocks'[blocks'[h].parent].number + 1
    <3>1. blocks'[h] = blocks[h]
      BY <1>7
    <3>2. blocks[h].parent # 0 => blocks'[blocks[h].parent] = blocks[blocks[h].parent]
      BY <1>2, <1>7, Fields
    <3>3. /\ blocks[h].parent < h /\ blocks[h].number < h /\ blocks[h].count <= MaxExtrinsics
          /\ \/ blocks[h].parent = 0
             \/ blocks[h].number = blocks[blocks[h].parent].number + 1
      BY <1>2 DEF Chained
    <3> QED
      BY <3>1, <3>2, <3>3
  <2>2. /\ blocks'[hash].parent < hash /\ blocks'[hash].number < hash
        /\ blocks'[hash].count <= MaxExtrinsics
        /\ blocks'[hash].number = blocks'[blocks'[hash].parent].number + 1
    <3>1. blocks'[parent] = blocks[parent]
      BY <1>7
    <3> QED
      BY <1>4, <1>5, <1>7, <3>1
  <2>3. best' \in DOMAIN blocks'
    BY <1>9
  <2> HIDE DEF hash
  <2> QED
    BY <1>7, <1>8, <2>1, <2>2, <2>3 DEF Chained
<1>11. Len(blocks') \in 1 .. MaxBlocks
  <2>1. Len(blocks) < MaxBlocks /\ MaxBlocks \in Nat
    BY <1>1, BoundsAssumption
  <2>2. hash \in 1 .. MaxBlocks
    BY <1>3, <2>1
  <2>3. Len(blocks') = hash
    BY <1>7
  <2> HIDE DEF hash
  <2> QED
    BY <2>2, <2>3
<1> QED
  BY <1>1, <1>9, <1>10, <1>11, IdleKeeps

\* The body of the best block is never discarded.
LEMMA PruneStep ==
  ASSUME IInv, NEW h \in bodies, PruneBody(h)
  PROVE  IInv'
<1>1. /\ Idle /\ blocks[h].number < blocks[best].number /\ bodies' = bodies \ {h}
      /\ UNCHANGED <<blocks, best, command, result>>
  BY DEF PruneBody
<1>2. /\ Chained /\ Len(blocks) \in 1 .. MaxBlocks
      /\ bodies \subseteq DOMAIN blocks /\ best \in bodies
  BY DEF IInv, TypeOK
<1>3. h # best
  <2>1. blocks[best].number \in Nat
    BY <1>2, Fields
  <2> QED
    BY <1>1, <2>1
<1>4. Chained'
  BY <1>1, <1>2 DEF Chained
<1> QED
  BY <1>1, <1>2, <1>3, <1>4, IdleKeeps

\* The command runs and the database stays as it is.
LEMMA RunStep ==
  ASSUME IInv, NEW sub \in {"block", "extrinsic"}, NEW text \in Texts,
         Run(sub, text) \/ RunFails(sub, text)
  PROVE  IInv'
<1>1. command' = [sub |-> sub, text |-> text] /\ UNCHANGED <<blocks, bodies, best>>
  BY DEF Run, RunFails
<1>2. command'.sub = sub /\ command'.text = text
  BY <1>1
<1>3. Chained
  BY DEF IInv
<1>4. /\ Canonical' = Canonical /\ Answers' = Answers
      /\ \A h \in DOMAIN blocks : [header |-> [hash |-> h, number |-> blocks[h].number],
                                  extrinsics |-> ExtrinsicsOf(h)] \in Answers
  <2>1. Canonical' = Canonical
    BY <1>1 DEF Canonical, Closed
  <2>2. Answers' = Answers
    BY <1>1 DEF Answers, ExtrinsicsOf
  <2> QED
    BY <2>1, <2>2 DEF Answers
<1>5. Chained' /\ NoAnswerYet'
  BY <1>1, <1>2, <1>3 DEF Chained, NoAnswerYet, Idle
<1>6. /\ result'.ok \in BOOLEAN
      /\ PrintsTheNamedBlock' /\ PrintsTheNamedExtrinsic' /\ NotFoundIsTrue'
  <2>1. CASE result' \in {Err("Client"), Err("Blockchain")}
    <3>1. ~result'.ok /\ result'.ok = FALSE /\ result'.value # "NotFound"
      BY <2>1 DEF Err
    <3> QED
      BY <3>1 DEF PrintsTheNamedBlock, PrintsTheNamedExtrinsic, NotFoundIsTrue
  <2>2. CASE sub = "block" /\ result' = InspectBlock(text)
    <3>1. /\ result'.ok \in BOOLEAN
          /\ result'.ok /\ text[1].form # "bytes" =>
               /\ text[1].form # "padded"
               /\ \E h \in DOMAIN blocks :
                    /\ Named(text[1], h)
                    /\ result'.value = [header |-> [hash |-> h, number |-> blocks[h].number],
                                        extrinsics |-> ExtrinsicsOf(h)]
          /\ ~result'.ok /\ result'.value = "NotFound" /\ text[1].form \in {"hash", "number"} =>
               \A h \in bodies : ~Named(text[1], h)
      BY <1>3, <2>2, BlockAnswers
    <3>2. PrintsTheNamedBlock'
      <4> SUFFICES ASSUME result'.ok, text[1].form # "bytes"
                   PROVE  /\ result'.value \in Answers
                          /\ text[1].form = "hash" => result'.value.header.hash = text[1].value
                          /\ text[1].form = "number" => /\ result'.value.header.number = text[1].value
                                                        /\ result'.value.header.hash \in Canonical
                          /\ text[1].form # "padded"
        BY <1>2, <1>4 DEF PrintsTheNamedBlock
      <4>1. text[1].form # "padded"
        BY <3>1
      <4>2. PICK h \in DOMAIN blocks :
              /\ Named(text[1], h)
              /\ result'.value = [header |-> [hash |-> h, number |-> blocks[h].number],
                                  extrinsics |-> ExtrinsicsOf(h)]
        BY <3>1
      <4>3. result'.value.header.hash = h /\ result'.value.header.number = blocks[h].number
        BY <4>2
      <4> QED
        BY <1>4, <4>1, <4>2, <4>3 DEF Named
    <3>3. PrintsTheNamedExtrinsic'
      BY <1>2, <2>2 DEF PrintsTheNamedExtrinsic
    <3>4. NotFoundIsTrue'
      <4> SUFFICES ASSUME ~result'.ok, result'.value = "NotFound", text[1].form \in {"hash", "number"},
                          NEW h \in bodies,
                          IF text[1].form = "hash" THEN h = text[1].value
                          ELSE h \in Canonical /\ blocks[h].number = text[1].value
                   PROVE  FALSE
        BY <1>1, <1>2, <1>4 DEF NotFoundIsTrue
      <4>1. h \in DOMAIN blocks
        BY DEF IInv, TypeOK
      <4>2. Named(text[1], h)
        BY <4>1 DEF Named
      <4> QED
        BY <3>1, <4>2
    <3> QED
      BY <3>1, <3>2, <3>3, <3>4
  <2>3. CASE sub = "extrinsic" /\ result' = InspectExtrinsic(text)
    <3>1. /\ result'.ok \in BOOLEAN
          /\ result'.ok /\ text[1].form \in {"hash", "number"} =>
               \E h \in DOMAIN blocks : Named(text[1], h) /\ result'.value = <<h, text[2].value + 1>>
          /\ ~result'.ok /\ result'.value = "NotFound" /\ text[1].form \in {"hash", "number"} =>
               \A h \in bodies : Named(text[1], h) => text[2].value >= blocks[h].count
      BY <1>3, <2>3, ExtrinsicAnswers
    <3>2. PrintsTheNamedBlock'
      BY <1>2, <2>3 DEF PrintsTheNamedBlock
    <3>3. PrintsTheNamedExtrinsic'
      <4> SUFFICES ASSUME result'.ok, text[1].form \in {"hash", "number"}
                   PROVE  \E h \in DOMAIN blocks :
                            /\ result'.value = <<h, text[2].value + 1>>
                            /\ text[1].form = "hash" => h = text[1].value
                            /\ text[1].form = "number" => h \in Canonical /\ blocks[h].number = text[1].value
        BY <1>1, <1>2, <1>4 DEF PrintsTheNamedExtrinsic
      <4> QED
        BY <3>1 DEF Named
    <3>4. NotFoundIsTrue'
      <4> SUFFICES ASSUME ~result'.ok, result'.value = "NotFound", text[1].form \in {"hash", "number"},
                          NEW h \in bodies,
                          IF text[1].form = "hash" THEN h = text[1].value
                          ELSE h \in Canonical /\ blocks[h].number = text[1].value
                   PROVE  text[2].value >= blocks[h].count
        BY <1>1, <1>2, <1>4, <2>3 DEF NotFoundIsTrue
      <4>1. h \in DOMAIN blocks
        BY DEF IInv, TypeOK
      <4>2. Named(text[1], h)
        BY <4>1 DEF Named
      <4> QED
        BY <3>1, <4>2
    <3> QED
      BY <3>1, <3>2, <3>3, <3>4
  <2> QED
    BY <2>1, <2>2, <2>3 DEF Run, RunFails
<1>7. TypeOK'
  <2>1. /\ BlocksTyped /\ Len(blocks) \in 1 .. MaxBlocks
        /\ bodies \subseteq DOMAIN blocks /\ best \in bodies
    BY DEF IInv, TypeOK, BlocksTyped
  <2> QED
    BY <1>1, <1>2, <1>6, <2>1 DEF TypeOK, BlocksTyped
<1> QED
  BY <1>5, <1>6, <1>7 DEF IInv

LEMMA NextIInv == IInv /\ [Next]_vars => IInv'
<1> SUFFICES ASSUME IInv, [Next]_vars PROVE IInv'
  OBVIOUS
<1>1. CASE Next
  BY <1>1, ImportStep, PruneStep, RunStep DEF Next
<1>2. CASE UNCHANGED vars
  <2>1. UNCHANGED <<blocks, bodies, best, command, result>>
    BY <1>2 DEF vars
  <2>2. Canonical' = Canonical /\ Answers' = Answers
    BY <2>1 DEF Canonical, Closed, Answers, ExtrinsicsOf
  <2>3. Chained' /\ TypeOK' /\ NoAnswerYet'
    BY <2>1 DEF IInv, Chained, TypeOK, NoAnswerYet, Idle
  <2>4. PrintsTheNamedBlock'
    BY <2>1, <2>2 DEF IInv, PrintsTheNamedBlock
  <2>5. PrintsTheNamedExtrinsic'
    BY <2>1, <2>2 DEF IInv, PrintsTheNamedExtrinsic
  <2>6. NotFoundIsTrue'
    BY <2>1, <2>2 DEF IInv, NotFoundIsTrue
  <2> QED
    BY <2>3, <2>4, <2>5, <2>6 DEF IInv
<1> QED
  BY <1>1, <1>2

LEMMA Invariance == Spec => []IInv
  BY InitIInv, NextIInv, PTL DEF Spec

-----------------------------------------------------------------------------
(* The theorems *)

\* Every variable has its type, and the body of the best block is stored.
THEOREM TypeCorrect == Spec => []TypeOK
<1>1. IInv => TypeOK
  BY DEF IInv
<1> QED
  BY <1>1, Invariance, PTL

\* `inspect block` prints the header and the body of the one block its text
\* names, on a fork or on the canonical chain.
THEOREM BlockIsTheNamed == Spec => []PrintsTheNamedBlock
<1>1. IInv => PrintsTheNamedBlock
  BY DEF IInv
<1> QED
  BY <1>1, Invariance, PTL

\* `inspect extrinsic` prints the extrinsic at the index, counted from zero, of
\* the block that the text names.
THEOREM ExtrinsicIsTheNamed == Spec => []PrintsTheNamedExtrinsic
<1>1. IInv => PrintsTheNamedExtrinsic
  BY DEF IInv
<1> QED
  BY <1>1, Invariance, PTL

\* When inspect says that it found none, there is none.
THEOREM NotFoundIsTruth == Spec => []NotFoundIsTrue
<1>1. IInv => NotFoundIsTrue
  BY DEF IInv
<1> QED
  BY <1>1, Invariance, PTL

=============================================================================

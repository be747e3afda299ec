-------------------------- MODULE MmcBlockIoProofs --------------------------
(***************************************************************************)
(* The pieces of a request, for any size of a block, of a buffer and of an *)
(* EFI_LBA, any media and any failures of the host.                        *)
(*                                                                         *)
(* A request of the whole is one piece when the host does multiple blocks, *)
(* else one piece a block.  The invariant says where the next piece        *)
(* starts: after the blocks asked so far, in the buffer and on the media,  *)
(* with what is left in bytes.                                             *)
(***************************************************************************)
EXTENDS MmcDiagnostics, TLAPS

BlocksOf(r) == r.BufferSize \div BlockSize

NumBlocks == BlocksOf(req)

PieceBlocks == IF IsMultiBlock THEN NumBlocks ELSE 1

BlockAt(i) == [Lba |-> (req.Lba + i) % LbaLimit, Buffer |-> i * BlockSize]

Pieces(n) == {BlockAt(i) : i \in 0 .. n - 1}

\* The requests of any client: those of Request, and those of the diagnostics.
AnyRequests == [Transfer : {"READ", "WRITE"}, current : BOOLEAN, null : BOOLEAN,
                aligned : BOOLEAN, Lba : 0 .. LbaLimit - 1, BufferSize : Nat]

AnyNext == (\E r \in AnyRequests : Submit(r)) \/ Step

Before == {"ready", "command"}
After == {"data", "busy", "stop", "finish"}

TypeOK ==
  /\ Media \in [MediaPresent : BOOLEAN, ReadOnly : BOOLEAN, LastBlock : LastBlocks]
  /\ IsMultiBlock \in BOOLEAN
  /\ req \in AnyRequests /\ count \in Nat /\ left \in Nat
  /\ pc \in {"idle"} \cup Before \cup After

\* The next piece starts after n blocks.
StartsAfter(n) ==
  /\ n \in 0 .. NumBlocks - 1 /\ (IsMultiBlock => n = 0)
  /\ left = (NumBlocks - n) * BlockSize
  /\ Buffer = n * BlockSize
  /\ Lba = (req.Lba + n) % LbaLimit

PieceInv ==
  /\ TypeOK
  /\ asked = Pieces(count)
  /\ pc # "idle" \/ count > 0 => Accepts(req)
  /\ count <= NumBlocks
  /\ pc \in Before => StartsAfter(count)
  /\ pc \in After => StartsAfter(count - PieceBlocks)
  /\ pc = "idle" /\ Status = "SUCCESS" /\ Accepts(req) => count = NumBlocks

(***************************************************************************)
(* Quotients and remainders.                                               *)
(***************************************************************************)
\* A product is no less than its factor.
LEMMA Product ==
  ASSUME NEW m \in Nat, NEW d \in Nat, d >= 1
  PROVE  m * d >= m
  <1>1. m * d = m + m * (d - 1)
    OBVIOUS
  <1>2. m * (d - 1) \in Nat
    OBVIOUS
  <1> QED BY <1>1, <1>2

\* What division is.
LEMMA Division ==
  ASSUME NEW m \in Nat, m > 0, NEW a \in Nat
  PROVE  a = m * (a \div m) + (a % m) /\ a \div m \in Nat /\ a % m \in 0 .. m - 1
  <1> DEFINE p == a \div m
             s == a % m
  <1>1. a = m * p + s /\ s \in 0 .. m - 1 /\ p \in Nat
    OBVIOUS
  <1> QED BY <1>1

\* Division undoes multiplication.
LEMMA Quotient ==
  ASSUME NEW m \in Nat, m > 0, NEW q \in Nat, NEW r \in 0 .. m - 1
  PROVE  (m * q + r) \div m = q /\ (m * q + r) % m = r
  <1> DEFINE a == m * q + r
             p == a \div m
             s == a % m
  <1>1. a \in Nat
    OBVIOUS
  <1>2. a = m * p + s /\ s \in 0 .. m - 1 /\ p \in Nat
    BY <1>1
  <1> HIDE DEF p, s
  <1>3. m * q + r = m * p + s
    BY <1>2
  <1>4. CASE p > q
    <2>1. m * (p - q) >= m
      BY <1>2, <1>4, Product
    <2>2. m * (p - q) = m * p - m * q
      BY <1>2
    <2> QED BY <1>2, <1>3, <2>1, <2>2
  <1>5. CASE p < q
    <2>1. m * (q - p) >= m
      BY <1>2, <1>5, Product
    <2>2. m * (q - p) = m * q - m * p
      BY <1>2
    <2> QED BY <1>2, <1>3, <2>1, <2>2
  <1>6. CASE p = q
    BY <1>2, <1>3, <1>6 DEF p, s
  <1> QED BY <1>2, <1>4, <1>5, <1>6

\* A sum may be reduced before the next term is added.
LEMMA RemainderOfSum ==
  ASSUME NEW m \in Nat, m > 0, NEW a \in Nat, NEW b \in Nat
  PROVE  ((a % m) + b) % m = (a + b) % m
  <1> DEFINE p == a \div m
             s == a % m
             u == (s + b) \div m
             v == (s + b) % m
  <1>1. a = m * p + s /\ s \in 0 .. m - 1 /\ p \in Nat
    OBVIOUS
  <1>2. s + b = m * u + v /\ v \in 0 .. m - 1 /\ u \in Nat
    BY <1>1
  <1> HIDE DEF p, s, u, v
  <1>3. a + b = m * (p + u) + v
    BY <1>1, <1>2
  <1>4. (a + b) % m = v
    <2>1. p + u \in Nat
      BY <1>1, <1>2
    <2>2. (m * (p + u) + v) % m = v
      BY <1>2, <2>1, Quotient
    <2> QED BY <1>3, <2>2
  <1>5. v = ((a % m) + b) % m
    BY DEF v, s
  <1> QED BY <1>4, <1>5

(***************************************************************************)
(* One piece.                                                              *)
(***************************************************************************)
LEMMA RequestsTyped == Request \subseteq AnyRequests
  <1>1. Lbas \subseteq 0 .. LbaLimit - 1 /\ 0 .. MaxBufferSize \subseteq Nat
    BY SizeAssumption, LbaAssumption
  <1> SUFFICES ASSUME NEW r \in Request PROVE r \in AnyRequests
    OBVIOUS
  <1> QED BY <1>1 DEF Request, AnyRequests

\* What MmcIoBlocks has checked of a request it accepts.
LEMMA Accepted ==
  ASSUME NEW r \in AnyRequests, Accepts(r)
  PROVE  /\ ~PastEnd(r) /\ r.BufferSize > 0
         /\ BlocksOf(r) \in Nat /\ BlocksOf(r) >= 1
         /\ r.BufferSize = BlocksOf(r) * BlockSize
         /\ r.Lba \in Nat /\ LbaLimit \in Nat /\ LbaLimit > 0
  <1>1. ~PastEnd(r) /\ r.BufferSize # 0 /\ r.BufferSize % BlockSize = 0
    BY DEF Accepts, Answer
  <1>2. r.BufferSize \in Nat /\ r.Lba \in 0 .. LbaLimit - 1
    BY DEF AnyRequests
  <1>3. BlockSize \in Nat /\ BlockSize > 0
    BY SizeAssumption
  <1>4. r.BufferSize = BlockSize * BlocksOf(r) + (r.BufferSize % BlockSize)
        /\ BlocksOf(r) \in Nat
    BY <1>2, <1>3, Division DEF BlocksOf
  <1>5. BlocksOf(r) # 0
    <2> DEFINE rest == r.BufferSize % BlockSize
    <2>1. r.BufferSize = BlockSize * BlocksOf(r) + rest /\ rest = 0
      BY <1>1, <1>4
    <2> HIDE DEF rest
    <2>2. BlockSize * 0 + 0 = 0
      BY <1>3
    <2> QED BY <1>1, <2>1, <2>2
  <1>6. r.Lba \in Nat /\ LbaLimit \in Nat /\ LbaLimit > 0
    <2>1. r.Lba \in 0 .. LbaLimit - 1 /\ LbaLimit \in Nat
      BY <1>2, LbaAssumption
    <2> QED BY <2>1
  <1>7. r.BufferSize = BlocksOf(r) * BlockSize
    <2> DEFINE rest == r.BufferSize % BlockSize
    <2>1. r.BufferSize = BlockSize * BlocksOf(r) + rest /\ rest = 0
      BY <1>1, <1>4
    <2> HIDE DEF rest
    <2> QED BY <1>3, <1>4, <2>1
  <1> QED BY <1>1, <1>2, <1>4, <1>5, <1>6, <1>7

\* A piece is the whole of what is left, or a block.
LEMMA PieceSize ==
  ASSUME TypeOK, Accepts(req), NEW n, StartsAfter(n)
  PROVE  /\ BlockCount = PieceBlocks /\ PieceBlocks \in Nat
         /\ ConsumeSize = PieceBlocks * BlockSize
         /\ ConsumeSize \div BlockSize = PieceBlocks
         /\ PieceBlocks >= 1 /\ n + PieceBlocks <= NumBlocks
         /\ IsMultiBlock => n + PieceBlocks = NumBlocks
         /\ left - ConsumeSize = (NumBlocks - (n + PieceBlocks)) * BlockSize
  <1>1. /\ NumBlocks \in Nat /\ NumBlocks >= 1 /\ req.BufferSize = NumBlocks * BlockSize
        /\ BlockSize \in Nat /\ BlockSize > 0
    BY Accepted, SizeAssumption DEF TypeOK, NumBlocks
  <1>2. n \in Nat /\ n < NumBlocks /\ (IsMultiBlock => n = 0) /\ left = (NumBlocks - n) * BlockSize
    BY <1>1 DEF StartsAfter
  <1>3. BlockCount = PieceBlocks
    <2>1. CASE IsMultiBlock
      <3>1. req.BufferSize + BlockSize - 1 = BlockSize * NumBlocks + (BlockSize - 1)
        BY <1>1
      <3>2. BlockSize - 1 \in 0 .. BlockSize - 1
        BY <1>1
      <3>3. (BlockSize * NumBlocks + (BlockSize - 1)) \div BlockSize = NumBlocks
        BY <1>1, <3>2, Quotient
      <3> QED BY <2>1, <3>1, <3>3 DEF BlockCount, PieceBlocks
    <2>2. CASE ~IsMultiBlock
      BY <2>2 DEF BlockCount, PieceBlocks
    <2> QED BY <2>1, <2>2
  <1>4. /\ PieceBlocks \in Nat /\ PieceBlocks >= 1 /\ n + PieceBlocks <= NumBlocks
        /\ IsMultiBlock => n + PieceBlocks = NumBlocks
    BY <1>1, <1>2 DEF PieceBlocks
  <1>5. left - PieceBlocks * BlockSize = (NumBlocks - (n + PieceBlocks)) * BlockSize
    BY <1>1, <1>2, <1>4
  <1>6. (NumBlocks - (n + PieceBlocks)) * BlockSize >= 0
    BY <1>1, <1>2, <1>4
  <1>7. ConsumeSize = PieceBlocks * BlockSize
    <2>1. PieceBlocks * BlockSize \in Nat /\ left \in Nat
      BY <1>1, <1>4 DEF TypeOK
    <2> QED BY <1>3, <1>5, <1>6, <2>1 DEF ConsumeSize
  <1>8. ConsumeSize \div BlockSize = PieceBlocks
    <2>1. BlockSize * PieceBlocks + 0 = ConsumeSize
      BY <1>1, <1>4, <1>7
    <2>2. (BlockSize * PieceBlocks + 0) \div BlockSize = PieceBlocks
      BY <1>1, <1>4, Quotient
    <2> QED BY <2>1, <2>2
  <1> QED BY <1>3, <1>4, <1>5, <1>7, <1>8

\* The blocks of a piece continue those asked before.
LEMMA PieceAdded ==
  ASSUME TypeOK, Accepts(req), NEW n, StartsAfter(n)
  PROVE  Pieces(n) \cup Blocks = Pieces(n + PieceBlocks)
  <1>1. /\ NumBlocks \in Nat /\ n \in Nat /\ PieceBlocks \in Nat /\ BlockSize \in Nat
        /\ ConsumeSize \div BlockSize = PieceBlocks /\ BlockSize > 0
        /\ req.Lba \in Nat /\ LbaLimit \in Nat /\ LbaLimit > 0
        /\ Buffer = n * BlockSize /\ Lba = (req.Lba + n) % LbaLimit
    BY Accepted, PieceSize, SizeAssumption DEF StartsAfter, TypeOK, NumBlocks
  <1> DEFINE Shifted(i) == [Lba |-> (Lba + i) % LbaLimit, Buffer |-> Buffer + i * BlockSize]
  <1>2. ASSUME NEW i \in Nat
        PROVE  Shifted(i) = BlockAt(n + i)
    <2>1. (Lba + i) % LbaLimit = (req.Lba + n + i) % LbaLimit
      <3>1. req.Lba + n \in Nat
        BY <1>1
      <3>2. (((req.Lba + n) % LbaLimit) + i) % LbaLimit = (req.Lba + n + i) % LbaLimit
        BY <1>1, <3>1, RemainderOfSum
      <3> QED BY <1>1, <3>2
    <2>2. Buffer + i * BlockSize = (n + i) * BlockSize
      BY <1>1
    <2>3. req.Lba + n + i = req.Lba + (n + i)
      BY <1>1
    <2> QED BY <2>1, <2>2, <2>3 DEF BlockAt
  <1>3. Blocks = {BlockAt(n + i) : i \in 0 .. PieceBlocks - 1}
    <2>1. Blocks = {Shifted(i) : i \in 0 .. PieceBlocks - 1}
      BY <1>1, Zenon DEF Blocks
    <2>2. \A i \in 0 .. PieceBlocks - 1 : i \in Nat
      BY <1>1
    <2> HIDE DEF Shifted
    <2> QED BY <1>2, <2>1, <2>2
  <1>4. /\ Pieces(n) = {BlockAt(i) : i \in 0 .. n - 1}
        /\ Pieces(n + PieceBlocks) = {BlockAt(i) : i \in 0 .. (n + PieceBlocks) - 1}
    <2>1. Pieces(n) = {BlockAt(i) : i \in 0 .. n - 1}
      BY Zenon DEF Pieces
    <2>2. Pieces(n + PieceBlocks) = {BlockAt(i) : i \in 0 .. (n + PieceBlocks) - 1}
      BY Zenon DEF Pieces
    <2> QED BY <2>1, <2>2
  <1>5. ASSUME NEW i \in 0 .. (n + PieceBlocks) - 1, i >= n
        PROVE  \E j \in 0 .. PieceBlocks - 1 : BlockAt(i) = BlockAt(n + j)
    <2>1. i - n \in 0 .. PieceBlocks - 1 /\ n + (i - n) = i
      BY <1>1, <1>5
    <2> QED BY <2>1
  <1>6. \A j \in 0 .. PieceBlocks - 1 : n + j \in 0 .. (n + PieceBlocks) - 1
    BY <1>1
  <1>7. \A i \in 0 .. (n + PieceBlocks) - 1 : i < n => i \in 0 .. n - 1
    BY <1>1
  <1>8. \A i \in 0 .. n - 1 : i \in 0 .. (n + PieceBlocks) - 1
    BY <1>1
  <1>9. \A i \in 0 .. (n + PieceBlocks) - 1 : i < n \/ i >= n
    BY <1>1
  <1> QED BY <1>3, <1>4, <1>5, <1>6, <1>7, <1>8, <1>9

(***************************************************************************)
(* The steps.                                                              *)
(***************************************************************************)
\* What a request is stays as long as it runs.
LEMMA SameRequest ==
  ASSUME UNCHANGED <<fixed, req>>
  PROVE  /\ NumBlocks' = NumBlocks /\ PieceBlocks' = PieceBlocks
         /\ \A n : Pieces(n)' = Pieces(n)
         /\ Accepts(req)' <=> Accepts(req)
         /\ PastEnd(req)' <=> PastEnd(req)
  <1>1. NumBlocks' = NumBlocks /\ PieceBlocks' = PieceBlocks
    BY DEF NumBlocks, BlocksOf, PieceBlocks, fixed
  <1>2. \A i : BlockAt(i)' = BlockAt(i)
    BY DEF BlockAt
  <1>3. \A n : Pieces(n)' = Pieces(n)
    BY <1>2 DEF Pieces
  <1>4. PastEnd(req)' <=> PastEnd(req)
    BY DEF PastEnd, fixed
  <1>5. Accepts(req)' <=> Accepts(req)
    BY DEF Accepts, Answer, PastEnd, fixed
  <1> QED BY <1>1, <1>3, <1>4, <1>5

\* As long as nothing of the piece changes, it starts where it did.
LEMMA SamePiece ==
  ASSUME PieceInv, UNCHANGED <<fixed, req, piece, asked, count>>,
         pc' \in {"idle"} \cup Before \cup After,
         pc' \in Before => pc \in Before, pc' \in After => pc \in After,
         pc' = "idle" => Status' # "SUCCESS"
  PROVE  PieceInv'
  <1>1. TypeOK'
    BY DEF PieceInv, TypeOK, fixed, piece
  <1>3. asked' = Pieces(count)' /\ (count' <= NumBlocks')
    BY SameRequest DEF PieceInv
  <1>4. pc' # "idle" \/ count' > 0 => Accepts(req)'
    BY SameRequest DEF PieceInv, Before, After
  <1>5. pc' \in Before => StartsAfter(count)'
    BY SameRequest DEF PieceInv, StartsAfter, piece, fixed
  <1>6. pc' \in After => StartsAfter(count - PieceBlocks)'
    BY SameRequest DEF PieceInv, StartsAfter, piece, fixed
  <1> QED BY <1>1, <1>3, <1>4, <1>5, <1>6 DEF PieceInv

\* A request is refused, or its first piece starts at its first block.
LEMMA SubmitStep ==
  ASSUME PieceInv, NEW r \in AnyRequests, Submit(r)
  PROVE  PieceInv'
  <1>1. TypeOK'
    BY SizeAssumption DEF PieceInv, TypeOK, Submit, AnyRequests, fixed, Before
  <1>2. asked' = Pieces(count)'
    <2>1. count' = 0 /\ asked' = {}
      BY DEF Submit
    <2>2. Pieces(0)' = {}
      BY DEF Pieces
    <2> QED BY <2>1, <2>2
  <1>3. Accepts(r) <=> Accepts(req)'
    BY DEF Submit, Accepts, Answer, PastEnd, fixed
  <1>4. CASE Accepts(r)
    <2>1. /\ NumBlocks' \in Nat /\ NumBlocks' >= 1 /\ req'.BufferSize = NumBlocks' * BlockSize
          /\ req'.Lba \in Nat /\ LbaLimit \in Nat /\ LbaLimit > 0
      BY <1>4, Accepted DEF Submit, NumBlocks, BlocksOf
    <2>2. /\ pc' = "ready" /\ left' = req'.BufferSize /\ count' = 0
          /\ Lba' = req'.Lba /\ Buffer' = 0
      BY <1>4 DEF Submit
    <2>3. req'.Lba < LbaLimit
      <3>1. r.Lba \in 0 .. LbaLimit - 1 /\ req' = r
        BY DEF Submit, AnyRequests
      <3> QED BY <2>1, <3>1
    <2>4. Lba' = (req'.Lba + 0) % LbaLimit
      BY <2>1, <2>2, <2>3
    <2>5. StartsAfter(0)'
      <3>1. 0 \in 0 .. NumBlocks' - 1
        <4>1. BlocksOf(r) \in Nat /\ BlocksOf(r) >= 1
          BY <1>4, Accepted
        <4>2. NumBlocks' = BlocksOf(r)
          BY DEF Submit, NumBlocks, BlocksOf
        <4>3. 0 \in 0 .. BlocksOf(r) - 1
          BY <4>1
        <4> QED BY <4>2, <4>3
      <3>2. \A x, y \in Nat : x - 0 = x /\ 0 * y = 0
        OBVIOUS
      <3>3. NumBlocks' \in Nat /\ BlockSize \in Nat
        BY <2>1, SizeAssumption
      <3>4. left' = NumBlocks' * BlockSize
        BY <2>1, <2>2, Zenon
      <3>5. left' = (NumBlocks' - 0) * BlockSize /\ Buffer' = 0 * BlockSize
        BY <2>2, <3>2, <3>3, <3>4, Zenon
      <3> HIDE DEF NumBlocks
      <3> QED BY <2>4, <3>1, <3>5 DEF StartsAfter
    <2> QED BY <1>1, <1>2, <1>3, <1>4, <2>1, <2>2, <2>5 DEF PieceInv, After
  <1>5. CASE ~Accepts(r)
    <2>1. pc' = "idle" /\ count' = 0
      BY <1>5 DEF Submit
    <2>2. 0 <= NumBlocks'
      BY <1>1, SizeAssumption DEF TypeOK, AnyRequests, NumBlocks, BlocksOf
    <2> QED BY <1>1, <1>2, <1>3, <1>5, <2>1, <2>2 DEF PieceInv, Before, After
  <1> QED BY <1>4, <1>5

\* The next piece starts where this one ends, or there is none.
LEMMA AdvanceStep ==
  ASSUME TypeOK, NEW n, StartsAfter(n), Accepts(req), Advance, UNCHANGED <<fixed, req>>,
         count' = n + PieceBlocks, asked' = Pieces(n + PieceBlocks)
  PROVE  PieceInv'
  <1>1. /\ NumBlocks \in Nat /\ BlockSize \in Nat /\ BlockSize > 0
        /\ req.Lba \in Nat /\ LbaLimit \in Nat /\ LbaLimit > 0
    BY Accepted, SizeAssumption DEF TypeOK, NumBlocks
  <1>2. /\ PieceBlocks \in Nat /\ n \in Nat /\ count' \in Nat /\ count' <= NumBlocks
        /\ BlockCount = PieceBlocks /\ ConsumeSize = PieceBlocks * BlockSize
        /\ left' = (NumBlocks - count') * BlockSize
        /\ IsMultiBlock => count' = NumBlocks
        /\ ~IsMultiBlock => PieceBlocks = 1
    <2>1. /\ PieceBlocks \in Nat /\ n + PieceBlocks <= NumBlocks
          /\ BlockCount = PieceBlocks /\ ConsumeSize = PieceBlocks * BlockSize
          /\ left - ConsumeSize = (NumBlocks - (n + PieceBlocks)) * BlockSize
          /\ IsMultiBlock => n + PieceBlocks = NumBlocks
      BY PieceSize
    <2>2. n \in Nat
      BY <1>1 DEF StartsAfter
    <2>3. left' = left - ConsumeSize
      BY DEF Advance
    <2>4. ~IsMultiBlock => PieceBlocks = 1
      BY DEF PieceBlocks
    <2> HIDE DEF PieceBlocks
    <2> QED BY <1>1, <2>1, <2>2, <2>3, <2>4
  <1>3. left' \in Nat
    BY <1>1, <1>2
  <1>4. pc' \in {"idle", "ready"}
    BY DEF Advance
  <1>5. TypeOK'
    BY <1>2, <1>3, <1>4 DEF TypeOK, fixed, Before
  <1>6. asked' = Pieces(count)' /\ Accepts(req)' /\ count' <= NumBlocks'
    <2>1. Pieces(count)' = Pieces(count')
      BY SameRequest DEF Pieces, BlockAt
    <2> QED BY <1>2, <2>1, SameRequest
  <1>7. CASE left' > 0
    <2>1. count' # NumBlocks
      BY <1>1, <1>2, <1>7
    <2>2. count' \in 0 .. NumBlocks - 1 /\ ~IsMultiBlock /\ PieceBlocks = 1
      BY <1>1, <1>2, <2>1
    <2>3. Buffer' = count' * BlockSize
      BY <1>1, <1>2, <1>7 DEF Advance, StartsAfter
    <2>4. Lba' = (req.Lba + count') % LbaLimit
      <3>1. Lba' = (((req.Lba + n) % LbaLimit) + PieceBlocks) % LbaLimit
        BY <1>2, <1>7 DEF Advance, StartsAfter
      <3>2. req.Lba + n \in Nat /\ req.Lba + n + PieceBlocks = req.Lba + count'
        BY <1>1, <1>2
      <3>3. (((req.Lba + n) % LbaLimit) + PieceBlocks) % LbaLimit
              = (req.Lba + n + PieceBlocks) % LbaLimit
        BY <1>1, <1>2, <3>2, RemainderOfSum
      <3> QED BY <3>1, <3>2, <3>3
    <2>5. StartsAfter(count)'
      BY <1>2, <2>2, <2>3, <2>4, SameRequest DEF StartsAfter, fixed
    <2>6. pc' = "ready"
      BY <1>7 DEF Advance
    <2> QED BY <1>5, <1>6, <2>5, <2>6 DEF PieceInv, After
  <1>8. CASE ~(left' > 0)
    <2>1. NumBlocks - count' \in Nat /\ left' = 0
      BY <1>1, <1>2, <1>3, <1>8
    <2>2. count' = NumBlocks
      <3>1. CASE NumBlocks - count' >= 1
        <4>1. BlockSize * (NumBlocks - count') >= BlockSize
          BY <1>1, <2>1, <3>1, Product
        <4>2. BlockSize * (NumBlocks - count') = left'
          BY <1>1, <1>2, <2>1
        <4> QED BY <1>1, <2>1, <4>1, <4>2
      <3> QED BY <1>1, <1>2, <2>1, <3>1
    <2>3. pc' = "idle"
      BY <1>8 DEF Advance
    <2> QED BY <1>5, <1>6, <2>2, <2>3, SameRequest DEF PieceInv, Before, After
  <1> QED BY <1>7, <1>8

\* The polls before and after a piece.
LEMMA PollStep ==
  ASSUME PieceInv, Poll \/ GiveUp \/ Ready \/ NotBusy \/ StopTransfer
  PROVE  PieceInv'
  <1>1. UNCHANGED <<fixed, req, piece, asked, count>>
    BY DEF Poll, GiveUp, Ready, NotBusy, StopTransfer
  <1>2. /\ pc' \in {"idle"} \cup Before \cup After
        /\ pc' \in Before => pc \in Before
        /\ pc' \in After => pc \in After
        /\ pc' = "idle" => Status' # "SUCCESS"
    BY DEF Poll, GiveUp, Ready, NotBusy, StopTransfer, Before, After
  <1> QED BY <1>1, <1>2, SamePiece

\* The command asks for the piece, and the piece may end with it.
LEMMA CommandStep ==
  ASSUME PieceInv, SendTransferCommand
  PROVE  PieceInv'
  <1>1. /\ TypeOK /\ Accepts(req) /\ StartsAfter(count) /\ count \in Nat
        /\ UNCHANGED <<fixed, req>>
    BY DEF SendTransferCommand, PieceInv, Before, TypeOK
  <1>2. count' = count + PieceBlocks /\ asked' = Pieces(count + PieceBlocks)
    BY <1>1, PieceSize, PieceAdded DEF SendTransferCommand, PieceInv
  <1>3. CASE Advance
    BY <1>1, <1>2, <1>3, AdvanceStep
  <1>4. CASE pc' = "data" /\ UNCHANGED piece
    <2>1. /\ PieceBlocks \in Nat /\ NumBlocks \in Nat /\ count + PieceBlocks <= NumBlocks
          /\ PieceBlocks >= 1
      BY <1>1, PieceSize, Accepted DEF TypeOK, NumBlocks
    <2>2. TypeOK'
      BY <1>1, <1>2, <1>4, <2>1 DEF TypeOK, fixed, piece, After
    <2>3. asked' = Pieces(count)' /\ Accepts(req)' /\ count' <= NumBlocks'
      <3>1. Pieces(count)' = Pieces(count')
        BY <1>1, SameRequest DEF Pieces, BlockAt
      <3> QED BY <1>1, <1>2, <2>1, <3>1, SameRequest
    <2>4. count' - PieceBlocks' = count
      BY <1>1, <1>2, <2>1, SameRequest
    <2>5. StartsAfter(count - PieceBlocks)'
      BY <1>1, <1>4, <2>4, SameRequest DEF StartsAfter, fixed, piece
    <2> QED BY <1>4, <2>2, <2>3, <2>5 DEF PieceInv, Before
  <1> QED BY <1>3, <1>4 DEF SendTransferCommand

\* The data move, or not, and the piece may end there.
LEMMA DataStep ==
  ASSUME PieceInv, Transferred \/ DataError \/ Finish
  PROVE  PieceInv'
  <1>1. /\ TypeOK /\ Accepts(req) /\ StartsAfter(count - PieceBlocks)
        /\ pc \in After /\ asked = Pieces(count)
        /\ UNCHANGED <<fixed, req, asked, count>>
    BY DEF Transferred, DataError, Finish, PieceInv, After
  <1>2. CASE Advance
    <2>1. count \in Nat /\ PieceBlocks \in Nat
      BY <1>1, PieceSize DEF TypeOK
    <2>2. count' = (count - PieceBlocks) + PieceBlocks
      BY <1>1, <2>1
    <2>3. asked' = Pieces((count - PieceBlocks) + PieceBlocks)
      BY <1>1, <2>1, <2>2
    <2> QED BY <1>1, <1>2, <2>2, <2>3, AdvanceStep
  <1>3. CASE pc' = "busy" /\ UNCHANGED piece
    BY <1>1, <1>3, SamePiece DEF Before, After
  <1> QED BY <1>2, <1>3 DEF Transferred, DataError, Finish

\* Every step keeps the invariant, whoever makes the requests.
LEMMA PieceInvInit ==
  ASSUME Init
  PROVE  PieceInv
  <1>1. TypeOK
    <2>1. req \in AnyRequests
      BY RequestsTyped DEF Init
    <2> QED BY <2>1 DEF Init, TypeOK
  <1>2. asked = Pieces(count) /\ count = 0 /\ pc = "idle"
    BY DEF Init, Pieces
  <1>3. ~Accepts(req) /\ NumBlocks = 0
    <2>1. req.BufferSize = 0
      BY DEF Init
    <2>2. 0 \div BlockSize = 0
      BY SizeAssumption
    <2> QED BY <2>1, <2>2 DEF Accepts, Answer, NumBlocks, BlocksOf
  <1> QED BY <1>1, <1>2, <1>3 DEF PieceInv, Before, After

LEMMA PieceInvStep ==
  ASSUME PieceInv, [AnyNext]_vars
  PROVE  PieceInv'
  <1>1. CASE \E r \in AnyRequests : Submit(r)
    BY <1>1, SubmitStep
  <1>2. CASE Step
    BY <1>2, PollStep, CommandStep, DataStep DEF Step
  <1>3. CASE UNCHANGED vars
    <2>1. UNCHANGED <<fixed, req, piece, asked, count, pc, Status>>
      BY <1>3 DEF vars, fixed, piece
    <2>2. CASE pc = "idle"
      BY <2>1, <2>2, SameRequest DEF PieceInv, TypeOK, fixed, piece, Before, After
    <2>3. CASE pc # "idle"
      BY <2>1, <2>3, SamePiece DEF PieceInv, TypeOK
    <2> QED BY <2>2, <2>3
  <1> QED BY <1>1, <1>2, <1>3 DEF AnyNext

LEMMA AnyNextOfSpec == [Next]_vars => [AnyNext]_vars
  BY RequestsTyped DEF Next, AnyNext

LEMMA PieceInvariant == Spec => []PieceInv
  BY PieceInvInit, PieceInvStep, AnyNextOfSpec, PTL DEF Spec

\* What the invariant says of the request, and of the device.
LEMMA InOrder == PieceInv => PiecesInOrder
  <1> SUFFICES ASSUME PieceInv PROVE PiecesInOrder
    OBVIOUS
  <1>1. asked = {[Lba |-> (req.Lba + i) % LbaLimit, Buffer |-> i * BlockSize] :
                   i \in 0 .. count - 1}
    BY DEF PieceInv, Pieces, BlockAt
  <1>2. ASSUME pc = "idle", Status = "SUCCESS", Accepts(req)
        PROVE  count * BlockSize = req.BufferSize
    BY <1>2, Accepted DEF PieceInv, TypeOK, NumBlocks
  <1> QED BY <1>1, <1>2 DEF PiecesInOrder

LEMMA InDevice == PieceInv => WithinDevice
  <1> SUFFICES ASSUME PieceInv, req.Lba + req.BufferSize \div BlockSize < LbaLimit,
                      NEW b \in asked
               PROVE  b.Lba <= Media.LastBlock
    BY DEF WithinDevice
  <1>1. PICK i \in 0 .. count - 1 : b = BlockAt(i)
    BY DEF PieceInv, Pieces
  <1>2. count \in Nat /\ i \in Nat /\ i < count /\ count <= NumBlocks /\ Accepts(req)
    BY <1>1 DEF PieceInv, TypeOK
  <1>3. /\ ~PastEnd(req) /\ NumBlocks \in Nat /\ req.Lba \in Nat
        /\ LbaLimit \in Nat /\ LbaLimit > 0
    BY <1>2, Accepted DEF PieceInv, TypeOK, NumBlocks
  <1>4. Media.LastBlock \in 0 .. LbaLimit - 2
    BY LbaAssumption DEF PieceInv, TypeOK
  <1>5. req.Lba + NumBlocks < LbaLimit
    BY DEF NumBlocks, BlocksOf
  <1>6. (req.Lba + NumBlocks) % LbaLimit <= (Media.LastBlock + 1) % LbaLimit
    BY <1>3, <1>4 DEF PastEnd, NumBlocks, BlocksOf
  <1> HIDE DEF NumBlocks
  <1>7. ASSUME NEW x \in Nat, x < LbaLimit PROVE x % LbaLimit = x
    BY <1>3, <1>7
  <1>8. req.Lba + NumBlocks <= Media.LastBlock + 1
    BY <1>3, <1>4, <1>5, <1>6, <1>7
  <1>9. req.Lba + i <= Media.LastBlock /\ req.Lba + i < LbaLimit /\ req.Lba + i \in Nat
    BY <1>2, <1>3, <1>4, <1>8
  <1> QED BY <1>1, <1>7, <1>9 DEF BlockAt

(***************************************************************************)
(* The theorems.                                                           *)
(***************************************************************************)
\* MmcIoBlocks asks for every block of a request once and at its place, piece by
\* piece, and a request that succeeds has asked for all of them.
THEOREM RequestPiecesInOrder == Spec => []PiecesInOrder
  BY PieceInvariant, InOrder, PTL

\* The range check of MmcIoBlocks keeps every command inside the device, unless the
\* end of the request does not fit in an EFI_LBA.
THEOREM RequestWithinDevice == Spec => []WithinDevice
  BY PieceInvariant, InDevice, PTL

(***************************************************************************)
(* What a request leaves to the next.                                      *)
(***************************************************************************)
Obeys == HostFails \cap {"stop", "notify"} = {}

\* A transfer of multiple blocks is open only where CMD12 is still to come.
ReadyInv ==
  Obeys =>
    /\ pc \in {"idle"} \cup Before => open = FALSE /\ State = "Transfer"
    /\ pc = "data" => State = "Transfer"
    /\ pc \in {"data", "busy", "stop"} => open \in BOOLEAN /\ (open = TRUE => Several)
    /\ pc = "finish" => open = FALSE

\* A command for more than one block moves more than one block.
LEMMA SeveralBlocks ==
  ASSUME TypeOK, Accepts(req), NEW n, StartsAfter(n), BlockCount # 1
  PROVE  Several
  <1>1. /\ ConsumeSize = PieceBlocks * BlockSize /\ PieceBlocks \in Nat /\ PieceBlocks >= 1
        /\ PieceBlocks # 1 /\ BlockSize \in Nat /\ BlockSize > 0
    BY PieceSize, SizeAssumption
  <1> HIDE DEF PieceBlocks
  <1>2. BlockSize * (PieceBlocks - 1) >= BlockSize
    BY <1>1, Product
  <1>3. BlockSize * (PieceBlocks - 1) = ConsumeSize - BlockSize /\ ConsumeSize \in Nat
    BY <1>1
  <1> QED BY <1>1, <1>2, <1>3 DEF Several

\* The size of a piece is that of the same request with the same rest.
LEMMA SameSize ==
  ASSUME UNCHANGED <<fixed, req, left>>
  PROVE  Several' <=> Several
  BY DEF Several, ConsumeSize, BlockCount, fixed

\* Every step keeps it.
LEMMA ReadyStep ==
  ASSUME PieceInv, ReadyInv, [AnyNext]_vars
  PROVE  ReadyInv'
  <1> SUFFICES ASSUME Obeys'
               PROVE  /\ pc' \in {"idle"} \cup Before => open' = FALSE /\ State' = "Transfer"
                      /\ pc' = "data" => State' = "Transfer"
                      /\ pc' \in {"data", "busy", "stop"}
                           => open' \in BOOLEAN /\ (open' = TRUE => Several')
                      /\ pc' = "finish" => open' = FALSE
    BY DEF ReadyInv
  <1>1. UNCHANGED fixed /\ Obeys /\ {"stop", "notify"} \cap HostFails = {}
    BY DEF AnyNext, Step, Submit, Poll, GiveUp, Ready, NotBusy, SendTransferCommand, Transferred,
           DataError, StopTransfer, Finish, vars, fixed, Obeys
  <1> USE DEF Before
  <1>2. CASE \E r \in AnyRequests : Submit(r)
    BY <1>1, <1>2 DEF Submit, ReadyInv
  <1>3. CASE Poll \/ GiveUp \/ Ready \/ NotBusy
    <2>1. /\ UNCHANGED <<req, left, open, State>>
          /\ pc' \in {"idle"} \cup Before => pc \in Before
          /\ pc' \in {"busy", "stop"} => pc = "busy"
          /\ pc' \notin {"data", "finish"}
      BY <1>3 DEF Poll, GiveUp, Ready, NotBusy, piece
    <2> QED BY <1>1, <2>1, SameSize DEF ReadyInv
  <1>4. CASE SendTransferCommand
    <2>1. open = FALSE /\ State = "Transfer" /\ UNCHANGED <<State, req>>
      BY <1>1, <1>4 DEF SendTransferCommand, ReadyInv
    <2>2. CASE pc' = "data" /\ open' = (BlockCount # 1) /\ UNCHANGED left
      <3>1. BlockCount # 1 => Several
        BY <1>4, SeveralBlocks DEF SendTransferCommand, PieceInv
      <3> QED BY <1>1, <2>1, <2>2, <3>1, SameSize
    <2>3. CASE Advance /\ UNCHANGED open
      BY <2>1, <2>3 DEF Advance
    <2> QED BY <1>4, <2>2, <2>3 DEF SendTransferCommand, piece
  <1>5. CASE Transferred
    <2>1. pc = "data" /\ pc' = "busy" /\ UNCHANGED <<req, left, open>>
      BY <1>1, <1>5 DEF Transferred, piece
    <2> QED BY <1>1, <2>1, SameSize DEF ReadyInv
  <1>6. CASE DataError
    <2>1. /\ pc = "data" /\ open' = FALSE /\ UNCHANGED State /\ Advance
      BY <1>1, <1>6 DEF DataError
    <2> QED BY <1>1, <2>1 DEF ReadyInv, Advance
  <1>7. CASE StopTransfer
    <2>1. pc = "stop" /\ pc' = "finish" /\ (Several => open' = FALSE) /\ (~Several => open' = open)
      BY <1>1, <1>7 DEF StopTransfer
    <2> QED BY <1>1, <2>1 DEF ReadyInv
  <1>8. CASE Finish
    <2>1. pc = "finish" /\ State' = "Transfer" /\ UNCHANGED open /\ Advance
      BY <1>8 DEF Finish
    <2> QED BY <1>1, <2>1 DEF ReadyInv, Advance
  <1>9. CASE UNCHANGED vars
    BY <1>1, <1>9, SameSize DEF vars, ReadyInv
  <1> QED BY <1>2, <1>3, <1>4, <1>5, <1>6, <1>7, <1>8, <1>9 DEF AnyNext, Step

LEMMA ReadyInit ==
  /\ Init => ReadyInv
  /\ ReadyInv => ReadyForNext
  BY DEF Init, ReadyInv, ReadyForNext, Obeys, Before

\* With a host that obeys CMD12 and takes notifications, no request leaves a transfer
\* of multiple blocks open on the card, or the driver out of its state "Transfer".
THEOREM RequestReadyForNext == Spec => []ReadyForNext
  BY PieceInvariant, ReadyInit, ReadyStep, AnyNextOfSpec, PTL DEF Spec


(***************************************************************************)
(* The diagnostics: the blocks of a test are saved before they are         *)
(* overwritten, and no other block is touched until they are restored.     *)
(***************************************************************************)
MediaBlocks == 0 .. Media.LastBlock

IsContent(c) == c = [b \in MediaBlocks |-> c[b]]

Moved(i) == Place(i) \in moved

Saved(i) == BackBuffer[i] = before[Place(i).Lba]

Restored(i) == Place(i).Lba \in MediaBlocks => content[Place(i).Lba] = BackBuffer[i]

OthersKept ==
  \A b \in MediaBlocks : (\A i \in Offsets : Place(i).Lba # b) => content[b] = before[b]

Steps == {"save", "overwrite", "verify", "restore", "reread"}

DiagnosticsTypeOK ==
  /\ client \in {"diagnostics", "any"} /\ test \in 0 .. 5
  /\ step \in {"idle"} \cup Steps
  /\ waiting \in BOOLEAN /\ honest \in BOOLEAN /\ passed \subseteq 1 .. test
  /\ IsContent(content) /\ IsContent(before)

RestoreInv ==
  /\ DiagnosticsTypeOK
  /\ client = "any" => step = "idle" /\ test = 0
  /\ step # "idle" => test \in 1 .. 5 /\ test \notin passed
  /\ waiting => /\ step # "idle" /\ req = TestRequest
                /\ pc = "idle" /\ Status = "SUCCESS" => Accepts(req)
  /\ step = "save" => /\ content = before
                      /\ waiting => \A i \in Offsets : Moved(i) => Saved(i)
  /\ honest /\ step \notin {"idle", "save"} => \A i \in Offsets : Saved(i)
  /\ step \in {"overwrite", "verify", "restore"} => OthersKept
  /\ step = "restore" /\ waiting => \A i \in Offsets : Moved(i) => Restored(i)
  /\ honest /\ (step = "reread" \/ (step = "idle" /\ test \in passed)) => content = before

\* The requests of a test: blocks of an EFI_LBA.
LEMMA TestTyped ==
  ASSUME Media \in [MediaPresent : BOOLEAN, ReadOnly : BOOLEAN, LastBlock : LastBlocks],
         test \in 1 .. 5
  PROVE  /\ Tests[test].lba \in Nat /\ Tests[test].blocks \in {1, 2}
         /\ Tests[test].lba + Tests[test].blocks <= LbaLimit
         /\ LbaLimit \in Nat
  <1>1. Media.LastBlock \in Nat /\ Media.LastBlock <= LbaLimit - 2 /\ LbaLimit \in Nat
    <2>1. Media.LastBlock \in 0 .. LbaLimit - 2 /\ LbaLimit \in Nat
      BY LbaAssumption
    <2> QED BY <2>1
  <1>2. Media.LastBlock \div 2 \in Nat /\ Media.LastBlock \div 2 <= Media.LastBlock
    BY <1>1
  <1>3. \/ Tests[test] = [lba |-> 1, blocks |-> 1]
        \/ Tests[test] = [lba |-> 2, blocks |-> 1]
        \/ Tests[test] = [lba |-> Media.LastBlock \div 2, blocks |-> 1]
        \/ Tests[test] = [lba |-> Media.LastBlock, blocks |-> 1]
        \/ Tests[test] = [lba |-> 1, blocks |-> 2]
    BY DEF Tests
  <1>4. LbaLimit > 2
    BY DiagnosticsAssumption
  <1> QED BY <1>1, <1>2, <1>3, <1>4

LEMMA TestRequestTyped ==
  ASSUME Media \in [MediaPresent : BOOLEAN, ReadOnly : BOOLEAN, LastBlock : LastBlocks],
         test \in 1 .. 5
  PROVE  /\ TestRequest \in AnyRequests /\ BlocksOf(TestRequest) = Tests[test].blocks
         /\ TestRequest.BufferSize # 0
  <1> DEFINE lba == Tests[test].lba
             n == Tests[test].blocks
  <1>1. lba \in Nat /\ n \in {1, 2} /\ lba + n <= LbaLimit /\ LbaLimit \in Nat
    BY TestTyped
  <1>2. BlockSize \in Nat /\ BlockSize > 0
    BY SizeAssumption
  <1>3. TestRequest.BufferSize = n * BlockSize /\ TestRequest.Lba = lba
    BY DEF TestRequest
  <1> HIDE DEF lba, n
  <1>4. n * BlockSize \in Nat /\ n * BlockSize # 0 /\ BlockSize * n + 0 = n * BlockSize
    BY <1>1, <1>2
  <1>5. (BlockSize * n + 0) \div BlockSize = n
    BY <1>1, <1>2, Quotient
  <1>6. lba \in 0 .. LbaLimit - 1
    BY <1>1
  <1>7. TestRequest = [Transfer |-> IF Writes THEN "WRITE" ELSE "READ", current |-> TRUE,
                       null |-> FALSE, aligned |-> TRUE, Lba |-> lba, BufferSize |-> n * BlockSize]
    BY DEF TestRequest, lba, n
  <1>8. TestRequest \in AnyRequests
    BY <1>4, <1>6, <1>7 DEF AnyRequests
  <1> QED BY <1>3, <1>4, <1>5, <1>8 DEF BlocksOf, n

\* The place of a block on the media tells which block of the test it is.
LEMMA OnePlace ==
  ASSUME Media \in [MediaPresent : BOOLEAN, ReadOnly : BOOLEAN, LastBlock : LastBlocks],
         test \in 1 .. 5, NEW i \in Offsets, NEW j \in Offsets, Place(i).Lba = Place(j).Lba
  PROVE  i = j /\ Place(j).Lba - Tests[test].lba + 1 = i
  <1>1. Tests[test].lba \in Nat /\ Tests[test].blocks \in Nat
    BY TestTyped
  <1>2. i \in Nat /\ j \in Nat
    BY <1>1 DEF Offsets
  <1> QED BY <1>1, <1>2 DEF Place

\* A success that is honest has moved every block of the test.
LEMMA AllMoved ==
  ASSUME PieceInv, test \in 1 .. 5, req = TestRequest, pc = "idle", Status = "SUCCESS",
         Accepts(req), moved = asked, NEW i \in Offsets
  PROVE  Moved(i)
  <1> DEFINE lba == Tests[test].lba
             n == Tests[test].blocks
  <1>1. /\ lba \in Nat /\ n \in {1, 2} /\ lba + n <= LbaLimit /\ LbaLimit \in Nat
        /\ NumBlocks = n /\ req.Lba = lba
    BY TestTyped, TestRequestTyped DEF PieceInv, TypeOK, NumBlocks, TestRequest
  <1>2. moved = Pieces(n)
    BY <1>1 DEF PieceInv
  <1> HIDE DEF lba, n
  <1>3. i \in 1 .. n
    BY DEF Offsets, n
  <1>4. i - 1 \in 0 .. n - 1 /\ lba + (i - 1) = lba + i - 1 /\ lba + i - 1 \in 0 .. LbaLimit - 1
    BY <1>1, <1>3
  <1>5. \A x \in 0 .. LbaLimit - 1 : x % LbaLimit = x
    BY <1>1
  <1>6. (lba + (i - 1)) % LbaLimit = lba + i - 1
    BY <1>4, <1>5
  <1>7. Place(i) = BlockAt(i - 1)
    BY <1>1, <1>6 DEF Place, BlockAt, lba
  <1> QED BY <1>2, <1>4, <1>7 DEF Moved, Pieces

\* What the media hold is as it was when each block is.
LEMMA SameContent ==
  ASSUME IsContent(content), IsContent(before), \A b \in MediaBlocks : content[b] = before[b]
  PROVE  content = before
  BY DEF IsContent

LEMMA SameTest ==
  ASSUME UNCHANGED <<fixed, test>>
  PROVE  /\ MediaBlocks' = MediaBlocks /\ Tests' = Tests /\ Offsets' = Offsets
         /\ \A i : Place(i)' = Place(i)
  <1>1. MediaBlocks' = MediaBlocks /\ Tests' = Tests
    BY DEF MediaBlocks, Tests, fixed
  <1>2. Offsets' = Offsets /\ \A i : Place(i)' = Place(i)
    BY <1>1 DEF Offsets, Place
  <1> QED BY <1>1, <1>2

\* The steps of the block device.
LEMMA StepKeeps ==
  ASSUME PieceInv, Step
  PROVE  /\ UNCHANGED <<fixed, req>> /\ pc # "idle" /\ Accepts(req)
         /\ Accepts(req)' <=> Accepts(req)
  <1>1. UNCHANGED <<fixed, req>> /\ pc # "idle"
    BY DEF Step, Poll, GiveUp, Ready, NotBusy, SendTransferCommand, Transferred, DataError,
           StopTransfer, Finish
  <1> QED BY <1>1, SameRequest DEF PieceInv

\* A request moves blocks; what it does to the media or to a buffer is that of the step.
LEMMA ServeStep ==
  ASSUME PieceInv, RestoreInv, Serve
  PROVE  RestoreInv'
  <1>1. /\ UNCHANGED <<fixed, req, client, test, step, waiting, passed, before, honest>>
        /\ Accepts(req) /\ Accepts(req)'
    BY StepKeeps DEF Serve, Move, results
  <1>2. /\ MediaBlocks' = MediaBlocks /\ Tests' = Tests /\ Offsets' = Offsets
        /\ \A i : Place(i)' = Place(i)
    BY <1>1, SameTest
  <1>3. TestRequest' = TestRequest
    BY <1>1, <1>2 DEF TestRequest, Writes
  <1>4. IsContent(content)
    BY DEF RestoreInv, DiagnosticsTypeOK
  <1>5. IsContent(content)'
    <2>1. DOMAIN content = MediaBlocks
      BY <1>4 DEF IsContent
    <2>2. CASE UNCHANGED content
      BY <1>2, <1>4, <2>2 DEF IsContent
    <2>3. CASE content' = WriteOut
      BY <1>2, <2>1, <2>3 DEF IsContent, WriteOut
    <2> QED BY <2>2, <2>3 DEF Serve, Move
  <1>6. DiagnosticsTypeOK'
    <2>1. IsContent(before)'
      BY <1>1, <1>2 DEF RestoreInv, DiagnosticsTypeOK, IsContent
    <2> QED BY <1>1, <1>5, <2>1 DEF RestoreInv, DiagnosticsTypeOK
  <1>7. \A i \in Offsets : Moved(i)' => Moved(i) \/ i \in Moving
    BY <1>2 DEF Moved, Moving
  <1>8. CASE ~waiting \/ step \in {"idle", "verify", "reread"}
    <2>1. UNCHANGED <<content, BackBuffer>>
      BY <1>8 DEF Serve, Move, Writes, RestoreInv
    <2> QED BY <1>1, <1>2, <1>3, <1>6, <1>8, <2>1 DEF RestoreInv, Saved, Restored, OthersKept
  <1>9. CASE waiting /\ step = "save"
    <2>1. UNCHANGED content /\ BackBuffer' = ReadInto(BackBuffer) /\ content = before
      BY <1>9 DEF Serve, Move, Writes, RestoreInv
    <2>2. \A i \in Offsets : Moved(i)' => BackBuffer'[i] = before[Place(i).Lba]
      BY <1>7, <1>9, <2>1 DEF RestoreInv, ReadInto, Saved
    <2> QED BY <1>1, <1>2, <1>3, <1>6, <1>9, <2>1, <2>2 DEF RestoreInv, Saved
  <1>10. CASE waiting /\ Writes
    <2>1. content' = WriteOut /\ UNCHANGED BackBuffer /\ step \in {"overwrite", "restore"}
          /\ DOMAIN content = MediaBlocks
      BY <1>4, <1>10 DEF Serve, Move, Writes, IsContent
    <2>2. ASSUME NEW b \in MediaBlocks, \A i \in Offsets : Place(i).Lba # b
          PROVE  content'[b] = content[b]
      BY <2>1, <2>2 DEF WriteOut, Moving
    <2>3. OthersKept'
      BY <1>1, <1>2, <2>1, <2>2 DEF RestoreInv, OthersKept
    <2>4. ASSUME step = "restore", NEW i \in Offsets, Moved(i)', Place(i).Lba \in MediaBlocks
          PROVE  content'[Place(i).Lba] = BackBuffer[i]
      <3> DEFINE b == Place(i).Lba
      <3>1. \A j \in Offsets : Place(j).Lba = b => b - Tests[test].lba + 1 = i /\ j = i
        BY <2>1, OnePlace DEF PieceInv, TypeOK, RestoreInv
      <3>2. CASE i \in Moving
        BY <2>1, <2>4, <3>1, <3>2 DEF WriteOut, Source, Moving
      <3>3. CASE i \notin Moving
        <4>1. Moved(i)
          BY <1>7, <2>4, <3>3
        <4>2. ~\E j \in Moving : Place(j).Lba = b
          BY <3>1, <3>3 DEF Moving
        <4>3. content[b] = BackBuffer[i]
          BY <1>10, <2>4, <4>1 DEF RestoreInv, Restored
        <4> QED BY <2>1, <2>4, <4>2, <4>3 DEF WriteOut
      <3> QED BY <3>2, <3>3
    <2>5. step = "restore" => \A i \in Offsets : Moved(i)' => Restored(i)'
      BY <1>2, <2>1, <2>4 DEF Restored
    <2> QED BY <1>1, <1>2, <1>3, <1>6, <2>1, <2>3, <2>5 DEF RestoreInv, Saved
  <1> QED BY <1>8, <1>9, <1>10 DEF RestoreInv, DiagnosticsTypeOK, Steps, Writes

\* A request is made, or a step of RunDiagnostics is taken, with the media untouched.
LEMMA AskStep ==
  ASSUME PieceInv, RestoreInv, Ask
  PROVE  RestoreInv'
  <1>1. /\ step # "idle" /\ test \in 1 .. 5 /\ waiting' = TRUE /\ req' = TestRequest
        /\ moved' = {} /\ Submit(TestRequest)
        /\ UNCHANGED <<fixed, client, content, test, step, BackBuffer, passed, before, honest>>
    BY DEF Ask, RestoreInv, Submit, results
  <1>2. /\ MediaBlocks' = MediaBlocks /\ Tests' = Tests /\ Offsets' = Offsets
        /\ \A i : Place(i)' = Place(i)
    BY <1>1, SameTest
  <1>3. TestRequest' = TestRequest
    BY <1>1, <1>2 DEF TestRequest, Writes
  <1>4. DiagnosticsTypeOK'
    <2>1. IsContent(content)' /\ IsContent(before)'
      BY <1>1, <1>2 DEF RestoreInv, DiagnosticsTypeOK, IsContent
    <2> QED BY <1>1, <2>1 DEF RestoreInv, DiagnosticsTypeOK
  <1>5. pc' = "idle" /\ Status' = "SUCCESS" => Accepts(req)'
    <2> SUFFICES ASSUME ~Accepts(TestRequest), Status' = "SUCCESS" PROVE FALSE
      BY <1>1 DEF Submit, Accepts, Answer, PastEnd, fixed
    <2>1. Answer(TestRequest) = "SUCCESS"
      BY <1>1 DEF Submit
    <2> QED BY <1>1, <2>1, TestRequestTyped DEF Answer, PieceInv, TypeOK
  <1>6. \A i \in Offsets : ~Moved(i)'
    BY <1>1 DEF Moved
  <1> QED BY <1>1, <1>2, <1>3, <1>4, <1>5, <1>6 DEF RestoreInv, Saved, OthersKept

LEMMA AnsweredStep ==
  ASSUME PieceInv, RestoreInv, Answered
  PROVE  RestoreInv'
  <1> DEFINE good == Status = "SUCCESS" /\ AsExpected
  <1>1. /\ waiting /\ pc = "idle" /\ waiting' = FALSE
        /\ step' = IF good THEN Following[step] ELSE "idle"
        /\ passed' = IF good /\ step = "reread" THEN passed \cup {test} ELSE passed
        /\ honest' = (honest /\ (Status = "SUCCESS" => moved = asked))
        /\ UNCHANGED <<fixed, client, test, content, BackBuffer, before>>
    BY DEF Answered, vars, fixed
  <1>2. /\ step \in Steps /\ test \in 1 .. 5 /\ test \notin passed /\ req = TestRequest
        /\ Status = "SUCCESS" => Accepts(req)
    BY <1>1 DEF RestoreInv, DiagnosticsTypeOK
  <1>3. /\ MediaBlocks' = MediaBlocks /\ Tests' = Tests /\ Offsets' = Offsets
        /\ \A i : Place(i)' = Place(i)
    BY <1>1, SameTest
  <1>4. ASSUME good, honest' PROVE honest /\ \A i \in Offsets : Moved(i)
    BY <1>1, <1>2, <1>4, AllMoved
  <1> HIDE DEF good
  <1>5. /\ IsContent(content)' /\ IsContent(before)'
        /\ OthersKept' <=> OthersKept
        /\ \A i : Saved(i)' <=> Saved(i)
    BY <1>1, <1>3 DEF RestoreInv, DiagnosticsTypeOK, IsContent, OthersKept, Saved
  <1>6. DiagnosticsTypeOK'
    <2>1. step' \in {"idle"} \cup Steps
      BY <1>1, <1>2 DEF Following, Steps
    <2>2. passed' \subseteq 1 .. test'
      BY <1>1, <1>2 DEF RestoreInv, DiagnosticsTypeOK
    <2>3. honest \in BOOLEAN
      BY DEF RestoreInv, DiagnosticsTypeOK
    <2>4. honest' \in BOOLEAN
      BY <1>1, <2>3
    <2> QED BY <1>1, <1>5, <2>1, <2>2, <2>4 DEF RestoreInv, DiagnosticsTypeOK
  <1>7. client # "any"
    BY <1>1 DEF RestoreInv
  <1>8. CASE ~good
    BY <1>1, <1>2, <1>3, <1>6, <1>7, <1>8 DEF RestoreInv
  <1>9. CASE good /\ step = "save"
    <2>1. step' = "overwrite" /\ OthersKept /\ (honest' => \A i \in Offsets : Saved(i))
      <3>1. OthersKept
        BY <1>9 DEF RestoreInv, OthersKept
      <3>2. honest' => \A i \in Offsets : Saved(i)
        BY <1>1, <1>4, <1>9 DEF RestoreInv
      <3> QED BY <1>1, <1>9, <3>1, <3>2 DEF Following
    <2> QED BY <1>1, <1>2, <1>3, <1>5, <1>6, <1>7, <1>9, <2>1 DEF RestoreInv
  <1>10. CASE good /\ step \in {"overwrite", "verify"}
    <2>1. step' \in {"verify", "restore"} /\ OthersKept /\ (honest' => \A i \in Offsets : Saved(i))
      <3>1. OthersKept /\ (honest' => \A i \in Offsets : Saved(i))
        BY <1>1, <1>4, <1>10 DEF RestoreInv
      <3> QED BY <1>1, <1>10, <3>1 DEF Following
    <2> QED BY <1>1, <1>2, <1>3, <1>5, <1>6, <1>7, <1>10, <2>1 DEF RestoreInv
  <1>11. CASE good /\ step = "restore"
    <2>1. step' = "reread" /\ OthersKept /\ (honest' => \A i \in Offsets : Saved(i))
      BY <1>1, <1>11 DEF RestoreInv, Following
    <2>2. honest' => content = before
      <3> SUFFICES ASSUME honest', NEW b \in MediaBlocks PROVE content[b] = before[b]
        BY SameContent DEF RestoreInv, DiagnosticsTypeOK
      <3>1. CASE \A i \in Offsets : Place(i).Lba # b
        BY <2>1, <3>1 DEF OthersKept
      <3>2. ASSUME NEW i \in Offsets, Place(i).Lba = b PROVE content[b] = before[b]
        <4>1. Restored(i) /\ Saved(i)
          BY <1>1, <1>4, <1>11, <2>1 DEF RestoreInv
        <4> QED BY <3>2, <4>1 DEF Restored, Saved
      <3> QED BY <3>1, <3>2
    <2> QED BY <1>1, <1>2, <1>3, <1>5, <1>6, <1>7, <1>11, <2>1, <2>2 DEF RestoreInv
  <1>12. CASE good /\ step = "reread"
    <2>1. step' = "idle" /\ (honest' => content = before)
      BY <1>1, <1>12 DEF RestoreInv, Following
    <2> QED BY <1>1, <1>2, <1>3, <1>5, <1>6, <1>7, <2>1 DEF RestoreInv
  <1> QED BY <1>2, <1>8, <1>9, <1>10, <1>11, <1>12 DEF Steps

LEMMA OtherStep ==
  ASSUME RestoreInv, AnyRequest \/ NextTest \/ Finished \/ UNCHANGED <<vars, diagnostics>>
  PROVE  RestoreInv'
  <1>1. UNCHANGED <<fixed, client, content>>
    BY DEF AnyRequest, NextTest, Finished, Submit, vars, fixed, diagnostics
  <1>2. MediaBlocks' = MediaBlocks
    BY <1>1 DEF MediaBlocks, fixed
  <1>3. CASE NextTest
    <2>1. /\ client = "diagnostics" /\ step = "idle" /\ test' = test + 1 /\ test < 5
          /\ step' \in {"idle", "save"} /\ before' = content /\ honest' = TRUE
          /\ UNCHANGED <<waiting, passed>> /\ waiting = FALSE
      <3>1. Len(Tests) = 5
        BY DEF Tests
      <3>2. waiting = FALSE
        BY <1>3 DEF NextTest, RestoreInv, DiagnosticsTypeOK
      <3>3. step' \in {"idle", "save"} /\ before' = content
        BY <1>3 DEF NextTest, FirstStep
      <3>4. client = "diagnostics" /\ step = "idle" /\ test' = test + 1 /\ test < Len(Tests)
        BY <1>3, Zenon DEF NextTest
      <3>5. honest' = TRUE /\ waiting' = waiting /\ passed' = passed
        BY <1>3 DEF NextTest
      <3> QED BY <3>1, <3>2, <3>3, <3>4, <3>5
    <2>2. /\ test' \notin passed /\ passed \subseteq 1 .. test'
          /\ test' \in 0 .. 5 /\ test' \in 1 .. 5
      <3>1. test \in 0 .. 5 /\ passed \subseteq 1 .. test
        BY DEF RestoreInv, DiagnosticsTypeOK
      <3> QED BY <2>1, <3>1
    <2>3. DiagnosticsTypeOK'
      <3>1. IsContent(content)' /\ IsContent(before)'
        BY <1>1, <1>2, <2>1 DEF RestoreInv, DiagnosticsTypeOK, IsContent
      <3> QED BY <1>1, <2>1, <2>2, <3>1 DEF RestoreInv, DiagnosticsTypeOK, Steps
    <2> QED BY <1>1, <2>1, <2>2, <2>3 DEF RestoreInv
  <1>4. CASE AnyRequest
    <2>1. /\ client = "any" /\ ~waiting /\ step = "idle"
          /\ UNCHANGED <<test, step, waiting, passed, BackBuffer, before, honest>>
      BY <1>4 DEF AnyRequest, diagnostics, results, RestoreInv
    <2> QED BY <1>1, <1>2, <2>1 DEF RestoreInv, DiagnosticsTypeOK, IsContent
  <1>5. CASE UNCHANGED <<vars, diagnostics>>
    <2>1. UNCHANGED <<fixed, test, step, waiting, passed, BackBuffer, before, honest, req, pc,
                      Status, moved>>
      BY <1>5 DEF diagnostics, results, vars, fixed
    <2>2. /\ Tests' = Tests /\ Offsets' = Offsets /\ \A i : Place(i)' = Place(i)
      BY <2>1, SameTest
    <2>3. TestRequest' = TestRequest /\ (Accepts(req)' <=> Accepts(req))
      BY <2>1, <2>2, SameRequest DEF TestRequest, Writes
    <2> QED BY <1>1, <1>2, <2>1, <2>2, <2>3
            DEF RestoreInv, DiagnosticsTypeOK, IsContent, Saved, Restored, OthersKept, Moved
  <1> QED BY <1>3, <1>4, <1>5 DEF Finished

LEMMA RestoreInit ==
  ASSUME DiagnosticsInit
  PROVE  RestoreInv
  <1>1. IsContent(content) /\ IsContent(before) /\ before = content
    BY DEF DiagnosticsInit, IsContent, MediaBlocks
  <1>2. /\ client \in {"diagnostics", "any"} /\ test = 0 /\ step = "idle" /\ waiting = FALSE
        /\ passed = {} /\ honest = TRUE
    BY DEF DiagnosticsInit
  <1>3. DiagnosticsTypeOK
    <2>1. test \in 0 .. 5 /\ passed \subseteq 1 .. test
      BY <1>2
    <2>2. waiting \in BOOLEAN /\ honest \in BOOLEAN
      BY <1>2, Zenon
    <2>3. step \in {"idle"} \cup Steps /\ client \in {"diagnostics", "any"}
      BY <1>2, Zenon
    <2> QED BY <1>1, <2>1, <2>2, <2>3 DEF DiagnosticsTypeOK
  <1> QED BY <1>1, <1>2, <1>3 DEF RestoreInv

\* What the client does is what any client may do.
LEMMA AnyNextOfDiagnostics ==
  ASSUME PieceInv, RestoreInv, [DiagnosticsNext]_<<vars, diagnostics>>
  PROVE  [AnyNext]_vars
  <1>1. CASE Ask
    BY <1>1, TestRequestTyped DEF Ask, RestoreInv, PieceInv, TypeOK, AnyNext
  <1>2. CASE AnyRequest
    BY <1>2, RequestsTyped DEF AnyRequest, AnyNext
  <1>3. CASE Serve
    BY <1>3 DEF Serve, AnyNext
  <1>4. CASE NextTest \/ Answered \/ Finished \/ UNCHANGED <<vars, diagnostics>>
    BY <1>4 DEF NextTest, Answered, Finished
  <1> QED BY <1>1, <1>2, <1>3, <1>4 DEF DiagnosticsNext

LEMMA DiagnosticsInvariant == DiagnosticsSpec => [](PieceInv /\ RestoreInv /\ ReadyInv)
  <1>1. DiagnosticsInit => PieceInv /\ RestoreInv /\ ReadyInv
    BY PieceInvInit, RestoreInit, ReadyInit DEF DiagnosticsInit
  <1>2. ASSUME PieceInv, RestoreInv, ReadyInv, [DiagnosticsNext]_<<vars, diagnostics>>
        PROVE  PieceInv' /\ RestoreInv' /\ ReadyInv'
    <2>1. PieceInv' /\ ReadyInv'
      BY <1>2, AnyNextOfDiagnostics, PieceInvStep, ReadyStep
    <2>2. RestoreInv'
      BY <1>2, ServeStep, AskStep, AnsweredStep, OtherStep DEF DiagnosticsNext
    <2> QED BY <2>1, <2>2
  <1> QED BY <1>1, <1>2, PTL DEF DiagnosticsSpec

\* A test of the diagnostics that passes, with a host that moves what it says it moved,
\* leaves every block of the media as it was, for any media and any failures, between
\* requests or within one.
THEOREM DiagnosticsRestore == DiagnosticsSpec => []PassedRestores
  <1>1. RestoreInv => PassedRestores
    BY DEF RestoreInv, PassedRestores
  <1> QED BY <1>1, DiagnosticsInvariant, PTL

\* The requests of the diagnostics are served as those of any other client: in order,
\* on the device, and with nothing left open.
THEOREM DiagnosticsRequests ==
  DiagnosticsSpec => [](PiecesInOrder /\ WithinDevice /\ ReadyForNext)
  BY DiagnosticsInvariant, InOrder, InDevice, ReadyInit, PTL
=============================================================================

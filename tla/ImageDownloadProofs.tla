------------------------ MODULE ImageDownloadProofs ------------------------
(***************************************************************************)
(* A download writes nothing but its slot, is only successful if the whole *)
(* image is there, unless a range began within a sector, and does not fail *)
(* by itself: for any sizes of sectors, chunks, slots and images that fit  *)
(* each other.                                                             *)
(***************************************************************************)
EXTENDS ImageDownload, TLAPS

-----------------------------------------------------------------------------
(* Arithmetic of sectors.                                                  *)

\* Division by the size of a sector.
LEMMA Division ==
    ASSUME NEW x \in Nat, NEW S \in Nat \ {0}
    PROVE  /\ x \div S \in Nat
           /\ x % S \in 0 .. S - 1
           /\ x = (x \div S) * S + (x % S)
<1>1. x = (x \div S) * S + (x % S)
  BY SMTT(30)
<1>2. x \div S \in Nat
  BY SMT
<1>3. x % S \in 0 .. S - 1
  BY SMT
<1> QED
  BY <1>1, <1>2, <1>3

\* Multiples keep their distance.
LEMMA Multiples ==
    ASSUME NEW p \in Nat, NEW q \in Nat, NEW S \in Nat \ {0}
    PROVE  /\ p =< q => p * S =< q * S
           /\ p < q => p * S + S =< q * S
<1>1. p =< q => p * S =< q * S
  BY SMT
<1>2. p < q => p * S + S =< q * S
  BY SMT
<1> QED
  BY <1>1, <1>2

\* A sector lies on one side of a multiple of the size of a sector.
LEMMA SectorBounds ==
    ASSUME NEW S \in Nat \ {0}, NEW M \in Nat, M % S = 0,
           NEW x \in Nat, NEW y \in Nat, x \div S = y \div S
    PROVE  x < M <=> y < M
<1> DEFINE q == x \div S
           k == M \div S
<1>1. q \in Nat /\ k \in Nat /\ M = k * S
  BY Division
<1>2. /\ q * S =< x /\ x < q * S + S
      /\ q * S =< y /\ y < q * S + S
  <2>1. x = q * S + (x % S) /\ x % S \in 0 .. S - 1
    BY Division
  <2>2. y = q * S + (y % S) /\ y % S \in 0 .. S - 1
    BY Division
  <2>3. q * S \in Nat
    BY <1>1
  <2> QED
    BY <2>1, <2>2, <2>3
<1> HIDE DEF q, k
<1>3. q < k => q * S + S =< k * S
  BY <1>1, Multiples
<1>4. k =< q => k * S =< q * S
  BY <1>1, Multiples
<1>5. q * S \in Nat /\ k * S \in Nat
  BY <1>1
<1>6. CASE q < k
  BY <1>1, <1>2, <1>3, <1>5, <1>6
<1>7. CASE k =< q
  BY <1>1, <1>2, <1>4, <1>5, <1>7
<1> QED
  BY <1>1, <1>6, <1>7

\* The sum of two multiples is one.
LEMMA AlignedSum ==
    ASSUME NEW S \in Nat \ {0}, NEW x \in Nat, NEW y \in Nat,
           x % S = 0, y % S = 0
    PROVE  (x + y) % S = 0
<1> DEFINE n == (x \div S) + (y \div S)
           d == (x + y) \div S
           r == (x + y) % S
<1>0. x + y \in Nat
  OBVIOUS
<1>1. n \in Nat /\ d \in Nat /\ r \in 0 .. S - 1
  <2>1. x \div S \in Nat /\ y \div S \in Nat
    BY Division
  <2>2. d \in Nat /\ r \in 0 .. S - 1
    BY <1>0, Division
  <2> QED
    BY <2>1, <2>2
<1>2. x + y = n * S
  <2>1. x = (x \div S) * S /\ y = (y \div S) * S
    BY Division
  <2>2. x \div S \in Nat /\ y \div S \in Nat
    BY Division
  <2> QED
    BY <2>1, <2>2
<1>3. x + y = d * S + r
  BY <1>0, Division
<1> HIDE DEF n, d, r
<1>4. n * S \in Nat /\ d * S \in Nat
  BY <1>1
<1>5. CASE n = d
  <2>1. r = 0
    BY <1>1, <1>2, <1>3, <1>4, <1>5
  <2> QED
    BY <2>1 DEF r
<1>6. CASE n < d
  <2>1. n * S + S =< d * S
    BY <1>1, <1>6, Multiples
  <2> QED
    BY <1>1, <1>2, <1>3, <1>4, <2>1
<1>7. CASE d < n
  <2>1. d * S + S =< n * S
    BY <1>1, <1>7, Multiples
  <2> QED
    BY <1>1, <1>2, <1>3, <1>4, <2>1
<1> QED
  BY <1>1, <1>5, <1>6, <1>7
-----------------------------------------------------------------------------
(* The invariants.                                                         *)

USE SectorAssumption, ChunkAssumption, SlotAssumption, SizesAssumption,
    SurplusAssumption

Contents == {"Image", "Blank", "Junk", "Other"}

\* Position and count go together; only a complete stream is verified.
StoredInv ==
    /\ xCurByte = stored
    /\ pc \in {"verify", "ok"} => stored = expected_size /\ xStatus /\ hash_ok

Prefix(n) == \A a \in Range(0, n) : cells[a] = "Image"

\* As long as the hash is right and no range began within a sector, what was
\* stored is the image so far; a failed write ends the loop with xStatus false.
StreamInv == on_sectors /\ hash_ok /\ xStatus => Prefix(stored)

\* While everything goes as asked for, what was stored is the image so far, and
\* the next range starts at a sector and ends at a chunk or with the image.
Fits == expected_size \in 1 .. MaxFirmware - 1

Aligned ==
    \/ xCurByte = expected_size
    \/ /\ xCurByte % Sector = 0
       /\ xCurByte < expected_size
       /\ xNumReqBytes = Chunk \/ xNumReqBytes = expected_size - xCurByte

HonestInv ==
    honest /\ Fits =>
        /\ pc # "failed"
        /\ xStatus /\ hash_ok
        /\ Prefix(stored)
        /\ Aligned
        /\ pc \in {"disconnect", "verify"} => stored = expected_size

DataTypeOK ==
    /\ pc \in {"connect", "request", "disconnect", "verify", "ok", "failed"}
    /\ expected_size \in Sizes
    /\ xCurByte \in Nat /\ xNumReqBytes \in 0 .. Chunk /\ stored \in Nat

CellTypeOK == cells \in [Cells -> Contents]

FlagTypeOK == /\ connected \in BOOLEAN /\ xStatus \in BOOLEAN
              /\ hash_ok \in BOOLEAN /\ on_sectors \in BOOLEAN
              /\ honest \in BOOLEAN

\* The type invariant in the parts the proofs use.
LEMMA Types == TypeOK <=> DataTypeOK /\ CellTypeOK /\ FlagTypeOK
  BY DEF TypeOK, DataTypeOK, CellTypeOK, FlagTypeOK, Contents

IInv == /\ DataTypeOK /\ CellTypeOK /\ FlagTypeOK
        /\ NeighbourUntouched
        /\ StoredInv
        /\ StreamInv
        /\ HonestInv

-----------------------------------------------------------------------------
(* What a write does to the cells.                                         *)

\* The sectors of a write within the slot lie within the slot.
LEMMA TouchedInSlot ==
    ASSUME NEW offset \in Nat, NEW len \in Nat,
           ~BoundaryExceeded(offset, len),
           NEW a \in Cells, a \in Touched(offset, len)
    PROVE  a \in Slot
<1>1. PICK b \in Range(offset, len) : a \div Sector = b \div Sector
  BY DEF Touched
<1>2. a \in Nat /\ b \in Nat /\ b < MaxFirmware
  BY DEF Cells, Range, BoundaryExceeded
<1>3. a < MaxFirmware
  BY <1>1, <1>2, SectorBounds
<1> QED
  BY <1>2, <1>3 DEF Slot

\* Only touched cells change, and they take one of the contents.
LEMMA WriteEffect ==
    ASSUME CellTypeOK, NEW offset \in Nat, NEW len \in Nat,
           NEW good \in BOOLEAN, NEW ok \in BOOLEAN,
           HandleReceivedData(offset, len, good, ok)
    PROVE  /\ CellTypeOK'
           /\ NeighbourUntouched => NeighbourUntouched'
<1>1. CASE UNCHANGED cells
  BY <1>1 DEF CellTypeOK, NeighbourUntouched
<1>2. CASE cells' = Written(offset, len, good) /\ ~BoundaryExceeded(offset, len)
  <2>1. CellTypeOK'
    BY <1>2 DEF CellTypeOK, Written, Contents
  <2>2. \A a \in Cells : a \notin Slot =>
            a \notin Touched(offset, len) /\ a \notin Range(offset, len)
    <3>1. \A a \in Cells :
              a \in Range(offset, len) => a \in Touched(offset, len)
      BY DEF Touched
    <3> QED
      BY <1>2, <3>1, TouchedInSlot
  <2>3. \A a \in Cells \ Slot : cells'[a] = cells[a]
    BY <1>2, <2>2 DEF Written
  <2> QED
    BY <2>1, <2>3 DEF NeighbourUntouched
<1>3. CASE cells' = Spoilt(offset, len) /\ ~BoundaryExceeded(offset, len)
  <2>1. CellTypeOK'
    BY <1>3 DEF CellTypeOK, Spoilt, Contents
  <2>2. \A a \in Cells \ Slot : cells'[a] = cells[a]
    BY <1>3, TouchedInSlot DEF Spoilt
  <2> QED
    BY <2>1, <2>2 DEF NeighbourUntouched
<1> QED
  BY <1>1, <1>2, <1>3 DEF HandleReceivedData, aknano_write_data_to_flash

\* A reply to a request for the next range that ends where it should appends to
\* the prefix: what is blanked on the way lies behind it.
LEMMA PrefixGrows ==
    ASSUME CellTypeOK, NEW offset \in Nat, offset % Sector = 0,
           NEW len \in Nat, Prefix(offset), offset + len =< MaxFirmware,
           cells' = Written(offset, len, TRUE)
    PROVE  \A a \in Range(0, offset + len) : cells'[a] = "Image"
<1> SUFFICES ASSUME NEW a \in Range(0, offset + len)
             PROVE  cells'[a] = "Image"
  OBVIOUS
<1>1. a \in Nat /\ a < offset + len /\ a \in Cells
  <2>1. a \in Nat /\ a < offset + len
    BY DEF Range
  <2> QED
    BY <2>1 DEF Cells
<1>2. CASE offset =< a
  BY <1>1, <1>2 DEF Written, Range
<1>3. CASE a < offset
  <2>1. cells[a] = "Image"
    BY <1>1, <1>3 DEF Prefix, Range
  <2>2. a \notin Range(offset, len)
    BY <1>1, <1>3 DEF Range
  <2>3. a \notin Touched(offset, len)
    <3>1. ASSUME NEW b \in Range(offset, len), a \div Sector = b \div Sector
          PROVE  FALSE
      <4>1. b \in Nat /\ b >= offset
        BY DEF Range
      <4>2. a < offset <=> b < offset
        BY <1>1, <3>1, <4>1, SectorBounds
      <4> QED
        BY <1>3, <4>1, <4>2
    <3> QED
      BY <3>1 DEF Touched
  <2> QED
    BY <1>1, <2>1, <2>2, <2>3 DEF Written
<1>4. offset =< a \/ a < offset
  BY <1>1
<1> QED
  BY <1>2, <1>3, <1>4, Zenon

-----------------------------------------------------------------------------
(* The steps.                                                              *)

\* The invariant holds when a download starts.
LEMMA InitInv == Init => IInv
<1> SUFFICES ASSUME Init PROVE IInv
  OBVIOUS
<1>1. DataTypeOK
  BY DEF Init, DataTypeOK
<1>2. CellTypeOK
  BY DEF Init, CellTypeOK, Contents
<1>3. FlagTypeOK
  BY DEF Init, FlagTypeOK
<1>4. NeighbourUntouched
  BY DEF Init, NeighbourUntouched
<1>5. StoredInv /\ StreamInv
  BY DEF Init, StoredInv, StreamInv, Prefix, Range
<1>6. Fits => Prefix(stored) /\ Aligned
  <2>1. 0 % Sector = 0
    BY Division
  <2> QED
    BY <2>1 DEF Init, Prefix, Range, Aligned, Fits
<1>7. HonestInv
  BY <1>6 DEF Init, HonestInv
<1> QED
  BY <1>1, <1>2, <1>3, <1>4, <1>5, <1>7 DEF IInv

\* A reply, whatever it contains, leaves types and neighbours as they were.
LEMMA ReplyTypes ==
    ASSUME DataTypeOK, CellTypeOK, FlagTypeOK, NeighbourUntouched, Reply
    PROVE  DataTypeOK' /\ CellTypeOK' /\ FlagTypeOK' /\ NeighbourUntouched'
<1>1. PICK len \in 0 .. Chunk + Surplus, good \in BOOLEAN, partial \in BOOLEAN :
          /\ hash_ok' = (hash_ok /\ (good \/ len = 0))
          /\ \/ len > 0 /\ ReplyStored(len, good, partial)
             \/ ReplyNotStored(len, good)
             \/ len = 0 /\ EmptyReply
  BY DEF Reply
<1>2. UNCHANGED <<expected_size, connected>> /\ pc = "request"
  BY DEF Reply
<1>3. xCurByte \in Nat /\ len \in Nat /\ xCurByte + len \in Nat
  BY DEF DataTypeOK
<1>4. NextRequestLength(xCurByte + len) \in 0 .. Chunk
  <2>1. expected_size \in Nat /\ xNumReqBytes \in 0 .. Chunk
    BY DEF DataTypeOK
  <2> QED
    BY <1>3, <2>1 DEF NextRequestLength
<1>5. CASE ReplyStored(len, good, partial)
  <2>1. DataTypeOK'
    BY <1>2, <1>3, <1>4, <1>5 DEF ReplyStored, Advance, DataTypeOK
  <2>2. FlagTypeOK'
    BY <1>1, <1>2, <1>5 DEF ReplyStored, Advance, FlagTypeOK
  <2> QED
    BY <1>3, <1>5, <2>1, <2>2, WriteEffect DEF ReplyStored
<1>6. CASE ReplyNotStored(len, good)
  <2>1. DataTypeOK'
    BY <1>2, <1>6 DEF ReplyNotStored, DataTypeOK
  <2>2. FlagTypeOK'
    BY <1>1, <1>2, <1>6 DEF ReplyNotStored, FlagTypeOK
  <2> QED
    BY <1>3, <1>6, <2>1, <2>2, WriteEffect DEF ReplyNotStored
<1>7. CASE EmptyReply
  <2>1. DataTypeOK'
    BY <1>2, <1>7 DEF EmptyReply, DataTypeOK
  <2>2. FlagTypeOK'
    BY <1>1, <1>2, <1>7 DEF EmptyReply, FlagTypeOK
  <2> QED
    BY <1>3, <1>7, <2>1, <2>2, WriteEffect DEF EmptyReply
<1> QED
  BY <1>1, <1>5, <1>6, <1>7

\* The other steps leave the cells alone.
LEMMA OtherSteps ==
    ASSUME IInv,
           \/ aknano_connect_to_download_server \/ RequestFails \/ LoopEnds
           \/ Disconnect \/ aknano_verify_image \/ UNCHANGED vars
    PROVE  DataTypeOK' /\ CellTypeOK' /\ FlagTypeOK' /\ NeighbourUntouched'
<1> USE DEF IInv, aknano_connect_to_download_server, RequestFails, LoopEnds,
            Disconnect, aknano_verify_image, observed, vars
<1>1. DataTypeOK'
  BY DEF DataTypeOK
<1>2. FlagTypeOK'
  BY DEF FlagTypeOK
<1>3. UNCHANGED cells
  OBVIOUS
<1>4. CellTypeOK' /\ NeighbourUntouched'
  BY <1>3 DEF CellTypeOK, NeighbourUntouched
<1> QED
  BY <1>1, <1>2, <1>4

\* What HandleReceivedData does to a correct reply within the slot at the start
\* of a sector.
LEMMA GoodReply ==
    ASSUME NEW offset \in Nat, NEW len \in Nat \ {0},
           offset % Sector = 0, ~BoundaryExceeded(offset, len),
           HandleReceivedData(offset, len, TRUE, TRUE)
    PROVE  cells' = Written(offset, len, TRUE)
  BY DEF HandleReceivedData, aknano_write_data_to_flash


\* While everything goes as asked for, a reply appends to the image so far and
\* the next range starts where a sector does.
LEMMA HonestReply ==
    ASSUME IInv, Reply, honest', Fits
    PROVE  HonestInv'
<1> USE DEF IInv
<1>1. PICK len \in 0 .. Chunk + Surplus, good \in BOOLEAN, partial \in BOOLEAN :
          /\ hash_ok' = (hash_ok /\ (good \/ len = 0))
          /\ \/ len > 0 /\ ReplyStored(len, good, partial)
             \/ ReplyNotStored(len, good)
             \/ len = 0 /\ EmptyReply
  BY DEF Reply
<1>2. /\ UNCHANGED <<expected_size, connected>> /\ pc = "request"
      /\ xStatus /\ xCurByte < expected_size
  BY DEF Reply, WantsMore
<1>3. /\ xCurByte \in Nat /\ expected_size \in Nat /\ len \in Nat
      /\ xNumReqBytes \in 0 .. Chunk /\ Chunk \in Nat \ {0}
      /\ expected_size < MaxFirmware /\ MaxFirmware \in Nat
  BY DEF DataTypeOK, Fits
<1>4. honest /\ len = Requested /\ good
  BY <1>1 DEF ReplyStored, Advance, ReplyNotStored, EmptyReply
<1>5. /\ xStatus /\ hash_ok /\ Prefix(stored) /\ stored = xCurByte
      /\ xCurByte % Sector = 0
      /\ xNumReqBytes = Chunk \/ xNumReqBytes = expected_size - xCurByte
  BY <1>2, <1>3, <1>4 DEF HonestInv, Aligned, StoredInv
<1>6. /\ len > 0
      /\ len = expected_size - xCurByte \/ len = Chunk
      /\ xCurByte + len =< expected_size
  BY <1>2, <1>3, <1>4, <1>5 DEF Requested
<1>7. ~BoundaryExceeded(xCurByte, len)
  BY <1>3, <1>6 DEF BoundaryExceeded
<1>8. ReplyStored(len, good, partial) /\ partial
  <2>1. ~ReplyNotStored(len, good)
    BY <1>7, Zenon DEF ReplyNotStored
  <2>2. len # 0
    BY <1>3, <1>6
  <2>3. ReplyStored(len, good, partial)
    BY <1>1, <2>1, <2>2, Zenon
  <2> QED
    BY <2>3, Zenon DEF ReplyStored, Advance
<1>9. cells' = Written(xCurByte, len, TRUE)
  <2>1. good = TRUE
    BY <1>4, Zenon
  <2>2. HandleReceivedData(xCurByte, len, TRUE, TRUE)
    BY <1>8, <2>1, Zenon DEF ReplyStored
  <2>3. len \in Nat \ {0}
    BY <1>3, <1>6
  <2> QED
    BY <1>3, <1>5, <1>7, <2>2, <2>3, GoodReply, Zenon
<1>10. Prefix(stored)'
  <2>1. /\ xCurByte + len =< MaxFirmware /\ stored' = xCurByte + len
        /\ Prefix(xCurByte)
    BY <1>3, <1>5, <1>6, <1>8 DEF ReplyStored, Advance
  <2>2. \A a \in Range(0, xCurByte + len) : cells'[a] = "Image"
    BY <1>3, <1>5, <1>9, <2>1, PrefixGrows
  <2> QED
    BY <2>1, <2>2 DEF Prefix
<1>11. Aligned'
  <2>1. /\ xCurByte' = xCurByte + len
        /\ xNumReqBytes' = NextRequestLength(xCurByte + len)
    BY <1>8 DEF ReplyStored, Advance
  <2>2. CASE xCurByte + len = expected_size
    BY <1>2, <2>1, <2>2 DEF Aligned
  <2>3. CASE xCurByte + len < expected_size
    <3>1. len = Chunk /\ xNumReqBytes = Chunk
      BY <1>3, <1>4, <1>5, <1>6, <2>3 DEF Requested
    <3>2. (xCurByte + len) % Sector = 0
      BY <1>3, <1>5, <3>1, AlignedSum
    <3>3. \/ xNumReqBytes' = Chunk
          \/ xNumReqBytes' = expected_size - (xCurByte + len)
      BY <2>1, <3>1 DEF NextRequestLength
    <3> QED
      BY <1>2, <2>1, <2>3, <3>2, <3>3 DEF Aligned
  <2> QED
    BY <1>3, <1>6, <2>2, <2>3
<1>12. pc' = "request" /\ xStatus' /\ hash_ok'
  BY <1>1, <1>2, <1>4, <1>5, <1>8 DEF ReplyStored, Advance
<1> QED
  BY <1>10, <1>11, <1>12 DEF HonestInv

\* A range that began where a sector does appends what the hash has seen.
LEMMA StreamReply ==
    ASSUME IInv, Reply, on_sectors', hash_ok', xStatus'
    PROVE  Prefix(stored)'
<1> USE DEF IInv
<1>1. PICK len \in 0 .. Chunk + Surplus, good \in BOOLEAN, partial \in BOOLEAN :
          /\ hash_ok' = (hash_ok /\ (good \/ len = 0))
          /\ \/ len > 0 /\ ReplyStored(len, good, partial)
             \/ ReplyNotStored(len, good)
             \/ len = 0 /\ EmptyReply
  BY DEF Reply
<1>2. xStatus /\ len \in Nat /\ xCurByte \in Nat /\ xCurByte = stored
  BY DEF Reply, WantsMore, DataTypeOK, StoredInv
<1>3. CASE len > 0 /\ ReplyStored(len, good, partial)
  <2>1. /\ HandleReceivedData(xCurByte, len, good, TRUE)
        /\ stored' = stored + len
        /\ on_sectors' = (on_sectors /\ xCurByte % Sector = 0)
    BY <1>3, Zenon DEF ReplyStored, Advance
  <2>2. len # 0 /\ len \in Nat \ {0}
    BY <1>2, <1>3
  <2>3. /\ xCurByte % Sector = 0 /\ on_sectors /\ hash_ok /\ good = TRUE
        /\ stored' = xCurByte + len
    BY <1>1, <1>2, <2>1, <2>2, Zenon
  <2>4. HandleReceivedData(xCurByte, len, TRUE, TRUE)
    BY <2>1, <2>3, Zenon
  <2>5. ~BoundaryExceeded(xCurByte, len)
    BY <2>4 DEF HandleReceivedData
  <2>6. cells' = Written(xCurByte, len, TRUE)
    BY <1>2, <2>3, <2>4, <2>5, <2>2, GoodReply, Zenon
  <2>7. Prefix(xCurByte)
    BY <1>2, <2>3 DEF StreamInv
  <2>8. xCurByte + len =< MaxFirmware
    BY <1>2, <2>5 DEF BoundaryExceeded
  <2>9. \A a \in Range(0, xCurByte + len) : cells'[a] = "Image"
    BY <1>2, <2>3, <2>6, <2>7, <2>8, PrefixGrows
  <2> QED
    BY <2>3, <2>9 DEF Prefix
<1>4. CASE ReplyNotStored(len, good)
  BY <1>4 DEF ReplyNotStored
<1>5. CASE len = 0 /\ EmptyReply
  <2>1. UNCHANGED <<cells, stored, on_sectors>> /\ hash_ok
    BY <1>1, <1>5 DEF EmptyReply, HandleReceivedData, aknano_write_data_to_flash
  <2> QED
    BY <1>2, <2>1 DEF StreamInv, Prefix
<1> QED
  BY <1>1, <1>3, <1>4, <1>5

\* Every step of the download keeps the invariant.
LEMMA Step == IInv /\ [Next]_vars => IInv'
<1> SUFFICES ASSUME IInv, [Next]_vars PROVE IInv'
  OBVIOUS
<1>1. DataTypeOK' /\ CellTypeOK' /\ FlagTypeOK' /\ NeighbourUntouched'
  BY OtherSteps, ReplyTypes DEF Next, IInv
<1>2. StoredInv' /\ StreamInv'
  <2>1. CASE Reply
    <3>1. StoredInv'
      BY <2>1 DEF IInv, StoredInv, Reply, ReplyStored, Advance, ReplyNotStored,
                  EmptyReply
    <3> QED
      BY <2>1, <3>1, StreamReply DEF StreamInv
  <2>2. CASE \/ aknano_connect_to_download_server \/ RequestFails \/ LoopEnds
             \/ Disconnect \/ aknano_verify_image \/ UNCHANGED vars
    <3>1. /\ UNCHANGED <<cells, stored, xCurByte, on_sectors, hash_ok,
                         expected_size>>
          /\ xStatus' => xStatus
      BY <2>2 DEF aknano_connect_to_download_server, RequestFails, LoopEnds,
                  Disconnect, aknano_verify_image, observed, vars
    <3>2. StoredInv'
      BY <2>2 DEF IInv, StoredInv, aknano_connect_to_download_server,
                  RequestFails, LoopEnds, Disconnect, aknano_verify_image, vars
    <3> QED
      BY <3>1, <3>2 DEF IInv, StreamInv, Prefix
  <2> QED
    BY <2>1, <2>2 DEF Next
<1>3. HonestInv'
  <2> SUFFICES ASSUME honest', Fits'
               PROVE  HonestInv'
    BY DEF HonestInv
  <2>0. Fits /\ expected_size' = expected_size
    BY DEF Next, observed, vars, Fits, Reply, RequestFails, LoopEnds,
           Disconnect, aknano_connect_to_download_server, aknano_verify_image
  <2>1. CASE Reply
    BY <2>0, <2>1, HonestReply
  <2>2. CASE aknano_connect_to_download_server
    BY <2>0, <2>2 DEF IInv, HonestInv, aknano_connect_to_download_server,
                Aligned, Prefix
  <2>3. CASE RequestFails
    BY <2>3 DEF RequestFails
  <2>4. CASE LoopEnds
    <3>1. honest /\ xCurByte = stored /\ xStatus /\ Aligned
      BY <2>0, <2>4 DEF IInv, LoopEnds, StoredInv, HonestInv, observed
    <3>2. stored = expected_size
      BY <2>4, <3>1 DEF LoopEnds, WantsMore, Aligned
    <3> QED
      BY <2>0, <2>4, <3>2 DEF IInv, LoopEnds, HonestInv, Aligned, Prefix,
                              observed
  <2>5. CASE Disconnect
    BY <2>0, <2>5 DEF IInv, HonestInv, Disconnect, Aligned, Prefix, observed
  <2>6. CASE aknano_verify_image
    <3>1. pc = "verify" /\ stored = expected_size /\ honest
      BY <2>6 DEF aknano_verify_image, IInv, StoredInv
    <3>2. Intact
      BY <2>0, <3>1 DEF IInv, HonestInv, Intact, Prefix
    <3> QED
      BY <2>0, <2>6, <3>1, <3>2
         DEF IInv, HonestInv, aknano_verify_image, Aligned, Prefix
  <2>7. CASE UNCHANGED vars
    BY <2>0, <2>7 DEF IInv, HonestInv, observed, vars, Aligned, Prefix
  <2> QED
    BY <2>1, <2>2, <2>3, <2>4, <2>5, <2>6, <2>7 DEF Next
<1> QED
  BY <1>1, <1>2, <1>3 DEF IInv

\* The inductive invariant holds in every reachable state.
LEMMA Invariant == Spec => []IInv
  BY InitInv, Step, PTL DEF Spec

-----------------------------------------------------------------------------
\* Every variable keeps its type; the length of the next request never wraps
\* round, whatever the server sent before.
THEOREM TypeCorrect == Spec => []TypeOK
  BY Invariant, Types, PTL DEF IInv

\* Nothing beyond the slot is ever erased or written, whatever lengths the
\* server answers with.
THEOREM NeighbourKept == Spec => []NeighbourUntouched
  BY Invariant, PTL DEF IInv

\* Unless a range began within a sector, a successful download left exactly the
\* selected image in the slot, whatever bl_verify_image says of it.
THEOREM SuccessExact == Spec => []SuccessIsExact
<1>1. IInv => SuccessIsExact
  BY DEF IInv, StoredInv, StreamInv, Prefix, Intact, SuccessIsExact
<1> QED
  BY <1>1, Invariant, PTL

\* A download in which server, network and driver do as asked does not fail.
THEOREM HonestSucceeds == Spec => []HonestDownloadSucceeds
<1>1. IInv => HonestDownloadSucceeds
  BY DEF IInv, HonestInv, Fits, HonestDownloadSucceeds
<1> QED
  BY <1>1, Invariant, PTL
-----------------------------------------------------------------------------
(* The safety half of EndsDisconnected: what no fairness is needed for.    *)

\* How many steps there are left, at most: one per byte that is missing, if the
\* server sends them one by one.
StepsLeft ==
    CASE pc = "connect"    -> expected_size + 5
      [] pc = "request"    -> IF WantsMore THEN expected_size - xCurByte + 3 ELSE 3
      [] pc = "disconnect" -> 2
      [] pc = "verify"     -> 1
      [] OTHER             -> 0

\* The connection is only open where it is needed.
ConnectionInv == pc \in {"connect", "verify", "ok", "failed"} => ~connected

\* Whatever the server answers, every step brings the end of the download nearer:
\* an answer without data ends the loop, as a failed request, a reply out of
\* bounds and a failed write do, and any other one stores at least a byte.
THEOREM ServerCannotProlong ==
    Spec => [][(StepsLeft \in Nat) /\ (StepsLeft' \in Nat) /\ StepsLeft' < StepsLeft]_vars
<1> DEFINE Nearer == StepsLeft \in Nat /\ StepsLeft' \in Nat /\ StepsLeft' < StepsLeft
<1>1. ASSUME IInv, Next PROVE Nearer
  <2>1. xCurByte \in Nat /\ expected_size \in Nat
    BY <1>1, SizesAssumption DEF IInv, DataTypeOK
  <2>2. CASE aknano_connect_to_download_server
    BY <2>1, <2>2 DEF aknano_connect_to_download_server, StepsLeft, WantsMore
  <2>3. CASE RequestFails
    BY <2>1, <2>3 DEF RequestFails, StepsLeft, WantsMore
  <2>4. CASE Reply
    <3>1. /\ pc = "request" /\ xStatus /\ xCurByte < expected_size
          /\ UNCHANGED expected_size
      BY <2>4 DEF Reply, WantsMore
    <3>2. PICK len \in 0 .. Chunk + Surplus, good \in BOOLEAN, partial \in BOOLEAN :
              \/ len > 0 /\ ReplyStored(len, good, partial)
              \/ ReplyNotStored(len, good)
              \/ len = 0 /\ EmptyReply
      BY <2>4 DEF Reply
    <3>3. CASE len > 0 /\ ReplyStored(len, good, partial)
      <4>1. pc' = "request" /\ xCurByte' = xCurByte + len /\ len \in Nat \ {0}
        BY <3>1, <3>3, ChunkAssumption, SurplusAssumption
         DEF ReplyStored, Advance
      <4> QED
        BY <2>1, <3>1, <4>1 DEF StepsLeft, WantsMore
    <3>4. CASE pc' = "disconnect"
      BY <2>1, <3>1, <3>4 DEF StepsLeft, WantsMore
    <3> QED
      BY <3>2, <3>3, <3>4 DEF ReplyNotStored, EmptyReply
  <2>5. CASE LoopEnds
    BY <2>5 DEF LoopEnds, StepsLeft
  <2>6. CASE Disconnect
    BY <2>6 DEF Disconnect, StepsLeft
  <2>7. CASE aknano_verify_image
    BY <2>7 DEF aknano_verify_image, StepsLeft
  <2> QED
    BY <1>1, <2>2, <2>3, <2>4, <2>5, <2>6, <2>7 DEF Next
<1>2. IInv /\ [Next]_vars => [Nearer]_vars
  BY <1>1
<1> QED
  BY <1>2, Invariant, PTL DEF Spec

\* Whichever step failed, the connection is closed once the download is over, and
\* already before the image is verified.
THEOREM ClosedWhenDone == Spec => [](Done \/ pc = "verify" => ~connected)
<1>1. Init => ConnectionInv
  BY DEF Init, ConnectionInv
<1>2. ConnectionInv /\ [Next]_vars => ConnectionInv'
  <2> SUFFICES ASSUME ConnectionInv, [Next]_vars PROVE ConnectionInv'
    OBVIOUS
  <2>1. CASE Reply
    BY <2>1 DEF Reply, ReplyStored, Advance, ReplyNotStored, EmptyReply,
                ConnectionInv
  <2>2. CASE ~Reply
    BY <2>2 DEF Next, vars, ConnectionInv, aknano_connect_to_download_server,
                RequestFails, LoopEnds, Disconnect, aknano_verify_image
  <2> QED
    BY <2>1, <2>2
<1>3. ConnectionInv => (Done \/ pc = "verify" => ~connected)
  BY DEF ConnectionInv, Done
<1> QED
  BY <1>1, <1>2, <1>3, PTL DEF Spec
=============================================================================

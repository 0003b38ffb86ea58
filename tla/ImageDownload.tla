--------------------------- MODULE ImageDownload ----------------------------
(***************************************************************************)
(* aknano_download_and_flash_image (aknano_image_download.c): the image is *)
(* requested range by range, hashed as it arrives, written to the slot     *)
(* that is not executing, and finally verified where it was written.       *)
(*                                                                         *)
(* A cell stands for one byte of flash: Image if it holds the byte of the  *)
(* selected target that belongs there, Blank after an erase, Junk for      *)
(* anything else.  The cells from MaxFirmware on belong to whatever        *)
(* follows the slot.  The server may answer with any length, any content   *)
(* and any status, the flash driver may fail, and the boot loader's check  *)
(* of what was written may have any outcome.                               *)
(***************************************************************************)
EXTENDS Integers

CONSTANTS
    Sector,         \* MFLASH_SECTOR_SIZE
    Chunk,          \* AKNANO_IMAGE_DOWNLOAD_REQUEST_LENGTH
    MaxFirmware,    \* AKNANO_MAX_FIRMWARE_SIZE, the size of a slot
    Sizes,          \* sizes the selected target may have
    Surplus         \* how much longer than a chunk a reply may be

ASSUME SectorAssumption == Sector \in Nat \ {0}
ASSUME ChunkAssumption == Chunk \in Nat \ {0} /\ Chunk % Sector = 0
ASSUME SlotAssumption == MaxFirmware \in Nat \ {0} /\ MaxFirmware % Sector = 0
ASSUME SizesAssumption == Sizes \subseteq Nat
ASSUME SurplusAssumption == Surplus \in Nat

VARIABLES
    pc,                 \* where aknano_download_and_flash_image is
    expected_size,      \* selected_target.expected_size
    cells,              \* the slot written to, and what follows it
    connected,          \* a connection to the download server is open
    xStatus,            \* pdPASS?
    xCurByte, xNumReqBytes, stored,
    hash_ok,            \* the stream hashed so far is a prefix of the image
    \* what an observer knows; no action reads it in a guard
    on_sectors,         \* every range stored so far began where a sector does
    honest              \* every answer so far was the expected one

observed == <<on_sectors, honest>>
vars == <<pc, expected_size, cells, connected, xStatus, xCurByte,
          xNumReqBytes, stored, hash_ok, observed>>

Cells == 0 .. MaxFirmware + Chunk + Surplus - 1
Slot == 0 .. MaxFirmware - 1

Range(first, len) == first .. first + len - 1

\* The cells of every sector that a write of len bytes at offset reaches.
Touched(offset, len) ==
    {a \in Cells : \E b \in Range(offset, len) : a \div Sector = b \div Sector}

-----------------------------------------------------------------------------
(* aknano_write_data_to_flash: sectors are erased as they are reached and  *)
(* the data programmed page by page.                                       *)

Written(offset, len, good) ==
    [a \in Cells |->
        CASE a \in Range(offset, len) -> IF good THEN "Image" ELSE "Junk"
          [] a \in Touched(offset, len) \ Range(offset, len) -> "Blank"
          [] OTHER -> cells[a]]

Spoilt(offset, len) ==
    [a \in Cells |-> IF a \in Touched(offset, len) THEN "Junk" ELSE cells[a]]

\* Only an offset at the start of a sector is within the driver's contract:
\* any other is refused or spoils the sectors it reaches.
aknano_write_data_to_flash(offset, len, good, ok) ==
    IF len = 0
    THEN ok = TRUE /\ UNCHANGED cells
    ELSE \/ offset % Sector = 0 /\ ok = TRUE /\ cells' = Written(offset, len, good)
         \/ offset % Sector # 0 /\ ok = TRUE /\ cells' = Spoilt(offset, len)
         \/ ok = FALSE /\ cells' \in {cells, Spoilt(offset, len)}

\* A slip: the boundary check is missing.
SlipNoBoundary(offset, len) == FALSE

\* A slip: the full request length is checked instead of the reply's.
SlipFullChunk(offset, len) == offset + Chunk >= MaxFirmware

BoundaryExceeded(offset, len) == offset + len >= MaxFirmware

HandleReceivedData(offset, len, good, ok) ==
    IF BoundaryExceeded(offset, len)
    THEN ok = FALSE /\ UNCHANGED cells
    ELSE aknano_write_data_to_flash(offset, len, good, ok)

-----------------------------------------------------------------------------
(* aknano_download_image and its caller.                                   *)

aknano_connect_to_download_server ==
    /\ pc = "connect"
    /\ \/ pc' = "request" /\ connected' = TRUE /\ UNCHANGED honest
       \/ pc' = "failed" /\ honest' = FALSE /\ UNCHANGED connected
    /\ UNCHANGED <<expected_size, cells, xStatus, xCurByte, xNumReqBytes,
                   stored, hash_ok, on_sectors>>

WantsMore == xStatus /\ xCurByte < expected_size

RequestFails ==
    /\ pc = "request" /\ WantsMore
    /\ xStatus' = FALSE
    /\ honest' = FALSE
    /\ UNCHANGED <<pc, expected_size, cells, connected, xCurByte,
                   xNumReqBytes, stored, hash_ok, on_sectors>>

\* A slip: the subtraction is signed.
SlipNextLength(cur) ==
    IF expected_size - cur < xNumReqBytes
    THEN expected_size - cur ELSE xNumReqBytes

\* What is left to request; the subtraction is unsigned, so a server that sent
\* too much leaves the request length alone.
NextRequestLength(cur) ==
    IF cur =< expected_size /\ expected_size - cur < xNumReqBytes
    THEN expected_size - cur ELSE xNumReqBytes

\* What a faithful server sends for the requested range.
Requested ==
    IF expected_size - xCurByte < xNumReqBytes
    THEN expected_size - xCurByte ELSE xNumReqBytes

\* The range that was stored is accounted for; xStatus comes from the status.
Advance(len, good, partial) ==
    /\ stored' = stored + len
    /\ xCurByte' = xCurByte + len
    /\ xNumReqBytes' = NextRequestLength(xCurByte')
    /\ xStatus' = partial
    /\ on_sectors' = (on_sectors /\ xCurByte % Sector = 0)
    /\ honest' = (honest /\ len = Requested /\ good /\ partial)
    /\ UNCHANGED pc

ReplyStored(len, good, partial) ==
    /\ HandleReceivedData(xCurByte, len, good, TRUE)
    /\ Advance(len, good, partial)

\* A slip: the result of the write is not looked at.
SlipReplyNotStored(len, good) ==
    /\ HandleReceivedData(xCurByte, len, good, FALSE)
    /\ Advance(len, good, TRUE)

\* An out of bounds or failed write ends the loop; the hash has seen the data.
ReplyNotStored(len, good) ==
    /\ HandleReceivedData(xCurByte, len, good, FALSE)
    /\ xStatus' = FALSE
    /\ pc' = "disconnect"
    /\ honest' = (honest /\ len = Requested /\ good
                      /\ BoundaryExceeded(xCurByte, len))
    /\ UNCHANGED <<stored, xCurByte, xNumReqBytes, on_sectors>>

EmptyReply ==
    /\ HandleReceivedData(xCurByte, 0, TRUE, TRUE)
    /\ pc' = "disconnect"
    /\ honest' = FALSE
    /\ UNCHANGED <<xStatus, stored, xCurByte, xNumReqBytes, on_sectors>>

Reply ==
    /\ pc = "request" /\ WantsMore
    /\ \E len \in 0 .. Chunk + Surplus, good, partial \in BOOLEAN :
          /\ hash_ok' = (hash_ok /\ (good \/ len = 0))
          /\ \/ len > 0 /\ ReplyStored(len, good, partial)
             \/ ReplyNotStored(len, good)
             \/ len = 0 /\ EmptyReply
    /\ UNCHANGED <<expected_size, connected>>

LoopEnds ==
    /\ pc = "request" /\ ~WantsMore
    /\ pc' = "disconnect"
    /\ UNCHANGED <<expected_size, cells, connected, xStatus, xCurByte,
                   xNumReqBytes, stored, hash_ok, observed>>

\* A slip: the connection is only closed after a complete download.
SlipDisconnect ==
    /\ pc = "disconnect"
    /\ connected' = (stored # expected_size)
    /\ pc' = IF xStatus /\ stored = expected_size /\ hash_ok
             THEN "verify" ELSE "failed"
    /\ UNCHANGED <<expected_size, cells, xStatus, xCurByte, xNumReqBytes,
                   stored, hash_ok, observed>>

\* The connection is closed, then the size and the hash are compared.
Disconnect ==
    /\ pc = "disconnect"
    /\ connected' = FALSE
    /\ pc' = IF xStatus /\ stored = expected_size /\ hash_ok
             THEN "verify" ELSE "failed"
    /\ UNCHANGED <<expected_size, cells, xStatus, xCurByte, xNumReqBytes,
                   stored, hash_ok, observed>>

Intact == \A a \in Range(0, expected_size) : cells[a] = "Image"

\* bl_verify_image is given an address and a length: it cannot know which image
\* was selected, and may accept or refuse whatever it finds there.  Without the
\* partition's address the image is refused unseen.
aknano_verify_image ==
    /\ pc = "verify"
    /\ \/ pc' = "ok" /\ UNCHANGED honest
       \/ pc' = "failed" /\ honest' = (honest /\ ~Intact)
    /\ UNCHANGED <<expected_size, cells, connected, xStatus, xCurByte,
                   xNumReqBytes, stored, hash_ok, on_sectors>>

Done == pc \in {"ok", "failed"}

-----------------------------------------------------------------------------
Init ==
    /\ pc = "connect"
    /\ expected_size \in Sizes
    /\ cells = [a \in Cells |-> IF a \in Slot THEN "Junk" ELSE "Other"]
    /\ connected = FALSE
    /\ xStatus = TRUE
    /\ xCurByte = 0
    /\ xNumReqBytes = Chunk
    /\ stored = 0
    /\ hash_ok = TRUE
    /\ on_sectors = TRUE
    /\ honest = TRUE

Next ==
    \/ aknano_connect_to_download_server
    \/ RequestFails
    \/ Reply
    \/ LoopEnds
    \/ Disconnect
    \/ aknano_verify_image

Spec == Init /\ [][Next]_vars

\* Every call to the network and to the flash driver returns.
FairSpec == Spec /\ WF_vars(Next)

-----------------------------------------------------------------------------
(* Properties.                                                             *)

TypeOK ==
    /\ pc \in {"connect", "request", "disconnect", "verify", "ok", "failed"}
    /\ expected_size \in Sizes
    /\ cells \in [Cells -> {"Image", "Blank", "Junk", "Other"}]
    /\ connected \in BOOLEAN /\ xStatus \in BOOLEAN
    /\ hash_ok \in BOOLEAN /\ on_sectors \in BOOLEAN /\ honest \in BOOLEAN
    /\ xCurByte \in Nat /\ xNumReqBytes \in 0 .. Chunk /\ stored \in Nat

\* If every range began where a sector does, size and hash of the stream speak
\* for the flash: whatever lengths, contents and statuses the server answered
\* with, whichever write failed and whatever bl_verify_image let pass, a
\* successful download left exactly the selected image.  (After a range that
\* ends within a sector they do not: nothing looks at the alignment.)
SuccessIsExact == pc = "ok" /\ on_sectors => Intact

\* Nothing beyond the slot is ever erased or written.
NeighbourUntouched == \A a \in Cells \ Slot : cells[a] = "Other"

\* A faithful server and driver, a boot loader that accepts the image where it
\* is intact, and an image smaller than a slot: the download does not fail.  (One
\* that fills the slot exactly is refused by the check.)
HonestDownloadSucceeds ==
    honest /\ expected_size \in 1 .. MaxFirmware - 1 => pc # "failed"

\* The download ends, and with its connection closed.
EndsDisconnected == <>[](Done /\ ~connected)
=============================================================================

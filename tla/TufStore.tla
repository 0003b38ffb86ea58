------------------------------ MODULE TufStore ------------------------------
(***************************************************************************)
(* The TUF root in flash (aknano_tuf_client.c): 1.root.json is fetched     *)
(* once and kept as the trust anchor; tuf_refresh reads the local root, or *)
(* the anchor if there is none, and stores every newer root it verifies.   *)
(*                                                                         *)
(* Flash is counted in cells, several to a sector.  A file is a sequence   *)
(* of pieces, one per cell; <<v, i>> is piece i of the root of version v.  *)
(* Only piece 1 of a file begins with '{'.  The other roles' files go      *)
(* through the same two functions; a missing one is no error.  tuf_refresh *)
(* itself belongs to libtufnano: it is known here by the callbacks it uses.*)
(***************************************************************************)
EXTENDS Integers, Sequences

CONSTANTS
    Length,         \* Length[v]: cells of the root of version v, v \in 1 .. n
    Sector,         \* AKNANO_FLASH_SECTOR_SIZE
    Region,         \* AKNANO_TUF_METADATA_MAX_SIZE, also max_tuf_metadata_size
    UserBuffer      \* the longest reply that fits ucUserBuffer

ASSUME LengthAssumption == Length \in Seq(Nat \ {0}) /\ Length # <<>>
ASSUME SectorAssumption == Sector \in Nat \ {0}
ASSUME RegionAssumption == Region \in Nat \ {0} /\ Region % Sector = 0
ASSUME BufferAssumption == UserBuffer \in Region .. 2 * Region

VARIABLES
    flash,              \* the anchor's region, the local root's, the next one
    pc,
    root_provisioned,   \* tuf_root_is_provisioned
    content,            \* what the target buffer holds
    root,               \* the version tuf_refresh trusts, 0 before it read one
    write,              \* the write in progress
    server,             \* the newest root on the server
    refreshed,          \* observer: the root of the last successful refresh
    torn,               \* observer: a write was cut short
    misread             \* observer: the anchor was there but not readable when
                        \* the device looked whether it is provisioned

vars == <<flash, pc, root_provisioned, content, root, write, server,
          refreshed, torn, misread>>

Roots == 1 .. Len(Length)
File(v) == [i \in 1 .. Length[v] |-> <<v, i>>]

Blank == <<0, 0>>       \* erased
Foreign == <<0, 1>>     \* belongs to another role
Junk == <<0, 2>>        \* programmed over something else, or cut

AKNANO_FLASH_OFF_TUF_ROOT_PROVISIONING == 0
AKNANO_FLASH_OFF_TUF_ROLE_ROOT == Region
AKNANO_FLASH_OFF_TUF_ROLE_TIMESTAMP == 2 * Region
Cells == 0 .. 3 * Region - 1

Pieces == {Blank, Foreign, Junk} \cup UNION {{<<v, i>> : i \in 1 .. Length[v]} : v \in Roots}

-----------------------------------------------------------------------------
(* read_local_json_file: a file ends before the first erased cell; the     *)
(* last byte of the buffer is always overwritten by a terminator.          *)

IsJson(base) == flash[base] \in {<<v, 1>> : v \in Roots}

read_local_json_file(base, size) ==
    LET first == {n \in 0 .. size : n = size \/ flash[base + n] = Blank}
        end == CHOOSE n \in first : \A k \in first : n =< k
    IN  [i \in 1 .. end |-> IF i = size THEN Junk ELSE flash[base + i - 1]]

-----------------------------------------------------------------------------
(* aknano_write_data_to_flash, a sector erased whenever it is reached.     *)

Idle == [base |-> 0, data |-> <<>>, pos |-> 0, next_erase |-> 0, then |-> "off"]

StartWrite(base, data, then) ==
    /\ write' = [base |-> base, data |-> data, pos |-> 0, next_erase |-> 0,
                 then |-> then]
    /\ pc' = "write"

\* A slip: next_erase_addr only allows for the first sector.
SlipEraseDue == write.pos = 0 /\ write.next_erase = 0

EraseDue == write.pos >= write.next_erase

Erase ==
    /\ pc = "write"
    /\ write.pos < Len(write.data)
    /\ EraseDue
    /\ LET first == write.base + write.next_erase
       IN  flash' = [a \in Cells |->
                        IF a \in first .. first + Sector - 1 THEN Blank ELSE flash[a]]
    /\ write' = [write EXCEPT !.next_erase = @ + Sector]
    /\ UNCHANGED <<pc, root_provisioned, content, root, server, refreshed, torn, misread>>

\* A slip: the address advances by sectors and not by pages.
SlipProgram ==
    /\ pc = "write"
    /\ write.pos < Len(write.data)
    /\ ~EraseDue
    /\ flash' = [flash EXCEPT ![write.base + write.pos] = write.data[write.pos + 1]]
    /\ write' = [write EXCEPT !.pos = @ + Sector]
    /\ UNCHANGED <<pc, root_provisioned, content, root, server, refreshed, torn, misread>>

Program ==
    /\ pc = "write"
    /\ write.pos < Len(write.data)
    /\ ~EraseDue
    /\ LET a == write.base + write.pos
       IN  flash' = [flash EXCEPT ![a] = IF @ = Blank THEN write.data[write.pos + 1]
                                         ELSE Junk]
    /\ write' = [write EXCEPT !.pos = @ + 1]
    /\ UNCHANGED <<pc, root_provisioned, content, root, server, refreshed, torn, misread>>

WriteDone ==
    /\ pc = "write"
    /\ write.pos = Len(write.data)
    /\ pc' = write.then
    /\ root_provisioned' = (root_provisioned \/ write.then = "read")
    /\ write' = Idle
    /\ UNCHANGED <<flash, content, root, server, refreshed, torn, misread>>

\* A slip: continue instead of break, so that the same page is tried again.
SlipWriteFails ==
    /\ pc = "write"
    /\ write.pos < Len(write.data)
    /\ torn' = TRUE
    /\ UNCHANGED <<flash, pc, root_provisioned, content, root, write, server,
                   refreshed, misread>>

\* A driver error.  The copy of the anchor does not look at it; the two other
\* callers give up this check-in.
WriteFails ==
    /\ pc = "write"
    /\ write.pos < Len(write.data)
    /\ torn' = TRUE
    /\ pc' = IF write.then = "verify" THEN "verify" ELSE "failed"
    /\ write' = Idle
    /\ UNCHANGED <<flash, root_provisioned, content, root, server, refreshed, misread>>

-----------------------------------------------------------------------------
(* tuf_client_fetch_file.                                                  *)

\* A slip: the length of the reply is not compared with the buffer.
SlipFits(v, size) == TRUE

FitsBuffer(v, size) == Length[v] =< size

\* A slip: every failed fetch says that there is no newer root.
SlipNoNewerRoot == root =< server

\* The server answers 404 (403).
NoNewerRoot == root = server

-----------------------------------------------------------------------------
(* aknano_provision_tuf_root, once per boot until it succeeds.             *)

\* A slip: the anchor is fetched at the first check-in after every boot.
SlipAlreadyProvisioned == root_provisioned

AlreadyProvisioned ==
    root_provisioned \/ IsJson(AKNANO_FLASH_OFF_TUF_ROOT_PROVISIONING)

SkipProvisioning ==
    /\ pc = "checkin"
    /\ AlreadyProvisioned
    /\ root_provisioned' = TRUE
    /\ pc' = "read"
    /\ UNCHANGED <<flash, content, root, write, server, refreshed, torn, misread>>

\* There is no anchor, or it cannot be read.
aknano_provision_tuf_root ==
    /\ pc = "checkin"
    /\ ~root_provisioned
    /\ FitsBuffer(1, UserBuffer)
    /\ StartWrite(AKNANO_FLASH_OFF_TUF_ROOT_PROVISIONING, File(1), "read")
    /\ misread' = (misread \/ AlreadyProvisioned)
    /\ UNCHANGED <<flash, root_provisioned, content, root, server, refreshed, torn>>

-----------------------------------------------------------------------------
(* tuf_refresh with tuf_client_read_local_file and                         *)
(* tuf_client_write_local_file.                                            *)

ReadLocalRoot ==
    /\ pc = "read"
    /\ IsJson(AKNANO_FLASH_OFF_TUF_ROLE_ROOT)
    /\ content' = read_local_json_file(AKNANO_FLASH_OFF_TUF_ROLE_ROOT, Region)
    /\ pc' = "verify"
    /\ UNCHANGED <<flash, root_provisioned, root, write, server, refreshed, torn, misread>>

\* A slip: a missing local root is an error.
SlipReadAnchor == FALSE

\* No local root, or none that can be read: the anchor is used and copied.
ReadAnchor ==
    /\ pc = "read"
    /\ IsJson(AKNANO_FLASH_OFF_TUF_ROOT_PROVISIONING)
    /\ content' = read_local_json_file(AKNANO_FLASH_OFF_TUF_ROOT_PROVISIONING, Region)
    /\ StartWrite(AKNANO_FLASH_OFF_TUF_ROLE_ROOT, content', "verify")
    /\ UNCHANGED <<flash, root_provisioned, root, server, refreshed, torn, misread>>

ReadFails ==
    /\ pc = "read"
    /\ pc' = "failed"
    /\ UNCHANGED <<flash, root_provisioned, content, root, write, server,
                   refreshed, torn, misread>>

\* Only a complete file parses.
Verify ==
    /\ pc = "verify"
    /\ \/ \E v \in Roots : content = File(v) /\ root' = v /\ pc' = "walk"
       \/ (\A v \in Roots : content # File(v)) /\ pc' = "failed" /\ UNCHANGED root
    /\ UNCHANGED <<flash, root_provisioned, content, write, server, refreshed, torn, misread>>

StoreNewerRoot ==
    /\ pc = "walk"
    /\ root < server
    /\ FitsBuffer(root + 1, Region)
    /\ root' = root + 1
    /\ StartWrite(AKNANO_FLASH_OFF_TUF_ROLE_ROOT, File(root + 1), "walk")
    /\ UNCHANGED <<flash, root_provisioned, content, server, refreshed, torn, misread>>

\* The root is the newest; the other roles are refreshed and nothing fails.
RefreshSucceeds ==
    /\ pc = "walk"
    /\ NoNewerRoot
    /\ pc' = "refreshed"
    /\ refreshed' = root
    /\ UNCHANGED <<flash, root_provisioned, content, root, write, server, torn, misread>>

\* Any request may fail: unreachable server, error status, reply too long.
CheckinFails ==
    /\ pc \in {"checkin", "walk"}
    /\ pc' = "failed"
    /\ UNCHANGED <<flash, root_provisioned, content, root, write, server,
                   refreshed, torn, misread>>

NextCheckin ==
    /\ pc \in {"refreshed", "failed"}
    /\ pc' = "checkin"
    /\ content' = <<>>
    /\ root' = 0
    /\ UNCHANGED <<flash, root_provisioned, write, server, refreshed, torn, misread>>

-----------------------------------------------------------------------------
(* Power and the server.                                                   *)

Boot ==
    /\ pc = "off"
    /\ pc' = "checkin"
    /\ UNCHANGED <<flash, root_provisioned, content, root, write, server,
                   refreshed, torn, misread>>

PowerLoss ==
    /\ pc # "off"
    /\ torn' = (torn \/ (pc = "write" /\ write.next_erase > 0))
    /\ pc' = "off"
    /\ root_provisioned' = FALSE
    /\ content' = <<>>
    /\ root' = 0
    /\ write' = Idle
    /\ UNCHANGED <<flash, server, refreshed, misread>>

RotateRoot ==
    /\ server + 1 \in Roots
    /\ server' = server + 1
    /\ UNCHANGED <<flash, pc, root_provisioned, content, root, write, refreshed, torn, misread>>

Init ==
    /\ flash = [a \in Cells |->
                  IF a >= AKNANO_FLASH_OFF_TUF_ROLE_TIMESTAMP THEN Foreign ELSE Blank]
    /\ pc = "off"
    /\ root_provisioned = FALSE
    /\ content = <<>>
    /\ root = 0
    /\ write = Idle
    /\ server = 1
    /\ refreshed = 0
    /\ torn = FALSE
    /\ misread = FALSE

Device ==
    \/ Boot
    \/ SkipProvisioning
    \/ aknano_provision_tuf_root
    \/ ReadLocalRoot
    \/ ReadAnchor
    \/ ReadFails
    \/ Verify
    \/ StoreNewerRoot
    \/ RefreshSucceeds
    \/ CheckinFails
    \/ NextCheckin
    \/ Erase
    \/ Program
    \/ WriteDone
    \/ WriteFails

Next == Device \/ PowerLoss \/ RotateRoot

Spec == Init /\ [][Next]_vars

\* The task runs while it has power; requests and reads do not fail for ever.
FairSpec ==
    /\ Spec
    /\ WF_vars(Device)
    /\ SF_vars(SkipProvisioning \/ aknano_provision_tuf_root)
    /\ SF_vars(ReadLocalRoot)
    /\ SF_vars(ReadAnchor /\ ~IsJson(AKNANO_FLASH_OFF_TUF_ROLE_ROOT))
    /\ \A v \in Roots : SF_vars(StoreNewerRoot /\ root = v)
    /\ SF_vars(RefreshSucceeds)

-----------------------------------------------------------------------------
(* The promise of RootChain.  The local root is the one whose first piece  *)
(* is in flash: without it, the file is not read at all.                   *)

StoredRoot ==
    LET base == AKNANO_FLASH_OFF_TUF_ROLE_ROOT
    IN  IF IsJson(base) THEN flash[base][1] ELSE 0

Chain == INSTANCE RootChain WITH
             stored <- StoredRoot,
             trusted <- root,
             accepted <- refreshed,
             newest <- server

-----------------------------------------------------------------------------
(* Properties.                                                             *)

TypeOK ==
    /\ flash \in [Cells -> Pieces]
    /\ pc \in {"off", "checkin", "read", "verify", "walk", "write", "refreshed",
               "failed"}
    /\ {root_provisioned, torn, misread} \subseteq BOOLEAN
    /\ content \in Seq(Pieces)
    /\ root \in Roots \cup {0} /\ server \in Roots /\ refreshed \in Roots \cup {0}
    /\ write.data \in Seq(Pieces) /\ write.pos \in 0 .. Len(write.data)

Anchor == read_local_json_file(AKNANO_FLASH_OFF_TUF_ROOT_PROVISIONING, UserBuffer)
LocalRoot == read_local_json_file(AKNANO_FLASH_OFF_TUF_ROLE_ROOT, Region)

\* The trust anchor, once complete, is never written again: neither a later
\* check-in nor a root of any length that is stored beside it touches it.  (It
\* is fetched again if it is taken for missing because it could not be read.)
AnchorKept == [][Anchor = File(1) /\ ~misread' => Anchor' = File(1)]_vars

\* Whatever is interrupted and whatever is fetched, no other role's metadata is
\* overwritten.
OtherRolesUntouched ==
    \A a \in Cells : a >= AKNANO_FLASH_OFF_TUF_ROLE_TIMESTAMP => flash[a] = Foreign

\* A refresh never succeeds with an older root than an earlier one did, also
\* when the local root was lost and the walk began again at the anchor.
RootNeverOlder == [][refreshed' >= refreshed]_vars

\* Unless a write was cut short, what a successful refresh relied on is what the
\* next one will read.
StoredRootIsRefreshedRoot == pc = "refreshed" /\ ~torn => LocalRoot = File(root)

\* Whatever is interrupted, torn or misread, and whatever was left in flash by an
\* earlier write, the roots trusted and stored form a chain from the anchor on, and
\* a refresh succeeds with the newest only.
ImplementsRootChain == Chain!Spec

\* How many steps of the device there are left in a check-in, at most: the walk
\* stores each root once, and no write takes longer than one of two regions.
WriteLeft == 2 * (Len(write.data) - write.pos) + (IF EraseDue THEN 1 ELSE 0)
LongestWrite == 4 * Region + 4
WritingFor == IF pc = "write" THEN write.then ELSE "nothing"
StepsLeft ==
    (Len(Length) - root) * LongestWrite +
        CASE pc = "checkin"       -> 2 * LongestWrite + 4
          [] WritingFor = "read"  -> LongestWrite + WriteLeft + 4
          [] pc = "read"          -> LongestWrite + 3
          [] WritingFor = "verify" -> WriteLeft + 3
          [] pc = "verify"        -> 2
          [] WritingFor = "walk"  -> WriteLeft + 2
          [] pc = "walk"          -> 1
          [] OTHER                -> 0

\* No check-in goes on for ever, however long the roots, wherever the walk begins,
\* and also while new roots are published: every step of the device brings its end
\* nearer.
CheckinEnds ==
    [][Device /\ pc \notin {"off", "refreshed", "failed"}
           => StepsLeft' < StepsLeft]_vars

\* If no write is cut short, and as long as the roots fit the buffer, refreshes
\* go on succeeding once power is stable.
RefreshRecovers ==
    ( /\ [](~torn /\ \A v \in 1 .. server : FitsBuffer(v, Region))
      /\ <>[][~PowerLoss]_vars )
        => []<>(pc = "refreshed")

\* "root json already provisioned": a root that is there is complete.
ProvisionedIsComplete ==
    pc = "checkin" /\ IsJson(AKNANO_FLASH_OFF_TUF_ROOT_PROVISIONING)
        => Anchor = File(1)
=============================================================================

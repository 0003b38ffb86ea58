---------------------------- MODULE Provisioning ----------------------------
(***************************************************************************)
(* The identity of a device (builds with AKNANO_ALLOW_PROVISIONING and     *)
(* without EdgeLock 2GO): aknano_init provisions a device without a serial *)
(* or without a certificate.  Three stores change one after the other: the *)
(* flash sectors, which are cleared with everything an earlier identity    *)
(* kept there, the sector of uuid and serial, and the PKCS#11 objects.     *)
(*                                                                         *)
(* uuid and serial are drawn together and count as one identity.  That a   *)
(* new one is not in use is an assumption about the random generator; in   *)
(* builds with AKNANO_USE_MAC_ADDRESS_AS_DEVICE_UUID identities repeat.    *)
(* An erased serial counts as missing, as it does where char is unsigned.  *)
(* A key or certificate is named after the identity it was made for.       *)
(***************************************************************************)
EXTENDS Integers

CONSTANTS
    Ids,                        \* identities
    AKNANO_FLASH_SECTORS_COUNT

ASSUME CountAssumption == AKNANO_FLASH_SECTORS_COUNT \in Nat \ {0}

None == "none"
Corrupt == "corrupt"            \* programmed without an erase
ASSUME IdsAssumption == {None, Corrupt} \cap Ids = {}

VARIABLES
    sector,         \* whose data each flash sector holds; 0 is the identity
    key,            \* the PKCS#11 private key
    certificate,    \* the PKCS#11 certificate
    pc,
    uuid,           \* in RAM: the identity being made, then settings->uuid
    cleared,        \* sectors gone through by aknano_clear_provisioned_data
    errors          \* observer: what a driver or PKCS#11 call did wrong

vars == <<sector, key, certificate, pc, uuid, cleared, errors>>

Sectors == 0 .. AKNANO_FLASH_SECTORS_COUNT - 1
IdOrNone == Ids \cup {None}
Kinds == {"erase", "program", "certificate_read"}
InUse == {sector[s] : s \in Sectors} \cup {key, certificate}

-----------------------------------------------------------------------------
(* The checks of aknano_init.                                              *)

is_device_serial_set == sector[0] # None

\* A slip: only the cached value is looked at, which is FALSE after a reset.
SlipCertificate(available) == ~available /\ UNCHANGED errors

\* What is found is what is stored, unless the read fails or, there being no
\* certificate, the buffer that was never written to looks like one.
is_valid_certificate_available(available) ==
    errors' = IF available = (certificate # None) THEN errors
              ELSE errors \cup {"certificate_read"}

\* The certificate is only looked for if there is a serial.
Checked(available) ==
    \/ is_device_serial_set /\ is_valid_certificate_available(available)
    \/ ~is_device_serial_set /\ ~available /\ UNCHANGED errors

\* A slip: a device that has a serial is taken to be complete.
SlipIncomplete(available) == ~is_device_serial_set

Incomplete(available) == ~is_device_serial_set \/ ~available

SkipProvisioning ==
    /\ pc = "init"
    /\ \E available \in BOOLEAN : Checked(available) /\ ~Incomplete(available)
    /\ pc' = "settings"
    /\ UNCHANGED <<sector, key, certificate, uuid, cleared>>

\* aknano_gen_serial_and_uuid.
StartProvisioning ==
    /\ pc = "init"
    /\ \E available \in BOOLEAN : Checked(available) /\ Incomplete(available)
    /\ uuid' \in Ids \ InUse
    /\ pc' = "clear"
    /\ UNCHANGED <<sector, key, certificate, cleared>>

-----------------------------------------------------------------------------
(* aknano_save_uuid_and_serial; driver errors are only logged.             *)

\* Slips: the loop ends one sector too late, or one too early.
SlipLate == cleared =< AKNANO_FLASH_SECTORS_COUNT
SlipEarly == cleared + 1 < AKNANO_FLASH_SECTORS_COUNT

MoreSectors == cleared < AKNANO_FLASH_SECTORS_COUNT

aknano_clear_flash_sector ==
    /\ pc = "clear"
    /\ MoreSectors
    /\ \/ sector' = [sector EXCEPT ![cleared] = None] /\ UNCHANGED errors
       \/ errors' = errors \cup {"erase"} /\ UNCHANGED sector
    /\ cleared' = cleared + 1
    /\ UNCHANGED <<key, certificate, pc, uuid>>

aknano_save_uuid_and_serial ==
    /\ pc = "clear"
    /\ ~MoreSectors
    /\ \/ /\ sector' = [sector EXCEPT ![0] = IF @ = None THEN uuid ELSE Corrupt]
          /\ UNCHANGED errors
       \/ errors' = errors \cup {"program"} /\ UNCHANGED sector
    /\ pc' = "generate"
    /\ UNCHANGED <<key, certificate, uuid, cleared>>

-----------------------------------------------------------------------------
(* The rest of aknano_provision_device.  Whatever fails, aknano_init goes  *)
(* on: its second check of the certificate only delays.                    *)

Generated ==
    /\ pc = "generate"
    /\ pc' = "store_key"
    /\ UNCHANGED <<sector, key, certificate, uuid, cleared, errors>>

\* vDevModeKeyProvisioning_AkNano: the key, then the certificate.
StoreKey ==
    /\ pc = "store_key"
    /\ key' = uuid
    /\ pc' = "store_certificate"
    /\ UNCHANGED <<sector, certificate, uuid, cleared, errors>>

StoreCertificate ==
    /\ pc = "store_certificate"
    /\ certificate' = uuid
    /\ pc' = "settings"
    /\ UNCHANGED <<sector, key, uuid, cleared, errors>>

\* A slip: the certificate is stored although the key was not.
SlipFails ==
    /\ pc \in {"generate", "store_key", "store_certificate"}
    /\ pc' = IF pc = "store_key" THEN "store_certificate" ELSE "settings"
    /\ UNCHANGED <<sector, key, certificate, uuid, cleared, errors>>

ProvisioningFails ==
    /\ pc \in {"generate", "store_key", "store_certificate"}
    /\ pc' = "settings"
    /\ UNCHANGED <<sector, key, certificate, uuid, cleared, errors>>

aknano_init_settings ==
    /\ pc = "settings"
    /\ uuid' = sector[0]
    /\ pc' = "running"
    /\ UNCHANGED <<sector, key, certificate, cleared, errors>>

\* Once it can connect the device keeps settings and TUF metadata in flash.
Save ==
    /\ pc = "running"
    /\ certificate # None /\ key = certificate
    /\ \E s \in Sectors \ {0} : sector' = [sector EXCEPT ![s] = certificate]
    /\ UNCHANGED <<key, certificate, pc, uuid, cleared, errors>>

-----------------------------------------------------------------------------
Boot ==
    /\ pc = "off"
    /\ pc' = "init"
    /\ UNCHANGED <<sector, key, certificate, uuid, cleared, errors>>

PowerLoss ==
    /\ pc # "off"
    /\ pc' = "off"
    /\ uuid' = None
    /\ cleared' = 0
    /\ UNCHANGED <<sector, key, certificate, errors>>

Init ==
    /\ sector = [s \in Sectors |-> None]
    /\ key = None
    /\ certificate = None
    /\ pc = "off"
    /\ uuid = None
    /\ cleared = 0
    /\ errors = {}

Device ==
    \/ Boot
    \/ SkipProvisioning
    \/ StartProvisioning
    \/ aknano_clear_flash_sector
    \/ aknano_save_uuid_and_serial
    \/ Generated
    \/ StoreKey
    \/ StoreCertificate
    \/ ProvisioningFails
    \/ aknano_init_settings
    \/ Save

Next == Device \/ PowerLoss

Spec == Init /\ [][Next]_vars

\* The task runs while it has power.
FairSpec == Spec /\ WF_vars(Device)

-----------------------------------------------------------------------------
(* Properties.                                                             *)

TypeOK ==
    /\ sector \in [Sectors -> IdOrNone \cup {Corrupt}]
    /\ key \in IdOrNone /\ certificate \in IdOrNone
    /\ pc \in {"off", "init", "clear", "generate", "store_key",
               "store_certificate", "settings", "running"}
    /\ uuid \in IdOrNone \cup {Corrupt}
    /\ cleared \in 0 .. AKNANO_FLASH_SECTORS_COUNT
    /\ errors \subseteq Kinds

Complete == certificate # None /\ key = certificate /\ sector[0] = certificate

\* Wherever power was lost and whichever step of provisioning failed, a device
\* that has a certificate runs under the identity the certificate and the key
\* were made for.  Holds as long as driver and PKCS#11 calls do what they say.
IdentityMatchesCertificate ==
    pc = "running" /\ errors = {} /\ certificate # None
        => uuid = certificate /\ key = certificate

\* A complete device is never provisioned again, which would erase its settings
\* and its TUF root, as long as the certificate is read back.
ProvisionedForGood ==
    [][Complete /\ "certificate_read" \notin errors'
          => /\ Complete'
             /\ \A s \in Sectors : sector[s] # None => sector'[s] # None]_vars

\* No settings or TUF metadata of an earlier identity are left for the next one,
\* wherever clearing them was interrupted.
NothingInherited ==
    pc = "running" /\ "erase" \notin errors
        => \A s \in Sectors \ {0} : sector[s] \in {None, certificate}

\* If the device is switched on again and again, and no step fails for ever, it
\* ends up with an identity and its certificate: every interruption is repaired.
ProvisioningIsRepaired ==
    ( /\ [](errors = {})
      /\ []<>(pc = "off") /\ []<>(pc = "running")
      /\ SF_vars(Generated) /\ SF_vars(StoreKey) /\ SF_vars(StoreCertificate) )
        => <>[]Complete
=============================================================================

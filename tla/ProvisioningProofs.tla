------------------------- MODULE ProvisioningProofs -------------------------
(***************************************************************************)
(* Provisioning never leaves a device with the certificate of another      *)
(* identity or with its data, and never makes a complete device again, for *)
(* any number of identities and sectors.                                   *)
(***************************************************************************)
EXTENDS Provisioning, TLAPS

Making == {"clear", "generate", "store_key", "store_certificate"}

\* As long as calls do what they say, a certificate is only there when the
\* identity and the key it was made for are, and a device in the course of
\* being provisioned has none.
Consistent ==
    /\ certificate # None => Complete
    /\ pc \in Making => certificate = None
    /\ pc \in {"off", "init"} => cleared = 0
    /\ pc = "clear" /\ cleared > 0 => sector[0] = None
    /\ pc \in Making \ {"clear"} => sector[0] = uuid
    /\ pc = "store_certificate" => key = uuid
    /\ pc = "running" => uuid = sector[0]

\* Once a sector has been gone through there is nothing of another identity in
\* it, and the certificate is only replaced when all of them have.
Cleared ==
    /\ pc \in {"off", "init"} => cleared = 0
    /\ \A s \in Sectors \ {0} :
          /\ sector[s] \in {None, certificate}
          /\ pc = "clear" /\ s < cleared => sector[s] = None
          /\ pc \in Making \ {"clear"} => sector[s] = None

\* While a device is being provisioned it is not complete, and what it is being
\* given is new.
BeingMade ==
    pc \in Making =>
        /\ certificate # uuid
        /\ certificate # None => sector[0] \in {None, uuid, Corrupt}

\* What is being made is made for a real identity.
TypeInv == TypeOK /\ (pc \in Making => uuid \in Ids)

IInv ==
    /\ TypeInv
    /\ errors = {} => Consistent
    /\ "erase" \notin errors => Cleared
    /\ "certificate_read" \notin errors => BeingMade

\* Every variable has its type at first.
LEMMA TypeInit == Init => TypeInv
  BY CountAssumption DEF Init, TypeInv, TypeOK, Making, Sectors, IdOrNone

\* Every step keeps the types.
LEMMA TypeStep == TypeInv /\ [Next]_vars => TypeInv'
<1> SUFFICES ASSUME TypeInv, [Next]_vars
             PROVE  TypeInv'
  OBVIOUS
<1> USE CountAssumption
    DEF TypeInv, TypeOK, Making, Sectors, IdOrNone, Kinds
<1>1. CASE Boot
  BY <1>1 DEF Boot
<1>2. CASE SkipProvisioning
  BY <1>2 DEF SkipProvisioning, Checked, is_valid_certificate_available
<1>3. CASE StartProvisioning
  BY <1>3 DEF StartProvisioning, Checked, is_valid_certificate_available
<1>4. CASE aknano_clear_flash_sector
  <2>1. cleared + 1 \in 0 .. AKNANO_FLASH_SECTORS_COUNT
    BY <1>4 DEF aknano_clear_flash_sector, MoreSectors
  <2> QED
    BY <1>4, <2>1 DEF aknano_clear_flash_sector
<1>5. CASE aknano_save_uuid_and_serial
  BY <1>5 DEF aknano_save_uuid_and_serial
<1>6. CASE Generated
  BY <1>6 DEF Generated
<1>7. CASE StoreKey
  BY <1>7 DEF StoreKey
<1>8. CASE StoreCertificate
  BY <1>8 DEF StoreCertificate
<1>9. CASE ProvisioningFails
  BY <1>9 DEF ProvisioningFails
<1>10. CASE aknano_init_settings
  BY <1>10 DEF aknano_init_settings
<1>11. CASE Save
  BY <1>11 DEF Save
<1>12. CASE PowerLoss
  BY <1>12 DEF PowerLoss
<1>13. CASE UNCHANGED vars
  BY <1>13 DEF vars
<1> QED
  BY <1>1, <1>2, <1>3, <1>4, <1>5, <1>6, <1>7, <1>8, <1>9, <1>10, <1>11,
     <1>12, <1>13 DEF Next, Device

\* errors only grows, so that a step that ends without errors began without.
LEMMA ErrorsGrow == [Next]_vars => errors \subseteq errors'
  BY DEF Next, Device, vars, Boot, SkipProvisioning, StartProvisioning, Checked,
         is_valid_certificate_available, aknano_clear_flash_sector,
         aknano_save_uuid_and_serial, Generated, StoreKey, StoreCertificate,
         ProvisioningFails, aknano_init_settings, Save, PowerLoss

\* A device is only provisioned while it has no certificate, and the certificate
\* comes last: both are what keeps the three stores consistent.
LEMMA ConsistentStep ==
    ASSUME TypeInv, TypeInv', Consistent, [Next]_vars, errors = {}, errors' = {}
    PROVE  Consistent'
<1> USE CountAssumption
    DEF TypeInv, TypeOK, Making, Sectors, Consistent, Complete
<1>1. CASE Boot
  BY <1>1 DEF Boot
<1>2. CASE SkipProvisioning
  BY <1>2 DEF SkipProvisioning, Checked, is_valid_certificate_available
<1>3. CASE StartProvisioning
  <2>1. is_device_serial_set => certificate = None
    BY <1>3 DEF StartProvisioning, Checked, Incomplete,
                is_valid_certificate_available
  <2>2. certificate = None
    BY <2>1, IdsAssumption DEF is_device_serial_set, IdOrNone
  <2> QED
    BY <1>3, <2>2 DEF StartProvisioning
<1>4. CASE aknano_clear_flash_sector
  BY <1>4 DEF aknano_clear_flash_sector, MoreSectors
<1>5. CASE aknano_save_uuid_and_serial
  BY <1>5 DEF aknano_save_uuid_and_serial, MoreSectors
<1>6. CASE Generated
  BY <1>6 DEF Generated
<1>7. CASE StoreKey
  BY <1>7 DEF StoreKey
<1>8. CASE StoreCertificate
  BY <1>8 DEF StoreCertificate
<1>9. CASE ProvisioningFails
  BY <1>9 DEF ProvisioningFails
<1>10. CASE aknano_init_settings
  BY <1>10 DEF aknano_init_settings
<1>11. CASE Save
  BY <1>11 DEF Save
<1>12. CASE PowerLoss
  BY <1>12 DEF PowerLoss
<1>13. CASE UNCHANGED vars
  BY <1>13 DEF vars
<1> QED
  BY <1>1, <1>2, <1>3, <1>4, <1>5, <1>6, <1>7, <1>8, <1>9, <1>10, <1>11,
     <1>12, <1>13 DEF Next, Device

\* Provisioning goes through every sector before it stores a certificate.
LEMMA ClearedStep ==
    ASSUME TypeInv, TypeInv', Cleared, [Next]_vars, "erase" \notin errors'
    PROVE  Cleared'
<1> USE CountAssumption DEF TypeInv, TypeOK, Making, Sectors, Cleared
<1>1. CASE Boot
  BY <1>1 DEF Boot
<1>2. CASE SkipProvisioning
  BY <1>2 DEF SkipProvisioning
<1>3. CASE StartProvisioning
  BY <1>3 DEF StartProvisioning
<1>4. CASE aknano_clear_flash_sector
  <2>1. sector' = [sector EXCEPT ![cleared] = None]
    BY <1>4 DEF aknano_clear_flash_sector
  <2>2. /\ pc = "clear" /\ pc' = "clear" /\ certificate' = certificate
        /\ cleared < AKNANO_FLASH_SECTORS_COUNT /\ cleared' = cleared + 1
    BY <1>4 DEF aknano_clear_flash_sector, MoreSectors
  <2> QED
    BY <2>1, <2>2
<1>5. CASE aknano_save_uuid_and_serial
  <2>1. cleared = AKNANO_FLASH_SECTORS_COUNT
    BY <1>5 DEF aknano_save_uuid_and_serial, MoreSectors
  <2>2. \A s \in Sectors \ {0} : sector'[s] = sector[s]
    BY <1>5 DEF aknano_save_uuid_and_serial
  <2> QED
    BY <1>5, <2>1, <2>2 DEF aknano_save_uuid_and_serial
<1>6. CASE Generated
  BY <1>6 DEF Generated
<1>7. CASE StoreKey
  BY <1>7 DEF StoreKey
<1>8. CASE StoreCertificate
  BY <1>8 DEF StoreCertificate
<1>9. CASE ProvisioningFails
  BY <1>9 DEF ProvisioningFails
<1>10. CASE aknano_init_settings
  BY <1>10 DEF aknano_init_settings
<1>11. CASE Save
  BY <1>11 DEF Save
<1>12. CASE PowerLoss
  BY <1>12 DEF PowerLoss
<1>13. CASE UNCHANGED vars
  BY <1>13 DEF vars
<1> QED
  BY <1>1, <1>2, <1>3, <1>4, <1>5, <1>6, <1>7, <1>8, <1>9, <1>10, <1>11,
     <1>12, <1>13 DEF Next, Device

\* Provisioning begins with a new identity, and not where there is a serial and
\* a certificate that is read back.
LEMMA BeingMadeStep ==
    ASSUME TypeInv, TypeInv', BeingMade, [Next]_vars,
           "certificate_read" \notin errors'
    PROVE  BeingMade'
<1> USE CountAssumption DEF TypeInv, TypeOK, Making, Sectors, BeingMade
<1>1. CASE Boot
  BY <1>1 DEF Boot
<1>2. CASE SkipProvisioning
  BY <1>2 DEF SkipProvisioning
<1>3. CASE StartProvisioning
  <2>1. certificate # None => sector[0] = None
    BY <1>3 DEF StartProvisioning, Checked, Incomplete, is_device_serial_set,
                is_valid_certificate_available
  <2>2. certificate' = certificate /\ sector' = sector /\ uuid' # certificate
    BY <1>3 DEF StartProvisioning, InUse
  <2> QED
    BY <2>1, <2>2
<1>4. CASE aknano_clear_flash_sector
  BY <1>4 DEF aknano_clear_flash_sector, MoreSectors
<1>5. CASE aknano_save_uuid_and_serial
  BY <1>5 DEF aknano_save_uuid_and_serial, MoreSectors
<1>6. CASE Generated
  BY <1>6 DEF Generated
<1>7. CASE StoreKey
  BY <1>7 DEF StoreKey
<1>8. CASE StoreCertificate
  BY <1>8 DEF StoreCertificate
<1>9. CASE ProvisioningFails
  BY <1>9 DEF ProvisioningFails
<1>10. CASE aknano_init_settings
  BY <1>10 DEF aknano_init_settings
<1>11. CASE Save
  BY <1>11 DEF Save
<1>12. CASE PowerLoss
  BY <1>12 DEF PowerLoss
<1>13. CASE UNCHANGED vars
  BY <1>13 DEF vars
<1> QED
  BY <1>1, <1>2, <1>3, <1>4, <1>5, <1>6, <1>7, <1>8, <1>9, <1>10, <1>11,
     <1>12, <1>13 DEF Next, Device

\* The inductive invariant holds in every reachable state.
LEMMA Invariant == Spec => []IInv
<1>1. Init => IInv
  BY TypeInit DEF Init, IInv, Consistent, Cleared, BeingMade, Making
<1>2. IInv /\ [Next]_vars => IInv'
  BY TypeStep, ErrorsGrow, ConsistentStep, ClearedStep, BeingMadeStep DEF IInv
<1> QED
  BY <1>1, <1>2, PTL DEF Spec

\* Every variable keeps its type, whatever is interrupted and whatever fails.
THEOREM TypeCorrect == Spec => []TypeOK
  BY Invariant, PTL DEF IInv, TypeInv

\* A device that has a certificate runs under the identity it was made for.
THEOREM IdentityMatches == Spec => []IdentityMatchesCertificate
<1>1. IInv => IdentityMatchesCertificate
  BY DEF IInv, Consistent, Complete, IdentityMatchesCertificate
<1> QED
  BY <1>1, Invariant, PTL

\* No settings or TUF metadata of an earlier identity are left for the next one,
\* wherever clearing them was interrupted.
THEOREM NothingLeft == Spec => []NothingInherited
<1>1. IInv => NothingInherited
  BY DEF IInv, Cleared, NothingInherited
<1> QED
  BY <1>1, Invariant, PTL

\* A complete device is neither provisioned again nor cleared, whatever fails
\* except reading the certificate.
THEOREM MadeForGood == Spec => ProvisionedForGood
<1> DEFINE Kept == Complete' /\ \A s \in Sectors :
                                    sector[s] # None => sector'[s] # None
<1>1. ASSUME IInv, [Next]_vars, Complete, "certificate_read" \notin errors'
      PROVE  Kept
  <2>1. TypeInv /\ BeingMade
    BY <1>1, ErrorsGrow DEF IInv
  <2>2. certificate \in Ids /\ sector[0] = certificate /\ key = certificate
    BY <1>1, <2>1 DEF TypeInv, TypeOK, IdOrNone, Complete
  <2>3. pc \notin Making
    BY <2>1, <2>2, IdsAssumption DEF BeingMade
  <2>4. CASE Save
    <3>1. PICK t \in Sectors \ {0} :
              sector' = [sector EXCEPT ![t] = certificate]
      BY <2>4 DEF Save
    <3>2. certificate # None /\ UNCHANGED <<key, certificate>>
      BY <2>4 DEF Save
    <3> QED
      BY <2>1, <2>2, <3>1, <3>2, CountAssumption
         DEF TypeInv, TypeOK, Complete, Sectors
  <2>5. CASE UNCHANGED <<sector, key, certificate>>
    BY <1>1, <2>5 DEF Complete
  <2>6. Save \/ UNCHANGED <<sector, key, certificate>>
    BY <1>1, <2>3 DEF Next, Device, vars, Making, Boot, SkipProvisioning,
           StartProvisioning, aknano_clear_flash_sector,
           aknano_save_uuid_and_serial, Generated, StoreKey, StoreCertificate,
           ProvisioningFails, aknano_init_settings, PowerLoss
  <2> QED
    BY <2>4, <2>5, <2>6
<1>2. IInv /\ [Next]_vars
          => [Complete /\ "certificate_read" \notin errors' => Kept]_vars
  BY <1>1
<1> QED
  BY <1>2, Invariant, PTL DEF Spec, ProvisionedForGood

-----------------------------------------------------------------------------
(* The safety half of ProvisioningIsRepaired.                              *)

\* How many steps there are left until the device runs, at most.
StepsLeft ==
    CASE pc = "off"               -> AKNANO_FLASH_SECTORS_COUNT + 7
      [] pc = "init"              -> AKNANO_FLASH_SECTORS_COUNT + 6
      [] pc = "clear"             -> AKNANO_FLASH_SECTORS_COUNT - cleared + 5
      [] pc = "generate"          -> 4
      [] pc = "store_key"         -> 3
      [] pc = "store_certificate" -> 2
      [] pc = "settings"          -> 1
      [] OTHER                    -> 0

\* Whatever is found, and whatever fails, the start-up comes to an end: every step
\* of the device brings it nearer.
THEOREM StartUpEnds ==
    Spec => [][Device /\ pc # "running"
                  => /\ StepsLeft' < StepsLeft
                     /\ StepsLeft \in 0 .. AKNANO_FLASH_SECTORS_COUNT + 7]_vars
<1> DEFINE Nearer == Device /\ pc # "running"
                         => /\ StepsLeft' < StepsLeft
                            /\ StepsLeft \in 0 .. AKNANO_FLASH_SECTORS_COUNT + 7
<1>1. ASSUME IInv, Device, pc # "running" PROVE Nearer
  <2>1. PICK count \in Nat, n \in Nat :
            count = AKNANO_FLASH_SECTORS_COUNT /\ n = cleared /\ n =< count
    BY <1>1, CountAssumption DEF IInv, TypeInv, TypeOK
  <2>2. StepsLeft \in 0 .. AKNANO_FLASH_SECTORS_COUNT + 7
    BY <2>1 DEF StepsLeft
  <2>3. CASE aknano_clear_flash_sector
    <3>1. pc = "clear" /\ pc' = "clear" /\ cleared' = n + 1
      BY <2>1, <2>3 DEF aknano_clear_flash_sector
    <3> QED
      BY <2>1, <2>2, <3>1 DEF StepsLeft
  <2>4. CASE StartProvisioning
    <3>1. pc = "init" /\ pc' = "clear" /\ cleared' = n
      BY <2>1, <2>4 DEF StartProvisioning
    <3> QED
      BY <2>1, <2>2, <3>1 DEF StepsLeft
  <2>5. CASE aknano_save_uuid_and_serial
    <3>1. pc = "clear" /\ pc' = "generate"
      BY <2>5 DEF aknano_save_uuid_and_serial
    <3> QED
      BY <2>1, <2>2, <3>1 DEF StepsLeft
  <2>6. CASE \/ Boot \/ SkipProvisioning \/ Generated \/ StoreKey
             \/ StoreCertificate \/ ProvisioningFails \/ aknano_init_settings
    <3>1. \/ pc = "off" /\ pc' = "init"
          \/ pc = "init" /\ pc' = "settings"
          \/ pc = "generate" /\ pc' \in {"store_key", "settings"}
          \/ pc = "store_key" /\ pc' \in {"store_certificate", "settings"}
          \/ pc = "store_certificate" /\ pc' = "settings"
          \/ pc = "settings" /\ pc' = "running"
      BY <2>6 DEF Boot, SkipProvisioning, Generated, StoreKey,
                  StoreCertificate, ProvisioningFails, aknano_init_settings
    <3> QED
      BY <2>1, <2>2, <3>1 DEF StepsLeft
  <2> QED
    BY <1>1, <2>3, <2>4, <2>5, <2>6 DEF Device, Save
<1>2. IInv /\ [Next]_vars => [Nearer]_vars
  BY <1>1
<1> QED
  BY <1>2, Invariant, PTL DEF Spec

\* A start-up in which no call does other than it says, from whatever an
\* interruption left, either ends with a complete device or saw a step of the
\* provisioning fail: nothing incomplete is ever taken for complete.
THEOREM RepairedUnlessFailed ==
    Spec => [][pc # "settings" /\ pc' = "settings" /\ errors' = {}
                  => Complete' \/ ProvisioningFails]_vars
<1> DEFINE Repaired == pc # "settings" /\ pc' = "settings" /\ errors' = {}
                           => Complete' \/ ProvisioningFails
<1>1. ASSUME IInv, Next, pc # "settings", pc' = "settings", errors' = {},
             ~ProvisioningFails
      PROVE  Complete'
  <2>1. TypeInv /\ Consistent
    BY <1>1, ErrorsGrow DEF IInv
  <2>2. SkipProvisioning \/ StoreCertificate
    BY <1>1 DEF Next, Device, Boot, StartProvisioning,
           aknano_clear_flash_sector, aknano_save_uuid_and_serial, Generated,
           StoreKey, aknano_init_settings, Save, PowerLoss
  <2>3. CASE SkipProvisioning
    <3>1. certificate # None
      BY <1>1, <2>3 DEF SkipProvisioning, Checked, Incomplete,
                        is_valid_certificate_available
    <3> QED
      BY <2>1, <2>3, <3>1 DEF SkipProvisioning, Consistent, Complete
  <2>4. CASE StoreCertificate
    <3>1. uuid # None
      BY <2>1, <2>4, IdsAssumption DEF StoreCertificate, TypeInv, Making
    <3> QED
      BY <2>1, <2>4, <3>1 DEF StoreCertificate, Consistent, Complete, Making
  <2> QED
    BY <2>2, <2>3, <2>4
<1>2. IInv /\ [Next]_vars => [Repaired]_vars
  BY <1>1
<1> QED
  BY <1>2, Invariant, PTL DEF Spec
=============================================================================

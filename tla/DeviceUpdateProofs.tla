------------------------- MODULE DeviceUpdateProofs -------------------------
(***************************************************************************)
(* Theorems about DeviceUpdate, for every set of versions, every set of    *)
(* broken firmware, every offline limit and, where it is not stated        *)
(* otherwise, every combination of faults.                                 *)
(***************************************************************************)
EXTENDS DeviceUpdate, TLAPS

-----------------------------------------------------------------------------
(* Type correctness.                                                       *)

LEMMA MaxVersionIsNat == MaxVersion \in Nat
BY SMT DEF MaxVersion

USE VersionsAssumption, FactoryAssumption, BrokenAssumption, OfflineAssumption
DEF VersionsAssumption, FactoryAssumption, BrokenAssumption, OfflineAssumption

LEMMA VersionIsNat == ASSUME NEW v \in VersionOrNone
                      PROVE  v \in Nat /\ v =< MaxVersion
BY MaxVersionIsNat DEF VersionOrNone

LEMMA SaneIsVersion ==
    ASSUME NEW v \in VersionOrNone \cup {ErasedWord}
    PROVE  Sane(v) \in VersionOrNone
BY VersionIsNat, MaxVersionIsNat DEF Sane, VersionOrNone, ErasedWord

LEMMA ReadBackIsNat == ASSUME NEW c \in Int PROVE ReadBack(c) \in Nat
<1>1. c % 65536 \in 0 .. 65535
  BY SMTT(30)
<1> QED
  BY <1>1, SMT DEF ReadBack

\* What the settings sector holds can always be read back.
LEMMA FlashIsReadable ==
    ASSUME flash \in Persisted \cup {Erased}
    PROVE  /\ flash.last_applied_version \in VersionOrNone \cup {ErasedWord}
           /\ flash.last_confirmed_version \in VersionOrNone \cup {ErasedWord}
           /\ flash.cor_id \in VersionOrNone \cup {ErasedWord}
           /\ flash.rollback_retry_count \in Int
BY DEF Persisted, Erased, ErasedWord

LEMMA NoneIsVersion == 0 \in VersionOrNone
BY DEF VersionOrNone

LEMMA ClearedIsPersisted == Cleared \in Persisted
BY DEF Cleared, Persisted, VersionOrNone

LEMMA InitTypeOK == Init => TypeOK
<1> SUFFICES ASSUME Init PROVE TypeOK
  OBVIOUS
<1>1. slot \in [Slots -> VersionOrNone]
  BY DEF Init, Slots, VersionOrNone
<1>2. 0 \in VersionOrNone /\ uptime \in 0 .. OfflineLimit + 1
  BY DEF Init, VersionOrNone
<1>3. validated \subseteq VersionOrNone
  BY DEF Init, VersionOrNone
<1> QED
  BY <1>1, <1>2, <1>3, ClearedIsPersisted
  DEF Init, TypeOK, Slots, SwapTypes, Steps

LEMMA ResetTypeOK == ASSUME TypeOK, ResetRam, pc' = "off",
                            UNCHANGED <<stored, offered, observed>>
                     PROVE  TypeOK'
<1>1. 0 \in VersionOrNone /\ 0 \in 0 .. OfflineLimit + 1
  BY DEF VersionOrNone
<1> QED
  BY <1>1, ClearedIsPersisted
  DEF TypeOK, ResetRam, Steps, Slots, stored, observed

LEMMA OtherSlot == ASSUME NEW s \in Slots PROVE 3 - s \in Slots /\ 3 - s # s
BY DEF Slots

LEMMA TypeStep == TypeOK /\ [Next]_vars => TypeOK'
<1> SUFFICES ASSUME TypeOK, [Next]_vars PROVE TypeOK'
  OBVIOUS
<1> USE DEF stored, boot, loop, observed, Steps
<1>1. CASE Boot
  <2>1. CASE BootPlain
    BY <2>1 DEF BootPlain, TypeOK
  <2>2. 3 - active \in Slots /\ slot[3 - active] \in VersionOrNone
    BY OtherSlot DEF TypeOK
  <2>3. CASE BootTrial
    BY <2>2, <2>3 DEF BootTrial, TypeOK, SwapTypes
  <2>4. CASE BootRevert
    BY <2>2, <2>4 DEF BootRevert, TypeOK, SwapTypes
  <2> QED
    BY <1>1, <2>1, <2>3, <2>4 DEF Boot
<1>2. CASE aknano_init
  <2>1. settings' \in Persisted
    BY <1>2, FlashIsReadable, SaneIsVersion, ReadBackIsNat
    DEF aknano_init, aknano_init_settings, TypeOK, Persisted
  <2>2. running_version' \in VersionOrNone /\ image_position' \in Slots
    BY <1>2 DEF aknano_init, aknano_init_settings, TypeOK
  <2>3. is_running_rolled_back_image' \in BOOLEAN
    BY <1>2 DEF aknano_init, aknano_init_settings
  <2> QED
    BY <1>2, <2>1, <2>2, <2>3 DEF aknano_init, TypeOK
<1>3. CASE aknano_set_application_self_test_ok
  BY <1>3 DEF aknano_set_application_self_test_ok, TypeOK
<1>4. CASE Checkin
  <2>1. CASE CheckinFails
    BY <2>1 DEF CheckinFails, TypeOK
  <2>2. CASE CheckinRefreshes
    <3>1. validated' \subseteq VersionOrNone
      BY <2>2 DEF CheckinRefreshes, TypeOK
    <3> QED
      BY <2>2, <3>1 DEF CheckinRefreshes, TypeOK
  <2> QED
    BY <1>4, <2>1, <2>2 DEF Checkin
<1>5. CASE aknano_set_image_confirmed
  <2>1. /\ failed' \in VersionOrNone
        /\ rollback_event' \in {"none", "delivered", "lost"}
    BY <1>5, NoneIsVersion
    DEF aknano_set_image_confirmed, MarkPermanent, Supersede, TypeOK
  <2>2. swap' \in SwapTypes /\ is_image_permanent' \in BOOLEAN
    BY <1>5 DEF aknano_set_image_confirmed, MarkPermanent, TypeOK, SwapTypes
  <2> QED
    BY <1>5, <2>1, <2>2 DEF aknano_set_image_confirmed, TypeOK
<1>6. CASE aknano_send_installation_finished_event
  BY <1>6 DEF aknano_send_installation_finished_event, TypeOK
<1>7. CASE ReportCompleted
  <2>1. settings' \in Persisted
    BY <1>7 DEF ReportCompleted, AfterReport, TypeOK, Persisted, VersionOrNone
  <2>2. rollback_event' \in {"none", "delivered", "lost"}
    BY <1>7 DEF ReportCompleted, TypeOK
  <2> QED
    BY <1>7, <2>1, <2>2 DEF ReportCompleted, TypeOK
<1>8. CASE Save
  BY <1>8 DEF Save, EraseSettings, ProgramSettings, SaveFails, TypeOK
<1>9. CASE Decide
  BY <1>9 DEF Decide, DecideUpdate, DecideNothing, TypeOK
<1>10. CASE Install
  <2> USE DEF Persisted
  <2>1. CASE StartInstall
    BY <2>1 DEF StartInstall, TypeOK, VersionOrNone
  <2>2. CASE DownloadSucceeds
    <3>1. settings' \in Persisted
      BY <2>2 DEF DownloadSucceeds, TypeOK
    <3>2. /\ failed' \in VersionOrNone
          /\ rollback_event' \in {"none", "delivered", "lost"}
      BY <2>2, NoneIsVersion DEF DownloadSucceeds, Supersede, TypeOK
    <3>3. slot' \in [Slots -> VersionOrNone]
      BY <2>2 DEF DownloadSucceeds, TypeOK
    <3> QED
      BY <2>2, <3>1, <3>2, <3>3 DEF DownloadSucceeds, TypeOK
  <2>3. CASE DownloadFails
    BY <2>3 DEF DownloadFails, TypeOK
  <2> QED
    BY <1>10, <2>1, <2>2, <2>3 DEF Install
<1>11. CASE Request
  <2>1. CASE ReadyAccepted
    BY <2>1 DEF ReadyAccepted, TypeOK, SwapTypes, Persisted
  <2>2. CASE ReadyRefused
    BY <2>2 DEF ReadyRefused, TypeOK
  <2> QED
    BY <1>11, <2>1, <2>2 DEF Request
<1>12. CASE Watchdog
  BY <1>12 DEF Watchdog, TypeOK
<1>13. CASE Sleep
  BY <1>13 DEF Sleep, Later, TypeOK, VersionOrNone
<1>14. CASE aknano_reboot_command
  BY <1>14, ResetTypeOK DEF aknano_reboot_command
<1>15. CASE PowerLoss
  BY <1>15, ResetTypeOK DEF PowerLoss
<1>16. CASE Publish
  BY <1>16 DEF Publish, TypeOK
<1>17. CASE UNCHANGED vars
  BY <1>17 DEF vars, TypeOK
<1> QED
  BY <1>1, <1>2, <1>3, <1>4, <1>5, <1>6, <1>7, <1>8, <1>9, <1>10, <1>11,
     <1>12, <1>13, <1>14, <1>15, <1>16, <1>17 DEF Next, Device

\* Every variable keeps its type; in particular what aknano_init_settings reads
\* back from a blank, torn or complete settings sector is always usable.
THEOREM TypeCorrect == Spec => []TypeOK
BY InitTypeOK, TypeStep, PTL DEF Spec

-----------------------------------------------------------------------------
(* The inductive invariant behind the promises about trials.  It needs     *)
(* bl_update_image_state(kSwapType_Permanent) not to fail.                 *)

Awake == pc \notin {"off", "init"}

\* The settings describe the image that is executing.
SettingsFresh ==
    Awake => image_position = active /\ running_version = slot[active]

\* The loop is only entered after the self test.
SelfTested ==
    pc \notin {"off", "init", "self_test"} => application_self_test_ok

\* The cached flag never calls a trial permanent.
PermanentFlagSound ==
    /\ Awake /\ is_image_permanent => swap # "Testing"
    /\ pc = "confirm" => slot[active] \in validated

\* From the confirmation to the end of the iteration nothing is on trial.
Confirmed ==
    pc \in {"finished", "report", "erase", "program", "decide", "install",
           "download", "ready"} => swap # "Testing"

\* A staged image is only followed by the save and the reset.
StagedOnlyBeforeReset ==
    swap = "ReadyForTest" =>
        /\ pc \in {"off", "erase", "program", "reboot"}
        /\ pc \in {"erase", "program"} => ret = "reboot"

\* Only newer versions are selected, written and tried.
TrialIsNewer ==
    /\ OnTrial => Candidate > Baseline
    /\ pc \in {"install", "download", "ready"} => selected > running_version
    /\ pc = "ready" => slot[3 - active] = selected

TrialInvariant ==
    /\ TypeOK
    /\ KnownGoodBaseline
    /\ SettingsFresh
    /\ SelfTested
    /\ PermanentFlagSound
    /\ Confirmed
    /\ StagedOnlyBeforeReset
    /\ TrialIsNewer

LEMMA InitTrialInvariant == Init => TrialInvariant
BY InitTypeOK
DEF Init, TrialInvariant, KnownGoodBaseline, SettingsFresh, SelfTested,
    PermanentFlagSound, Confirmed, StagedOnlyBeforeReset, TrialIsNewer,
    Baseline, OnTrial, Awake, Slots

LEMMA TrialStep ==
    ASSUME "confirm" \notin Faults, TrialInvariant, [Next]_vars
    PROVE  TrialInvariant'
<1> USE DEF stored, boot, loop, observed
<1>0. TypeOK /\ TypeOK'
  BY TypeStep DEF TrialInvariant
<1>1. CASE BootPlain
  BY <1>0, <1>1
  DEF BootPlain, TrialInvariant, KnownGoodBaseline, SettingsFresh, SelfTested,
       PermanentFlagSound, Confirmed, StagedOnlyBeforeReset, TrialIsNewer,
       Baseline, Candidate, OnTrial, Awake, TypeOK
<1>2. CASE BootTrial
  BY <1>0, <1>2
  DEF BootTrial, Slots, TrialInvariant, KnownGoodBaseline, SettingsFresh, SelfTested,
       PermanentFlagSound, Confirmed, StagedOnlyBeforeReset, TrialIsNewer,
       Baseline, Candidate, OnTrial, Awake, TypeOK
<1>3. CASE BootRevert
  BY <1>0, <1>3
  DEF BootRevert, Slots, TrialInvariant, KnownGoodBaseline, SettingsFresh, SelfTested,
       PermanentFlagSound, Confirmed, StagedOnlyBeforeReset, TrialIsNewer,
       Baseline, Candidate, OnTrial, Awake, TypeOK
<1>4. CASE aknano_init
  BY <1>0, <1>4
  DEF aknano_init, aknano_init_settings, aknano_is_current_image_permanent, TrialInvariant, KnownGoodBaseline, SettingsFresh, SelfTested,
       PermanentFlagSound, Confirmed, StagedOnlyBeforeReset, TrialIsNewer,
       Baseline, Candidate, OnTrial, Awake, TypeOK
<1>5. CASE aknano_set_application_self_test_ok
  BY <1>0, <1>5
  DEF aknano_set_application_self_test_ok, TrialInvariant, KnownGoodBaseline, SettingsFresh, SelfTested,
       PermanentFlagSound, Confirmed, StagedOnlyBeforeReset, TrialIsNewer,
       Baseline, Candidate, OnTrial, Awake, TypeOK
<1>6. CASE CheckinFails
  BY <1>0, <1>6
  DEF CheckinFails, TrialInvariant, KnownGoodBaseline, SettingsFresh, SelfTested,
       PermanentFlagSound, Confirmed, StagedOnlyBeforeReset, TrialIsNewer,
       Baseline, Candidate, OnTrial, Awake, TypeOK
<1>7. CASE CheckinRefreshes
  BY <1>0, <1>7
  DEF CheckinRefreshes, TrialInvariant, KnownGoodBaseline, SettingsFresh, SelfTested,
       PermanentFlagSound, Confirmed, StagedOnlyBeforeReset, TrialIsNewer,
       Baseline, Candidate, OnTrial, Awake, TypeOK
<1>8. CASE aknano_set_image_confirmed
  BY <1>0, <1>8
  DEF aknano_set_image_confirmed, MarkPermanent, TrialInvariant, KnownGoodBaseline, SettingsFresh, SelfTested,
       PermanentFlagSound, Confirmed, StagedOnlyBeforeReset, TrialIsNewer,
       Baseline, Candidate, OnTrial, Awake, TypeOK
<1>9. CASE aknano_send_installation_finished_event
  BY <1>0, <1>9
  DEF aknano_send_installation_finished_event, TrialInvariant, KnownGoodBaseline, SettingsFresh, SelfTested,
       PermanentFlagSound, Confirmed, StagedOnlyBeforeReset, TrialIsNewer,
       Baseline, Candidate, OnTrial, Awake, TypeOK
<1>10. CASE ReportCompleted
  BY <1>0, <1>10
  DEF ReportCompleted, TrialInvariant, KnownGoodBaseline, SettingsFresh, SelfTested,
       PermanentFlagSound, Confirmed, StagedOnlyBeforeReset, TrialIsNewer,
       Baseline, Candidate, OnTrial, Awake, TypeOK
<1>11. CASE EraseSettings
  BY <1>0, <1>11
  DEF EraseSettings, TrialInvariant, KnownGoodBaseline, SettingsFresh, SelfTested,
       PermanentFlagSound, Confirmed, StagedOnlyBeforeReset, TrialIsNewer,
       Baseline, Candidate, OnTrial, Awake, TypeOK
<1>12. CASE ProgramSettings
  BY <1>0, <1>12
  DEF ProgramSettings, TrialInvariant, KnownGoodBaseline, SettingsFresh, SelfTested,
       PermanentFlagSound, Confirmed, StagedOnlyBeforeReset, TrialIsNewer,
       Baseline, Candidate, OnTrial, Awake, TypeOK
<1>13. CASE SaveFails
  BY <1>0, <1>13
  DEF SaveFails, TrialInvariant, KnownGoodBaseline, SettingsFresh, SelfTested,
       PermanentFlagSound, Confirmed, StagedOnlyBeforeReset, TrialIsNewer,
       Baseline, Candidate, OnTrial, Awake, TypeOK
<1>14. CASE DecideUpdate
  BY <1>0, <1>14
  DEF DecideUpdate, UpdateRequired, TrialInvariant, KnownGoodBaseline, SettingsFresh, SelfTested,
       PermanentFlagSound, Confirmed, StagedOnlyBeforeReset, TrialIsNewer,
       Baseline, Candidate, OnTrial, Awake, TypeOK
<1>15. CASE DecideNothing
  BY <1>0, <1>15
  DEF DecideNothing, TrialInvariant, KnownGoodBaseline, SettingsFresh, SelfTested,
       PermanentFlagSound, Confirmed, StagedOnlyBeforeReset, TrialIsNewer,
       Baseline, Candidate, OnTrial, Awake, TypeOK
<1>16. CASE StartInstall
  BY <1>0, <1>16
  DEF StartInstall, aknano_get_target_slot_address, Slots, TrialInvariant, KnownGoodBaseline, SettingsFresh, SelfTested,
       PermanentFlagSound, Confirmed, StagedOnlyBeforeReset, TrialIsNewer,
       Baseline, Candidate, OnTrial, Awake, TypeOK
<1>17. CASE DownloadSucceeds
  BY <1>0, <1>17
  DEF DownloadSucceeds, aknano_get_target_slot_address, Slots, TrialInvariant, KnownGoodBaseline, SettingsFresh, SelfTested,
       PermanentFlagSound, Confirmed, StagedOnlyBeforeReset, TrialIsNewer,
       Baseline, Candidate, OnTrial, Awake, TypeOK
<1>18. CASE DownloadFails
  BY <1>0, <1>18
  DEF DownloadFails, TrialInvariant, KnownGoodBaseline, SettingsFresh, SelfTested,
       PermanentFlagSound, Confirmed, StagedOnlyBeforeReset, TrialIsNewer,
       Baseline, Candidate, OnTrial, Awake, TypeOK
<1>19. CASE ReadyAccepted
  BY <1>0, <1>19
  DEF ReadyAccepted, Slots, TrialInvariant, KnownGoodBaseline, SettingsFresh, SelfTested,
       PermanentFlagSound, Confirmed, StagedOnlyBeforeReset, TrialIsNewer,
       Baseline, Candidate, OnTrial, Awake, TypeOK
<1>20. CASE ReadyRefused
  BY <1>0, <1>20
  DEF ReadyRefused, TrialInvariant, KnownGoodBaseline, SettingsFresh, SelfTested,
       PermanentFlagSound, Confirmed, StagedOnlyBeforeReset, TrialIsNewer,
       Baseline, Candidate, OnTrial, Awake, TypeOK
<1>21. CASE Watchdog
  BY <1>0, <1>21
  DEF Watchdog, TrialInvariant, KnownGoodBaseline, SettingsFresh, SelfTested,
       PermanentFlagSound, Confirmed, StagedOnlyBeforeReset, TrialIsNewer,
       Baseline, Candidate, OnTrial, Awake, TypeOK
<1>22. CASE Sleep
  BY <1>0, <1>22
  DEF Sleep, TrialInvariant, KnownGoodBaseline, SettingsFresh, SelfTested,
       PermanentFlagSound, Confirmed, StagedOnlyBeforeReset, TrialIsNewer,
       Baseline, Candidate, OnTrial, Awake, TypeOK
<1>23. CASE aknano_reboot_command
  BY <1>0, <1>23
  DEF aknano_reboot_command, ResetRam, TrialInvariant, KnownGoodBaseline, SettingsFresh, SelfTested,
       PermanentFlagSound, Confirmed, StagedOnlyBeforeReset, TrialIsNewer,
       Baseline, Candidate, OnTrial, Awake, TypeOK
<1>24. CASE PowerLoss
  BY <1>0, <1>24
  DEF PowerLoss, ResetRam, TrialInvariant, KnownGoodBaseline, SettingsFresh, SelfTested,
       PermanentFlagSound, Confirmed, StagedOnlyBeforeReset, TrialIsNewer,
       Baseline, Candidate, OnTrial, Awake, TypeOK
<1>25. CASE Publish
  BY <1>0, <1>25
  DEF Publish, TrialInvariant, KnownGoodBaseline, SettingsFresh, SelfTested,
       PermanentFlagSound, Confirmed, StagedOnlyBeforeReset, TrialIsNewer,
       Baseline, Candidate, OnTrial, Awake, TypeOK
<1>26. CASE UNCHANGED vars
  BY <1>0, <1>26 DEF vars, TrialInvariant, KnownGoodBaseline, SettingsFresh, SelfTested,
       PermanentFlagSound, Confirmed, StagedOnlyBeforeReset, TrialIsNewer,
       Baseline, Candidate, OnTrial, Awake, TypeOK
<1> QED
  BY <1>1, <1>2, <1>3, <1>4, <1>5, <1>6, <1>7, <1>8, <1>9, <1>10, <1>11, <1>12, <1>13, <1>14, <1>15, <1>16, <1>17, <1>18, <1>19, <1>20, <1>21, <1>22, <1>23, <1>24, <1>25, <1>26
  DEF Next, Device, Boot, Checkin, Save, Decide, Install, Request

LEMMA TrialInvariantHolds ==
    ASSUME "confirm" \notin Faults
    PROVE  Spec => []TrialInvariant
BY InitTrialInvariant, TrialStep, PTL DEF Spec

\* However power fails, whatever is downloaded and whatever the server offers,
\* the image the device falls back to is complete and has itself completed a
\* TUF refresh, as long as the boot loader honours a request for permanence.
THEOREM KnownGood ==
    ASSUME "confirm" \notin Faults
    PROVE  Spec => []KnownGoodBaseline
BY TrialInvariantHolds, PTL DEF TrialInvariant

\* Under the same condition only a permanent image reports a success.
THEOREM CompletedPermanent ==
    ASSUME "confirm" \notin Faults
    PROVE  Spec => []CompletedMeansPermanent
<1>1. TrialInvariant => CompletedMeansPermanent
  BY DEF TrialInvariant, Confirmed, CompletedMeansPermanent
<1> QED
  BY <1>1, TrialInvariantHolds, PTL

-----------------------------------------------------------------------------
(* Every step is a step of TrialUpdate or invisible to it.                 *)

LEMMA TrialRefinementStep ==
    ASSUME "confirm" \notin Faults, TrialInvariant, [Next]_vars
    PROVE  [Trial!Next]_(Trial!vars)
<1> USE DEF stored, boot, loop, observed, Trial!vars
<1>0. TypeOK
  BY DEF TrialInvariant
<1>1. CASE BootTrial
  <2>1. Trial!StartTrial
    BY <1>0, <1>1
    DEF BootTrial, Trial!StartTrial, Phase, Baseline, Candidate, OnTrial,
        TypeOK, Slots
  <2> QED
    BY <2>1 DEF Trial!Next
<1>2. CASE BootRevert
  <2>1. Trial!Abandon
    BY <1>0, <1>2
    DEF BootRevert, Trial!Abandon, Phase, Baseline, OnTrial, TypeOK, Slots
  <2> QED
    BY <2>1 DEF Trial!Next
<1>3. CASE CheckinRefreshes
  <2>1. swap # "ReadyForTest"
    BY <1>3 DEF CheckinRefreshes, TrialInvariant, StagedOnlyBeforeReset
  <2>2. Trial!Prove
    BY <1>0, <1>3, <2>1
    DEF CheckinRefreshes, Trial!Prove, Phase, Baseline, Candidate, OnTrial,
        TypeOK, SwapTypes
  <2> QED
    BY <2>2 DEF Trial!Next
<1>4. CASE aknano_set_image_confirmed
  <2>1. pc = "confirm" /\ slot[active] \in validated /\ swap # "ReadyForTest"
    BY <1>4 DEF aknano_set_image_confirmed, TrialInvariant, PermanentFlagSound,
                StagedOnlyBeforeReset
  <2>2. CASE MarkPermanent /\ swap = "Testing"
    <3>1. Trial!Promote
      BY <1>0, <1>4, <2>1, <2>2
      DEF aknano_set_image_confirmed, MarkPermanent, Trial!Promote, Phase,
          Baseline, Candidate, OnTrial
    <3> QED
      BY <3>1 DEF Trial!Next
  <2>3. CASE MarkPermanent /\ swap # "Testing"
    BY <1>4, <2>1, <2>3
    DEF aknano_set_image_confirmed, MarkPermanent, Phase, Baseline, OnTrial
  <2>4. CASE UNCHANGED swap
    BY <1>4, <2>4
    DEF aknano_set_image_confirmed, Phase, Baseline, Candidate, OnTrial
  <2> QED
    BY <1>4, <2>2, <2>3, <2>4 DEF aknano_set_image_confirmed
<1>5. CASE StartInstall \/ DownloadSucceeds
  <2>1. image_position = active /\ ~OnTrial
    BY <1>0, <1>5
    DEF StartInstall, DownloadSucceeds, TrialInvariant, SettingsFresh, Awake,
        Confirmed, StagedOnlyBeforeReset, OnTrial
  <2>2. slot'[active] = slot[active]
    BY <1>0, <1>5, <2>1
    DEF StartInstall, DownloadSucceeds, aknano_get_target_slot_address, TypeOK,
        Slots
  <2> QED
    BY <1>5, <2>1, <2>2
    DEF StartInstall, DownloadSucceeds, Phase, Baseline, OnTrial
<1>6. CASE ReadyAccepted
  <2>1. /\ swap \notin {"Testing", "ReadyForTest"}
        /\ slot[3 - active] = selected
        /\ selected > slot[active]
    BY <1>6
    DEF ReadyAccepted, TrialInvariant, Confirmed, StagedOnlyBeforeReset,
        TrialIsNewer, SettingsFresh, Awake
  <2>2. selected \in Versions
    <3>1. slot[active] \in Nat /\ selected \in VersionOrNone
      BY <1>0, VersionIsNat DEF TypeOK
    <3>2. selected # 0
      BY <2>1, <3>1
    <3> QED
      BY <3>1, <3>2 DEF VersionOrNone
  <2>3. Trial!Stage
    BY <1>6, <2>1, <2>2
    DEF ReadyAccepted, Trial!Stage, Phase, Baseline, Candidate, OnTrial
  <2> QED
    BY <2>3 DEF Trial!Next
<1>7. CASE UNCHANGED <<slot, active, swap, validated>>
  BY <1>7 DEF Phase, Baseline, Candidate, OnTrial
<1>8. \/ BootTrial \/ BootRevert \/ CheckinRefreshes
      \/ aknano_set_image_confirmed \/ StartInstall \/ DownloadSucceeds
      \/ ReadyAccepted
      \/ UNCHANGED <<slot, active, swap, validated>>
  BY DEF vars, Next, Device, Boot, BootPlain, aknano_init,
         aknano_set_application_self_test_ok, Checkin, CheckinFails,
         aknano_send_installation_finished_event, ReportCompleted, Save,
         EraseSettings, ProgramSettings, SaveFails, Decide, DecideUpdate,
         DecideNothing, Install, DownloadFails, Request, ReadyRefused,
         Watchdog, Sleep, aknano_reboot_command, PowerLoss, Publish
<1> QED
  BY <1>1, <1>2, <1>3, <1>4, <1>5, <1>6, <1>7, <1>8

\* The client, its settings and the boot loader together implement the
\* abstract trial update (its safety part).
THEOREM RefinesTrialUpdate ==
    ASSUME "confirm" \notin Faults
    PROVE  Spec => Trial!Spec
<1>1. Init => Trial!Init
  BY DEF Init, Trial!Init, Baseline, Phase, OnTrial, Slots
<1> QED
  BY <1>1, TrialInvariantHolds, TrialRefinementStep, PTL DEF Spec, Trial!Spec

\* The version the device relies on never decreases.
THEOREM NeverDowngrades ==
    ASSUME "confirm" \notin Faults
    PROVE  Spec => NoDowngrade
<1>1. ASSUME TrialInvariant, [Next]_vars
      PROVE  Baseline' >= Baseline
  <2>1. Baseline \in Nat /\ Candidate \in Nat
    BY <1>1, OtherSlot, VersionIsNat
    DEF TrialInvariant, TypeOK, Baseline, Candidate
  <2>2. [Trial!Next]_(Trial!vars)
    BY <1>1, TrialRefinementStep
  <2>3. CASE Trial!Promote
    <3>1. OnTrial /\ Baseline' = Candidate
      BY <2>3 DEF Trial!Promote, Phase, OnTrial
    <3> QED
      BY <1>1, <2>1, <3>1 DEF TrialInvariant, TrialIsNewer
  <2>4. CASE Baseline' = Baseline
    BY <2>1, <2>4
  <2>5. Trial!Promote \/ Baseline' = Baseline
    BY <2>2 DEF Trial!Next, Trial!vars, Trial!Stage, Trial!StartTrial,
                Trial!Prove, Trial!Abandon
  <2> QED
    BY <2>3, <2>4, <2>5
<1> QED
  BY <1>1, TrialInvariantHolds, PTL DEF Spec, NoDowngrade

-----------------------------------------------------------------------------
(* The safety half of what ImplementsTrialUpdate promises for the time the *)
(* main task runs: a trial has an end.                                     *)

\* How many steps there are left to a trial, at most, when the network never
\* answers: one check-in, one look at the time and one delay for each interval.
TestingLeft(step, time) ==
    LET waiting == 3 * (OfflineLimit + 1 - time)
    IN  CASE step = "init"      -> waiting + 6
          [] step = "self_test" -> waiting + 5
          [] step = "checkin"   -> waiting + 4
          [] step = "watchdog"  -> waiting + 3
          [] step = "sleep"     -> waiting + 2
          [] step = "confirm"   -> 2
          [] step = "reboot"    -> 2
          [] OTHER              -> 1

StagedLeft(step) ==
    3 * OfflineLimit + (CASE step = "erase"   -> 13
                          [] step = "program" -> 12
                          [] step = "reboot"  -> 11
                          [] OTHER            -> 10)

TrialLeft == IF swap = "Testing" THEN TestingLeft(pc, uptime)
                                   ELSE StagedLeft(pc)

\* No check-in of an image on trial has succeeded, and it only goes on with the
\* next interval before the limit.
StillOffline ==
    /\ pc = "off" \/ swap = "Testing" => ~any_checkin_ok
    /\ swap = "Testing" /\ pc = "sleep" => uptime =< OfflineLimit
    /\ pc \in {"erase", "program"} => ret # "off"

LEMMA OfflineStep ==
    ASSUME TrialInvariant, StillOffline, [Next]_vars
    PROVE  StillOffline'
<1> USE DEF stored, boot, loop, observed, ResetRam
<1>1. CASE Watchdog
  <2>1. OfflineLimit \in Nat /\ uptime \in Nat
    BY OfflineAssumption DEF TrialInvariant, TypeOK
  <2>2. swap = "Testing" => ~is_image_permanent
    BY <1>1 DEF Watchdog, TrialInvariant, PermanentFlagSound, Awake
  <2> QED
    BY <1>1, <2>1, <2>2
    DEF Watchdog, OfflineTooLong, aknano_is_temp_image, StillOffline
<1>2. CASE Decide
  BY <1>2 DEF Decide, DecideUpdate, DecideNothing, TrialInvariant, Confirmed,
              StillOffline
<1>3. CASE aknano_reboot_command \/ PowerLoss \/ Sleep
  BY <1>3 DEF aknano_reboot_command, PowerLoss, Sleep, StillOffline
<1>4. CASE Boot
  BY <1>4 DEF Boot, BootPlain, BootTrial, BootRevert, StillOffline
<1>5. CASE Save
  BY <1>5 DEF Save, EraseSettings, ProgramSettings, SaveFails, StillOffline,
              TrialInvariant, TypeOK, Confirmed
<1>6. CASE aknano_set_image_confirmed
  BY <1>6 DEF aknano_set_image_confirmed, MarkPermanent, StillOffline
<1>7. CASE Request
  BY <1>7 DEF Request, ReadyAccepted, ReadyRefused, StillOffline
<1>8. CASE Checkin \/ Install \/ ReportCompleted
  BY <1>8 DEF Checkin, CheckinFails, CheckinRefreshes, Install, StartInstall,
              DownloadSucceeds, DownloadFails, ReportCompleted, StillOffline
<1>9. CASE \/ aknano_init \/ aknano_set_application_self_test_ok
           \/ aknano_send_installation_finished_event
  BY <1>9 DEF aknano_init, aknano_init_settings,
              aknano_set_application_self_test_ok,
              aknano_send_installation_finished_event, StillOffline
<1>10. CASE Publish \/ UNCHANGED vars
  BY <1>10 DEF Publish, vars, StillOffline
<1> QED
  BY <1>1, <1>2, <1>3, <1>4, <1>5, <1>6, <1>7, <1>8, <1>9, <1>10
  DEF Next, Device

\* Which steps a phase of the main task allows.
LEMMA StepAt ==
    ASSUME Device \/ PowerLoss
    PROVE  /\ pc = "off" => Boot
           /\ pc = "init" => aknano_init \/ PowerLoss
           /\ pc = "self_test" => aknano_set_application_self_test_ok \/ PowerLoss
           /\ pc = "checkin" => Checkin \/ PowerLoss
           /\ pc = "confirm" => aknano_set_image_confirmed \/ PowerLoss
           /\ pc \in {"erase", "program"} => Save \/ PowerLoss
           /\ pc = "watchdog" => Watchdog \/ PowerLoss
           /\ pc = "sleep" => Sleep \/ PowerLoss
           /\ pc = "reboot" => aknano_reboot_command
  BY DEF Device, Boot, BootPlain, BootTrial, BootRevert, aknano_init,
         aknano_set_application_self_test_ok, Checkin, CheckinFails,
         CheckinRefreshes, aknano_set_image_confirmed,
         aknano_send_installation_finished_event, ReportCompleted, Save,
         EraseSettings, ProgramSettings, SaveFails, Decide, DecideUpdate,
         DecideNothing, Install, StartInstall, DownloadSucceeds, DownloadFails,
         Request, ReadyAccepted, ReadyRefused, Watchdog, Sleep,
         aknano_reboot_command, PowerLoss

\* Every step of the device and every loss of power brings the end nearer.
LEMMA TrialNearer ==
    ASSUME "confirm" \notin Faults, TrialInvariant, StillOffline,
           Device \/ PowerLoss, OnTrial, OnTrial'
    PROVE  TrialLeft' < TrialLeft
<1> USE DEF stored, boot, loop, observed
<1>1. PICK limit \in Nat, up \in Nat :
          limit = OfflineLimit /\ up = uptime /\ up =< limit + 1
  BY OfflineAssumption DEF TrialInvariant, TypeOK
<1>2. CASE swap = "ReadyForTest"
  <2>1. /\ pc \in {"off", "erase", "program", "reboot"}
        /\ pc \in {"erase", "program"} => ret = "reboot"
    BY <1>2 DEF TrialInvariant, StagedOnlyBeforeReset
  <2>2. CASE pc = "off"
    <3>1. swap' = "Testing" /\ pc' = "init" /\ uptime' = uptime
      BY <1>2, <2>2, StepAt DEF Boot, BootPlain, BootTrial, BootRevert
    <3> QED
      BY <1>1, <1>2, <2>2, <3>1 DEF TrialLeft, StagedLeft, TestingLeft
  <2>3. CASE pc # "off"
    <3>1. /\ swap' = swap
          /\ \/ pc = "erase" /\ pc' \in {"program", "reboot", "off"}
             \/ pc = "program" /\ pc' \in {"reboot", "off"}
             \/ pc = "reboot" /\ pc' = "off"
      BY <1>2, <2>1, <2>3, StepAt
      DEF Save, EraseSettings, ProgramSettings, SaveFails,
          aknano_reboot_command, PowerLoss
    <3> QED
      BY <1>1, <1>2, <3>1 DEF TrialLeft, StagedLeft
  <2> QED
    BY <2>2, <2>3
<1>3. CASE swap = "Testing"
  <2>1. pc \in {"off", "init", "self_test", "checkin", "confirm", "watchdog",
                "sleep", "reboot"}
    BY <1>3 DEF TrialInvariant, TypeOK, Steps, Confirmed
  <2>2. PICK up2 \in Nat : up2 = uptime' /\ up2 =< limit + 1
    BY <1>1, TypeStep, OfflineAssumption DEF TrialInvariant, TypeOK, Next
  <2>3. /\ pc # "off" /\ swap' = swap
        /\ \/ pc = "init" /\ pc' = "self_test" /\ up2 = up
           \/ pc = "self_test" /\ pc' = "checkin" /\ up2 = up
           \/ pc = "checkin" /\ pc' = "watchdog" /\ up2 >= up
           \/ pc = "checkin" /\ pc' = "confirm"
           \/ pc = "watchdog" /\ pc' \in {"sleep", "reboot"} /\ up2 = up
           \/ pc = "sleep" /\ pc' = "checkin" /\ up2 = up + 1
           \/ pc' = "off"
    <3>1. CASE pc = "off"
      BY <1>3, <3>1, StepAt DEF OnTrial, Boot, BootPlain, BootTrial, BootRevert
    <3>2. CASE pc = "sleep"
      <4>1. up =< limit
        BY <1>1, <1>3, <3>2 DEF StillOffline
      <4> QED
        BY <1>1, <2>2, <3>2, <4>1, StepAt DEF Sleep, Later, PowerLoss
    <3>3. CASE pc = "checkin"
      <4>1. CheckinFails => up2 \in up .. limit + 1
        BY <1>1, <2>2 DEF CheckinFails
      <4>2. CheckinFails => pc' = "watchdog" /\ up2 >= up /\ swap' = swap
        BY <1>1, <2>2, <4>1 DEF CheckinFails
      <4>3. application_self_test_ok
        BY <3>3 DEF TrialInvariant, SelfTested
      <4>4. /\ CheckinRefreshes => pc' = "confirm" /\ swap' = swap
            /\ PowerLoss => pc' = "off" /\ swap' = swap
        BY <4>3 DEF CheckinRefreshes, PowerLoss
      <4> QED
        BY <3>3, <4>2, <4>4, StepAt DEF Checkin
    <3>4. CASE pc = "confirm"
      <4>1. ~is_image_permanent
        BY <1>3, <3>4 DEF TrialInvariant, PermanentFlagSound, Awake
      <4> QED
        BY <3>4, <4>1, StepAt
        DEF OnTrial, aknano_set_image_confirmed, MarkPermanent, PowerLoss
    <3>5. CASE pc \in {"init", "self_test", "watchdog", "reboot"}
      BY <1>1, <2>2, <3>5, StepAt
      DEF aknano_init, aknano_set_application_self_test_ok, Watchdog,
          aknano_reboot_command, PowerLoss
    <3> QED
      BY <2>1, <3>1, <3>2, <3>3, <3>4, <3>5
  <2>4. /\ TrialLeft = TestingLeft(pc, up)
        /\ TrialLeft' = TestingLeft(pc', up2)
    BY <1>1, <1>3, <2>2, <2>3 DEF TrialLeft
  <2>5. limit = OfflineLimit /\ up \in 0 .. limit + 1 /\ up2 \in 0 .. limit + 1
    BY <1>1, <2>2
  <2>6. TestingLeft(pc', up2) < TestingLeft(pc, up)
    BY <2>1, <2>3, <2>5 DEF TestingLeft
  <2> QED
    BY <2>4, <2>6
<1> QED
  BY <1>2, <1>3 DEF OnTrial

LEMMA TrialBounded ==
    ASSUME NEW step, NEW time \in 0 .. OfflineLimit + 1
    PROVE  /\ TestingLeft(step, time) \in 0 .. 3 * OfflineLimit + 13
           /\ StagedLeft(step) \in 0 .. 3 * OfflineLimit + 13
<1>1. PICK limit \in Nat, t \in Nat :
          limit = OfflineLimit /\ t = time /\ t =< limit + 1
  BY OfflineAssumption
<1>2. TestingLeft(step, t) \in 0 .. 3 * limit + 13
  BY <1>1 DEF TestingLeft
<1>3. StagedLeft(step) \in 0 .. 3 * limit + 13
  BY <1>1 DEF StagedLeft
<1> QED
  BY <1>1, <1>2, <1>3

\* No trial lasts for ever: whatever the network does and whatever the server
\* offers meanwhile, every step of the device and every loss of power brings its
\* end nearer, and nothing takes it further away.  It is at most three steps for
\* each offline interval away, and those of the save, the boot and the reset.
THEOREM EveryTrialEnds ==
    ASSUME "confirm" \notin Faults
    PROVE  Spec => /\ [][OnTrial /\ OnTrial'
                            => /\ TrialLeft' =< TrialLeft
                               /\ Device \/ PowerLoss => TrialLeft' < TrialLeft]_vars
                   /\ [](OnTrial => TrialLeft \in 0 .. 3 * OfflineLimit + 13)
<1> DEFINE Nearer == OnTrial /\ OnTrial'
                         => /\ TrialLeft' =< TrialLeft
                            /\ Device \/ PowerLoss => TrialLeft' < TrialLeft
<1>1. Init => StillOffline
  BY DEF Init, StillOffline
<1>2. ASSUME TrialInvariant, StillOffline, Next PROVE Nearer
  <2> SUFFICES ASSUME OnTrial, OnTrial'
               PROVE  /\ TrialLeft' =< TrialLeft
                      /\ Device \/ PowerLoss => TrialLeft' < TrialLeft
    OBVIOUS
  <2>1. TrialInvariant'
    BY <1>2, TrialStep
  <2>2. PICK before \in Int, after \in Int : before = TrialLeft /\ after = TrialLeft'
    <3>1. uptime \in 0 .. OfflineLimit + 1 /\ uptime' \in 0 .. OfflineLimit + 1
      BY <1>2, <2>1 DEF TrialInvariant, TypeOK
    <3>2. TrialLeft \in Int /\ TrialLeft' \in Int
      BY <3>1, TrialBounded, OfflineAssumption DEF TrialLeft
    <3> QED
      BY <3>2
  <2>3. Device \/ PowerLoss => after < before
    BY <1>2, <2>2, TrialNearer
  <2>4. Publish => after = before
    BY <2>2 DEF Publish, stored, loop, TrialLeft, TestingLeft, StagedLeft
  <2> QED
    BY <1>2, <2>2, <2>3, <2>4 DEF Next
<1>3. TrialInvariant /\ StillOffline /\ [Next]_vars => [Nearer]_vars
  BY <1>2
<1>4. TrialInvariant => (OnTrial => TrialLeft \in 0 .. 3 * OfflineLimit + 13)
  BY TrialBounded DEF TrialInvariant, TypeOK, TrialLeft
<1> QED
  BY <1>1, <1>3, <1>4, TrialInvariantHolds, OfflineStep, PTL DEF Spec
=============================================================================

---------------------- MODULE DeviceUpdateRecordProofs ----------------------
(***************************************************************************)
(* What the saved record of an installation is good for: a success is      *)
(* reported under the correlation id of its own installation, and a        *)
(* version that was rolled back is not installed again.  Both need the     *)
(* boot loader to honour a request for permanence, the flash driver to do  *)
(* what it says, and every save of the settings to be completed.  If only  *)
(* the save of a staged installation is, the id may be lost, but is never  *)
(* that of another installation.                                           *)
(***************************************************************************)
EXTENDS DeviceUpdateProofs

StagedIsSaved == Faults \cap {"confirm", "flash_write", "unsaved_apply"} = {}

SavesComplete == StagedIsSaved /\ "torn_settings" \notin Faults

\* A record, in flash or in RAM, as the code reads it.
Applied(r) == Sane(r.last_applied_version)
LastConfirmed(r) == Sane(r.last_confirmed_version)
CorId(r) == Sane(r.cor_id)

\* No installation has begun, or one has from the image relied on, or its image
\* was just made permanent and has not reported so yet.
Sound(r) ==
    \/ Applied(r) = 0 /\ CorId(r) = 0
    \/ LastConfirmed(r) = Baseline
    \/ Applied(r) = slot[active] /\ CorId(r) = slot[active]

\* The record knows the installation of the image relied on until that has been
\* confirmed; the image flashed in production has none.
Identified(r) ==
    \/ LastConfirmed(r) = Baseline
    \/ Baseline = Factory /\ Applied(r) = 0 /\ CorId(r) = 0
    \/ Baseline # Factory /\ Applied(r) = Baseline /\ CorId(r) = Baseline

RecordsFailure(r) == Applied(r) = failed /\ LastConfirmed(r) = Baseline

RecordsTrial(r) == /\ Applied(r) = Candidate
                   /\ CorId(r) = Candidate
                   /\ LastConfirmed(r) = Baseline

\* An erased sector says nothing, also when power was lost before it was
\* programmed.
RecordsSound == /\ pc = "program" => flash = Erased
                /\ Sound(flash)
                /\ Awake => Sound(settings)

\* The two copies agree except while one is being written over the other.
FailureRecorded ==
    failed # 0 => /\ pc # "program" => RecordsFailure(flash)
                  /\ Awake => RecordsFailure(settings)

IdentityRecorded ==
    /\ Baseline >= Factory
    /\ pc # "program" => Identified(flash)
    /\ Awake => Identified(settings)

TrialRecorded ==
    OnTrial => /\ pc \notin {"erase", "program"} => RecordsTrial(flash)
               /\ Awake => RecordsTrial(settings)

InstallationRecorded ==
    /\ pc \in {"download", "ready"} => settings.cor_id = selected
    /\ pc = "ready" => settings.last_applied_version = selected

RolledBack == /\ settings.last_applied_version # 0
              /\ settings.last_applied_version # running_version
              /\ settings.cor_id # 0

\* The flag says what the settings said when they were read.
FlagFromSettings ==
    Awake /\ (~executed_once \/ pc = "report")
        => (is_running_rolled_back_image <=> RolledBack)

\* Installations follow the first report of a run.
ReportedFirst ==
    /\ pc \in {"report", "decide", "install", "download", "ready", "erase",
               "program"} => executed_once
    /\ pc = "report" => \/ is_running_rolled_back_image
                        \/ settings.last_confirmed_version # running_version
    /\ executed_once => Awake
    /\ pc \in {"erase", "program"} => ret # "off"
    /\ executed_once /\ pc # "report"
           => settings.last_confirmed_version = running_version

RecordInvariant ==
    /\ RecordsSound
    /\ TrialRecorded
    /\ InstallationRecorded
    /\ FlagFromSettings
    /\ ReportedFirst

-----------------------------------------------------------------------------
LEMMA NoLoss ==
    ASSUME StagedIsSaved
    PROVE  /\ "confirm" \notin Faults
           /\ "flash_write" \notin Faults
           /\ "unsaved_apply" \notin Faults
BY DEF StagedIsSaved

LEMMA SaneVersion == ASSUME NEW v \in VersionOrNone PROVE Sane(v) = v
BY VersionIsNat, MaxVersionIsNat DEF Sane, ErasedWord

\* What RAM holds is read as it is; erased words are read as nothing.
LEMMA RamIsSane ==
    ASSUME NEW r \in Persisted
    PROVE  /\ Applied(r) = r.last_applied_version
           /\ LastConfirmed(r) = r.last_confirmed_version
           /\ CorId(r) = r.cor_id
BY SaneVersion DEF Persisted, Applied, LastConfirmed, CorId

LEMMA ErasedIsSane == /\ Applied(Erased) = 0
                      /\ LastConfirmed(Erased) = 0
                      /\ CorId(Erased) = 0
BY DEF Erased, Applied, LastConfirmed, CorId, Sane

LEMMA InitRecordInvariant ==
    Init => RecordInvariant /\ FailureRecorded /\ IdentityRecorded
<1> SUFFICES ASSUME Init
             PROVE  RecordInvariant /\ FailureRecorded /\ IdentityRecorded
  OBVIOUS
<1>1. RecordInvariant /\ FailureRecorded
  BY ErasedIsSane
  DEF Init, RecordInvariant, RecordsSound, Sound, FailureRecorded,
      TrialRecorded, OnTrial, InstallationRecorded, FlagFromSettings,
      ReportedFirst, Awake
<1>2. Factory \in Nat /\ Baseline = Factory
  BY FactoryAssumption, VersionsAssumption DEF Init, Baseline, Slots
<1> QED
  BY <1>1, <1>2, ErasedIsSane DEF Init, IdentityRecorded, Identified, Awake

\* Every step keeps the records in order.
LEMMA RecordStep ==
    ASSUME StagedIsSaved, TrialInvariant, RecordInvariant, [Next]_vars
    PROVE  RecordInvariant'
<1>0. TypeOK /\ TypeOK' /\ settings \in Persisted /\ settings' \in Persisted
  BY TypeStep DEF TrialInvariant, TypeOK
<1> USE <1>0, NoLoss, RamIsSane
    DEF stored, boot, loop, observed, TypeOK, Slots, TrialInvariant,
        SettingsFresh, SelfTested, PermanentFlagSound, Confirmed,
        StagedOnlyBeforeReset, TrialIsNewer, RecordInvariant, RecordsSound,
        Sound, TrialRecorded, RecordsTrial,
        InstallationRecorded, FlagFromSettings, RolledBack, ReportedFirst,
        Baseline, Candidate, OnTrial, Awake
<1>1. CASE BootPlain
  BY <1>1 DEF BootPlain
<1>2. CASE BootTrial
  BY <1>2 DEF BootTrial
<1>3. CASE BootRevert
  BY <1>3 DEF BootRevert
<1>4. CASE aknano_init
  <2>1. /\ Applied(settings') = Applied(flash)
        /\ LastConfirmed(settings') = LastConfirmed(flash)
        /\ CorId(settings') = CorId(flash)
    BY <1>4 DEF aknano_init, aknano_init_settings, Applied, LastConfirmed, CorId
  <2>2. UNCHANGED <<slot, active, swap, flash, executed_once>>
    BY <1>4 DEF aknano_init
  <2>3. pc = "init" /\ pc' = "self_test"
    BY <1>4 DEF aknano_init
  <2>4. RecordsSound' /\ TrialRecorded'
    BY <2>1, <2>2, <2>3
  <2>5. is_running_rolled_back_image' = RolledBack'
    BY <1>4 DEF aknano_init, aknano_init_settings
  <2> QED
    BY <2>2, <2>3, <2>4, <2>5
<1>5. CASE aknano_set_application_self_test_ok
  BY <1>5 DEF aknano_set_application_self_test_ok
<1>6. CASE CheckinFails
  BY <1>6 DEF CheckinFails
<1>7. CASE CheckinRefreshes
  BY <1>7 DEF CheckinRefreshes
<1>8. CASE aknano_set_image_confirmed
  BY <1>8 DEF aknano_set_image_confirmed, MarkPermanent
<1>9. CASE aknano_send_installation_finished_event
  BY <1>9 DEF aknano_send_installation_finished_event, FinishedEventDue
<1>10. CASE ReportCompleted
  BY <1>10 DEF ReportCompleted, AfterReport
<1>11. CASE EraseSettings
  BY <1>11, ErasedIsSane DEF EraseSettings
<1>12. CASE ProgramSettings
  <2>1. flash' = settings /\ settings' = settings /\ pc = "program" /\ pc' = ret
    BY <1>12 DEF ProgramSettings
  <2>2. UNCHANGED <<slot, active, swap, executed_once, selected,
                    is_running_rolled_back_image, running_version>>
    BY <1>12 DEF ProgramSettings
  <2>3. ret \in {"decide", "watchdog", "reboot"}
    BY <2>1
  <2>4. RecordsSound' /\ TrialRecorded'
    BY <2>1, <2>2, <2>3
  <2>5. ReportedFirst' /\ FlagFromSettings' /\ InstallationRecorded'
    BY <2>1, <2>2, <2>3
  <2> QED
    BY <2>4, <2>5
<1>13. CASE SaveFails
  BY <1>13 DEF SaveFails
<1>14. CASE DecideUpdate
  BY <1>14 DEF DecideUpdate, UpdateRequired
<1>15. CASE DecideNothing
  BY <1>15 DEF DecideNothing
<1>16. CASE StartInstall
  <2>1. image_position = active /\ ~OnTrial
    BY <1>16 DEF StartInstall
  <2>2. slot'[active] = slot[active] /\ Baseline' = Baseline /\ ~OnTrial'
    BY <1>16, <2>1 DEF StartInstall, aknano_get_target_slot_address
  <2>3. settings' = [settings EXCEPT !.cor_id = selected]
    BY <1>16 DEF StartInstall
  <2>4. UNCHANGED <<active, swap, flash, executed_once, selected,
                    is_running_rolled_back_image, running_version>>
    BY <1>16 DEF StartInstall
  <2>5. /\ pc = "install" /\ pc' \in {"download", "erase"}
        /\ pc' = "erase" => ret' # "off"
    BY <1>16 DEF StartInstall
  <2>6. settings.last_confirmed_version = Baseline
    BY <2>1, <2>5
  <2>7. /\ settings'.last_confirmed_version = Baseline'
        /\ settings'.last_applied_version = settings.last_applied_version
    BY <2>2, <2>3, <2>6 DEF Persisted
  <2>8. Sound(flash)' /\ Sound(settings)'
    BY <2>2, <2>4, <2>5, <2>7
  <2> QED
    BY <2>2, <2>3, <2>4, <2>5, <2>7, <2>8
<1>17. CASE DownloadSucceeds
  <2>1. image_position = active /\ ~OnTrial
    BY <1>17 DEF DownloadSucceeds
  <2>2. slot'[active] = slot[active] /\ Baseline' = Baseline /\ ~OnTrial'
    BY <1>17, <2>1 DEF DownloadSucceeds, aknano_get_target_slot_address
  <2>3. settings' = [settings EXCEPT !.last_applied_version = selected]
    BY <1>17 DEF DownloadSucceeds
  <2>4. UNCHANGED <<active, swap, flash, executed_once, selected,
                    is_running_rolled_back_image, running_version>>
    BY <1>17 DEF DownloadSucceeds
  <2>5. pc = "download" /\ pc' = "ready"
    BY <1>17 DEF DownloadSucceeds
  <2>6. settings.last_confirmed_version = Baseline
    BY <2>1, <2>5
  <2>7. /\ settings'.last_confirmed_version = Baseline'
        /\ settings'.last_applied_version = selected
    BY <2>2, <2>3, <2>6 DEF Persisted
  <2>8. Sound(flash)' /\ Sound(settings)'
    BY <2>2, <2>4, <2>5, <2>7
  <2> QED
    BY <2>2, <2>3, <2>4, <2>5, <2>7, <2>8
<1>18. CASE DownloadFails
  BY <1>18 DEF DownloadFails
<1>19. CASE ReadyAccepted
  <2>1. ~OnTrial /\ slot[3 - active] = selected /\ swap' = "ReadyForTest"
    BY <1>19 DEF ReadyAccepted
  <2>2. UNCHANGED <<slot, active, flash, executed_once, selected,
                    is_running_rolled_back_image, running_version>>
    BY <1>19 DEF ReadyAccepted
  <2>3. /\ settings'.last_applied_version = settings.last_applied_version
        /\ settings'.last_confirmed_version = settings.last_confirmed_version
        /\ settings'.cor_id = settings.cor_id
    BY <1>19 DEF ReadyAccepted, Persisted
  <2>4. pc = "ready" /\ pc' = "erase" /\ ret' = "reboot"
    BY <1>19 DEF ReadyAccepted
  <2>5. Baseline' = Baseline /\ Candidate' = selected
    BY <2>1, <2>2
  <2>6. settings.last_confirmed_version = Baseline
    BY <2>1, <2>4
  <2>7. RecordsSound' /\ TrialRecorded'
    BY <2>1, <2>2, <2>3, <2>4, <2>5, <2>6
  <2> QED
    BY <2>2, <2>3, <2>4, <2>7
<1>20. CASE ReadyRefused
  BY <1>20 DEF ReadyRefused
<1>21. CASE Watchdog
  BY <1>21 DEF Watchdog
<1>22. CASE Sleep
  BY <1>22 DEF Sleep
<1>23. CASE aknano_reboot_command
  BY <1>23 DEF aknano_reboot_command, ResetRam
<1>24. CASE PowerLoss
  BY <1>24 DEF PowerLoss, ResetRam
<1>25. CASE Publish
  BY <1>25 DEF Publish
<1>26. CASE UNCHANGED vars
  BY <1>26 DEF vars
<1> HIDE DEF RecordInvariant
<1> QED
  BY <1>1, <1>2, <1>3, <1>4, <1>5, <1>6, <1>7, <1>8, <1>9, <1>10, <1>11, <1>12,
     <1>13, <1>14, <1>15, <1>16, <1>17, <1>18, <1>19, <1>20, <1>21, <1>22,
     <1>23, <1>24, <1>25, <1>26
     DEF Next, Device, Boot, Checkin, Save, Decide, Install, Request

LEMMA RecordInvariantHolds ==
    ASSUME StagedIsSaved
    PROVE  Spec => [](TrialInvariant /\ RecordInvariant)
BY NoLoss, TrialInvariantHolds, InitRecordInvariant, RecordStep, PTL DEF Spec

\* If every save is completed, the failure of a version stays on record.
LEMMA FailureStep ==
    ASSUME SavesComplete, TrialInvariant, RecordInvariant, FailureRecorded,
           [Next]_vars
    PROVE  FailureRecorded'
<1>0. TypeOK /\ TypeOK' /\ settings \in Persisted /\ settings' \in Persisted
  BY TypeStep DEF TrialInvariant, TypeOK
<1> USE <1>0, NoLoss, RamIsSane
    DEF SavesComplete, stored, boot, loop, observed, TypeOK, Slots,
        FailureRecorded, RecordsFailure, Baseline, Awake
<1>1. CASE BootPlain \/ BootTrial
  <2>1. Baseline' = Baseline
    <3>1. 3 - (3 - active) = active
      OBVIOUS
    <3> QED
      BY <1>1, <3>1 DEF BootPlain, BootTrial
  <2>2. UNCHANGED <<flash, failed>> /\ pc = "off" /\ pc' = "init"
    BY <1>1 DEF BootPlain, BootTrial
  <2> HIDE DEF Baseline
  <2> QED
    BY <2>1, <2>2
<1>2. CASE BootRevert
  <2>1. RecordsTrial(flash) /\ swap = "Testing" /\ pc = "off"
    BY <1>2 DEF BootRevert, RecordInvariant, TrialRecorded, OnTrial
  <2> QED
    BY <1>2, <2>1 DEF BootRevert, RecordsTrial, Candidate
<1>3. CASE aknano_init
  BY <1>3 DEF aknano_init, aknano_init_settings, Applied, LastConfirmed
<1>4. CASE aknano_set_image_confirmed
  BY <1>4 DEF aknano_set_image_confirmed, MarkPermanent, Supersede
<1>5. CASE ReportCompleted
  <2>1. failed # 0 => is_running_rolled_back_image
    BY <1>5 DEF ReportCompleted, TrialInvariant, SettingsFresh, Confirmed,
                RecordInvariant, ReportedFirst, FlagFromSettings, RolledBack
  <2> QED
    BY <1>5, <2>1 DEF ReportCompleted, AfterReport
<1>6. CASE EraseSettings \/ ProgramSettings \/ SaveFails
  BY <1>6 DEF EraseSettings, ProgramSettings, SaveFails
<1>7. CASE StartInstall \/ DownloadSucceeds
  <2>1. image_position = active /\ swap # "Testing"
    BY <1>7 DEF StartInstall, DownloadSucceeds, TrialInvariant, SettingsFresh,
                Confirmed
  <2>2. Baseline' = Baseline
    BY <1>7, <2>1 DEF StartInstall, DownloadSucceeds,
                      aknano_get_target_slot_address
  <2>3. /\ UNCHANGED flash /\ pc \in {"install", "download"}
        /\ pc' # "program"
        /\ failed' = failed \/ failed' = 0
        /\ settings'.last_confirmed_version = settings.last_confirmed_version
    BY <1>7 DEF StartInstall, DownloadSucceeds, Supersede, Persisted
  <2>4. failed' # 0 => \/ settings'.last_applied_version = failed'
                      \/ /\ settings'.last_applied_version =
                               settings.last_applied_version
                         /\ failed' = failed
    BY <1>7 DEF StartInstall, DownloadSucceeds, Supersede, Persisted
  <2> HIDE DEF Baseline
  <2> QED
    BY <2>2, <2>3, <2>4
<1>8. CASE ReadyAccepted
  <2>1. swap # "Testing"
    BY <1>8 DEF ReadyAccepted, TrialInvariant, Confirmed
  <2>2. Baseline' = Baseline
    BY <1>8, <2>1 DEF ReadyAccepted
  <2>3. /\ UNCHANGED <<flash, failed>> /\ pc = "ready" /\ pc' = "erase"
        /\ settings'.last_applied_version = settings.last_applied_version
        /\ settings'.last_confirmed_version = settings.last_confirmed_version
    BY <1>8 DEF ReadyAccepted, Persisted
  <2> HIDE DEF Baseline
  <2> QED
    BY <2>2, <2>3
<1>9. CASE aknano_reboot_command \/ PowerLoss
  BY <1>9 DEF aknano_reboot_command, PowerLoss, ResetRam
<1>10. CASE UNCHANGED <<slot, active, swap, flash, settings, failed>>
            /\ pc \notin {"off", "init", "erase", "program"}
            /\ pc' # "program"
  BY <1>10
<1>11. CASE UNCHANGED <<slot, active, swap, flash, settings, failed, pc>>
  BY <1>11
<1> HIDE DEF FailureRecorded
<1> QED
  BY <1>1, <1>2, <1>3, <1>4, <1>5, <1>6, <1>7, <1>8, <1>9, <1>10, <1>11
     DEF vars, Next, Device, Boot, aknano_set_application_self_test_ok,
         Checkin, CheckinFails, CheckinRefreshes,
         aknano_send_installation_finished_event, Save, Decide, DecideUpdate,
         DecideNothing, Install, DownloadFails, Request, ReadyRefused,
         Watchdog, Sleep, Publish

\* If every save is completed, the installation of the image relied on is known
\* until it has been confirmed.
LEMMA IdentityStep ==
    ASSUME SavesComplete, TrialInvariant, RecordInvariant, IdentityRecorded,
           [Next]_vars
    PROVE  IdentityRecorded'
<1>0. /\ TypeOK /\ TypeOK' /\ settings \in Persisted /\ settings' \in Persisted
      /\ Factory \in Nat
  BY TypeStep, FactoryAssumption, VersionsAssumption DEF TrialInvariant, TypeOK
<1> USE <1>0, NoLoss, RamIsSane
    DEF SavesComplete, stored, boot, loop, observed, TypeOK, Slots,
        IdentityRecorded, Awake
<1>1. CASE BootPlain \/ BootTrial \/ BootRevert
  <2>1. Baseline' = Baseline
    <3>1. 3 - (3 - active) = active
      OBVIOUS
    <3> QED
      BY <1>1, <3>1 DEF BootPlain, BootTrial, BootRevert, Baseline
  <2>2. UNCHANGED flash /\ pc = "off" /\ pc' = "init"
    BY <1>1 DEF BootPlain, BootTrial, BootRevert
  <2> QED
    BY <2>1, <2>2 DEF Identified
<1>2. CASE aknano_init
  <2>1. Baseline' = Baseline /\ UNCHANGED flash /\ pc = "init"
        /\ pc' = "self_test"
    BY <1>2 DEF aknano_init, Baseline
  <2>2. /\ Applied(settings') = Applied(flash)
        /\ LastConfirmed(settings') = LastConfirmed(flash)
        /\ CorId(settings') = CorId(flash)
    BY <1>2 DEF aknano_init, aknano_init_settings, Applied, LastConfirmed, CorId
  <2> QED
    BY <2>1, <2>2 DEF Identified
<1>3. CASE aknano_set_image_confirmed
  <2>1. /\ UNCHANGED <<slot, active, flash, settings>>
        /\ pc = "confirm" /\ pc' = "finished"
    BY <1>3 DEF aknano_set_image_confirmed
  <2>2. CASE swap = "Testing"
    <3>1. /\ RecordsTrial(flash) /\ RecordsTrial(settings)
          /\ Candidate > Baseline
      BY <2>1, <2>2 DEF RecordInvariant, TrialRecorded, OnTrial, TrialInvariant,
                        TrialIsNewer
    <3>2. swap' = "Permanent"
      BY <1>3, <2>2 DEF aknano_set_image_confirmed, MarkPermanent,
                        TrialInvariant, PermanentFlagSound
    <3>3. Baseline' = Candidate
      BY <2>1, <2>2, <3>2 DEF Baseline, Candidate
    <3>4. Baseline \in Nat /\ Candidate \in Nat
      BY VersionIsNat DEF Baseline, Candidate
    <3>5. Baseline' >= Factory /\ Baseline' # Factory
      BY <3>1, <3>3, <3>4
    <3> QED
      BY <2>1, <3>1, <3>3, <3>5 DEF RecordsTrial, Identified
  <2>3. CASE swap # "Testing"
    <3>1. Baseline' = Baseline
      BY <1>3, <2>1, <2>3 DEF aknano_set_image_confirmed, MarkPermanent, Baseline
    <3> QED
      BY <2>1, <3>1 DEF Identified
  <2> QED
    BY <2>2, <2>3
<1>4. CASE ReportCompleted
  <2>1. /\ UNCHANGED <<slot, active, swap, flash>> /\ Baseline' = Baseline
        /\ pc = "report" /\ pc' = "erase" /\ settings' = AfterReport
    BY <1>4 DEF ReportCompleted, Baseline
  <2>2. running_version = slot[active] /\ Baseline = running_version
    BY <2>1 DEF TrialInvariant, SettingsFresh, Confirmed, Baseline
  <2>3. settings'.last_confirmed_version = Baseline'
    <3>1. CASE is_running_rolled_back_image
      <4>1. RolledBack
        BY <2>1, <3>1 DEF RecordInvariant, FlagFromSettings
      <4>2. settings.last_confirmed_version = Baseline
        BY <2>1, <2>2, <4>1 DEF RolledBack, Identified
      <4> QED
        BY <2>1, <3>1, <4>2 DEF AfterReport
    <3>2. CASE ~is_running_rolled_back_image
      BY <2>1, <2>2, <3>2 DEF AfterReport
    <3> QED
      BY <3>1, <3>2
  <2> QED
    BY <2>1, <2>3 DEF Identified
<1>5. CASE EraseSettings \/ ProgramSettings \/ SaveFails
  <2>1. Baseline' = Baseline /\ UNCHANGED settings
    BY <1>5 DEF EraseSettings, ProgramSettings, SaveFails, Baseline
  <2>2. pc \in {"erase", "program"}
    BY <1>5 DEF EraseSettings, ProgramSettings, SaveFails
  <2>3. pc' = "program" \/ flash' = settings
    BY <1>5 DEF EraseSettings, ProgramSettings, SaveFails
  <2> QED
    BY <2>1, <2>2, <2>3 DEF Identified
<1>6. CASE StartInstall \/ DownloadSucceeds \/ ReadyAccepted
  <2>1. image_position = active /\ swap # "Testing"
    BY <1>6 DEF StartInstall, DownloadSucceeds, ReadyAccepted, TrialInvariant,
                SettingsFresh, Confirmed
  <2>2. Baseline' = Baseline
    BY <1>6, <2>1 DEF StartInstall, DownloadSucceeds, ReadyAccepted, Baseline,
                      aknano_get_target_slot_address
  <2>3. /\ UNCHANGED flash /\ pc \in {"install", "download", "ready"}
        /\ pc' # "program"
        /\ settings'.last_confirmed_version = settings.last_confirmed_version
    BY <1>6 DEF StartInstall, DownloadSucceeds, ReadyAccepted, Persisted
  <2>4. settings.last_confirmed_version = Baseline
    BY <2>1, <2>3 DEF RecordInvariant, ReportedFirst, TrialInvariant,
                      SettingsFresh, Baseline
  <2> QED
    BY <2>2, <2>3, <2>4 DEF Identified
<1>7. CASE aknano_reboot_command \/ PowerLoss
  <2>1. Baseline' = Baseline /\ UNCHANGED flash /\ pc # "program" /\ pc' = "off"
    BY <1>7 DEF aknano_reboot_command, PowerLoss, ResetRam, Baseline
  <2> QED
    BY <2>1 DEF Identified
<1>8. CASE UNCHANGED <<slot, active, swap, flash, settings>>
           /\ pc \notin {"off", "init", "erase", "program"}
           /\ pc' # "program"
  BY <1>8 DEF Identified, Baseline
<1>9. CASE UNCHANGED <<slot, active, swap, flash, settings, pc>>
  BY <1>9 DEF Identified, Baseline
<1> HIDE DEF IdentityRecorded
<1> QED
  BY <1>1, <1>2, <1>3, <1>4, <1>5, <1>6, <1>7, <1>8, <1>9
     DEF vars, Next, Device, Boot, aknano_set_application_self_test_ok,
         Checkin, CheckinFails, CheckinRefreshes,
         aknano_send_installation_finished_event, Save, Decide, DecideUpdate,
         DecideNothing, Install, DownloadFails, Request, ReadyRefused,
         Watchdog, Sleep, Publish

LEMMA IdentityInvariantHolds ==
    ASSUME SavesComplete
    PROVE  Spec => [](TrialInvariant /\ RecordInvariant /\ IdentityRecorded)
<1>1. StagedIsSaved
  BY DEF SavesComplete
<1> QED
  BY <1>1, RecordInvariantHolds, InitRecordInvariant, IdentityStep, PTL DEF Spec

LEMMA FailureInvariantHolds ==
    ASSUME SavesComplete
    PROVE  Spec => [](TrialInvariant /\ RecordInvariant /\ FailureRecorded)
<1>1. StagedIsSaved
  BY DEF SavesComplete
<1> QED
  BY <1>1, RecordInvariantHolds, InitRecordInvariant, FailureStep, PTL DEF Spec

-----------------------------------------------------------------------------
\* A success never carries the correlation id of another installation than that
\* of the version it reports, also when events are lost, ReadyForTest is refused,
\* the image state cannot be read or a save that follows a report or a failed
\* installation is cut short; in the last case it may have lost its own.
THEOREM SuccessNotMistaken ==
    ASSUME StagedIsSaved
    PROVE  Spec => [](pc = "report" /\ ~is_running_rolled_back_image
                          => settings.cor_id \in {0, running_version})
<1>1. ASSUME TrialInvariant, RecordInvariant, pc = "report",
             ~is_running_rolled_back_image
      PROVE  settings.cor_id \in {0, running_version}
  <2>1. /\ settings \in Persisted
        /\ running_version = slot[active]
        /\ Baseline = running_version
    BY <1>1 DEF TrialInvariant, TypeOK, SettingsFresh, Awake, Confirmed, Baseline
  <2>2. Sound(settings) /\ settings.last_confirmed_version # running_version
    BY <1>1 DEF RecordInvariant, RecordsSound, ReportedFirst, Awake
  <2> QED
    BY <2>1, <2>2, RamIsSane DEF Sound
<1> QED
  BY <1>1, RecordInvariantHolds, PTL

\* A success report carries the correlation id of the installation of the
\* version it reports, and only the version flashed in production has none, also
\* when events are lost, ReadyForTest is refused or the image state cannot be read.
THEOREM SuccessCorrelated ==
    ASSUME SavesComplete
    PROVE  Spec => []SuccessIsCorrelated
<1>1. TrialInvariant /\ RecordInvariant /\ IdentityRecorded
          => SuccessIsCorrelated
  <2> SUFFICES ASSUME TrialInvariant, RecordInvariant, IdentityRecorded,
                      pc = "report", ~is_running_rolled_back_image
               PROVE  settings.cor_id = IF running_version = Factory
                                        THEN 0 ELSE running_version
    BY DEF SuccessIsCorrelated
  <2>1. /\ settings \in Persisted
        /\ Baseline = running_version
        /\ running_version = slot[active]
    BY DEF TrialInvariant, TypeOK, SettingsFresh, Awake, Confirmed, Baseline
  <2>2. Identified(settings) /\ settings.last_confirmed_version # running_version
    BY DEF IdentityRecorded, RecordInvariant, ReportedFirst, Awake
  <2> QED
    BY <2>1, <2>2, RamIsSane DEF Identified
<1> QED
  BY <1>1, IdentityInvariantHolds, PTL

\* A version that was rolled back is not installed again while no other one has
\* been downloaded or confirmed, under the same faults.
THEOREM FailedNotRetried ==
    ASSUME SavesComplete
    PROVE  Spec => NoRetryOfFailedVersion
<1>1. ASSUME TrialInvariant, FailureRecorded, [Next]_vars,
             pc = "decide", pc' = "install"
      PROVE  selected # failed
  <2>1. DecideUpdate
    BY <1>1
    DEF vars, Next, Device, Boot, BootPlain, BootTrial, BootRevert,
        aknano_init, aknano_set_application_self_test_ok, Checkin,
        CheckinFails, CheckinRefreshes, aknano_set_image_confirmed,
        aknano_send_installation_finished_event, ReportCompleted, Save,
        EraseSettings, ProgramSettings, SaveFails, Decide, DecideNothing,
        Install, StartInstall, DownloadSucceeds, DownloadFails, Request,
        ReadyAccepted, ReadyRefused, Watchdog, Sleep, aknano_reboot_command,
        PowerLoss, Publish
  <2>2. settings \in Persisted /\ settings.rollback_retry_count \in Nat
    BY <1>1 DEF TrialInvariant, TypeOK, Persisted
  <2>3. selected # 0 /\ selected # settings.last_applied_version
    BY <2>1, <2>2
    DEF DecideUpdate, UpdateRequired, SkipRolledBack,
        aknano_has_matching_target, aknano_is_rollback,
        aknano_should_retry_rollback, AKNANO_MAX_ROLLED_BACK_VERSION_RETRIES
  <2>4. failed # 0 => settings.last_applied_version = failed
    BY <1>1, <2>2, RamIsSane DEF FailureRecorded, RecordsFailure, Awake
  <2> QED
    BY <2>3, <2>4
<1> QED
  BY <1>1, FailureInvariantHolds, PTL DEF Spec, NoRetryOfFailedVersion
=============================================================================

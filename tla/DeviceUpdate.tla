---------------------------- MODULE DeviceUpdate ----------------------------
(***************************************************************************)
(* The update life cycle of one device: aknano_sample_loop (aknano_api.c)  *)
(* with the settings it persists (aknano.c, aknano_flash_storage.c) and    *)
(* the A/B boot loader it drives through bl_update_image_state.            *)
(*                                                                         *)
(* An image is known by its version.  A flash slot holds a version, or 0   *)
(* while it holds no complete image.  Every step with an effect outside    *)
(* RAM (a boot loader request, a flash erase, a flash program, an event    *)
(* sent) is an action of its own, and PowerLoss may come between any two.  *)
(*                                                                         *)
(* Faults names the failures the environment may produce:                  *)
(*   "confirm"       bl_update_image_state(kSwapType_Permanent) fails      *)
(*   "ready"         bl_update_image_state(kSwapType_ReadyForTest) fails   *)
(*   "state_read"    bl_get_image_state fails                              *)
(*   "event_loss"    all five sending attempts of an event fail            *)
(*   "flash_write"   the flash driver fails while settings are saved       *)
(*   "torn_settings" power is lost between the erase and the program of    *)
(*                   the settings sector                                   *)
(*   "unsaved_apply" power is lost between ReadyForTest being accepted and *)
(*                   the settings that record it being saved               *)
(* Failed check-ins, failed downloads and power loss at any other point    *)
(* are always possible.                                                    *)
(***************************************************************************)
EXTENDS Integers

CONSTANTS
    Versions,       \* image versions that exist
    Factory,        \* the version flashed in production
    Broken,         \* versions whose firmware never completes a check-in
    Faults,         \* see above
    OfflineLimit    \* max_offline_time_on_temp_image, in polling intervals

MaxVersion == 999999999      \* larger numbers read from flash count as unset

FaultKinds == {"confirm", "ready", "state_read", "event_loss", "flash_write",
               "torn_settings", "unsaved_apply"}

ASSUME VersionsAssumption == Versions \subseteq 1 .. MaxVersion
ASSUME FactoryAssumption == Factory \in Versions \ Broken
ASSUME BrokenAssumption == Broken \subseteq Versions
ASSUME FaultsAssumption == Faults \subseteq FaultKinds
ASSUME OfflineAssumption == OfflineLimit \in Nat

VARIABLES
    \* the flash and the boot loader: kept over a reset
    slot,               \* slot[i]: version of the image in slot i, or 0
    active,             \* the slot that is executing
    swap,               \* the boot loader's image state
    flash,              \* the persisted part of struct aknano_settings
    \* RAM: lost at a reset
    pc,                 \* the next step of the main task
    ret,                \* where aknano_update_settings_in_flash returns to
    settings,           \* the RAM copy of what flash persists
    image_position, running_version, is_running_rolled_back_image,
    is_image_permanent, application_self_test_ok, executed_once,
    any_checkin_ok,
    selected,           \* aknano_context.selected_target.version
    uptime,             \* polling intervals since startup_epoch
    \* the server
    offered,            \* the version its manifest selects, or 0
    \* what an observer knows; no action reads it in a guard
    validated,          \* versions that completed a TUF refresh while running
    failed,             \* version rolled back after its record was saved, or 0
    rollback_event      \* what became of the event that says so

stored == <<slot, active, swap, flash>>
boot == <<image_position, running_version, is_running_rolled_back_image,
          is_image_permanent, application_self_test_ok, executed_once>>
loop == <<any_checkin_ok, selected, uptime>>
observed == <<validated, failed, rollback_event>>
vars == <<stored, pc, ret, settings, boot, loop, offered, observed>>

-----------------------------------------------------------------------------
(* Data.                                                                   *)

Slots == {1, 2}
VersionOrNone == Versions \cup {0}
SwapTypes == {"None", "ReadyForTest", "Testing", "Permanent"}

ErasedWord == -1            \* 0xFFFFFFFF, as an int

\* ongoing_update_correlation_id is a fresh random id of one installation; it
\* is modelled by the version being installed, 0 standing for the empty string.
Persisted == [last_applied_version : VersionOrNone,
              last_confirmed_version : VersionOrNone,
              cor_id : VersionOrNone,
              rollback_retry_count : Nat]

Cleared == [last_applied_version |-> 0, last_confirmed_version |-> 0,
            cor_id |-> 0, rollback_retry_count |-> 0]

Erased == [last_applied_version |-> ErasedWord,
           last_confirmed_version |-> ErasedWord,
           cor_id |-> ErasedWord, rollback_retry_count |-> ErasedWord]

Steps == {"off", "init", "self_test", "checkin", "confirm", "finished",
          "report", "erase", "program", "decide", "install", "download",
          "ready", "watchdog", "sleep", "reboot"}

\* A slip: the two positions are swapped.
SlipTargetSlot(position) ==
    IF position = 1 THEN 1 ELSE IF position = 2 THEN 2 ELSE 2

\* aknano_get_target_slot_address: the slot that is not executing.
aknano_get_target_slot_address(position) ==
    IF position = 1 THEN 2 ELSE IF position = 2 THEN 1 ELSE 2

Later(t) == IF t > OfflineLimit THEN t ELSE t + 1

-----------------------------------------------------------------------------
(* The boot loader and the reset line.                                     *)

\* What RAM holds once power is back and no code has run.
ResetRam ==
    /\ ret' = "off"
    /\ settings' = Cleared
    /\ image_position' = 1
    /\ running_version' = 0
    /\ is_running_rolled_back_image' = FALSE
    /\ is_image_permanent' = FALSE
    /\ application_self_test_ok' = FALSE
    /\ executed_once' = FALSE
    /\ any_checkin_ok' = FALSE
    /\ selected' = 0
    /\ uptime' = 0

\* The requested reset of aknano_reboot_command.
aknano_reboot_command ==
    /\ pc = "reboot"
    /\ pc' = "off"
    /\ ResetRam
    /\ UNCHANGED <<stored, offered, observed>>

\* An image is started on trial once, and given up at the next boot unless it
\* was made permanent in between.
BootPlain ==
    /\ pc = "off"
    /\ swap \in {"None", "Permanent"}
    /\ pc' = "init"
    /\ UNCHANGED <<stored, ret, settings, boot, loop, offered, observed>>

BootTrial ==
    /\ pc = "off"
    /\ swap = "ReadyForTest"
    /\ active' = 3 - active
    /\ swap' = "Testing"
    /\ pc' = "init"
    /\ UNCHANGED <<slot, flash, ret, settings, boot, loop, offered, observed>>

BootRevert ==
    /\ pc = "off"
    /\ swap = "Testing"
    /\ active' = 3 - active
    /\ swap' = "None"
    /\ IF flash.last_applied_version = slot[active]
       THEN failed' = slot[active] /\ rollback_event' = "none"
       ELSE UNCHANGED <<failed, rollback_event>>
    /\ pc' = "init"
    /\ UNCHANGED <<slot, flash, ret, settings, boot, loop, offered, validated>>

\* What the observer holds to be failed is superseded by another version.
Supersede(condition) ==
    IF condition
    THEN failed' = 0 /\ rollback_event' = "none"
    ELSE UNCHANGED <<failed, rollback_event>>

-----------------------------------------------------------------------------
(* aknano_init and aknano_init_settings.                                   *)

\* A slip: an erased word is not recognised.
SlipSane(v) == IF v > MaxVersion THEN 0 ELSE v

Sane(v) == IF v = ErasedWord \/ v > MaxVersion THEN 0 ELSE v

\* rollback_retry_count is stored two bytes above the offset it is read from,
\* right after two correlation id bytes that are always zero.
ReadBack(count) ==
    LET low == count % 65536
    IN  IF low < 32768 THEN low * 65536 ELSE 0

aknano_init_settings ==
    LET position == active
        version == slot[active]
        applied == Sane(flash.last_applied_version)
        cor_id == Sane(flash.cor_id)
    IN  /\ settings' = [last_applied_version |-> applied,
                        last_confirmed_version |->
                            Sane(flash.last_confirmed_version),
                        cor_id |-> cor_id,
                        rollback_retry_count |->
                            ReadBack(flash.rollback_retry_count)]
        /\ image_position' = position
        /\ running_version' = version
        /\ is_running_rolled_back_image' =
               (applied # 0 /\ applied # version /\ cor_id # 0)

\* A slip: only an image still to be started counts as a trial.
SlipPermanent(permanent) ==
    \/ permanent = (swap # "ReadyForTest")
    \/ "state_read" \in Faults /\ permanent = FALSE

\* Any state the boot loader does not report as a trial counts as permanent.
aknano_is_current_image_permanent(permanent) ==
    \/ permanent = (swap \notin {"Testing", "ReadyForTest"})
    \/ "state_read" \in Faults /\ permanent = FALSE

aknano_init ==
    /\ pc = "init"
    /\ aknano_init_settings
    /\ \E permanent \in BOOLEAN :
           /\ aknano_is_current_image_permanent(permanent)
           /\ is_image_permanent' = permanent
    /\ pc' = "self_test"
    /\ UNCHANGED <<stored, ret, application_self_test_ok, executed_once, loop,
                   offered, observed>>

aknano_set_application_self_test_ok ==
    /\ pc = "self_test"
    /\ application_self_test_ok' = TRUE
    /\ pc' = "checkin"
    /\ UNCHANGED <<stored, ret, settings, image_position, running_version,
                   is_running_rolled_back_image, is_image_permanent,
                   executed_once, loop, offered, observed>>

-----------------------------------------------------------------------------
(* aknano_checkin.                                                         *)

\* No connection, or a TUF refresh that fails: it may take any time.
CheckinFails ==
    /\ pc = "checkin"
    /\ uptime' \in uptime .. OfflineLimit + 1
    /\ pc' = "watchdog"
    /\ UNCHANGED <<stored, ret, settings, boot, any_checkin_ok, selected,
                   offered, observed>>

\* The refresh succeeds and parse_targets_metadata selects a target.
CheckinRefreshes ==
    /\ pc = "checkin"
    /\ running_version \notin Broken
    /\ selected' = offered
    /\ validated' = validated \cup {slot[active]}
    /\ pc' = IF application_self_test_ok THEN "confirm" ELSE "decide"
    /\ UNCHANGED <<stored, ret, settings, boot, any_checkin_ok, uptime,
                   offered, failed, rollback_event>>

\* A trial that is made permanent supersedes an earlier failure.
MarkPermanent ==
    /\ swap' = "Permanent"
    /\ is_image_permanent' = TRUE
    /\ Supersede(swap = "Testing")

aknano_set_image_confirmed ==
    /\ pc = "confirm"
    /\ \/ ~is_image_permanent /\ MarkPermanent
       \/ /\ is_image_permanent \/ "confirm" \in Faults
          /\ UNCHANGED <<swap, is_image_permanent, failed, rollback_event>>
    /\ pc' = "finished"
    /\ UNCHANGED <<slot, active, flash, ret, settings, image_position,
                   running_version, is_running_rolled_back_image,
                   application_self_test_ok, executed_once, loop, offered,
                   validated>>

\* A slip: a rollback alone is no reason to report.
SlipEventDue ==
    ~executed_once /\ settings.last_confirmed_version # running_version

FinishedEventDue ==
    /\ ~executed_once
    /\ \/ is_running_rolled_back_image
       \/ settings.last_confirmed_version # running_version

aknano_send_installation_finished_event ==
    /\ pc = "finished"
    /\ executed_once' = TRUE
    /\ pc' = IF FinishedEventDue THEN "report" ELSE "decide"
    /\ UNCHANGED <<stored, ret, settings, image_position, running_version,
                   is_running_rolled_back_image, is_image_permanent,
                   application_self_test_ok, loop, offered, observed>>

\* A slip: the record of the failed version is cleared by its report.
SlipAfterReport ==
    [Cleared EXCEPT !.last_confirmed_version =
                        IF is_running_rolled_back_image
                        THEN settings.last_confirmed_version
                        ELSE running_version]

\* The settings once the event was sent, whether it was delivered or not.
AfterReport ==
    [last_applied_version |-> IF is_running_rolled_back_image
                              THEN settings.last_applied_version ELSE 0,
     last_confirmed_version |-> IF is_running_rolled_back_image
                                THEN settings.last_confirmed_version
                                ELSE running_version,
     cor_id |-> 0,
     rollback_retry_count |-> IF is_running_rolled_back_image
                              THEN settings.rollback_retry_count ELSE 0]

ReportsFailure ==
    is_running_rolled_back_image /\ settings.last_applied_version = failed

\* Nobody looks at whether one of the five attempts was successful.
ReportCompleted ==
    /\ pc = "report"
    /\ \/ rollback_event' = IF ReportsFailure THEN "delivered"
                             ELSE rollback_event
       \/ /\ "event_loss" \in Faults
          /\ rollback_event' = IF ReportsFailure /\ rollback_event = "none"
                               THEN "lost" ELSE rollback_event
    /\ settings' = AfterReport
    /\ pc' = "erase"
    /\ ret' = "decide"
    /\ UNCHANGED <<stored, boot, loop, offered, validated, failed>>

-----------------------------------------------------------------------------
(* aknano_update_settings_in_flash: one sector erased, one page programmed. *)

EraseSettings ==
    /\ pc = "erase"
    /\ flash' = Erased
    /\ pc' = "program"
    /\ UNCHANGED <<slot, active, swap, ret, settings, boot, loop, offered,
                   observed>>

ProgramSettings ==
    /\ pc = "program"
    /\ flash' = settings
    /\ pc' = ret
    /\ UNCHANGED <<slot, active, swap, ret, settings, boot, loop, offered,
                   observed>>

\* A driver error ends the save where it is; nobody looks at the result.
SaveFails ==
    /\ "flash_write" \in Faults
    /\ pc \in {"erase", "program"}
    /\ pc' = ret
    /\ UNCHANGED <<stored, ret, settings, boot, loop, offered, observed>>

-----------------------------------------------------------------------------
(* The decision of aknano_sample_loop and aknano_install_selected_target.  *)

AKNANO_MAX_ROLLED_BACK_VERSION_RETRIES == 0

aknano_has_matching_target == selected # 0
\* A slip: compared with the wrong record.
SlipIsRollback == selected = settings.last_confirmed_version

aknano_is_rollback == selected = settings.last_applied_version

\* Below the limit the code also compares rollback_next_retry_time; with a
\* limit of 0 that comparison is never reached.
aknano_should_retry_rollback ==
    settings.rollback_retry_count < AKNANO_MAX_ROLLED_BACK_VERSION_RETRIES

SkipRolledBack ==
    /\ aknano_has_matching_target
    /\ aknano_is_rollback
    /\ ~aknano_should_retry_rollback

\* A slip: any other version is an update.
SlipUpdateRequired ==
    aknano_has_matching_target /\ ~SkipRolledBack /\ running_version # selected

UpdateRequired ==
    aknano_has_matching_target /\ ~SkipRolledBack /\ running_version < selected

DecideUpdate ==
    /\ pc = "decide"
    /\ UpdateRequired
    /\ any_checkin_ok' = TRUE
    /\ pc' = "install"
    /\ UNCHANGED <<stored, ret, settings, boot, selected, uptime, offered,
                   observed>>

DecideNothing ==
    /\ pc = "decide"
    /\ ~UpdateRequired
    /\ any_checkin_ok' = TRUE
    /\ pc' = "watchdog"
    /\ UNCHANGED <<stored, ret, settings, boot, selected, uptime, offered,
                   observed>>

\* A slip: a correlation id that is already there is kept.
SlipStartInstall ==
    /\ pc = "install"
    /\ settings' = [settings EXCEPT !.cor_id = IF @ = 0 THEN selected ELSE @]
    /\ \/ /\ slot' = [slot EXCEPT
                        ![aknano_get_target_slot_address(image_position)] = 0]
          /\ pc' = "download"
          /\ UNCHANGED ret
       \/ /\ pc' = "erase"
          /\ ret' = "watchdog"
          /\ UNCHANGED slot
    /\ UNCHANGED <<active, swap, flash, boot, loop, offered, observed>>

\* A new correlation id, then the image server: either it cannot be reached
\* or the first chunk destroys what the target slot held.
StartInstall ==
    /\ pc = "install"
    /\ settings' = [settings EXCEPT !.cor_id = selected]
    /\ \/ /\ slot' = [slot EXCEPT
                        ![aknano_get_target_slot_address(image_position)] = 0]
          /\ pc' = "download"
          /\ UNCHANGED ret
       \/ /\ pc' = "erase"
          /\ ret' = "watchdog"
          /\ UNCHANGED slot
    /\ UNCHANGED <<active, swap, flash, boot, loop, offered, observed>>

\* Size, hash and boot loader verification all hold: the slot is complete.
DownloadSucceeds ==
    /\ pc = "download"
    /\ slot' = [slot EXCEPT
                  ![aknano_get_target_slot_address(image_position)] = selected]
    /\ settings' = [settings EXCEPT !.last_applied_version = selected]
    /\ Supersede(failed # selected)
    /\ pc' = "ready"
    /\ UNCHANGED <<active, swap, flash, ret, boot, loop, offered, validated>>

DownloadFails ==
    /\ pc = "download"
    /\ pc' = "erase"
    /\ ret' = "watchdog"
    /\ UNCHANGED <<stored, settings, boot, loop, offered, observed>>

ReadyAccepted ==
    /\ pc = "ready"
    /\ swap' = "ReadyForTest"
    /\ settings' = [settings EXCEPT !.rollback_retry_count = @ + 1]
    /\ pc' = "erase"
    /\ ret' = "reboot"
    /\ UNCHANGED <<slot, active, flash, boot, loop, offered, observed>>

ReadyRefused ==
    /\ "ready" \in Faults
    /\ pc = "ready"
    /\ pc' = "erase"
    /\ ret' = "watchdog"
    /\ UNCHANGED <<stored, settings, boot, loop, offered, observed>>

-----------------------------------------------------------------------------
(* The end of an iteration.                                                *)

aknano_is_temp_image == ~is_image_permanent

\* A slip: the flag is tested the wrong way round.
SlipOfflineTooLong ==
    ~any_checkin_ok /\ ~aknano_is_temp_image /\ uptime > OfflineLimit

OfflineTooLong ==
    ~any_checkin_ok /\ aknano_is_temp_image /\ uptime > OfflineLimit

Watchdog ==
    /\ pc = "watchdog"
    /\ pc' = IF OfflineTooLong THEN "reboot" ELSE "sleep"
    /\ UNCHANGED <<stored, ret, settings, boot, loop, offered, observed>>

\* The delay, and aknano_init_context of the next iteration.
Sleep ==
    /\ pc = "sleep"
    /\ uptime' = Later(uptime)
    /\ selected' = 0
    /\ pc' = "checkin"
    /\ UNCHANGED <<stored, ret, settings, boot, any_checkin_ok, offered,
                   observed>>

-----------------------------------------------------------------------------
(* The environment.                                                        *)

\* At "reboot" it would be the reset that comes anyway.
PowerLoss ==
    /\ pc \notin {"off", "reboot"}
    /\ pc = "program" => "torn_settings" \in Faults
    /\ pc \in {"erase", "program"} /\ swap = "ReadyForTest"
           => "unsaved_apply" \in Faults
    /\ pc' = "off"
    /\ ResetRam
    /\ UNCHANGED <<stored, offered, observed>>

\* The factory changes what its manifest selects: newer, older or nothing.
Publish ==
    /\ offered' \in VersionOrNone
    /\ UNCHANGED <<stored, pc, ret, settings, boot, loop, observed>>

-----------------------------------------------------------------------------
Init ==
    /\ slot = [i \in Slots |-> IF i = 1 THEN Factory ELSE 0]
    /\ active = 1
    /\ swap = "None"
    /\ flash = Erased
    /\ pc = "off"
    /\ ret = "off"
    /\ settings = Cleared
    /\ image_position = 1
    /\ running_version = 0
    /\ is_running_rolled_back_image = FALSE
    /\ is_image_permanent = FALSE
    /\ application_self_test_ok = FALSE
    /\ executed_once = FALSE
    /\ any_checkin_ok = FALSE
    /\ selected = 0
    /\ uptime = 0
    /\ offered = 0
    /\ validated = {Factory}
    /\ failed = 0
    /\ rollback_event = "none"

Boot == BootPlain \/ BootTrial \/ BootRevert
Checkin == CheckinFails \/ CheckinRefreshes
Save == EraseSettings \/ ProgramSettings \/ SaveFails
Decide == DecideUpdate \/ DecideNothing
Install == StartInstall \/ DownloadSucceeds \/ DownloadFails
Request == ReadyAccepted \/ ReadyRefused

\* The main task, from the boot loader to the next reset.
Device ==
    \/ Boot
    \/ aknano_init
    \/ aknano_set_application_self_test_ok
    \/ Checkin
    \/ aknano_set_image_confirmed
    \/ aknano_send_installation_finished_event
    \/ ReportCompleted
    \/ Save
    \/ Decide
    \/ Install
    \/ Request
    \/ Watchdog
    \/ Sleep
    \/ aknano_reboot_command

Next == Device \/ PowerLoss \/ Publish

Spec == Init /\ [][Next]_vars

\* The main task keeps running while it has power.
TaskRuns == WF_vars(Device)

\* The network is bad for a while, not for ever.
NetworkRecovers ==
    /\ SF_vars(CheckinRefreshes)
    /\ SF_vars(StartInstall /\ pc' = "download")
    /\ SF_vars(DownloadSucceeds)

RunningSpec == Spec /\ TaskRuns

-----------------------------------------------------------------------------
(* The promise of TrialUpdate, read off the boot loader's state.           *)

OnTrial == swap \in {"ReadyForTest", "Testing"}

\* The image the device falls back to if nothing else is confirmed.
Baseline == IF swap = "Testing" THEN slot[3 - active] ELSE slot[active]

\* The image that is staged or running on trial.
Candidate == IF swap = "Testing" THEN slot[active] ELSE slot[3 - active]

Phase == CASE swap = "Testing" -> "testing"
           [] swap = "ReadyForTest" -> "staged"
           [] OTHER -> "idle"

Trial == INSTANCE TrialUpdate WITH
             good <- Baseline,
             phase <- Phase,
             candidate <- IF OnTrial THEN Candidate ELSE 0,
             proven <- validated

-----------------------------------------------------------------------------
(* Properties.                                                             *)

TypeOK ==
    /\ slot \in [Slots -> VersionOrNone]
    /\ active \in Slots
    /\ swap \in SwapTypes
    /\ flash \in Persisted \cup {Erased}
    /\ pc \in Steps
    /\ ret \in {"off", "decide", "watchdog", "reboot"}
    /\ settings \in Persisted
    /\ image_position \in Slots
    /\ running_version \in VersionOrNone
    /\ is_running_rolled_back_image \in BOOLEAN
    /\ is_image_permanent \in BOOLEAN
    /\ application_self_test_ok \in BOOLEAN
    /\ executed_once \in BOOLEAN
    /\ any_checkin_ok \in BOOLEAN
    /\ selected \in VersionOrNone
    /\ uptime \in 0 .. OfflineLimit + 1
    /\ offered \in VersionOrNone
    /\ validated \subseteq VersionOrNone
    /\ failed \in VersionOrNone
    /\ rollback_event \in {"none", "delivered", "lost"}

\* Whatever is interrupted, the image the device falls back to is complete and
\* has itself completed a TUF refresh: an image is only made permanent after
\* that, and the slot it runs from is not written while a trial depends on it.
KnownGoodBaseline == Baseline \in validated

\* No sequence of installations, rollbacks and resets leaves the device on an
\* older version than the one it had confirmed.
NoDowngrade == [][Baseline' >= Baseline]_vars

\* "Updated from ... Image confirmed" is only sent by an image that the boot
\* loader will not revert.
CompletedMeansPermanent ==
    pc = "report" /\ ~is_running_rolled_back_image => swap # "Testing"

\* A version that was rolled back with its record saved is not installed again
\* while no other version has been downloaded or confirmed.
NoRetryOfFailedVersion ==
    [][pc = "decide" /\ pc' = "install" => selected # failed]_vars

\* A success report carries the correlation id of the installation of the
\* version it reports; only the version flashed in production, which was not
\* installed over the air, has none.
SuccessIsCorrelated ==
    pc = "report" /\ ~is_running_rolled_back_image
        => settings.cor_id = IF running_version = Factory
                             THEN 0 ELSE running_version

\* A rollback report carries the correlation id of the installation it says
\* was rolled back.
RollbackIsCorrelated ==
    pc = "report" /\ is_running_rolled_back_image
        => settings.cor_id = settings.last_applied_version

\* Slots, settings and resets implement the abstract trial update: staging,
\* starting, promoting and abandoning a version are single steps, and as long
\* as the main task runs no trial lasts for ever (the check-in confirms it, or
\* the offline watchdog or a reset ends it).
ImplementsTrialUpdate == Trial!LiveSpec

\* Once power is stable, the network has recovered and the manifest stops
\* changing, the device stops installing: it runs the offered version or a newer
\* one, or keeps the record that makes it skip that version.
UpdateSettles ==
    NetworkRecovers => \A v \in Versions :
        <>[](offered = v) /\ <>[][~PowerLoss]_vars
            => <>[](/\ pc # "install"
                    /\ Baseline >= v \/ flash.last_applied_version = v)

\* A recorded rollback is reported to the server, unless another version
\* supersedes it, power keeps failing or the network stays bad: not even resets
\* between the rollback and its event, or between the event and the record of it,
\* make the device forget to send it.  Sending is all that is promised: if the
\* five attempts fail, the record is cleared all the same.
RollbackIsReported ==
    NetworkRecovers /\ <>[][~PowerLoss]_vars
        => \A v \in Versions :
              failed = v ~> \/ failed # v
                            \/ rollback_event \in {"delivered", "lost"}

=============================================================================

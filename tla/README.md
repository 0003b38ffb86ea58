# aktualizr-nano: a verification project

aktualizr-nano is the update client of FoundriesFactory for small devices: a
FreeRTOS task that checks in with a device gateway, refreshes TUF metadata over
mutual TLS, downloads a new firmware image into the slot that is not running,
asks the boot loader to start it on trial, and confirms it or lets the boot
loader go back. This directory models the parts of the client that decide, store
and retry, model-checks them with TLC and proves the main properties with TLAPS.

Paths below are relative to the repository; `api.c`, `aknano.c` and so on stand
for `src/src/aknano_api.c`, `src/src/aknano.c`, and `flash_storage.c` for
`src/src/platform/mcuxsdk/aknano_flash_storage.c`.

## 1. Inventory

| Component | State it keeps | Operations | Used by / uses | Modelled in |
|---|---|---|---|---|
| Update life cycle (`api.c`, `aknano.c`) | `struct aknano_settings` and `aknano_context` in RAM, the static flags of `aknano_send_installation_finished_event` and `aknano_sample_loop` | init, self test, check-in, decision, installation, report, offline watchdog, sleep | everything below | `DeviceUpdate` |
| Settings and slots (`flash_storage.c`) | one sector of settings, two image slots | save (erase, program), read back, write pages with erase on the way | life cycle, download, TUF store | `DeviceUpdate`, `ImageDownload`, `TufStore` |
| Boot loader glue (`flash_storage.c`, `aknano_board.c`) | image state of the MCUXpresso boot loader | ReadyForTest, Permanent, read state and position, verify image, reset | life cycle | `DeviceUpdate` |
| Image download (`aknano_image_download.c`) | range position, hash context, connection | connect, range loop, store, disconnect, verify | life cycle; network, flash | `ImageDownload` |
| Targets manifest (`aknano_targets_manifest.c`) | `selected_target` | visit entries, select | check-in | `TargetsManifest` |
| TUF metadata store (`aknano_tuf_client.c`) | `1.root.json` and one 16 KB region per role | provision the root, read with fallback, write, fetch | libtufnano calls it back; gateway, flash | `TufStore` |
| Provisioning (`provisioning/`, `aknano_pkcs11.c`, `aknano_init`) | uuid and serial, private key, certificate | check, clear, save identity, generate, store key, store certificate | `aknano_init` | `Provisioning` |
| Device gateway (`aknano_device_gateway.c`) | the shared `ucUserBuffer`, `bodyBuffer` | connect, request, send event (5 attempts) | check-in, TUF store, life cycle | `Checkin`; the outcome of an event also in `DeviceUpdate` |
| Remote configuration (`api.c`) | tag, polling interval | parse TOML in JSON, clamp the interval | check-in | `Checkin` |
| Network and TLS (`aknano_net.c`) | socket, TLS context | connect, send, receive, disconnect | gateway, download | its effect and failures, in `Checkin` and `ImageDownload` |
| EdgeLock 2GO task (`aknano_el2go.c`) | `el2go_agent_stopped`, certificate cache | agent session, handshake with `aknano_init` | `aknano_init` of EL2GO builds | `El2go` |
| Logging, memory statistics | none | print | all | no |

One task runs the client; EL2GO builds have a second, with which the first shares
two flags and the secure element. What makes the rest hard is not threads but
*power*: a reset can come between any two effects on flash, on the
boot loader or on the server, and at the next boot the client has to work out
from a few saved fields what had been going on. The other sources of trouble are
the network (requests fail, replies are shorter, longer or other than asked
for), a flash that can only be erased by sectors and programmed by pages, results
of calls that are only logged, and flags read once and used much later.

What makes each component correct:

* **Life cycle**: there is always a complete, proven image to fall back to; only
  such an image is made permanent; the version relied on never decreases; a
  version that failed is not tried for ever; what is reported is what happened,
  under the right correlation id; every trial ends.
* **Download**: while every range begins at a sector, success means exactly the
  selected image is in the slot; nothing outside the slot is written; every exit closes the connection.
* **Manifest**: the newest entry for this device and tag is selected, whatever
  the order and whatever stands in between.
* **TUF store**: the trust anchor survives; no older root is accepted; what was
  stored is what is read; a lost local root is replaced from the anchor.
* **Provisioning**: identity, key and certificate belong together; an interrupted
  provisioning is repaired and a complete one is never repeated.
* **Check-in**: a target is selected from verified metadata and under the tag the
  gateway was told, although one buffer serves all requests; connections are
  closed whatever failed; no outage keeps the device from its next check-in; a
  configuration arrives, also after a reset.
* **EL2GO**: the update loop begins only with a certificate, and begins if the
  agent can get one; the two tasks do not use the secure element at once.

The hazards behind these are listed line by line in `PROJECT.json`, each with the
properties that would notice it.

## 2. Modules

    TrialUpdate               the promise: stage, try once, promote or abandon
      ^ implemented by
    DeviceUpdate              the life cycle over flash, boot loader and resets
      DeviceUpdateProofs        the trial
      DeviceUpdateRecordProofs  the saved records of installations
    AtomicCheckin             the promise: metadata and tag are read in one step
      ^ implemented by
    Checkin                   one check-in after the other, request by request
      CheckinProofs             (steps checkin .. report of DeviceUpdate)
    ImageDownload             one download into the other slot (steps install
      ImageDownloadProofs       .. ready of DeviceUpdate)
    TargetsManifest           one selection (the value DeviceUpdate calls offered,
      TargetsManifestProofs     parse_targets_metadata of Checkin)
    RootChain                 the promise: every root trusted follows from the anchor
      ^ implemented by
    TufStore                  one root of trust through many refreshes (Refresh of
      TufStoreProofs            Checkin)
    Provisioning              the identity, before DeviceUpdate begins
      ProvisioningProofs
    El2go                     the same start-up in EdgeLock 2GO builds: two tasks
      El2goProofs
    MC*                       instances for TLC

Operators named `Slip...` are not part of a specification: each is a plausible
slip in the code, kept beside the definition it would replace, to show that the
properties notice it. Every property of a passing run is paired with one in
`PROJECT.json`.

### DeviceUpdate

`pc` follows `aknano_sample_loop` from the boot loader (`off`) through
`aknano_init`, the self test, `aknano_checkin` (`checkin`, `confirm`,
`finished`, `report`), the decision, `aknano_install_selected_target`
(`install`, `download`, `ready`), the saving of the settings (`erase`,
`program`, entered from three places and returning to `ret`), the offline
watchdog and the sleep, to the `reboot`. Every effect outside RAM is a step of its
own, so that `PowerLoss` may fall between any two.

* `slot`, `active`, `swap` are the flash and the boot loader: `ReadyForTest` is
  started once as `Testing` and reverted at the next boot unless `Permanent`
  was requested. The boot loader is external.
* `flash` is the settings sector, with the value `Erased` between erase and
  program and in production; `settings` its RAM copy. `Sane` and `ReadBack` are
  the rules by which `aknano_init_settings` turns erased or absurd words into
  "unset". `ReadBack` represents the byte shift between where the retry counter
  is saved and where it is read.
* A correlation id is modelled by the version it was drawn for.
* `validated`, `failed`, `rollback_event` are observers: no guard reads them. The
  last is what became of the event that tells of the version in `failed`: it was
  delivered, its attempts all failed, or there has been none yet.
* `Faults` names the failures a run admits, so that a property can be checked
  under everything it survives and its counterexample shown for what it does not.

`TrialUpdate` is its abstraction: `good` is `Baseline`, the image the device
falls back to; `phase` is read off `swap`; staging, starting, promoting and
abandoning are single steps.

### ImageDownload

One call of `aknano_download_and_flash_image`. The server answers each range with
any length up to `Chunk + Surplus`, right or wrong content and any status; the
flash driver may fail; data at an offset that is not at the start of a sector
spoils what it touches. `Touched` and `Written` are the page loop of
`aknano_write_data_to_flash`. `hash_ok` is about the stream: the hash has seen the
image's bytes so far. `bl_verify_image` is external and given an address and a
length only, so that it may accept or refuse any content: what success means has to
follow from the loop, the size and the hash. `honest` observes whether every answer
was the expected one and an intact image was accepted, `on_sectors` whether every
range that was stored began at a sector. It is the premise of `SuccessIsExact`,
which is false without it (section 5).

### TargetsManifest

`tuf_parse_single_target` looks at the fields of an entry in a fixed order and
returns at the first that decides: an entry is skipped, is an error (which ends the
whole scan), or is selected. A name is a sequence of characters because the
comparison is `strncmp` bounded by the manifest's string.

### TufStore

Flash is counted in cells (pages), several to a sector; a file is a sequence of
pieces, so that a torn, an overwritten and a truncated file are told apart from a
complete one. `read_local_json_file` accepts whatever begins with `{` and ends at
the first erased cell; a read error counts as a missing file, as in the code, so
that the anchor may be copied over a good local root or be fetched once more
(observed by `misread`). The write loop is erase-when-reached and program, one
action each. libtufnano is known by its use of the callbacks: it reads the local
root, asks for newer roots one by one, and stores what it verified. The other
roles use the same functions; a missing file of theirs is no error, so they appear
only as the region after the root's.

`RootChain` is its abstraction: the root `stored`, the one `trusted` in a refresh,
the last one `accepted` and the `newest` published. A refresh begins with what is
stored or with version 1, extends what it trusts by one version at a time, may drop
what is stored and store what it trusts, and completes with the newest only.
`StoredRoot` maps the flash to it by the first piece in the local root's region:
without that one, `read_local_json_file` finds no file. What is behind it does not
matter, because only a complete file verifies; so the promise needs no hypothesis on
torn writes or lengths.

### Provisioning

Builds with `AKNANO_ALLOW_PROVISIONING` that make their own key and certificate.
`sector[0]` holds uuid and serial, the other sectors whatever settings and TUF
files an identity left. Clearing is one action per sector, then follow identity,
key and certificate. Driver errors are only logged by the code, so the steps go
on; `errors` observes which happened. If there is no certificate,
`aknano_read_device_certificate` still returns true and `is_certificate_valid`
examines a buffer nobody wrote to: `is_valid_certificate_available` may then say
either.

### Checkin

`aknano_checkin` step by step, from `aknano_connect_to_device_gateway` to the one
exit that disconnects, then the clamped sleep. `connected` holds the network
contexts with an open connection: the check-in's, and the one `aknano_send_event`
opens for itself while the first is still open. `ucUserBuffer` holds the version
of the targets metadata or 0 for anything else; `Request` is what every
`aknano_mtls_send_http_request` does to it: headers and reply overwrite it.
A write of the targets metadata that is begun and fails, or that power is lost in,
leaves none stored. `Following` is the order of the calls. A configuration is the pair of what
`parse_config` finds in it, either of which may be missing or unusable; `tag` and
`polling_interval` are RAM and fall back at a reset. Config and metadata change at
any time. `verified`, `told` and `configured` are observers.

`AtomicCheckin` is its abstraction and what `DeviceUpdate` takes a check-in for: one
step. The choice is mapped to the buffer and the tag from the moment the targets
metadata are verified, and to `selected` once they are parsed. That nothing in
between can change either, although the buffer is shared and the tag is configured
over the air, is what the refinement shows.

What `tuf_refresh` stores and what becomes of the selected target are in
`TufStore` and `DeviceUpdate`; that there is something to report is a free choice
here, once per run (`executed_once`).

### El2go

`main` is `aknano_init` and the update loop of the main task, `agent` follows
`agent_start_task` and `agent_start`. `is_certificate_available_cache` and
`el2go_agent_stopped` are the two flags the tasks share. `session` is the set of
tasks that have a session with the secure element: the agent's while it runs and
while a certificate is looked for, the main task's while it is connected. Between
opening and closing one the other task may take any number of steps. The agent
may fail at each stage, with or without having obtained a certificate. The buffer
nobody wrote to (see Provisioning) is here the error `"garbage"`.

## 3. What is checked

| Run | Shows | Bounds |
|---|---|---|
| `device_update_safety` | types, `KnownGoodBaseline`, `CompletedMeansPermanent`, `NoDowngrade` under every fault except a refused request for permanence | versions 1..3, version 3 never completes a check-in, 1 offline interval |
| `device_update_progress` | `SuccessIsCorrelated`, `NoRetryOfFailedVersion`, `ImplementsTrialUpdate`, `UpdateSettles`, `RollbackIsReported` when ReadyForTest may be refused, events lost and the image state unreadable | versions 1..3, 3 broken |
| `image_download` | `SuccessIsExact`, `NeighbourUntouched`, `HonestDownloadSucceeds`, `EndsDisconnected` | sectors of 2 cells, chunks of 4, a slot of 8, images of 0, 1 and 3 to 9 cells, replies up to 5 |
| `targets_manifest` | `NewestVisited`, `CleanManifestSelectsNewest` | two entries, each lacking any one field or none, 2 versions, arrays of up to 3 names of which 2 are read |
| `tuf_store` | `AnchorKept`, `OtherRolesUntouched`, `RootNeverOlder`, `StoredRootIsRefreshedRoot`, `ImplementsRootChain`, `CheckinEnds`, `RefreshRecovers` | four roots of two, one, two sectors and more than a region; regions of two sectors |
| `provisioning` | `IdentityMatchesCertificate`, `NothingInherited`, `ProvisionedForGood`, `ProvisioningIsRepaired` | four identities, two sectors |
| `checkin` | `SelectsVerified`, `OneTagPerCheckin`, `ConnectionsPaired`, `ImplementsAtomicCheckin`, `KeepsPolling`, `ConfigurationArrives` | two tags, intervals of -1 s and a day, two attempts per event, two versions of the metadata |
| `el2go` | `OneSession`, `StartsWithCertificate`, `DeviceStarts` | none: the model is finite |
| `device_update_confirm_refused`, `device_update_rollback_report`, `targets_manifest_malformed`, `tuf_store_torn` | the findings of section 5 | as small as shows them |

Why the bounds are enough. *Versions*: the life cycle only compares versions with
each other and with the two records; a factory version, a good and a broken
successor produce every order of installation, rollback and re-offer; that a
record is overwritten by an unrelated installation needs a fourth version, and is
covered by the theorems about the records, which hold for any number. *Offline
limit*: the watchdog distinguishes before and after. *Cells*: two sectors to a
chunk and two chunks to a slot give aligned and unaligned offsets, a last partial
chunk, an exact fit and an overrun. *Manifest*: the state between two entries is
the selected version alone, so two entries show every interaction of neighbours;
the theorems lift the bound. *Roots*: shrinking and growing files and one that does
not fit are the three cases of writing one file over another. *Identities*: one to
be made and the three an identity, a key and a certificate may be left of;
`Ids \ InUse` is never empty under these bounds. *Check-ins*: two tags and two
versions of the metadata tell apart what is current from what is left over; the
two intervals lie outside both limits of the clamp and 15 s between them; two
attempts are a first and a last one.

What is not bounded: power losses, failed check-ins, failed downloads and changes
of the manifest or of the root are possible without limit in every run that has
them.

### Fairness

* `TaskRuns` (`WF_vars(Device)`): the FreeRTOS main task runs while it has
  power; every network call has a timeout (3 s in `aknano_net.c`) and every flash
  call returns. The same assumption is the `WF` of `ImageDownload`, `TufStore` and
  `Provisioning`.
* `NetworkRecovers` (`SF` of a successful refresh, of reaching the download server,
  of a successful download): an assumption about the environment, not about the
  code. It is the premise of `UpdateSettles` and `RollbackIsReported` and not part
  of the specification, so `ImplementsTrialUpdate` is shown without a network: the
  offline watchdog is what ends a trial. Events may be lost for ever all the same:
  `RollbackIsReported` promises that one is sent, not that it arrives.
* `TufStore` assumes in the same way that a request (for each root by itself) or a
  flash read that is repeated for ever does not fail for ever; `ProvisioningIsRepaired` states its assumptions in its premise.
* `Checkin`: `WF_vars(Device)` for the main task, as above. `KeepsPolling` needs
  nothing of the network. `ConfigurationArrives` has as its premise that connecting
  and the `GET /config`, tried for ever, do not fail for ever.
* `El2go`: weak fairness of each task. The agent task has the idle priority, but
  the main task it competes with spends its time in `aknano_delay` or waiting for
  the network. The premise of `DeviceStarts` is that no stage of the agent, tried
  for ever, fails for ever, and that there was memory for its task.
* Liveness properties say "once power is stable" by `<>[][~PowerLoss]_vars`.
  `PowerLoss` excludes the step `reboot`, at which it would be the same step as
  the reset the program asked for.

## 4. What is proved

All theorems hold for every value of the constants that satisfies the named
assumptions.

* The type invariants of all seven modules: `ManifestTypeCorrect`, and
  `TypeCorrect` of the others. For DeviceUpdate the content is `FlashIsReadable`:
  whatever a blank, torn or complete sector reads as, the settings are usable. For
  ImageDownload it is the unsigned arithmetic of the range loop, for Checkin the
  clamp of the interval and the bound on the attempts.
* `KnownGood`, `CompletedPermanent`, `NeverDowngrades`, `RefinesTrialUpdate`,
  each under the hypothesis `"confirm" \notin Faults`: the boot loader does not
  refuse a request for permanence. Without it they are false, see section 5.
  They rest on the inductive `TrialInvariant`. `KnownGoodBaseline` alone is not
  inductive: that a confirmation is sound needs to know that the image position
  and the version read at boot still describe the running slot (`SettingsFresh`),
  that the self-test flag is up before a refresh is acted on (`SelfTested`), that a
  flag "permanent" is never believed wrongly (`PermanentFlagSound`), that after
  `confirm` no image is on trial (`Confirmed`), that a staged image is followed by
  nothing but the save and the reset (`StagedOnlyBeforeReset`: no second download
  overwrites it), and that what is on trial is newer than the baseline
  (`TrialIsNewer`). `RefinesTrialUpdate` maps each step to a step of `TrialUpdate`
  or a stutter; `NeverDowngrades` follows from the same case analysis.
* `SuccessCorrelated`, `FailedNotRetried` and `SuccessNotMistaken`, for any number of
  versions. A success carries the id of its own installation, and none for the
  factory's version only. The first two have the hypothesis `SavesComplete`: `Faults`
  has none of `confirm`, `flash_write`, `unsaved_apply` and `torn_settings`, so that
  what is in RAM at the end of a save is in flash. `SuccessNotMistaken` says what is
  left with torn settings (`StagedIsSaved`): the id may be lost, but is never
  another installation's. ReadyForTest may be refused, events may be lost and the
  image state may be unreadable. `RecordInvariant`, inductive together with
  `TrialInvariant`, says what `last_applied_version`, `last_confirmed_version` and the
  correlation id in RAM and in flash have to do with each other, with the image on
  trial and with the observers, in each phase; `IdentityRecorded` adds that the id of
  the baseline is there until its success is reported, `FailureRecorded` the failed
  version. No hypothesis can be spared: each of the four faults alone lets TLC violate
  `SuccessIsCorrelated`; `flash_write`, `torn_settings` and, with a fourth version,
  `unsaved_apply` each alone violate `NoRetryOfFailedVersion`, as does `confirm`
  together with the faults that are admitted.
* `NeighbourKept`, `SuccessExact`, `HonestSucceeds` (ImageDownload), for all sizes
  and any sequence of replies. `StoredInv` ties the count of bytes to what was stored,
  so that the boundary check is about the flash; `StreamInv` says that while the hash
  is right and every range began at a sector, the cells below `xCurByte` are the
  image's, from which `SuccessExact` follows with the comparison of size and hash, and
  without `bl_verify_image`; `HonestInv` says that while
  everything goes as asked for, the stored cells are a prefix of the image and the
  next range starts at a sector (`Aligned`), so that no erase spoils what is there.
* `OthersUntouched`, `NeverOlder`, `AnchorStays`, `StoredIsRefreshed` (TufStore),
  for roots of any lengths. `WriteOK` says that a write in progress has erased
  whole sectors up to a multiple of `Sector` ahead of what it programs and stays
  within the two regions of the root; `EraseWithin` is the arithmetic. `AnchorStays`
  has the hypothesis `ShortAnchor` (the anchor is shorter than its region) and
  `StoredIsRefreshed` the hypothesis `UnalignedRoots` (no root's length is a
  multiple of the sector); both are limits of the code, see section 5.
* `RootsFormChain` (TufStore implements RootChain), without either hypothesis. Its
  invariant `ChainInv` says that what a write puts first into a region is the root
  that is trusted or the anchor (`WriteOfChain`), and that content which verifies is
  the anchor or the stored root; `ReadsFirst` is the reason: a file is known by its
  first piece, whatever an earlier write left behind it.
* `CheckinIsAtomic` (Checkin implements AtomicCheckin), from the invariant of the
  next three: the buffer is `verified` and the tag is `told` until the choice is made.
* `VerifiedSelected`, `TagTold`, `ConnectionsClosed` (Checkin), for any tags,
  intervals, numbers of attempts and versions. Their invariant says, step by step,
  what the buffer holds (between `RefreshTargets` and `parse` it is what was
  verified), which tag the last request carried and which contexts are connected.
* `SecureElementIsNotShared`, `CertificateFirst` (El2go). A session of the agent
  task belongs to one of five of its steps or is left over (`"unclosed"`), and
  none of these steps comes after `el2go_agent_stopped` is set; a main task past its
  wait has seen that flag.
* `SelectsNewestVisited` and `CleanSelectsNewest`: for manifests of any length,
  any device, tag and array limit. `NewestVisited` is inductive with the types;
  `ReadToTheEnd` adds that a well-formed manifest is never cut short.
* `IdentityMatches`, `NothingLeft`, `MadeForGood` (Provisioning), for any number of
  identities and sectors. `Consistent` says that while no call has misbehaved, a
  certificate exists only together with its identity and key, and a device being
  provisioned has none, because it is only provisioned when the check has found
  none and the certificate is stored last; `Cleared`, that without erase errors
  a sector holds nothing or what belongs to the certificate, and nothing once it
  has been passed by the clearing; `BeingMade`, that without read errors nothing is cleared
  or made on a device that is complete.

Of most liveness properties the part that needs no fairness is proved: a measure of
the steps that are left, which every step of the device makes smaller, or an
invariant that excludes waiting for what has been missed.

| Theorem | Safety half of | What it says |
|---|---|---|
| `EveryTrialEnds` | the fairness of `ImplementsTrialUpdate` | a trial has at most 3 * `OfflineLimit` + 13 steps left; every step of the device and every loss of power leaves fewer. `StillOffline` is the reason: no check-in of an image on trial has succeeded, and it only sleeps before the limit. Needs `"confirm" \notin Faults` |
| `EveryIterationEnds` | `KeepsPolling` | the next sleep is at most 3 * `AKNANO_EVENT_SENDING_RETRIES` + 13 steps away, whatever fails |
| `EveryCheckinEnds` | the same for `TufStore`; it states `CheckinEnds` | a check-in stores each root once and no write is longer than two regions, also while roots are published; the bound is in the theorem |
| `ServerCannotProlong`, `ClosedWhenDone` | `EndsDisconnected` | a download takes at most `expected_size` + 5 steps, and is not connected when it is over |
| `StartUpEnds`, `RepairedUnlessFailed` | `ProvisioningIsRepaired` | a start-up ends, and unless one of its steps failed it ends with a complete device |
| `WaitIsNotInVain` | `DeviceStarts` | an agent task that has stopped has set both flags, and only a loss of power takes them back |

Model-checked only: the liveness properties themselves (`UpdateSettles`,
`RollbackIsReported`, `RefreshRecovers` and `ConfigurationArrives` have no such half)
and the fairness part of `ImplementsTrialUpdate`. From "every step leaves fewer" and
weak fairness they would follow by ENABLED and by induction over the number of steps,
which are out of the prover's reach.

## 5. Findings

Each is a run that TLC refutes; `PROJECT.json` quotes the lines.

1. A refused request for permanence goes unnoticed: success is reported for an
   image the boot loader will revert (`flash_storage.c:168`).
2. A rollback that was already reported is reported again, under the correlation
   id of a later installation that never got past its download
   (`aknano.c:136`).
3. A malformed entry hides every later entry of the manifest
   (`aknano_targets_manifest.c:212`).
4. A trust anchor torn by a power loss begins with `{` and is taken as
   provisioned for good (`aknano_tuf_client.c:150`).

Known limits of the code that the models represent, or exclude by a named bound,
without a run of their own:

* A version whose ReadyForTest request was refused is skipped from then on as
  "already applied (and failed)", though it never ran: `last_applied_version` is
  set before the request (`api.c:338`) and saved after it. It is reported as
  rolled back at the next boot.
* The retry counter is saved at another offset than it is read from. With
  `AKNANO_MAX_ROLLED_BACK_VERSION_RETRIES` = 0 (`api.c:32`) it decides nothing.
* After a reset a check-in whose `GET /config` fails selects by the tag that was
  compiled in (`aknano.c:49`), as it does not depend on that request.
* A range that ends within a sector, followed by another, makes the client write at an
  offset within a sector (`aknano_image_download.c:154`), which the comment of
  `aknano_write_data_to_flash` rules out (`flash_storage.c:41`): it erases from
  there on, and what the range before left in that sector may be erased with it. Size and hash, which are those of the stream, may
  then be right while the flash is not the image; what is left is what
  `bl_verify_image` finds. Without its premise `on_sectors` TLC refutes
  `SuccessIsExact` in seven states: a reply of one cell, then the rest.
* Whether an event arrived is not looked at (`aknano.c:167`): the correlation id is
  cleared and the record saved all the same. If the five attempts of one event fail,
  the outcome of that installation, a rollback or a success, is never reported,
  however good the network becomes. `RollbackIsReported` therefore ends with the event
  being sent or lost.
* Power lost in the save that follows a report leaves an erased sector. A success
  is then reported again at the next boot, and as its correlation id is gone too,
  under one that is made up (`aknano_device_gateway.c:115`). `SuccessIsCorrelated`
  is stated for saves that complete, `SuccessNotMistaken` for torn ones.
* An event counts as delivered for any HTTP status (`aknano_device_gateway.c:247`
  only looks at the transport).
* In an EL2GO build an image on trial whose certificate cannot be obtained stays
  in the endless wait of `aknano_init` (`aknano.c:313`); the offline watchdog
  (`api.c:504`) is only reached after it, so nothing leads to the rollback.
* `agent_start` closes the session of a keystore that was not initialised if it
  fails before (`aknano_el2go.c:440`); the one opened by
  `iot_agent_session_init` may then stay open. `OneSession` excludes it by its
  premise (`"unclosed"`).
* Power lost between ReadyForTest and the save of the settings
  (`"unsaved_apply"`) can defeat `NoRetryOfFailedVersion`; that run leaves the
  fault out. `KnownGoodBaseline` and `NoDowngrade` hold with it.
* An image of exactly `AKNANO_MAX_FIRMWARE_SIZE` bytes is refused
  (`aknano_image_download.c:69`, `>=`); `HonestDownloadSucceeds` says so.
* Only ten elements of a hardware id or tag array are read
  (`aknano_targets_manifest.c:85`), and an abbreviated or empty name matches
  (`:90`, `:113`); `Clean` excludes both.
* A root of exactly 16 KB loses its last byte when it is read
  (`aknano_tuf_client.c:53`); a root whose length is a multiple of the sector and
  shorter than its predecessor is read with the old tail, as nothing is erased
  behind it; a `1.root.json` longer than its region spills into the next one
  (`:163`). The lengths of `MCTufStore` avoid the first two and assume the anchor
  fits.
* A certificate that cannot be read for once makes a complete device clear its
  flash and take a new identity (`aknano.c:297`); if power is lost before the new
  certificate is stored it keeps the old one beside the new identity.
  `ProvisionedForGood` and `IdentityMatchesCertificate` exclude read errors by
  their premises.
* `is_device_serial_set` compares a `char` with 0xff (`aknano.c:228`), so that an
  erased serial is recognised only where plain `char` is unsigned, the default on ARM;
  lines 70, 76 and 97 test whether a `char` is negative, which is true only where it is
  signed. `Provisioning` models the unsigned case for the serial. An erased
  correlation id is unset either way, by the second test of line 97.
* An empty tag, for which coreHTTP adds no header, one longer than 39 characters
  and a TOML value shorter than two, for which
  `toml_handler` takes one from zero (`api.c:74`), are outside the inputs of
  `Checkin`.

## 6. What is not modelled

* Optional builds: explicit registration, `AKNANO_TEST_ROLLBACK`, dry run,
  disabled reboot, `AKNANO_RESET_DEVICE_ID` (with `prvDestroyDefaultCryptoObjects`),
  the deletion of TUF data, and `AKNANO_USE_MAC_ADDRESS_AS_DEVICE_UUID`
  (`aknano_provisioning.c:40`): there a device gets the same identity each time,
  while `Provisioning` assumes that a new one is not in use, as random ones are not.
* Of EL2GO builds: the agent and the boot of its middleware (external), the
  printing of the UID and of the status report, claim codes and time measurement.
  Making uuid and serial is the same code as in `Provisioning`.
* The content of requests, events, certificates and JSON beyond what a decision
  depends on; TUF verification itself (libtufnano); TLS, sockets and coreHTTP;
  the button interval, which belongs to the application; logging and memory
  statistics, which change no state; the unit tests and build files.
* The events of an installation in `Checkin`: they use the same `aknano_send_event`
  after the check-in's connection is closed, and nothing in the buffer is needed
  any more. `DeviceUpdate` has their place in the order of an installation only
  where a decision follows.
* Memory: buffers are values, and what lies beyond their ends is not modelled.

## 7. State of the plan

Done: the life cycle with its abstraction; download; manifest; TUF store;
provisioning; check-in with gateway, remote configuration and shared buffer;
EdgeLock 2GO; every safety property that a run checks is also a theorem.

Of the earlier plan, the abstraction of a root of trust is `RootChain`, and the
hypothesis of the theorems about records is reduced to what each needs (section 4).

What could be added:

1. A composition of `Checkin` and `DeviceUpdate` in which the tag decides what is
   offered. They are kept apart because nothing that `DeviceUpdate` checks depends
   on why a version is offered: `Publish` offers any. `AtomicCheckin` is what such a
   composition would use.
2. Safety halves of `UpdateSettles` and `RefreshRecovers`: what is left to be done
   once the manifest or the root is stable and no request fails.

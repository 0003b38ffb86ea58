------------------------------ MODULE Checkin -------------------------------
(***************************************************************************)
(* One check-in after the other, request by request: aknano_checkin with   *)
(* the remote configuration, the connections to the device gateway and the *)
(* retries of the INSTALLATION_COMPLETED event.  DeviceUpdate has the same *)
(* check-in as one step; what it does with the selected target is there.   *)
(*                                                                         *)
(* Every request goes through ucUserBuffer, where tuf_refresh also leaves  *)
(* the targets metadata.  Metadata is known by its number; the verification *)
(* is libtufnano's, outside the repository.                                *)
(***************************************************************************)
EXTENDS Integers

CONSTANTS
    Tags,                           \* of 1 to 39 characters
    AKNANO_DEFAULT_TAG,
    Intervals,                      \* values of polling_interval in a config
    AKNANO_EVENT_SENDING_RETRIES,
    MaxTargets                      \* versions of the targets metadata

ASSUME TagAssumption == AKNANO_DEFAULT_TAG \in Tags
ASSUME IntervalAssumption == Intervals \subseteq Int
ASSUME RetryAssumption == AKNANO_EVENT_SENDING_RETRIES \in Nat \ {0}
ASSUME TargetsAssumption == MaxTargets \in Nat \ {0}

VARIABLES
    stored,         \* flash: version of the targets metadata kept there, or 0
    \* RAM
    pc,
    connected,      \* the network contexts that have a connection
    ucUserBuffer,   \* version of the targets metadata in it, 0 for all else
    tag, polling_interval,          \* the settings a config may change
    sleep_time,
    tuf_root_is_provisioned, executed_once,
    i, xDemoStatus,                 \* of aknano_send_event
    selected,       \* <<version of the metadata, tag>> selected from, or <<>>
    \* the gateway
    config,         \* what it answers to GET /config
    published,      \* version of the targets metadata
    \* what an observer knows
    verified,       \* version of the metadata last verified by tuf_refresh
    told,           \* the tag in the headers of the last request
    configured      \* the tag in the config received in this check-in, if any

settings == <<tag, polling_interval>>
statics == <<tuf_root_is_provisioned, executed_once>>
event == <<i, xDemoStatus>>
gateway == <<config, published>>
observed == <<verified, told, configured>>
vars == <<stored, pc, connected, ucUserBuffer, settings, sleep_time, statics,
          event, selected, gateway, observed>>

-----------------------------------------------------------------------------
(* Data.                                                                   *)

Contexts == {"checkin", "event"}    \* the network contexts of the two functions

Selections == {<<>>} \cup ((0 .. MaxTargets) \X Tags)

Optional(S) == {{}} \cup {{v} : v \in S}

\* A config without a usable value (absent, toml too long, no number, no JSON)
\* has none; btn_polling_interval belongs to the application.
Configs == [tag : Optional(Tags), interval : Optional(Intervals)]

NewTag(c) == IF c.tag = {} THEN {tag} ELSE c.tag

\* A slip: only a longer interval is taken for a change.
SlipNewInterval(c) ==
    IF \E v \in c.interval : v > polling_interval THEN c.interval
    ELSE {polling_interval}

NewInterval(c) == IF c.interval = {} THEN {polling_interval} ELSE c.interval

\* A slip: only the lower limit.
SlipLimit(seconds) == IF seconds < 5 THEN 5 ELSE seconds

aknano_limit_sleep_time_range(seconds) ==
    IF seconds < 5 THEN 5 ELSE IF seconds > 3600 THEN 3600 ELSE seconds

\* A slip: the targets are parsed after the report.
SlipParseLast(step) ==
    CASE step = "config"   -> "info"
      [] step = "info"     -> "root"
      [] step = "root"     -> "refresh"
      [] step = "refresh"  -> "targets"
      [] step = "targets"  -> "finished"
      [] step = "finished" -> "parse"
      [] step = "parse"    -> "disconnect"

\* The order of aknano_checkin.
Following(step) ==
    CASE step = "config"   -> "info"
      [] step = "info"     -> "root"
      [] step = "root"     -> "refresh"
      [] step = "refresh"  -> "targets"
      [] step = "targets"  -> "parse"
      [] step = "parse"    -> "finished"
      [] step = "finished" -> "disconnect"

-----------------------------------------------------------------------------
(* aknano_mtls_send_http_request: the headers, then what was received of a *)
(* reply, overwrite the buffer.                                            *)

\* A slip: the tag that was compiled in.
SlipHeaderTag == AKNANO_DEFAULT_TAG

HeaderTag == tag

Request(received) ==
    /\ told' = HeaderTag
    /\ ucUserBuffer' = received

-----------------------------------------------------------------------------
(* aknano_checkin.                                                         *)

\* aknano_init_context, aknano_connect_to_device_gateway.
Connect ==
    /\ pc = "connect"
    /\ \/ connected' = connected \cup {"checkin"} /\ pc' = "config"
       \/ pc' = "disconnect" /\ UNCHANGED connected
    /\ selected' = <<>>
    /\ configured' = {}
    /\ UNCHANGED <<stored, ucUserBuffer, settings, sleep_time, statics, event,
                   gateway, verified, told>>

\* GET /config and parse_config, whatever the status of the reply is.
ReceiveConfig ==
    /\ pc = "config"
    /\ Request(0)
    /\ tag' \in NewTag(config)
    /\ polling_interval' \in NewInterval(config)
    /\ configured' = config.tag
    /\ pc' = Following("config")
    /\ UNCHANGED <<stored, connected, sleep_time, statics, event, selected,
                   gateway, verified>>

NoConfig ==
    /\ pc = "config"
    /\ Request(0)
    /\ pc' = Following("config")
    /\ UNCHANGED <<stored, connected, settings, sleep_time, statics, event,
                   selected, gateway, verified, configured>>

\* Three PUT requests; nobody looks at what becomes of them.
SendSystemInfo ==
    /\ pc = "info"
    /\ Request(0)
    /\ pc' = Following("info")
    /\ UNCHANGED <<stored, connected, settings, sleep_time, statics, event,
                   selected, gateway, verified, configured>>

\* aknano_provision_tuf_root, once per run: from flash or from the gateway.
ProvisionRoot ==
    /\ pc = "root"
    /\ \/ /\ tuf_root_is_provisioned
          /\ UNCHANGED <<ucUserBuffer, told>>
       \/ /\ ~tuf_root_is_provisioned
          /\ ucUserBuffer' = 0
          /\ told' \in {told, HeaderTag}
    /\ tuf_root_is_provisioned' = TRUE
    /\ pc' = Following("root")
    /\ UNCHANGED <<stored, connected, settings, sleep_time, executed_once,
                   event, selected, gateway, verified, configured>>

\* tuf_refresh: root, timestamp and snapshot, ...
RefreshMetadata ==
    /\ pc = "refresh"
    /\ Request(0)
    /\ pc' = Following("refresh")
    /\ UNCHANGED <<stored, connected, settings, sleep_time, statics, event,
                   selected, gateway, verified, configured>>

\* ... then the targets metadata, from flash if it is the current one, ...
RefreshTargets ==
    /\ pc = "targets"
    /\ \/ stored = published /\ ucUserBuffer' = stored /\ UNCHANGED told
       \/ stored # published /\ Request(published)
    /\ stored' = published
    /\ verified' = published
    /\ pc' = Following("targets")
    /\ UNCHANGED <<connected, settings, sleep_time, statics, event, selected,
                   gateway, configured>>

\* A write of the targets metadata that was begun and not completed leaves
\* nothing that a later refresh takes for the current one.
MayLoseTargets ==
    \/ UNCHANGED stored
    \/ pc = "targets" /\ stored # published /\ stored' = 0

\* ... unless a fetch, a check of tuf_client_fetch_file, the verification of what
\* was fetched or a write fails, or the root could not be provisioned.
TufFails ==
    /\ pc \in {"root", "refresh", "targets"}
    /\ pc = "root" => ~tuf_root_is_provisioned
    /\ Request(0)
    /\ MayLoseTargets
    /\ pc' = "disconnect"
    /\ UNCHANGED <<connected, settings, sleep_time, statics, event,
                   selected, gateway, verified, configured>>

parse_targets_metadata ==
    /\ pc = "parse"
    /\ selected' = <<ucUserBuffer, tag>>
    /\ pc' = Following("parse")
    /\ UNCHANGED <<stored, connected, ucUserBuffer, settings, sleep_time,
                   statics, event, gateway, observed>>

\* aknano_set_image_confirmed, and whether there is something to report: see
\* DeviceUpdate.  Only the first check-in of a run that gets here asks.
Finished ==
    /\ pc = "finished"
    /\ executed_once' = TRUE
    /\ \/ pc' = Following("finished") /\ UNCHANGED event
       \/ /\ ~executed_once
          /\ pc' = "event"
          /\ i' = 0
          /\ xDemoStatus' = FALSE
    /\ UNCHANGED <<stored, connected, ucUserBuffer, settings, sleep_time,
                   tuf_root_is_provisioned, selected, gateway, observed>>

-----------------------------------------------------------------------------
(* aknano_send_event, with a network context of its own.                   *)

AnotherAttempt == i < AKNANO_EVENT_SENDING_RETRIES /\ ~xDemoStatus

\* A slip: a failed connection is taken for one.
SlipConnectEvent ==
    /\ pc = "event"
    /\ AnotherAttempt
    /\ connected' \in {connected, connected \cup {"event"}}
    /\ pc' = "post"
    /\ UNCHANGED <<stored, ucUserBuffer, settings, sleep_time, statics, event,
                   selected, gateway, observed>>

ConnectEvent ==
    /\ pc = "event"
    /\ AnotherAttempt
    /\ \/ connected' = connected \cup {"event"} /\ pc' = "post"
       \/ pc' = "delay" /\ UNCHANGED connected
    /\ UNCHANGED <<stored, ucUserBuffer, settings, sleep_time, statics, event,
                   selected, gateway, observed>>

\* POST /events: a reply of any status ends the attempts; a request whose body
\* is refused never reaches the buffer.
PostEvent ==
    /\ pc = "post"
    /\ \/ Request(0) /\ xDemoStatus' \in BOOLEAN
       \/ xDemoStatus' = FALSE /\ UNCHANGED <<ucUserBuffer, told>>
    /\ pc' = "close"
    /\ UNCHANGED <<stored, connected, settings, sleep_time, statics, i,
                   selected, gateway, verified, configured>>

\* A slip: an attempt that could not connect does not count.
SlipEndAttempt ==
    /\ pc \in {"close", "delay"}
    /\ connected' = connected \ {"event"}
    /\ i' = IF pc = "close" THEN i + 1 ELSE i
    /\ pc' = "event"
    /\ UNCHANGED <<stored, ucUserBuffer, settings, sleep_time, statics,
                   xDemoStatus, selected, gateway, observed>>

\* The disconnect after a request, or the delay after a failed connect.
EndAttempt ==
    /\ pc \in {"close", "delay"}
    /\ connected' = connected \ {"event"}
    /\ i' = i + 1
    /\ pc' = "event"
    /\ UNCHANGED <<stored, ucUserBuffer, settings, sleep_time, statics,
                   xDemoStatus, selected, gateway, observed>>

EventEnds ==
    /\ pc = "event"
    /\ ~AnotherAttempt
    /\ pc' = Following("finished")
    /\ UNCHANGED <<stored, connected, ucUserBuffer, settings, sleep_time,
                   statics, event, selected, gateway, observed>>

-----------------------------------------------------------------------------
(* The end of the check-in and of the iteration.                           *)

\* The only exit of aknano_checkin, also after a failed connect; a context that
\* was not connected stays as it is.
Disconnect ==
    /\ pc = "disconnect"
    /\ connected' = connected \ {"checkin"}
    /\ sleep_time' = aknano_limit_sleep_time_range(polling_interval)
    /\ pc' = "sleep"
    /\ UNCHANGED <<stored, ucUserBuffer, settings, statics, event, selected,
                   gateway, observed>>

Sleep ==
    /\ pc = "sleep"
    /\ pc' = "connect"
    /\ UNCHANGED <<stored, connected, ucUserBuffer, settings, sleep_time,
                   statics, event, selected, gateway, observed>>

-----------------------------------------------------------------------------
(* The environment.                                                        *)

\* The settings a config changed are not saved.
PowerLoss ==
    /\ pc' = "connect"
    /\ connected' = {}
    /\ ucUserBuffer' = 0
    /\ tag' = AKNANO_DEFAULT_TAG
    /\ polling_interval' = 15
    /\ sleep_time' = 5
    /\ tuf_root_is_provisioned' = FALSE
    /\ executed_once' = FALSE
    /\ i' = 0
    /\ xDemoStatus' = FALSE
    /\ selected' = <<>>
    /\ configured' = {}
    /\ MayLoseTargets
    /\ UNCHANGED <<gateway, verified, told>>

Configure ==
    /\ config' \in Configs
    /\ UNCHANGED <<stored, pc, connected, ucUserBuffer, settings, sleep_time,
                   statics, event, selected, published, observed>>

Publish ==
    /\ published < MaxTargets
    /\ published' = published + 1
    /\ UNCHANGED <<stored, pc, connected, ucUserBuffer, settings, sleep_time,
                   statics, event, selected, config, observed>>

Init ==
    /\ stored = 0
    /\ pc = "connect"
    /\ connected = {}
    /\ ucUserBuffer = 0
    /\ tag = AKNANO_DEFAULT_TAG
    /\ polling_interval = 15
    /\ sleep_time = 5
    /\ tuf_root_is_provisioned = FALSE
    /\ executed_once = FALSE
    /\ i = 0
    /\ xDemoStatus = FALSE
    /\ selected = <<>>
    /\ config = [tag |-> {}, interval |-> {}]
    /\ published = 1
    /\ verified = 0
    /\ told = AKNANO_DEFAULT_TAG
    /\ configured = {}

Refresh == ProvisionRoot \/ RefreshMetadata \/ RefreshTargets \/ TufFails

SendEvent == ConnectEvent \/ PostEvent \/ EndAttempt \/ EventEnds

Device ==
    \/ Connect
    \/ ReceiveConfig
    \/ NoConfig
    \/ SendSystemInfo
    \/ Refresh
    \/ parse_targets_metadata
    \/ Finished
    \/ SendEvent
    \/ Disconnect
    \/ Sleep

Next == Device \/ PowerLoss \/ Configure \/ Publish

Spec == Init /\ [][Next]_vars

\* The main task runs while it has power: connecting, sending and receiving end
\* within the timeouts of the transport.
FairSpec == Spec /\ WF_vars(Device)

-----------------------------------------------------------------------------
(* The promise of AtomicCheckin.  The choice is made when the refresh of   *)
(* the targets ends, although the buffer is only parsed later.             *)

Atomic == INSTANCE AtomicCheckin WITH
              chosen <- IF pc = "parse" THEN <<ucUserBuffer, tag>> ELSE selected

-----------------------------------------------------------------------------
(* Properties.                                                             *)

DataTypeOK ==
    /\ stored \in 0 .. MaxTargets
    /\ pc \in {"connect", "config", "info", "root", "refresh", "targets",
               "parse", "finished", "event", "post", "close", "delay",
               "disconnect", "sleep"}
    /\ connected \in SUBSET Contexts
    /\ ucUserBuffer \in 0 .. MaxTargets
    /\ tag \in Tags
    /\ polling_interval \in Intervals \cup {15}
    /\ sleep_time \in 5 .. 3600
    /\ i \in 0 .. AKNANO_EVENT_SENDING_RETRIES
    /\ selected \in Selections
    /\ config \in Configs
    /\ published \in 1 .. MaxTargets
    /\ verified \in 0 .. MaxTargets
    /\ told \in Tags
    /\ configured \in Optional(Tags)

FlagTypeOK ==
    /\ tuf_root_is_provisioned \in BOOLEAN
    /\ executed_once \in BOOLEAN
    /\ xDemoStatus \in BOOLEAN

\* Among the types: the delay before the next check-in is between five seconds
\* and an hour, whatever the gateway configures.
TypeOK == DataTypeOK /\ FlagTypeOK

\* A target is only selected from the metadata that this check-in's refresh
\* verified, not from whatever a later request left in the shared buffer.
SelectsVerified == selected # <<>> => selected[1] = verified

\* The gateway was told the tag by which the target is selected, and it is the
\* tag of the config this check-in received, if it received one.
OneTagPerCheckin ==
    selected # <<>> => told = selected[2] /\ configured \subseteq {told}

\* Requests only go over an open connection of their own context, and when the
\* device sleeps none is left open, whichever connect or request failed.
ConnectionsPaired ==
    /\ pc \in {"config", "info", "root", "refresh", "targets"}
           => connected = {"checkin"}
    /\ pc = "post" => connected = Contexts
    /\ pc \in {"connect", "sleep"} => connected = {}

\* All the requests of a check-in amount to one step that reads the metadata
\* published at that moment and the tag in use: neither changes between the
\* refresh and the choice, and nothing is chosen by a check-in that failed.
ImplementsAtomicCheckin == Atomic!Spec

\* Whatever fails, and however often, the device goes on to its next check-in as
\* long as it has power: no outage of the gateway leaves it retrying for ever.
KeepsPolling == <>[][~PowerLoss]_vars => []<>(pc = "sleep")

\* Once its config stops changing, the device uses tag and polling interval from
\* it, also after resets, if it is not kept from receiving it for ever.
ConfigurationArrives ==
    ( /\ <>[][~PowerLoss /\ ~Configure]_vars
      /\ SF_vars(Connect /\ pc' = "config")
      /\ SF_vars(ReceiveConfig) )
        => <>[](/\ config.tag \subseteq {tag}
                /\ config.interval \subseteq {polling_interval})
=============================================================================

--------------------------- MODULE CheckinProofs ----------------------------
(***************************************************************************)
(* A check-in selects from verified metadata, by the tag the gateway was   *)
(* told, over connections that are closed again, for any number of tags,   *)
(* intervals, metadata versions and sending attempts.                      *)
(***************************************************************************)
EXTENDS Checkin, TLAPS

Assumptions == /\ AKNANO_DEFAULT_TAG \in Tags
               /\ Intervals \subseteq Int
               /\ AKNANO_EVENT_SENDING_RETRIES \in Nat \ {0}
               /\ MaxTargets \in Nat \ {0}

BeforeParse == {"config", "info", "root", "refresh", "targets", "parse"}
Attempting == {"post", "close", "delay"}

\* An attempt under way is one of those allowed.
CountInv == pc \in Attempting => i < AKNANO_EVENT_SENDING_RETRIES

\* Nothing is selected before the metadata in the buffer is parsed, and what is
\* selected comes from it.
SelectInv ==
    /\ pc \in BeforeParse => selected = <<>>
    /\ pc = "parse" => ucUserBuffer = verified
    /\ selected # <<>> => selected[1] = verified

\* After the first request that follows the config, every request told the tag
\* in use.
TagInv ==
    /\ configured \subseteq {tag}
    /\ pc \in {"root", "refresh", "targets", "parse"} => told = tag
    /\ selected # <<>> => selected[2] = tag /\ told = tag

\* The check-in's connection is open all the time, the event's in an attempt.
ConnectionInv ==
    /\ pc \in BeforeParse \cup {"finished", "event", "delay"}
           => connected = {"checkin"}
    /\ pc \in {"post", "close"} => connected = Contexts
    /\ pc = "disconnect" => connected \subseteq {"checkin"}
    /\ pc \in {"connect", "sleep"} => connected = {}

IInv == TypeOK /\ CountInv /\ SelectInv /\ TagInv /\ ConnectionInv

LEMMA Constants == Assumptions
  BY TagAssumption, IntervalAssumption, RetryAssumption, TargetsAssumption
     DEF Assumptions

\* The order in which aknano_checkin does things.
LEMMA Order ==
    /\ Following("config") = "info"
    /\ Following("info") = "root"
    /\ Following("root") = "refresh"
    /\ Following("refresh") = "targets"
    /\ Following("targets") = "parse"
    /\ Following("parse") = "finished"
    /\ Following("finished") = "disconnect"
  BY DEF Following

\* What a config leaves in the settings is of their type.
LEMMA ConfigTypes ==
    ASSUME DataTypeOK
    PROVE  /\ NewTag(config) \subseteq Tags
           /\ NewInterval(config) \subseteq Intervals \cup {15}
           /\ config.tag \in Optional(Tags)
  BY DEF DataTypeOK, NewTag, NewInterval, Configs, Optional

\* The sets of connections.
LEMMA ConnectionTypes ==
    /\ {} \in SUBSET Contexts
    /\ \A S \in SUBSET Contexts :
           /\ S \cup {"checkin"} \in SUBSET Contexts
           /\ S \cup {"event"} \in SUBSET Contexts
           /\ S \ {"checkin"} \in SUBSET Contexts
           /\ S \ {"event"} \in SUBSET Contexts
  BY DEF Contexts

\* What may be selected.
LEMMA SelectionTypes ==
    /\ <<>> \in Selections
    /\ \A v \in 0 .. MaxTargets, t \in Tags : <<v, t>> \in Selections
  BY DEF Selections

LEMMA InitInv == Init => IInv
<1> SUFFICES ASSUME Init
             PROVE  IInv
  OBVIOUS
<1> USE Constants DEF Init, Assumptions
<1>1. config \in Configs
  BY DEF Configs, Optional
<1>2. configured \in Optional(Tags)
  BY DEF Optional
<1>3. DataTypeOK
  BY <1>1, <1>2, SelectionTypes, ConnectionTypes DEF DataTypeOK
<1>4. FlagTypeOK
  BY DEF FlagTypeOK
<1> QED
  BY <1>3, <1>4 DEF IInv, TypeOK, CountInv, SelectInv, TagInv, ConnectionInv,
                    BeforeParse, Attempting

\* Types and the count of attempts.
LEMMA DataStep ==
    DataTypeOK /\ CountInv /\ [Next]_vars => DataTypeOK' /\ CountInv'
<1> SUFFICES ASSUME DataTypeOK, CountInv, [Next]_vars
             PROVE  DataTypeOK' /\ CountInv'
  OBVIOUS
<1> USE Constants, Order
    DEF Assumptions, DataTypeOK, CountInv, Attempting, Request, HeaderTag,
        settings, statics, event, gateway, observed
<1>0. {} \in Optional(Tags)
  BY DEF Optional
<1>1. CASE Connect
  BY <1>0, <1>1, SelectionTypes, ConnectionTypes DEF Connect
<1>2. CASE ReceiveConfig
  BY <1>2, ConfigTypes DEF ReceiveConfig
<1>3. CASE NoConfig
  BY <1>3 DEF NoConfig
<1>4. CASE SendSystemInfo
  BY <1>4 DEF SendSystemInfo
<1>5. CASE ProvisionRoot
  BY <1>5 DEF ProvisionRoot
<1>6. CASE RefreshMetadata
  BY <1>6 DEF RefreshMetadata
<1>7. CASE RefreshTargets
  BY <1>7 DEF RefreshTargets
<1>8. CASE TufFails
  BY <1>8 DEF TufFails, MayLoseTargets
<1>9. CASE parse_targets_metadata
  BY <1>9, SelectionTypes DEF parse_targets_metadata
<1>10. CASE Finished
  BY <1>10 DEF Finished
<1>11. CASE ConnectEvent
  BY <1>11, ConnectionTypes DEF ConnectEvent, AnotherAttempt
<1>12. CASE PostEvent
  BY <1>12 DEF PostEvent
<1>13. CASE EndAttempt
  BY <1>13, ConnectionTypes DEF EndAttempt
<1>14. CASE EventEnds
  BY <1>14 DEF EventEnds
<1>15. CASE Disconnect
  <2>1. polling_interval \in Int
    OBVIOUS
  <2>2. aknano_limit_sleep_time_range(polling_interval) \in 5 .. 3600
    BY ONLY <2>1 DEF aknano_limit_sleep_time_range
  <2>3. connected' \in SUBSET Contexts
    BY <1>15, ConnectionTypes DEF Disconnect
  <2> QED
    BY <1>15, <2>2, <2>3 DEF Disconnect
<1>16. CASE Sleep
  BY <1>16 DEF Sleep
<1>17. CASE PowerLoss
  BY <1>0, <1>17, SelectionTypes, ConnectionTypes DEF PowerLoss, MayLoseTargets
<1>18. CASE Configure
  BY <1>18 DEF Configure
<1>19. CASE Publish
  BY <1>19 DEF Publish
<1>20. CASE UNCHANGED vars
  BY <1>20 DEF vars
<1> HIDE DEF DataTypeOK, CountInv
<1> QED
  BY <1>1, <1>2, <1>3, <1>4, <1>5, <1>6, <1>7, <1>8, <1>9, <1>10, <1>11, <1>12,
     <1>13, <1>14, <1>15, <1>16, <1>17, <1>18, <1>19, <1>20
     DEF Next, Device, Refresh, SendEvent

\* The flags.
LEMMA FlagStep == FlagTypeOK /\ [Next]_vars => FlagTypeOK'
<1> SUFFICES ASSUME FlagTypeOK, [Next]_vars
             PROVE  FlagTypeOK'
  OBVIOUS
<1> USE DEF FlagTypeOK, statics, event
<1>1. CASE Connect \/ ReceiveConfig \/ NoConfig \/ SendSystemInfo
  BY <1>1 DEF Connect, ReceiveConfig, NoConfig, SendSystemInfo
<1>2. CASE ProvisionRoot \/ RefreshMetadata \/ RefreshTargets \/ TufFails
  BY <1>2 DEF ProvisionRoot, RefreshMetadata, RefreshTargets, TufFails
<1>3. CASE parse_targets_metadata
  BY <1>3 DEF parse_targets_metadata
<1>4. CASE Finished \/ ConnectEvent \/ PostEvent \/ EndAttempt \/ EventEnds
  BY <1>4 DEF Finished, ConnectEvent, PostEvent, EndAttempt, EventEnds
<1>5. CASE Disconnect \/ Sleep
  BY <1>5 DEF Disconnect, Sleep
<1>6. CASE PowerLoss \/ Configure \/ Publish
  BY <1>6 DEF PowerLoss, Configure, Publish
<1>7. CASE UNCHANGED vars
  BY <1>7 DEF vars
<1> QED
  BY <1>1, <1>2, <1>3, <1>4, <1>5, <1>6, <1>7
     DEF Next, Device, Refresh, SendEvent

\* What is selected, and from what.
LEMMA SelectStep == DataTypeOK /\ SelectInv /\ [Next]_vars => SelectInv'
<1> SUFFICES ASSUME DataTypeOK, SelectInv, [Next]_vars
             PROVE  SelectInv'
  OBVIOUS
<1> USE Order
    DEF SelectInv, BeforeParse, Request, settings, statics, event, gateway,
        observed
<1>1. CASE Connect \/ ReceiveConfig \/ NoConfig \/ SendSystemInfo
  BY <1>1 DEF Connect, ReceiveConfig, NoConfig, SendSystemInfo
<1>2. CASE ProvisionRoot \/ RefreshMetadata \/ RefreshTargets \/ TufFails
  BY <1>2 DEF ProvisionRoot, RefreshMetadata, RefreshTargets, TufFails
<1>3. CASE parse_targets_metadata
  BY <1>3 DEF parse_targets_metadata
<1>4. CASE Finished \/ ConnectEvent \/ PostEvent \/ EndAttempt \/ EventEnds
  BY <1>4 DEF Finished, ConnectEvent, PostEvent, EndAttempt, EventEnds
<1>5. CASE Disconnect \/ Sleep
  BY <1>5 DEF Disconnect, Sleep
<1>6. CASE PowerLoss \/ Configure \/ Publish
  BY <1>6 DEF PowerLoss, Configure, Publish
<1>7. CASE UNCHANGED vars
  BY <1>7 DEF vars
<1> QED
  BY <1>1, <1>2, <1>3, <1>4, <1>5, <1>6, <1>7
     DEF Next, Device, Refresh, SendEvent

\* The tag in the settings, in the headers and in the selection.
LEMMA TagStep == DataTypeOK /\ SelectInv /\ TagInv /\ [Next]_vars => TagInv'
<1> SUFFICES ASSUME DataTypeOK, SelectInv, TagInv, [Next]_vars
             PROVE  TagInv'
  OBVIOUS
<1> USE Order
    DEF TagInv, SelectInv, BeforeParse, Request, HeaderTag, settings, statics,
        event, gateway, observed
<1>1. CASE Connect
  BY <1>1 DEF Connect
<1>2. CASE ReceiveConfig
  <2>1. config.tag \subseteq {tag'}
    BY <1>2, ConfigTypes DEF ReceiveConfig, NewTag, Optional
  <2> QED
    BY <1>2, <2>1 DEF ReceiveConfig
<1>3. CASE NoConfig \/ SendSystemInfo
  BY <1>3 DEF NoConfig, SendSystemInfo
<1>4. CASE ProvisionRoot \/ RefreshMetadata \/ RefreshTargets \/ TufFails
  BY <1>4 DEF ProvisionRoot, RefreshMetadata, RefreshTargets, TufFails
<1>5. CASE parse_targets_metadata
  BY <1>5 DEF parse_targets_metadata
<1>6. CASE Finished \/ ConnectEvent \/ PostEvent \/ EndAttempt \/ EventEnds
  BY <1>6 DEF Finished, ConnectEvent, PostEvent, EndAttempt, EventEnds
<1>7. CASE Disconnect \/ Sleep
  BY <1>7 DEF Disconnect, Sleep
<1>8. CASE PowerLoss \/ Configure \/ Publish
  BY <1>8 DEF PowerLoss, Configure, Publish
<1>9. CASE UNCHANGED vars
  BY <1>9 DEF vars
<1> QED
  BY <1>1, <1>2, <1>3, <1>4, <1>5, <1>6, <1>7, <1>8, <1>9
     DEF Next, Device, Refresh, SendEvent

\* The two connections.
LEMMA ConnectionStep == ConnectionInv /\ [Next]_vars => ConnectionInv'
<1> SUFFICES ASSUME ConnectionInv, [Next]_vars
             PROVE  ConnectionInv'
  OBVIOUS
<1> USE Order DEF ConnectionInv, BeforeParse, Contexts
<1>1. CASE Connect \/ ReceiveConfig \/ NoConfig \/ SendSystemInfo
  BY <1>1 DEF Connect, ReceiveConfig, NoConfig, SendSystemInfo
<1>2. CASE ProvisionRoot \/ RefreshMetadata \/ RefreshTargets \/ TufFails
  BY <1>2 DEF ProvisionRoot, RefreshMetadata, RefreshTargets, TufFails
<1>3. CASE parse_targets_metadata
  BY <1>3 DEF parse_targets_metadata
<1>4. CASE Finished \/ ConnectEvent \/ PostEvent \/ EndAttempt \/ EventEnds
  BY <1>4 DEF Finished, ConnectEvent, PostEvent, EndAttempt, EventEnds
<1>5. CASE Disconnect \/ Sleep
  BY <1>5 DEF Disconnect, Sleep
<1>6. CASE PowerLoss \/ Configure \/ Publish
  BY <1>6 DEF PowerLoss, Configure, Publish
<1>7. CASE UNCHANGED vars
  BY <1>7 DEF vars
<1> QED
  BY <1>1, <1>2, <1>3, <1>4, <1>5, <1>6, <1>7
     DEF Next, Device, Refresh, SendEvent

\* The inductive invariant holds in every reachable state.
LEMMA Invariant == Spec => []IInv
<1>1. IInv /\ [Next]_vars => IInv'
  BY DataStep, FlagStep, SelectStep, TagStep, ConnectionStep DEF IInv, TypeOK
<1> QED
  BY <1>1, InitInv, PTL DEF Spec

\* Every variable keeps its type: the interval slept is between five seconds and
\* an hour, and no more attempts are made than allowed.
THEOREM TypeCorrect == Spec => []TypeOK
  BY Invariant, PTL DEF IInv

\* A target is only selected from verified metadata.
THEOREM VerifiedSelected == Spec => []SelectsVerified
<1>1. IInv => SelectsVerified
  BY DEF IInv, SelectInv, SelectsVerified
<1> QED
  BY <1>1, Invariant, PTL

\* The gateway is told the tag of the selection, which is that of the config.
THEOREM TagTold == Spec => []OneTagPerCheckin
<1>1. IInv => OneTagPerCheckin
  BY DEF IInv, TagInv, OneTagPerCheckin
<1> QED
  BY <1>1, Invariant, PTL

\* Requests go over open connections, and all connections are closed again.
THEOREM ConnectionsClosed == Spec => []ConnectionsPaired
<1>1. IInv => ConnectionsPaired
  BY DEF IInv, ConnectionInv, BeforeParse, ConnectionsPaired
<1> QED
  BY <1>1, Invariant, PTL

-----------------------------------------------------------------------------
(* Every step is a step of AtomicCheckin or invisible to it.               *)

\* The choice is made by the refresh of the targets, dropped by the next check-in
\* or a reset, and no other step changes it.
LEMMA AtomicStep == IInv /\ [Next]_vars => [Atomic!Next]_(Atomic!vars)
<1> SUFFICES ASSUME IInv, [Next]_vars
             PROVE  [Atomic!Next]_(Atomic!vars)
  OBVIOUS
<1> USE Order
    DEF settings, statics, event, gateway, observed, Atomic!vars, Atomic!Next
<1>1. /\ pc \in BeforeParse => selected = <<>>
      /\ DataTypeOK
  BY DEF IInv, SelectInv, TypeOK
<1>2. CASE Connect
  <2>1. Atomic!NextCheckin
    BY <1>2 DEF Connect, Atomic!NextCheckin
  <2> QED
    BY <2>1
<1>3. CASE ReceiveConfig
  <2>1. Atomic!Configure
    BY <1>1, <1>3, ConfigTypes
    DEF ReceiveConfig, Atomic!Configure, BeforeParse
  <2> QED
    BY <2>1
<1>4. CASE RefreshTargets
  <2>1. ucUserBuffer' = published
    BY <1>4 DEF RefreshTargets, Request
  <2>2. Atomic!Choose
    BY <1>1, <1>4, <2>1 DEF RefreshTargets, Atomic!Choose, BeforeParse
  <2> QED
    BY <2>2
<1>5. CASE parse_targets_metadata
  BY <1>5 DEF parse_targets_metadata
<1>6. CASE PowerLoss
  <2>1. Atomic!Reset
    BY <1>6 DEF PowerLoss, Atomic!Reset
  <2> QED
    BY <2>1
<1>7. CASE Publish
  <2>1. Atomic!Publish
    BY <1>7 DEF Publish, Atomic!Publish
  <2> QED
    BY <2>1
<1>8. CASE /\ UNCHANGED <<published, tag, selected>>
           /\ pc # "parse" /\ pc' # "parse"
  BY <1>8
<1>9. CASE UNCHANGED <<published, tag, selected, pc, ucUserBuffer>>
  BY <1>9
<1> QED
  BY <1>2, <1>3, <1>4, <1>5, <1>6, <1>7, <1>8, <1>9
     DEF vars, Next, Device, Refresh, SendEvent, NoConfig, SendSystemInfo,
         ProvisionRoot, RefreshMetadata, TufFails, Finished, ConnectEvent,
         PostEvent, EndAttempt, EventEnds, Disconnect, Sleep, Configure

\* A check-in chooses as if it read the published metadata and the tag in one
\* step, whatever is requested before and after through the same buffer.
THEOREM CheckinIsAtomic == Spec => ImplementsAtomicCheckin
<1>1. Init => Atomic!Init
  BY DEF Init, Atomic!Init
<1> QED
  BY <1>1, AtomicStep, Invariant, PTL
     DEF Spec, ImplementsAtomicCheckin, Atomic!Spec
-----------------------------------------------------------------------------
(* The safety half of KeepsPolling: what no fairness is needed for.        *)

\* The steps of an iteration before it comes to the event.
Before(step) ==
    CASE step = "connect"    -> 11
      [] step = "config"     -> 9
      [] step = "info"       -> 8
      [] step = "root"       -> 7
      [] step = "refresh"    -> 6
      [] step = "targets"    -> 5
      [] step = "parse"      -> 4
      [] step = "finished"   -> 3

Early == BeforeParse \cup {"connect", "finished"}

\* How many steps of the device there are left in an iteration, at most, when i
\* attempts of the event have been made: three for each of the others.
StepsLeft ==
    IF pc \in Early
    THEN 3 * AKNANO_EVENT_SENDING_RETRIES + 2 + Before(pc)
    ELSE IF pc = "disconnect" THEN 1
    ELSE IF pc = "sleep" THEN 0
    ELSE 3 * (AKNANO_EVENT_SENDING_RETRIES - i)
             + (IF pc = "event" THEN 2 ELSE IF pc = "post" THEN 1 ELSE 0)

\* Before the event a step goes on in order or to the end.
LEMMA EarlyNearer ==
    ASSUME IInv, Device, pc \in Early
    PROVE  \/ pc' \in Early /\ Before(pc') < Before(pc)
           \/ pc' = "disconnect"
           \/ pc' = "event" /\ i' = 0
<1> USE Order DEF Before, Early, BeforeParse, event, statics
<1>1. CASE Connect
  BY <1>1 DEF Connect
<1>2. CASE ReceiveConfig \/ NoConfig \/ SendSystemInfo
  BY <1>2 DEF ReceiveConfig, NoConfig, SendSystemInfo
<1>3. CASE ProvisionRoot \/ RefreshMetadata
  BY <1>3 DEF ProvisionRoot, RefreshMetadata
<1>4. CASE RefreshTargets \/ TufFails
  BY <1>4 DEF RefreshTargets, TufFails
<1>5. CASE parse_targets_metadata \/ Finished
  BY <1>5 DEF parse_targets_metadata, Finished
<1> QED
  BY <1>1, <1>2, <1>3, <1>4, <1>5
     DEF Device, Refresh, SendEvent, ConnectEvent, PostEvent, EndAttempt,
         EventEnds, Disconnect, Sleep

\* An attempt is three steps, and there are no more of them than allowed.
LEMMA LateNearer ==
    ASSUME IInv, Device, pc \notin Early \cup {"sleep"}
    PROVE  \/ pc = "disconnect" /\ pc' = "sleep"
           \/ pc = "event" /\ pc' \in {"post", "delay"} /\ i' = i
           \/ pc = "event" /\ pc' = "disconnect"
           \/ pc = "post" /\ pc' = "close" /\ i' = i
           \/ pc \in {"close", "delay"} /\ pc' = "event" /\ i' = i + 1
<1> USE Order DEF Early, BeforeParse, event
<1>1. CASE ConnectEvent \/ PostEvent
  BY <1>1 DEF ConnectEvent, PostEvent
<1>2. CASE EndAttempt \/ EventEnds
  BY <1>2 DEF EndAttempt, EventEnds
<1>3. CASE Disconnect
  BY <1>3 DEF Disconnect
<1> QED
  BY <1>1, <1>2, <1>3
     DEF Device, Refresh, SendEvent, Connect, ReceiveConfig, NoConfig,
         SendSystemInfo, ProvisionRoot, RefreshMetadata, RefreshTargets, TufFails,
         parse_targets_metadata, Finished, Sleep

\* Every step of the device, except the one that ends the sleep, brings the next
\* sleep nearer, whatever the gateway answers, and from anywhere in an iteration it
\* is no further than the attempts allow: no outage keeps the device retrying.
THEOREM EveryIterationEnds ==
    Spec => [][Device /\ pc # "sleep"
                  => /\ StepsLeft' < StepsLeft
                     /\ StepsLeft \in 0 .. 3 * AKNANO_EVENT_SENDING_RETRIES + 13]_vars
<1> DEFINE Bound == 3 * AKNANO_EVENT_SENDING_RETRIES + 13
           Nearer == Device /\ pc # "sleep"
                         => StepsLeft' < StepsLeft /\ StepsLeft \in 0 .. Bound
<1>1. ASSUME IInv, Device, pc # "sleep"
      PROVE  StepsLeft' < StepsLeft /\ StepsLeft \in 0 .. Bound
  <2>1. PICK retries \in Nat, n \in Nat :
            /\ retries = AKNANO_EVENT_SENDING_RETRIES /\ n = i /\ n =< retries
            /\ pc \in Attempting => n < retries
    BY <1>1, RetryAssumption DEF IInv, TypeOK, DataTypeOK, CountInv
  <2>2. \A step \in Early : Before(step) \in 1 .. 11
    BY DEF Early, BeforeParse, Before
  <2>3. CASE pc \in Early
    <3>1. PICK b \in 1 .. 11 : b = Before(pc) /\ StepsLeft = 3 * retries + 2 + b
      BY <2>1, <2>2, <2>3 DEF StepsLeft
    <3>2. CASE pc' \in Early /\ Before(pc') < Before(pc)
      <4>1. PICK c \in 1 .. 11 : c = Before(pc') /\ StepsLeft' = 3 * retries + 2 + c
        BY <2>1, <2>2, <3>2 DEF StepsLeft
      <4>2. c < b
        BY <3>1, <3>2, <4>1
      <4> QED
        BY <2>1, <3>1, <4>1, <4>2
    <3>3. CASE pc' = "disconnect"
      <4>1. StepsLeft' = 1
        BY <3>3 DEF StepsLeft, Early, BeforeParse
      <4> QED
        BY <2>1, <3>1, <4>1
    <3>4. CASE pc' = "event" /\ i' = 0
      <4>1. StepsLeft' = 3 * retries + 2
        BY <2>1, <3>4 DEF StepsLeft, Early, BeforeParse
      <4> QED
        BY <2>1, <3>1, <4>1
    <3> QED
      BY <1>1, <2>3, <3>2, <3>3, <3>4, EarlyNearer
  <2>4. CASE pc \notin Early
    <3>1. PICK left \in Nat : left = retries - n
      BY <2>1
    <3>2. CASE pc = "disconnect" /\ pc' = "sleep"
      <4>1. StepsLeft = 1 /\ StepsLeft' = 0
        BY <3>2 DEF StepsLeft, Early, BeforeParse
      <4> QED
        BY <2>1, <4>1
    <3>3. CASE pc = "event" /\ pc' \in {"post", "delay"} /\ i' = i
      <4>1. /\ StepsLeft = 3 * left + 2
            /\ StepsLeft' \in {3 * left + 1, 3 * left + 0}
        BY <2>1, <3>1, <3>3 DEF StepsLeft, Early, BeforeParse
      <4> QED
        BY <2>1, <3>1, <4>1
    <3>4. CASE pc = "event" /\ pc' = "disconnect"
      <4>1. StepsLeft = 3 * left + 2 /\ StepsLeft' = 1
        BY <2>1, <3>1, <3>4 DEF StepsLeft, Early, BeforeParse
      <4> QED
        BY <2>1, <3>1, <4>1
    <3>5. CASE pc = "post" /\ pc' = "close" /\ i' = i
      <4>1. StepsLeft = 3 * left + 1 /\ StepsLeft' = 3 * left + 0
        BY <2>1, <3>1, <3>5 DEF StepsLeft, Early, BeforeParse
      <4> QED
        BY <2>1, <3>1, <4>1
    <3>6. CASE pc \in {"close", "delay"} /\ pc' = "event" /\ i' = i + 1
      <4>1. /\ StepsLeft = 3 * left + 0 /\ left # 0
            /\ StepsLeft' = 3 * (left - 1) + 2
        BY <2>1, <3>1, <3>6 DEF StepsLeft, Early, BeforeParse, Attempting
      <4> QED
        BY <2>1, <3>1, <4>1
    <3> QED
      BY <1>1, <2>4, <3>2, <3>3, <3>4, <3>5, <3>6, LateNearer
  <2> QED
    BY <2>3, <2>4
<1>2. IInv /\ [Next]_vars => [Nearer]_vars
  BY <1>1
<1> QED
  BY <1>2, Invariant, PTL DEF Spec
=============================================================================

---------------------------- MODULE El2goProofs -----------------------------
(***************************************************************************)
(* The two tasks of an EdgeLock 2GO build keep apart without a lock,       *)
(* because each flag is only set when the next step of the agent task is   *)
(* to do nothing more.                                                     *)
(***************************************************************************)
EXTENDS El2go, TLAPS

\* The steps of the agent task at which it has a session.
AtSession == {"reading", "register", "update", "close", "rereading"}

\* Each task has a session only at the steps that need one, ...
SessionInv ==
    /\ main = "off" => agent = "off"
    /\ "main" \in session => main = "connected"
    /\ "unclosed" \notin errors /\ "agent" \in session => agent \in AtSession

\* ... and the flags say how far the agent task is.
FlagInv ==
    /\ main \in Running => is_certificate_available_cache /\ el2go_agent_stopped
    /\ el2go_agent_stopped => agent = "stopped"
    /\ is_certificate_available_cache /\ errors = {} => certificate

IInv == TypeOK /\ SessionInv /\ FlagInv

\* Every step keeps the types; errors are never forgotten.
LEMMA TypeStep == TypeOK /\ [Next]_vars => TypeOK' /\ errors \subseteq errors'
<1> SUFFICES ASSUME TypeOK, [Next]_vars
             PROVE  TypeOK' /\ errors \subseteq errors'
  OBVIOUS
<1> USE DEF TypeOK, Tasks, Running, Kinds, flags, Open, Close
<1>1. CASE Main
  BY <1>1 DEF Main, aknano_start_el2go_task, aknano_init, aknano_init_settings,
              Connect, Disconnect
<1>2. CASE FirstCheck \/ CheckAgain
  BY <1>2 DEF FirstCheck, CheckAgain, StartCheck
<1>3. CASE FirstCheckDone \/ CheckAgainDone
  BY <1>3 DEF FirstCheckDone, CheckAgainDone, EndCheck, CertificateRead
<1>4. CASE SessionInit \/ RegisterKeystore \/ CloseSession
  BY <1>4 DEF SessionInit, RegisterKeystore, CloseSession
<1>5. CASE iot_agent_update_device_configuration
  BY <1>5 DEF iot_agent_update_device_configuration
<1>6. CASE AgentStops
  BY <1>6 DEF AgentStops
<1>7. CASE PowerLoss
  BY <1>7 DEF PowerLoss
<1>8. CASE UNCHANGED vars
  BY <1>8 DEF vars
<1> QED
  BY <1>1, <1>2, <1>3, <1>4, <1>5, <1>6, <1>7, <1>8 DEF Next, Agent

\* Where a session is opened and closed.
LEMMA SessionStep == IInv /\ [Next]_vars => SessionInv'
<1> SUFFICES ASSUME IInv, [Next]_vars
             PROVE  SessionInv'
  OBVIOUS
<1>1. errors \subseteq errors'
  BY TypeStep DEF IInv
<1> USE <1>1 DEF IInv, SessionInv, AtSession, Tasks, flags, Open, Close
<1>2. CASE Main
  BY <1>2 DEF Main, aknano_start_el2go_task, aknano_init, aknano_init_settings,
              Connect, Disconnect, Running
<1>3. CASE FirstCheck \/ CheckAgain
  BY <1>3 DEF FirstCheck, CheckAgain, StartCheck
<1>4. CASE FirstCheckDone \/ CheckAgainDone
  BY <1>4 DEF FirstCheckDone, CheckAgainDone, EndCheck, CertificateRead
<1>5. CASE SessionInit \/ RegisterKeystore \/ CloseSession
  BY <1>5 DEF SessionInit, RegisterKeystore, CloseSession
<1>6. CASE iot_agent_update_device_configuration
  BY <1>6 DEF iot_agent_update_device_configuration
<1>7. CASE AgentStops
  BY <1>7 DEF AgentStops
<1>8. CASE PowerLoss
  BY <1>8 DEF PowerLoss
<1>9. CASE UNCHANGED vars
  BY <1>9 DEF vars
<1> QED
  BY <1>2, <1>3, <1>4, <1>5, <1>6, <1>7, <1>8, <1>9 DEF Next, Agent

\* A positive check is only cached when there is a certificate, the agent task
\* sets its flag with its last step, and the main task waits for both.
LEMMA FlagStep == IInv /\ [Next]_vars => FlagInv'
<1> SUFFICES ASSUME IInv, [Next]_vars
             PROVE  FlagInv'
  OBVIOUS
<1>1. errors \subseteq errors'
  BY TypeStep DEF IInv
<1>0. main = "off" => ~el2go_agent_stopped
  BY DEF IInv, SessionInv, FlagInv
<1> USE <1>1 DEF IInv, FlagInv, Running, flags, TypeOK
<1>2. CASE Main
  BY <1>0, <1>2 DEF Main, aknano_start_el2go_task, aknano_init,
                    aknano_init_settings, MayProceed, Connect, Disconnect
<1>3. CASE FirstCheck \/ CheckAgain
  BY <1>3 DEF FirstCheck, CheckAgain, StartCheck
<1>4. CASE FirstCheckDone \/ CheckAgainDone
  BY <1>4 DEF FirstCheckDone, CheckAgainDone, EndCheck, CertificateRead
<1>5. CASE SessionInit \/ RegisterKeystore \/ CloseSession
  BY <1>5 DEF SessionInit, RegisterKeystore, CloseSession
<1>6. CASE iot_agent_update_device_configuration
  BY <1>6 DEF iot_agent_update_device_configuration
<1>7. CASE AgentStops
  BY <1>7 DEF AgentStops
<1>8. CASE PowerLoss
  BY <1>8 DEF PowerLoss
<1>9. CASE UNCHANGED vars
  BY <1>9 DEF vars
<1> QED
  BY <1>2, <1>3, <1>4, <1>5, <1>6, <1>7, <1>8, <1>9 DEF Next, Agent

\* The inductive invariant holds in every reachable state.
LEMMA Invariant == Spec => []IInv
<1>1. Init => IInv
  BY DEF Init, IInv, TypeOK, SessionInv, FlagInv, Running, Kinds, Tasks
<1>2. IInv /\ [Next]_vars => IInv'
  BY TypeStep, SessionStep, FlagStep DEF IInv
<1> QED
  BY <1>1, <1>2, PTL DEF Spec

\* The flags and the steps of both tasks keep their types.
THEOREM TypeCorrect == Spec => []TypeOK
  BY Invariant, PTL DEF IInv

\* However the steps of the two tasks interleave, at most one has a session with
\* the secure element.
THEOREM SecureElementIsNotShared == Spec => []OneSession
<1>1. IInv => OneSession
  BY DEF IInv, SessionInv, FlagInv, OneSession, Tasks, Running, AtSession
<1> QED
  BY <1>1, Invariant, PTL

\* The update loop only begins with a certificate.
THEOREM CertificateFirst == Spec => []StartsWithCertificate
<1>1. IInv => StartsWithCertificate
  BY DEF IInv, FlagInv, StartsWithCertificate
<1> QED
  BY <1>1, Invariant, PTL

-----------------------------------------------------------------------------
(* The safety half of DeviceStarts: nobody waits for what has been missed. *)

\* While the main task waits there is an agent task, and that one only comes to
\* its last step with a certificate in the cache and sets its flag on the way.
StopInv ==
    /\ main \in {"init", "wait"} => agent # "off"
    /\ agent \in {"skip", "break", "stopped"} => is_certificate_available_cache
    /\ agent = "stopped" => el2go_agent_stopped

\* Both ways out of the agent's loop keep it.
LEMMA StopStep == IInv /\ StopInv /\ [Next]_vars => StopInv'
<1> SUFFICES ASSUME IInv, StopInv, [Next]_vars
             PROVE  StopInv'
  OBVIOUS
<1> USE DEF StopInv, flags
<1>1. CASE Main
  <2>1. agent' = agent \/ agent' = "delay"
    BY <1>1 DEF Main, aknano_start_el2go_task, aknano_init,
                aknano_init_settings, Connect, Disconnect
  <2> QED
    BY <1>1, <2>1 DEF Main, aknano_start_el2go_task, aknano_init,
                      aknano_init_settings, Connect, Disconnect, Running
<1>2. CASE FirstCheck \/ CheckAgain
  BY <1>2 DEF FirstCheck, CheckAgain, StartCheck
<1>3. CASE FirstCheckDone \/ CheckAgainDone
  BY <1>3 DEF FirstCheckDone, CheckAgainDone, EndCheck
<1>4. CASE SessionInit \/ RegisterKeystore \/ CloseSession
  BY <1>4 DEF SessionInit, RegisterKeystore, CloseSession
<1>5. CASE iot_agent_update_device_configuration
  BY <1>5 DEF iot_agent_update_device_configuration
<1>6. CASE AgentStops
  BY <1>6 DEF AgentStops
<1>7. CASE PowerLoss
  BY <1>7 DEF PowerLoss
<1>8. CASE UNCHANGED vars
  BY <1>8 DEF vars
<1> QED
  BY <1>1, <1>2, <1>3, <1>4, <1>5, <1>6, <1>7, <1>8 DEF Next, Agent

\* The wait of aknano_init is for something that comes: there is an agent task
\* whenever the main task waits, a task that has stopped has set both flags, on
\* whichever way, and what has been set is only lost with power.
THEOREM WaitIsNotInVain ==
    Spec => /\ [](/\ main = "wait" => agent # "off"
                  /\ agent = "stopped" => MayProceed)
            /\ [][MayProceed => MayProceed' \/ PowerLoss]_vars
<1>1. Init => StopInv
  BY DEF Init, StopInv
<1>2. StopInv => /\ main = "wait" => agent # "off"
                 /\ agent = "stopped" => MayProceed
  BY DEF StopInv, MayProceed
<1>3. ASSUME IInv, Next, MayProceed PROVE MayProceed' \/ PowerLoss
  <2>1. agent = "stopped"
    BY <1>3 DEF IInv, FlagInv, MayProceed
  <2> QED
    BY <1>3, <2>1
    DEF Next, Main, Agent, MayProceed, flags, aknano_start_el2go_task,
        aknano_init, aknano_init_settings, Connect, Disconnect, FirstCheck,
        FirstCheckDone, SessionInit, RegisterKeystore,
        iot_agent_update_device_configuration, CloseSession, CheckAgain,
        CheckAgainDone, AgentStops, StartCheck, EndCheck
<1>4. IInv /\ [Next]_vars => [MayProceed => MayProceed' \/ PowerLoss]_vars
  BY <1>3
<1> QED
  BY <1>1, <1>2, <1>4, Invariant, StopStep, PTL DEF Spec
=============================================================================

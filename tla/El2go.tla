------------------------------- MODULE El2go --------------------------------
(***************************************************************************)
(* Start-up of a build with EdgeLock 2GO (AKNANO_ENABLE_EL2GO and          *)
(* AKNANO_ALLOW_PROVISIONING).  Two tasks run: agent_start_task, which has *)
(* the vendor's agent fetch the device certificate into the secure         *)
(* element, and the main task, which in aknano_init waits for it.  They    *)
(* share two flags that no lock protects, and the secure element.          *)
(*                                                                         *)
(* The agent of the vendor is external: whatever it does, it may or may    *)
(* not leave a certificate in the secure element.                          *)
(***************************************************************************)
VARIABLES
    \* kept over a reset
    certificate,    \* the secure element holds a certificate
    \* RAM
    main,           \* the next step of the main task
    agent,          \* the next step of the agent task
    is_certificate_available_cache,
    el2go_agent_stopped,
    session,        \* the tasks that have a session with the secure element
    errors          \* observer: what the tasks cannot notice

flags == <<is_certificate_available_cache, el2go_agent_stopped>>
vars == <<certificate, main, agent, flags, session, errors>>

Tasks == {"main", "agent"}
Running == {"loop", "connected"}
Kinds == {"garbage",    \* without a certificate, the buffer looks like one
          "unclosed"}   \* agent_start ended without closing its session

Open(task) == session' = session \cup {task}
Close(task) == session' = session \ {task}

-----------------------------------------------------------------------------
(* is_valid_certificate_available(false).                                  *)

\* A slip: whatever PKCS#11 reports without an error is a certificate.
SlipCertificateRead(available) ==
    available \in BOOLEAN /\ UNCHANGED errors

\* The outcome of a read: an error of PKCS#11, or what is stored.  Not finding
\* a certificate is no error, and the buffer was then never written to.
CertificateRead(available) ==
    \/ ~available /\ UNCHANGED errors
    \/ available /\ certificate /\ UNCHANGED errors
    \/ available /\ ~certificate /\ errors' = errors \cup {"garbage"}

\* A positive result is kept for the rest of the run; only a negative one makes
\* the next check open a session and look again.
StartCheck(from, reading, found) ==
    /\ agent = from
    /\ \/ is_certificate_available_cache /\ agent' = found /\ UNCHANGED session
       \/ ~is_certificate_available_cache /\ agent' = reading /\ Open("agent")
    /\ UNCHANGED <<certificate, main, flags, errors>>

EndCheck(reading, found, missing) ==
    /\ agent = reading
    /\ \E available \in BOOLEAN :
           /\ CertificateRead(available)
           /\ is_certificate_available_cache' = available
           /\ agent' = IF available THEN found ELSE missing
    /\ Close("agent")
    /\ UNCHANGED <<certificate, main, el2go_agent_stopped>>

-----------------------------------------------------------------------------
(* agent_start_task.                                                       *)

FirstCheck == StartCheck("delay", "reading", "skip")

FirstCheckDone == EndCheck("reading", "skip", "start")

\* agent_start: a session may not be had, ...
SessionInit ==
    /\ agent = "start"
    /\ \/ agent' = "register" /\ Open("agent")
       \/ agent' = "pause" /\ UNCHANGED session
    /\ UNCHANGED <<certificate, main, flags, errors>>

\* ... anything up to the keystore may fail, and what is then closed is a
\* keystore that was never initialised, ...
RegisterKeystore ==
    /\ agent = "register"
    /\ \/ agent' = "update" /\ UNCHANGED <<session, errors>>
       \/ agent' = "pause" /\ Close("agent") /\ UNCHANGED errors
       \/ /\ agent' = "pause"
          /\ errors' = errors \cup {"unclosed"}
          /\ UNCHANGED session
    /\ UNCHANGED <<certificate, main, flags>>

\* ... and the update may or may not obtain a certificate, whatever the status
\* says; the status is only shown by the LED.
iot_agent_update_device_configuration ==
    /\ agent = "update"
    /\ certificate' \in {certificate, TRUE}
    /\ agent' = "close"
    /\ UNCHANGED <<main, flags, session, errors>>

CloseSession ==
    /\ agent = "close"
    /\ Close("agent")
    /\ agent' = "pause"
    /\ UNCHANGED <<certificate, main, flags, errors>>

CheckAgain == StartCheck("pause", "rereading", "break")

CheckAgainDone == EndCheck("rereading", "break", "start")

\* A slip: the task goes on renewing its objects.
SlipAgentStops ==
    /\ agent \in {"skip", "break"}
    /\ el2go_agent_stopped' = TRUE
    /\ agent' = "start"
    /\ UNCHANGED <<certificate, main, is_certificate_available_cache,
                   session, errors>>

\* A slip: the flag is only set where the loop is left.
SlipFlag ==
    /\ agent \in {"skip", "break"}
    /\ el2go_agent_stopped' = (agent = "break")
    /\ agent' = "stopped"
    /\ UNCHANGED <<certificate, main, is_certificate_available_cache,
                   session, errors>>

\* Either way the task sleeps for ever afterwards.
AgentStops ==
    /\ agent \in {"skip", "break"}
    /\ el2go_agent_stopped' = TRUE
    /\ agent' = "stopped"
    /\ UNCHANGED <<certificate, main, is_certificate_available_cache,
                   session, errors>>

-----------------------------------------------------------------------------
(* The main task.                                                          *)

\* aknano_provision_device only makes uuid and serial in these builds.  Whether
\* they can be read afterwards or not, the task goes on to wait.
aknano_init ==
    /\ main = "init"
    /\ main' = "wait"
    /\ UNCHANGED <<certificate, agent, flags, session, errors>>

MayProceed == is_certificate_available_cache /\ el2go_agent_stopped

aknano_init_settings ==
    /\ main = "wait"
    /\ MayProceed
    /\ main' = "loop"
    /\ UNCHANGED <<certificate, agent, flags, session, errors>>

\* A check-in: the transport signs with the key in the secure element.
Connect ==
    /\ main = "loop"
    /\ main' = "connected"
    /\ Open("main")
    /\ UNCHANGED <<certificate, agent, flags, errors>>

Disconnect ==
    /\ main = "connected"
    /\ main' = "loop"
    /\ Close("main")
    /\ UNCHANGED <<certificate, agent, flags, errors>>

-----------------------------------------------------------------------------
(* Power on, and the application that creates the tasks.                   *)

\* aknano_start_el2go_task: without memory for the task its caller hangs.
aknano_start_el2go_task ==
    /\ main = "off"
    /\ \/ main' = "init" /\ agent' = "delay"
       \/ main' = "hung" /\ UNCHANGED agent
    /\ UNCHANGED <<certificate, flags, session, errors>>

PowerLoss ==
    /\ main # "off"
    /\ main' = "off"
    /\ agent' = "off"
    /\ is_certificate_available_cache' = FALSE
    /\ el2go_agent_stopped' = FALSE
    /\ session' = {}
    /\ UNCHANGED <<certificate, errors>>

Init ==
    /\ certificate = FALSE
    /\ main = "off"
    /\ agent = "off"
    /\ is_certificate_available_cache = FALSE
    /\ el2go_agent_stopped = FALSE
    /\ session = {}
    /\ errors = {}

Main ==
    \/ aknano_start_el2go_task
    \/ aknano_init
    \/ aknano_init_settings
    \/ Connect
    \/ Disconnect

Agent ==
    \/ FirstCheck
    \/ FirstCheckDone
    \/ SessionInit
    \/ RegisterKeystore
    \/ iot_agent_update_device_configuration
    \/ CloseSession
    \/ CheckAgain
    \/ CheckAgainDone
    \/ AgentStops

Next == Main \/ Agent \/ PowerLoss

Spec == Init /\ [][Next]_vars

\* Both tasks are scheduled: the main task spends its time in delays, the agent
\* runs at the idle priority meanwhile.
FairSpec == Spec /\ WF_vars(Main) /\ WF_vars(Agent)

-----------------------------------------------------------------------------
(* Properties.                                                             *)

TypeOK ==
    /\ certificate \in BOOLEAN
    /\ main \in {"off", "hung", "init", "wait"} \cup Running
    /\ agent \in {"off", "delay", "reading", "skip", "start", "register",
                  "update", "close", "pause", "rereading", "break", "stopped"}
    /\ is_certificate_available_cache \in BOOLEAN
    /\ el2go_agent_stopped \in BOOLEAN
    /\ session \subseteq Tasks
    /\ errors \subseteq Kinds

\* The two tasks never have a session with the secure element at the same time:
\* aknano_init only looks at the flags, and the agent task, once it has set its
\* own, is done with the secure element for good.
OneSession == "unclosed" \notin errors => session # Tasks

\* The device begins its update loop, with which it connects, only with a
\* certificate in the secure element, however the steps of the two tasks and
\* resets interleave: neither flag ever says more than is there.
StartsWithCertificate ==
    /\ main \in Running => is_certificate_available_cache
    /\ is_certificate_available_cache /\ errors = {} => certificate

\* The endless wait of aknano_init ends: if power is stable and the agent is not
\* refused for ever, the device begins its update loop, also if there was a
\* certificate before the agent task was started.
DeviceStarts ==
    ( /\ <>[][~PowerLoss]_vars
      /\ [](main # "hung")
      /\ SF_vars(SessionInit /\ agent' = "register")
      /\ SF_vars(RegisterKeystore /\ agent' = "update")
      /\ SF_vars(iot_agent_update_device_configuration /\ certificate')
      /\ SF_vars(CheckAgainDone /\ agent' = "break") )
        => <>[](main \in Running)
=============================================================================

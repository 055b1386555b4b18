------------------------------ MODULE SrvLife ------------------------------
(***************************************************************************)
(* What one Srv promises to the code that owns it (core/mdt_dialout_core.h, *)
(* class Srv): it is bound and registered, it serves telemetry sessions,    *)
(* and a shutdown closes it only when every session is over.  The detailed  *)
(* specification SrvFsm is shown to implement this one, and the process-    *)
(* wide specification Registry is written against it.                       *)
(***************************************************************************)
CONSTANT Sessions

VARIABLES
    phase,     \* where the worker thread running XBind() is
    stop,      \* progress of Srv::Shutdown()
    sessions   \* the RPCs accepted and not yet disposed of

vars == <<phase, stop, sessions>>

Phases == {"binding", "registered", "serving", "exited", "aborted"}

TypeOK ==
    /\ phase \in Phases
    /\ stop \in {"no", "draining", "closed"}
    /\ sessions \in SUBSET Sessions

Init ==
    /\ phase = "binding"
    /\ stop = "no"
    /\ sessions = {}

\* The listening server exists and register_server(this) has run.
Register ==
    /\ phase = "binding"
    /\ phase' = "registered"
    /\ UNCHANGED <<stop, sessions>>

\* The first handler is armed.  On a completion queue that is already shut
\* down, gRPC aborts the process.
Serve ==
    /\ phase = "registered"
    /\ phase' = IF stop = "closed" THEN "aborted" ELSE "serving"
    /\ UNCHANGED <<stop, sessions>>

Open(s) ==
    /\ phase = "serving"
    /\ stop = "no"
    /\ s \notin sessions
    /\ sessions' = sessions \cup {s}
    /\ UNCHANGED <<phase, stop>>

Dispose(s) ==
    /\ phase = "serving"
    /\ s \in sessions
    /\ sessions' = sessions \ {s}
    /\ UNCHANGED <<phase, stop>>

\* Shutdown() reaches a Srv only through the registry.
Drain ==
    /\ phase \in {"registered", "serving"}
    /\ stop = "no"
    /\ stop' = "draining"
    /\ UNCHANGED <<phase, sessions>>

Close ==
    /\ stop = "draining"
    /\ sessions = {}
    /\ stop' = "closed"
    /\ UNCHANGED <<phase, sessions>>

Exit ==
    /\ phase = "serving"
    /\ stop = "closed"
    /\ phase' = "exited"
    /\ UNCHANGED <<stop, sessions>>

Next ==
    \/ Register \/ Serve \/ Drain \/ Close \/ Exit
    \/ \E s \in Sessions : Open(s) \/ Dispose(s)

Spec == Init /\ [][Next]_vars
=============================================================================

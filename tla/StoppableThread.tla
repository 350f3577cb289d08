---------------------------- MODULE StoppableThread ----------------------------
(***************************************************************************)
(* The worker thread base class of stoppable_thread.h: two atomic flags    *)
(* and a std::thread per object.  The worker itself (Run) belongs to the   *)
(* derived class, see TcpListener.  Every operator below is one atomic     *)
(* step of the thread that calls it and says nothing of other objects.     *)
(***************************************************************************)
CONSTANT Listeners      \* the thread objects the program may create

VARIABLES
    m_running,          \* m_running[l]: set by the worker itself
    m_stop,             \* m_stop[l]: the stop request
    m_thread            \* m_thread[l]: "none" not joinable, "active" the thread
                        \* function has not returned, "finished" it has and
                        \* nobody joined it

threadVars == <<m_running, m_stop, m_thread>>

ThreadTypeOK ==
    /\ m_running \in [Listeners -> BOOLEAN]
    /\ m_stop \in [Listeners -> BOOLEAN]
    /\ m_thread \in [Listeners -> {"none", "active", "finished"}]

ThreadInit ==
    /\ m_running = [l \in Listeners |-> FALSE]
    /\ m_stop = [l \in Listeners |-> FALSE]
    /\ m_thread = [l \in Listeners |-> "none"]

Running(l) == m_running[l]

StopRequested(l) == m_stop[l]

Joinable(l) == m_thread[l] # "none"

(* Start when std::thread can be created.  The flag m_running is still     *)
(* FALSE when Start returns: only the new thread sets it.                  *)
ThreadStart(l) ==
    /\ ~Running(l)
    /\ m_thread' = [m_thread EXCEPT ![l] = "active"]
    /\ UNCHANGED <<m_running, m_stop>>

(* The first half of Stop: the request.                                    *)
ThreadStop(l) ==
    /\ m_stop' = [m_stop EXCEPT ![l] = TRUE]
    /\ UNCHANGED <<m_running, m_thread>>

ThreadDetach(l) ==              \* variant: Stop does not wait
    /\ m_thread' = [m_thread EXCEPT ![l] = "none"]
    /\ UNCHANGED <<m_running, m_stop>>

(* The second half of Stop(true): join returns once the function has.      *)
ThreadJoin(l) ==
    /\ m_thread[l] # "active"
    /\ m_thread' = [m_thread EXCEPT ![l] = "none"]
    /\ UNCHANGED <<m_running, m_stop>>

RunInternalBegin(l) ==
    /\ m_running' = [m_running EXCEPT ![l] = TRUE]
    /\ UNCHANGED <<m_stop, m_thread>>

RunInternalEnd(l) ==
    /\ m_running' = [m_running EXCEPT ![l] = FALSE]
    /\ m_thread' = [m_thread EXCEPT ![l] = "finished"]
    /\ UNCHANGED m_stop
================================================================================

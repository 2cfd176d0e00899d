---------------------------- MODULE MCLibraries -----------------------------
(* The thread library and the value types, one of them at a time: a run     *)
(* chooses its subject at the start and only that one moves.                *)
EXTENDS JTCRWMutex, JTCMonitor, JTCThreads, JTCTimeouts, Buffer, NParamBlock

VARIABLE subject

libVars == <<subject, rwVars, monVars, thrVars, bufVars, m_params, joinCall>>

LibInit == /\ subject \in {"RWMutex", "Monitor", "Threads", "Timeouts",
                        "Buffer", "Params"}
           /\ RWInit /\ MonInit /\ ThrInit /\ TimInit /\ BufInit /\ ParInit
           /\ subject # "Buffer" => m_dataLength = 0 /\ m_resize
           /\ subject # "Timeouts" => joinCall = [usec |-> 0, millis |-> 0, nanos |-> 0]

LibNext ==
    /\ UNCHANGED <<subject, joinCall>>
    /\ \/ /\ subject = "RWMutex" /\ RWNext
          /\ UNCHANGED <<monVars, thrVars, bufVars, m_params>>
       \/ /\ subject = "Monitor" /\ MonNext
          /\ UNCHANGED <<rwVars, thrVars, bufVars, m_params>>
       \/ /\ subject = "Threads" /\ ThrNext
          /\ UNCHANGED <<rwVars, monVars, bufVars, m_params>>
       \/ /\ subject = "Buffer" /\ BufNext
          /\ UNCHANGED <<rwVars, monVars, thrVars, m_params>>
       \/ /\ subject = "Params" /\ ParNext
          /\ UNCHANGED <<rwVars, monVars, thrVars, bufVars>>

LibSpec == LibInit /\ [][LibNext]_libVars /\ ThrFairness

MCMicroseconds == {0, 1, 1000, 499999, 500000, 500001, 999000, 999999}
MCMillis == {0, 1, 499, 500, 501, 999, 1000, 1001, 1500, 1998}
MCNanos == {0, 1, 499999, 500000, 999999}
MCLengths == {0, 1, 5, 10}
MCOffsets == {-3, 2}
MCBodies == {<<>>, <<0>>, <<1, 0>>, <<1, 1, 1, 0>>}
=============================================================================

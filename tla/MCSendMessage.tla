---------------------------- MODULE MCSendMessage ----------------------------
(* SendMessage with the requests that Outgoing makes of messages of up to    *)
(* MaxBatches batches, as far as they come to MaxJobs jobs, and the request  *)
(* for nothing, which the JVM never sends.                                   *)
EXTENDS SendMessage
CONSTANTS MaxJobs, MaxBatches

O == INSTANCE Outgoing

MCMessages == O!BoundedSeq(O!BoundedSeq(O!Contents, 2), MaxBatches)
MCRequests ==
  {r \in {[jobs |-> O!toSendUnits(message, replies), reply |-> replies] :
            message \in MCMessages, replies \in BOOLEAN} : Len(r.jobs) <= MaxJobs}
    \cup {[jobs |-> <<>>, reply |-> FALSE]}
=============================================================================

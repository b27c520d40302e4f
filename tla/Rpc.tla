--------------------------------- MODULE Rpc ---------------------------------
(***************************************************************************)
(* What one connection promises its two users: the caller of               *)
(* handle_message and the ProtocolCommandHandler.  Calls are made one at a *)
(* time.  A call is executed at most once, in the order of the calls, and  *)
(* with exactly the command and data that were passed.  A call that        *)
(* returns Ok was executed, with status Ok, and returns what the handler   *)
(* returned (nothing, in no-answer mode).  A call may fail at any moment,  *)
(* executed or not, and no call follows a failed one on the connection.    *)
(*                                                                         *)
(* There are no bytes, no acknowledgements and no pings here: Connection   *)
(* implements this module.                                                 *)
(***************************************************************************)
EXTENDS Integers, Sequences

CONSTANTS Command,  \* commands a caller may pass
          Body,     \* request payloads
          Reply,    \* payloads the handler may return
          Status    \* statuses the handler may return, by number

VARIABLES calls,    \* the calls made: [command, body, answer]
          log,      \* what the handler ran: [command, data, status, reply]
          results   \* what the calls returned: [err, status, data]

vars == <<calls, log, results>>

\* The errors of lib.rs a call can end with, by the source's variant.
ErrorKind == {"response", "overflow", "closed", "midFrame", "io", "timeout"}

Init == calls = <<>> /\ log = <<>> /\ results = <<>>

\* The caller starts a call; every earlier call returned Ok.
Call ==
    /\ Len(results) = Len(calls)
    /\ \A j \in DOMAIN results : results[j].err = "none"
    /\ \E c \in Command, b \in Body, a \in BOOLEAN :
           calls' = Append(calls, [command |-> c, body |-> b, answer |-> a])
    /\ UNCHANGED <<log, results>>

\* The handler runs the oldest call it has not run, perhaps after the caller
\* has given up on it.
Execute ==
    /\ Len(log) < Len(calls)
    /\ LET call == calls[Len(log) + 1]
       IN \E s \in Status, r \in Reply \cup {<<>>} :
              log' = Append(log, [command |-> call.command, data |-> call.body,
                                  status |-> s, reply |-> r])
    /\ UNCHANGED <<calls, results>>

ReturnOk ==
    /\ Len(results) < Len(calls)
    /\ Len(log) = Len(calls)
    /\ log[Len(log)].status = 1
    /\ results' = Append(results,
           [err |-> "none", status |-> 1,
            data |-> IF calls[Len(calls)].answer THEN log[Len(log)].reply
                                                 ELSE <<>>])
    /\ UNCHANGED <<calls, log>>

\* A failed call says why and carries no data.
ReturnErr ==
    /\ Len(results) < Len(calls)
    /\ \E e \in ErrorKind, s \in 0 .. 255 :
           results' = Append(results, [err |-> e, status |-> s, data |-> <<>>])
    /\ UNCHANGED <<calls, log>>

Next == Call \/ Execute \/ ReturnOk \/ ReturnErr

Spec == Init /\ [][Next]_vars
=============================================================================

-------------------------- MODULE NvmetFcExchange --------------------------
(***************************************************************************)
(* What the target promises the driver (LLDD) about the commands the       *)
(* driver gives it: each is refused, or is opened and in the end closed    *)
(* (fcp_req_release) once; it is answered at most once, and answers and    *)
(* aborts name only commands that are open.  There is one exception: an    *)
(* open command may be doomed, one at a time, and the abort of a doomed    *)
(* command may come when it has been closed, or name nothing when it was   *)
(* being closed.  No queue, no request block and no deferral appears.      *)
(***************************************************************************)
CONSTANTS Cmd, NoCmd

VARIABLES
    state,      \* Cmd -> "new", "refused", "open", "answered", "closing", "closed"
    aborted,    \* the commands the driver was told to abort
    doomed      \* the command it will be told to abort, whatever happens meanwhile

vars == <<state, aborted, doomed>>

Init ==
    /\ state = [c \in Cmd |-> "new"]
    /\ aborted = {} /\ doomed = {}

Move(c, from, to) ==
    /\ state[c] \in from /\ state' = [state EXCEPT ![c] = to]
    /\ UNCHANGED doomed

Refuse(c) == Move(c, {"new"}, "refused") /\ UNCHANGED aborted
Open(c)   == Move(c, {"new"}, "open") /\ UNCHANGED aborted
Answer(c) == Move(c, {"open"}, "answered") /\ UNCHANGED aborted

Abort(c) ==
    /\ state[c] \in {"open", "answered"}
    /\ aborted' = aborted \union {c}
    /\ UNCHANGED <<state, doomed>>

\* It closes in two steps, or, when it was never worked on, with its abort.
Closing(c) == Move(c, {"open", "answered"}, "closing") /\ UNCHANGED aborted
Close(c)   == Move(c, {"closing"}, "closed") /\ UNCHANGED aborted
Drop(c)    == Move(c, {"open"}, "closed") /\ aborted' = aborted \union {c}

Doom(c) ==
    /\ state[c] = "open" /\ doomed = {} /\ doomed' = {c}
    /\ UNCHANGED <<state, aborted>>

AbortDoomed(c) ==
    /\ doomed = {c} /\ doomed' = {}
    /\ \/ aborted' = aborted \union {c}
       \/ state[c] \in {"closing", "closed"} /\ aborted' = aborted \union {NoCmd}
    /\ UNCHANGED state

Next == \E c \in Cmd : \/ Refuse(c) \/ Open(c) \/ Answer(c) \/ Abort(c) \/ Closing(c)
                       \/ Close(c) \/ Drop(c) \/ Doom(c) \/ AbortDoomed(c)

Spec == Init /\ [][Next]_vars
=============================================================================

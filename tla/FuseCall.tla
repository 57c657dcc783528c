------------------------------ MODULE FuseCall ------------------------------
(***************************************************************************)
(* What the FUSE device promises to the callers of fuse_request_send and   *)
(* fuse_request_send_background, and to the daemon: a request is handed to *)
(* the daemon at most once and gets exactly one outcome, and the outcome   *)
(* tells the truth.  No queue, lock, thread or reference count appears.    *)
(***************************************************************************)
CONSTANT Req

VARIABLES
    phase,      \* Req -> how far the request is
    outcome,    \* Req -> out.h.error, once the request is settled
    up          \* the connection has not been aborted

vars == <<phase, outcome, up>>

Init ==
    /\ phase = [r \in Req |-> "idle"]
    /\ outcome = [r \in Req |-> "none"]
    /\ up = TRUE

Move(r, from, to) ==
    /\ phase[r] = from
    /\ phase' = [phase EXCEPT ![r] = to]

Settle(r, from, error) ==
    /\ Move(r, from, "settled")
    /\ outcome' = [outcome EXCEPT ![r] = error]
    /\ UNCHANGED up

Prepare(r) == Move(r, "idle", "prepared") /\ UNCHANGED <<outcome, up>>

Send(r) == up /\ Move(r, "prepared", "queued") /\ UNCHANGED <<outcome, up>>

\* The daemon has read the request, or is about to.
Deliver(r) == up /\ Move(r, "queued", "delivered") /\ UNCHANGED <<outcome, up>>

\* Nobody but the daemon makes an answer, and only to what it was given.  (A
\* request that wants none ends with "none".)
Answer(r) == \E error \in {"answer", "none", "EIO"} : Settle(r, "delivered", error)

\* The daemon's buffer is too small for the request.
TooBig(r) == up /\ Settle(r, "queued", "EIO")

\* Only a request the daemon has not seen can be taken back.
Kill(r) == Settle(r, "queued", "EINTR")

\* The connection is down, or the daemon did not accept it in the first place.
Refuse(r) == \/ ~ up /\ Settle(r, "prepared", "ENOTCONN")
             \/ up /\ Settle(r, "prepared", "ECONNREFUSED")

Abort(r) == ~ up /\ \E from \in {"queued", "delivered"} : Settle(r, from, "ECONNABORTED")

\* The last user is done with the request; the outcome is not read again.
Free(r) ==
    /\ Move(r, "settled", "idle")
    /\ outcome' = [outcome EXCEPT ![r] = "none"]
    /\ UNCHANGED up

Down == up /\ up' = FALSE /\ UNCHANGED <<phase, outcome>>

Next == \/ Down
        \/ \E r \in Req : \/ Prepare(r) \/ Send(r) \/ Deliver(r) \/ Answer(r)
                          \/ TooBig(r) \/ Kill(r) \/ Refuse(r) \/ Abort(r) \/ Free(r)

Spec == Init /\ [][Next]_vars
=============================================================================

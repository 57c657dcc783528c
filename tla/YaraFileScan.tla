---------------------------- MODULE YaraFileScan ----------------------------
(***************************************************************************)
(* What a run of the yara command over a directory or a scan list          *)
(* promises: no file is scanned twice, none without having been admitted   *)
(* before the deadline, and a run that ends well has scanned every file    *)
(* unless the deadline passed.  No thread, queue or semaphore appears.     *)
(***************************************************************************)
EXTENDS Naturals

CONSTANT File

VARIABLES
    scans,      \* File -> how many times it was given to the scanner
    admitted,   \* the files that were found to be in time, and not yet given to it
    late,       \* the deadline has passed
    outcome

vars == <<scans, admitted, late, outcome>>

Init ==
    /\ scans = [f \in File |-> 0]
    /\ admitted = {}
    /\ late = FALSE
    /\ outcome = "running"

\* A file is admitted before the deadline only, and only once.
Admit(f) ==
    /\ ~ late /\ scans[f] = 0 /\ f \notin admitted
    /\ admitted' = admitted \union {f}
    /\ UNCHANGED <<scans, late, outcome>>

\* The deadline may pass in between; the scan is then cut short by its own timeout.
Scan(f) ==
    /\ f \in admitted
    /\ admitted' = admitted \ {f}
    /\ scans' = [scans EXCEPT ![f] = 1]
    /\ UNCHANGED <<late, outcome>>

Deadline == ~ late /\ late' = TRUE /\ UNCHANGED <<scans, admitted, outcome>>

Succeed ==
    /\ outcome = "running"
    /\ late \/ \A f \in File : scans[f] = 1
    /\ outcome' = "success"
    /\ UNCHANGED <<scans, admitted, late>>

Fail == outcome = "running" /\ outcome' = "failure" /\ UNCHANGED <<scans, admitted, late>>

Next == Deadline \/ Succeed \/ Fail \/ \E f \in File : Admit(f) \/ Scan(f)

Spec == Init /\ [][Next]_vars
=============================================================================

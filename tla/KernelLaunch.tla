---------------------------- MODULE KernelLaunch ----------------------------
(***************************************************************************)
(* What ExecuteKernel promises a program, without heaps, pointers, tags    *)
(* or buffers. Calls are numbered. A call launches the job it was asked    *)
(* for at most once; launched jobs run one after the other in that order,  *)
(* unchanged by anything that happens meanwhile, or are lost. SUCCESS      *)
(* means that the job ran, a failure of allocation or submission that it   *)
(* was not launched and never runs; only a failure of the wait leaves open *)
(* what became of it. What a call asked for is what its validation made of *)
(* the request; GridIsTheRequest (WorkGroups) compares the two.            *)
(***************************************************************************)
EXTENDS Naturals, Sequences

CONSTANTS
    Jobs,    \* kernels with the sizes of a launch
    NoJob

VARIABLES
    latest,  \* number of the latest call
    phase,   \* what is known of the latest call
    asked,   \* the job of a call that has not returned, as validated
    pending, \* launched jobs, oldest first
    ran      \* calls whose job ran

vars == <<latest, phase, asked, pending, ran>>

Phases == {"none", "running", "launched", "succeeded", "failed", "unknown"}

Returned == phase \notin {"running", "launched"}

Init ==
    /\ latest = 0 /\ phase = "none" /\ asked = NoJob
    /\ pending = <<>> /\ ran = {}

Call ==
    /\ Returned
    /\ latest' = latest + 1
    /\ phase' = "running"
    /\ asked' \in Jobs
    /\ UNCHANGED <<pending, ran>>

Reject ==
    /\ Returned
    /\ latest' = latest + 1
    /\ phase' = "failed"
    /\ UNCHANGED <<asked, pending, ran>>

Launch ==
    /\ phase = "running"
    /\ phase' = "launched"
    /\ pending' = Append(pending, [call |-> latest, jobs |-> {asked}])
    /\ UNCHANGED <<latest, asked, ran>>

Return(outcome) ==
    /\ phase' = outcome
    /\ asked' = NoJob
    /\ UNCHANGED <<latest, pending, ran>>

Succeed == phase = "launched" /\ latest \in ran /\ Return("succeeded")
Fail    == phase = "running" /\ Return("failed")
GiveUp  == phase = "launched" /\ Return("unknown")

Run ==
    /\ pending # <<>>
    /\ pending' = Tail(pending)
    /\ ran' = ran \cup {Head(pending).call}
    /\ UNCHANGED <<latest, phase, asked>>

Lose ==
    /\ pending # <<>>
    /\ pending' = Tail(pending)
    /\ UNCHANGED <<latest, phase, asked, ran>>

Next == Call \/ Reject \/ Launch \/ Succeed \/ Fail \/ GiveUp \/ Run \/ Lose

Spec == Init /\ [][Next]_vars
=============================================================================

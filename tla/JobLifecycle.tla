---------------------------- MODULE JobLifecycle ----------------------------
(* What an OCR job promises, without drafts, submissions, leases or          *)
(* processes: it waits, works, and ends once; a waiting job can be           *)
(* cancelled, a working one cannot; a failed run and a lost run each have a  *)
(* budget of their own, an interrupted run has none (domain-rule.md, OCR     *)
(* Job; ocr-job-contract.md, Retry, Recovery and Maintenance).  Jobs are     *)
(* independent: any of them may move in one step.                            *)
EXTENDS Naturals

CONSTANTS Jobs, MaxFailureRetries, MaxLeaseRecoveries

VARIABLE life

Ended == {"succeeded", "failed", "cancelled"}
Life == [phase : {"none", "queued", "running"} \cup Ended,
         runs : Nat, retries : Nat, recoveries : Nat]

Unborn == [phase |-> "none", runs |-> 0, retries |-> 0, recoveries |-> 0]

Init == life = [j \in Jobs |-> Unborn]

Moves(old, new, from, to) == old.phase = from /\ new.phase = to
SameRuns(old, new) == new.runs = old.runs
SameBudgets(old, new) == new.retries = old.retries /\ new.recoveries = old.recoveries

Register(old, new) == Moves(old, new, "none", "queued")
                         /\ SameRuns(old, new) /\ SameBudgets(old, new)

Start(old, new) == Moves(old, new, "queued", "running")
                      /\ new.runs = old.runs + 1 /\ SameBudgets(old, new)

(* A new run takes over from one whose owner was lost                        *)
Restart(old, new) == /\ Moves(old, new, "running", "running")
                     /\ old.recoveries < MaxLeaseRecoveries
                     /\ new.recoveries = old.recoveries + 1
                     /\ new.runs = old.runs + 1
                     /\ new.retries = old.retries

Retry(old, new) == /\ Moves(old, new, "running", "queued")
                   /\ old.retries < MaxFailureRetries
                   /\ new.retries = old.retries + 1
                   /\ new.recoveries = old.recoveries
                   /\ SameRuns(old, new)

Interrupt(old, new) == Moves(old, new, "running", "queued")
                          /\ SameRuns(old, new) /\ SameBudgets(old, new)

End(old, new) == /\ \/ Moves(old, new, "running", "succeeded")
                    \/ Moves(old, new, "running", "failed")
                    \/ Moves(old, new, "queued", "failed")
                    \/ Moves(old, new, "queued", "cancelled")
                 /\ SameRuns(old, new) /\ SameBudgets(old, new)

(* A lost run is counted, whether another can follow it or not               *)
Lose(old, new) == /\ \/ Moves(old, new, "running", "queued")
                     \/ Moves(old, new, "running", "failed")
                  /\ old.recoveries < MaxLeaseRecoveries
                  /\ new.recoveries = old.recoveries + 1
                  /\ new.retries = old.retries
                  /\ SameRuns(old, new)

Step(old, new) == \/ Register(old, new) \/ Start(old, new) \/ Restart(old, new)
                  \/ Retry(old, new) \/ Interrupt(old, new) \/ End(old, new)
                  \/ Lose(old, new)

Next == /\ life' \in [Jobs -> Life]
        /\ \A j \in Jobs : life'[j] = life[j] \/ Step(life[j], life'[j])

Spec == Init /\ [][Next]_life
----------------------------------------------------------------------------
(* Both budgets hold, and every failed or lost run was a run: what is        *)
(* counted against a job never exceeds the runs it was granted, and stays    *)
(* below them while it works and when it succeeds.                           *)
Covered(row) ==
    /\ row.retries <= MaxFailureRetries /\ row.recoveries <= MaxLeaseRecoveries
    /\ row.retries + row.recoveries <= row.runs
    /\ row.phase \in {"running", "succeeded"} => row.retries + row.recoveries < row.runs

RunsCoverBudgets == \A j \in Jobs : Covered(life[j])
============================================================================

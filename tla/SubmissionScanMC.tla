-------------------------- MODULE SubmissionScanMC --------------------------
(* Small instances of SubmissionScan.                                        *)
EXTENDS SubmissionScan, TLC
============================================================================

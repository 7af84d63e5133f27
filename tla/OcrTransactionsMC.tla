------------------------- MODULE OcrTransactionsMC -------------------------
(* Small instances of OcrTransactions.                                       *)
EXTENDS OcrTransactions, TLC

Symmetry == Permutations(Jobs) \cup Permutations(Workers) \cup Permutations(Slots)
               \cup Permutations(Submissions) \cup Permutations(Drafts) \cup Permutations(Txs)
============================================================================

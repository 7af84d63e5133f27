--------------------------- MODULE OcrPipelineMC ---------------------------
(* Small instances of OcrPipeline.  Jobs, Workers, Slots and Submissions are *)
(* interchangeable in the specification, so the safety runs may permute them *)
EXTENDS OcrPipeline, TLC

Symmetry == Permutations(Jobs) \cup Permutations(Workers)
               \cup Permutations(Submissions) \cup Permutations(Slots)
============================================================================

---------------------------- MODULE MCOcrPipeline ----------------------------
(* Instances of OcrPipeline for TLC. *)
EXTENDS OcrPipeline, TLC

\* request_ids are only compared for equality; used for safety properties only.
IdSymmetry == Permutations(Requests)
===============================================================================

---------------------------- MODULE MCShareCarry ----------------------------
(***************************************************************************)
(* Small instances of ShareCarry.                                          *)
(***************************************************************************)
EXTENDS ShareCarry

MCVar ==
  SvdVar \cup {The(n) : n \in {"threeDPts", "y0", "camera", "x", "prevErrNorm",
                              "lambda", "dy", "jacob", "inverse", "one", "zero"}}

\* The callers that tell the builds apart as they have to.
MCBuilds ==
  {b \in BuildRecord : b.caller = "test_lm_circuit" => b.method = LM /\ b.flow # SiSL}
=============================================================================

---------------------------- MODULE MCPipeline ------------------------------
(***************************************************************************)
(* Pipeline for three iterations.  A program may fail of its own accord    *)
(* while fewer than three steps have failed; steps that find no input fail *)
(* in addition.                                                            *)
(***************************************************************************)
EXTENDS Pipeline
=============================================================================

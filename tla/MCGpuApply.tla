------------------------------ MODULE MCGpuApply ------------------------------
(* Instances of GpuApply: one request at a time, sent again and again, or two  *)
(* that overlap.                                                                *)
EXTENDS GpuApply
===============================================================================

-------------------------------- MODULE MCGpuSlot --------------------------------
(* A default with an alias, another model for GPU0, and a resident one on the CPU.  *)
(* While nothing has happened the functions of SwapGen are tried on a configuration *)
(* of any kind.                                                                     *)
EXTENDS GpuSlot

CONSTANTS f1, f2, f3

VARIABLE tried

MCModels ==
  LET Entry(f, gpu, resident) == [file |-> f, gpu |-> gpu, resident |-> resident, enabled |-> TRUE]
  IN <<Entry(f1, Gpu0, TRUE), Entry(f1, Gpu0, FALSE), Entry(f2, Gpu0, FALSE), Entry(f3, Cpu, TRUE)>>

MCInit == SlotInit /\ tried = << >>

Try ==
  /\ SlotInit /\ tried = << >>
  /\ tried' \in Configs
  /\ UNCHANGED slotVars

MCNext ==
  \/ tried = << >> /\ SlotNext /\ UNCHANGED tried
  \/ Try
  \/ tried # << >> /\ UNCHANGED <<slotVars, tried>>

MCFairSpec == MCInit /\ [][MCNext]_<<slotVars, tried>> /\ SlotFairness

\* Generator, warm-up and turns agree, for every list of models up to the bound: each
\* enabled alias has just one server, which stays loaded if the alias wants it; the
\* warm-up pings the servers that stay loaded and waits for no other; turns ask for the
\* server of their model, when no file is on two devices.
ServersAgree ==
  /\ OneServerEach(tried)
  /\ WarmsResidents(tried)
  /\ OneDevicePerFile(tried) => AsksItsServer(tried)
===============================================================================

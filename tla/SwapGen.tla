--------------------------------- MODULE SwapGen ---------------------------------
(***************************************************************************)
(* Which llama-server a model alias stands for.  Aliases that share a file *)
(* and a device share a server, which has the name of one of them.  Three  *)
(* places work that name out, each in its own way: the llama-swap file     *)
(* generator (app/gpu/swapgen.py), the warm-up (warmup.py) and the chat    *)
(* orchestrator.                                                           *)
(*                                                                         *)
(* A configuration is the list of its model entries; a name is a place in  *)
(* the list, names being unique.                                           *)
(***************************************************************************)
EXTENDS Naturals, Sequences, FiniteSets, Functions, SequencesExt

CONSTANTS
  ModelFile,  \* model files
  Gpu0, Gpu1, Cpu,
  MaxModels   \* bound on the entries of a configuration

Device == {Gpu0, Gpu1, Cpu}
ModelEntry == [file : ModelFile, gpu : Device, resident : BOOLEAN, enabled : BOOLEAN]
Configs == BoundedSeq(ModelEntry, MaxModels)

EnabledIn(c) == {m \in DOMAIN c : c[m].enabled}

server_identity(c, m) == <<c[m].file, c[m].gpu>>

\* The loop over the entries: the first of a key has the name, but a resident one takes
\* it from one that is not, once.
WithEntry(c, key, m, names) ==
  IF /\ c[m].enabled
     /\ \/ key[m] \notin DOMAIN names
        \/ c[m].resident /\ ~c[names[key[m]]].resident
    THEN [k \in DOMAIN names \cup {key[m]} |-> IF k = key[m] THEN m ELSE names[k]]
    ELSE names

Canonical(c, key) ==
  LET after[m \in 0..Len(c)] == IF m = 0 THEN << >> ELSE WithEntry(c, key, m, after[m - 1])
  IN after[Len(c)]

\* Mutant: one server a file.
FileEntries(c) ==
  LET names == Canonical(c, [m \in DOMAIN c |-> c[m].file])
  IN {m \in EnabledIn(c) : names[c[m].file] = m}

\* The models of the generated file.
select_entries(c) ==
  LET names == Canonical(c, [m \in DOMAIN c |-> server_identity(c, m)])
  IN {m \in EnabledIn(c) : names[server_identity(c, m)] = m}

\* Its group of servers that stay loaded beside one another.
resident_names(c) == {m \in select_entries(c) : c[m].resident /\ c[m].gpu # Gpu0}

\* The servers the warm-up pings, and waits for.
resident_swap_names(c) ==
  LET resident == {m \in EnabledIn(c) : c[m].resident /\ c[m].gpu # Gpu0}
  IN {m \in resident :
        \A n \in resident : server_identity(c, n) = server_identity(c, m) => m <= n}

\* The name a chat turn asks llama-swap for: here the key is the file alone.
canonical_swap_name(c, m) ==
  LET names == Canonical(c, [n \in DOMAIN c |-> c[n].file])
  IN IF c[m].file \in DOMAIN names THEN names[c[m].file] ELSE m
-----------------------------------------------------------------------------
(* What is checked of every configuration (MCGpuSlot) *)

\* No file is on two devices.
OneDevicePerFile(c) == \A m, n \in EnabledIn(c) : c[m].file = c[n].file => c[m].gpu = c[n].gpu

\* A turn's request for a model goes to that model's server.  The generator's comment
\* warns of what breaks it: keying on file alone would silently drop one.
AsksItsServer(c) ==
  \A m \in EnabledIn(c) :
    LET n == canonical_swap_name(c, m)
    IN n \in select_entries(c) /\ server_identity(c, n) = server_identity(c, m)

\* Each enabled alias has just one server, which stays loaded if the alias wants it.
OneServerEach(c) ==
  \A m \in EnabledIn(c) :
    \E n \in select_entries(c) :
      /\ {n} = {k \in select_entries(c) : server_identity(c, k) = server_identity(c, m)}
      /\ c[m].resident => c[n].resident

\* The warm-up pings the servers that stay loaded, by their names, and waits for no other.
WarmsResidents(c) == resident_swap_names(c) = resident_names(c)
=============================================================================

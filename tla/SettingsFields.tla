---------------------------- MODULE SettingsFields ----------------------------
(***************************************************************************)
(* The fields of a row of the models table: how settings.ts reads them     *)
(* from the server's settings, how settings_models.ts shows them in the    *)
(* page and reads them back.  A page that changed a value it only shows    *)
(* would send it with the next apply.                                      *)
(***************************************************************************)
EXTENDS Integers, Sequences, SequencesExt, FiniteSets

CONSTANTS
  MaxGpu,  \* the largest device number
  MaxTtl   \* the largest number of seconds

ASSUME FieldsAssumption == MaxGpu \in Nat /\ MaxTtl \in Nat

\* What a JSON field can hold.  `text' is a string that is neither a number nor a
\* device, `blank' an empty one.
Num(n) == [t |-> "number", n |-> n]
Digits(n) == [t |-> "digits", n |-> n]
Word(w) == [t |-> w, n |-> 0]
Raw ==
  {Num(n) : n \in 0..MaxGpu} \cup {Digits(n) : n \in 0..MaxGpu}
    \cup {Word(w) : w \in {"cpu", "CPU", "text", "blank", "null", "absent"}}

Cpu == Word("cpu")
GpuId == {Cpu} \cup {Num(n) : n \in 0..MaxGpu}

\* JavaScript's Number: null and the empty string are 0, a word is not a number.
NaN == Word("NaN")
Number(v) ==
  CASE v.t \in {"number", "digits"} -> Num(v.n)
    [] v.t \in {"null", "blank"} -> Num(0)
    [] OTHER -> NaN

asGpu(v) ==
  IF v.t \in {"cpu", "CPU"} \/ Number(v) = NaN THEN Cpu ELSE Number(v)

gpuValue(g) == IF g = Cpu THEN Cpu ELSE Digits(g.n)

parseGpu(v) == IF v = Cpu \/ Number(v) = NaN THEN Cpu ELSE Number(v)
-----------------------------------------------------------------------------
\* Mutant: only the devices that are there are offered.
deviceOptionsPresent(inventory, current) ==
  [i \in 1..Len(inventory) |-> Digits(inventory[i])] \o <<Cpu>>

\* `inv.slice().sort((a, b) => a.index - b.index)': the indexes of the devices, which are
\* distinct, in order.
byIndex(inventory) ==
  LET there == Range(inventory)
  IN [i \in 1..Len(inventory) |->
        CHOOSE n \in there : Cardinality({m \in there : m < n}) = i - 1]

\* The values of the options of the device field: the devices of the inventory in
\* order, the cpu, and first of all the row's own when it is none of these.
deviceOptions(inventory, current) ==
  LET offered == [i \in 1..Len(inventory) |-> Digits(byIndex(inventory)[i])] \o <<Cpu>>
  IN (IF Contains(offered, gpuValue(current)) THEN <<>> ELSE <<gpuValue(current)>>) \o offered

Inventories == {inv \in SeqOf(0..MaxGpu, MaxGpu + 1) : IsInjective(inv)}
-----------------------------------------------------------------------------
\* Mutant: a row without a TTL gets the number its field is read as.
readTtlAsNumber(v) == Number(v)

\* `o.ttl_s == null ? null : Number(o.ttl_s)'
readTtl(v) == IF v.t \in {"null", "absent"} THEN Word("null") ELSE Number(v)

showTtl(ttl) == IF ttl.t = "null" THEN Word("blank") ELSE Digits(ttl.n)

\* A field that is not blank is a number; Math.max(0, Number(raw) || 0).
enterTtl(field) ==
  IF field.t = "blank" THEN Word("null")
  ELSE IF Number(field) = NaN \/ Number(field).n < 0 THEN Num(0) ELSE Number(field)

StoredTtl == {Word("null"), Word("absent")} \cup {Num(n) : n \in 0..MaxTtl}
Field == {Word("blank"), Word("text")} \cup {Digits(n) : n \in -1..MaxTtl}
-----------------------------------------------------------------------------
(* What is checked of every input (MCSettingsView) *)

\* The device field always shows the device the row has, once, whatever devices the
\* inventory names; and choosing what is shown changes nothing.
DeviceIsOffered(raw, inv) ==
  LET g == asGpu(raw)
      options == deviceOptions(inv, g)
  IN /\ Cardinality({i \in 1..Len(options) : options[i] = gpuValue(g)}) = 1
     /\ \A i \in 1..Len(options) : gpuValue(parseGpu(options[i])) = options[i]

\* "null = no TTL (blank field); 0 = never unload": a stored TTL goes through the page
\* and back as it was, and the two are never taken for one another.
TtlSurvives(ttl) ==
  /\ enterTtl(showTtl(readTtl(ttl))) = readTtl(ttl)
  /\ (readTtl(ttl) = Num(0)) = (ttl = Num(0))

BlankIsNoTtl(field) == (enterTtl(field).t = "null") = (field = Word("blank"))
=============================================================================

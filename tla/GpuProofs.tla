------------------------------ MODULE GpuProofs ------------------------------
(***************************************************************************)
(* Proofs about the GPUs: of applies, any number of them, that overlap or  *)
(* do not (GpuApply), of the names of servers, for every list of models    *)
(* (SwapGen), and of the slot of GPU0 (GpuSlot).                           *)
(***************************************************************************)
EXTENDS GpuApply, MCGpuSlot, WellFoundedInduction, TLAPS

-----------------------------------------------------------------------------
(* Applies *)

(* The applies of a user who waits for each answer: any number of them, one at a time. *)
Serial == \A a, b \in Apply : Waiting(a) /\ Waiting(b) => a = b

(* The first request of the process. *)
LEMMA NewRequestType ==
  ASSUME Config # {}
  PROVE  /\ NewRequest \in ApplyState
         /\ NewRequest.pc = "new" /\ NewRequest.replaced # Torn
  BY GpuAssumption DEF NewRequest, ApplyState, PC, Answer, Retries, File

(* A write section cut short leaves the file as it was, and files. *)
LEMMA StopTypes ==
  ASSUME TypeOK, NEW stage \in Stage, NEW c \in Config, StopsAt(stage, c)
  PROVE  swap' = swap /\ bak' \in File /\ tmp' \in File
<1>1. BakAt(stage) \in File
  BY DEF BakAt, TypeOK, File
<1>2. TmpAt(stage, c) \in File
  BY DEF TmpAt, TypeOK, File
<1> QED
  BY <1>1, <1>2 DEF StopsAt, TypeOK

(* What a step of the endpoint does to its request: it is still one, only the write section *)
(* starts a poll and notes what was replaced, and only the end of a poll rolls back.        *)
Advances(one) ==
  /\ apply' \in [Apply -> ApplyState]
  /\ \A a \in Apply \ {one} : apply'[a] = apply[a]
  /\ apply'[one].pc = "poll" => Write(one)
  /\ apply'[one].replaced = (IF Write(one) THEN swap ELSE apply[one].replaced)
  /\ RollsBack(one) => PollTimesOut(one)

(* The request of a step that writes one field. *)
LEMMA GotoIs ==
  ASSUME TypeOK, NEW one \in Apply, NEW pc \in PC, Goto(one, pc)
  PROVE  /\ apply' \in [Apply -> ApplyState]
         /\ \A a \in Apply \ {one} : apply'[a] = apply[a]
         /\ apply'[one].pc = pc /\ apply'[one].replaced = apply[one].replaced
  BY DEF Goto, TypeOK, ApplyState

(* Every step of a request advances it. *)
LEMMA StepAdvances ==
  ASSUME TypeOK, NEW one \in Apply, Generate(one) \/ ApplyStep(one)
  PROVE  Advances(one)
<1>1. apply[one] \in ApplyState /\ apply \in [Apply -> ApplyState] /\ disk \in Config
      /\ swap \in File
  BY DEF TypeOK
<1>2. CASE Generate(one)
  <2>1. apply' = [apply EXCEPT ![one].pc = IF disk \in Enabled THEN "generated" ELSE "disabled",
                               ![one].config = disk]
    BY <1>2 DEF Generate
  <2>2. apply' = [apply EXCEPT ![one] = [apply[one] EXCEPT
           !.pc = IF disk \in Enabled THEN "generated" ELSE "disabled", !.config = disk]]
    BY <1>1, <2>1
  <2>3. ~Write(one)
    BY <1>2 DEF Generate, Waiting, Write, Answer
  <2>4. apply[one].pc # "poll"
    BY <1>2 DEF Generate, Waiting, Answer
  <2> QED
    BY <1>1, <2>2, <2>3, <2>4 DEF Advances, ApplyState, PC, Answer, RollsBack
<1>3. CASE Write(one)
  <2>1. apply' = [apply EXCEPT ![one].pc = "poll", ![one].had = (swap # NoFile),
                               ![one].replaced = swap]
    BY <1>3 DEF Write
  <2>2. apply' = [apply EXCEPT ![one] = [apply[one] EXCEPT
           !.pc = "poll", !.had = (swap # NoFile), !.replaced = swap]]
    BY <1>1, <2>1
  <2> QED
    BY <1>1, <1>3, <2>2 DEF Advances, ApplyState, PC, RollsBack
<1>4. CASE Healthy(one)
  <2>1. apply' = [apply EXCEPT ![one].pc = "warm", ![one].attempt = 0]
    BY <1>4 DEF Healthy
  <2>2. apply' = [apply EXCEPT ![one] = [apply[one] EXCEPT !.pc = "warm", !.attempt = 0]]
    BY <1>1, <2>1
  <2>3. ~Write(one)
    BY <1>4 DEF Healthy, Write
  <2>4. 0 \in Retries
    BY DEF Retries
  <2>5. /\ apply'[one] = [apply[one] EXCEPT !.pc = "warm", !.attempt = 0]
        /\ \A a \in Apply \ {one} : apply'[a] = apply[a]
    BY <1>1, <2>2
  <2>6. /\ apply'[one] \in ApplyState
        /\ apply'[one].pc = "warm" /\ apply'[one].replaced = apply[one].replaced
    BY <1>1, <2>4, <2>5 DEF ApplyState, PC
  <2>7. apply' \in [Apply -> ApplyState]
    BY <1>1, <2>2, <2>5, <2>6
  <2> QED
    BY <2>3, <2>5, <2>6, <2>7 DEF Advances, RollsBack
<1>5. CASE CheckUnloaded(one) /\ apply[one].attempt # 2
  <2>1. apply' = [apply EXCEPT ![one].pc = "warm", ![one].attempt = @ + 1]
    BY <1>5 DEF CheckUnloaded
  <2>2. apply' = [apply EXCEPT ![one] = [apply[one] EXCEPT
           !.pc = "warm", !.attempt = apply[one].attempt + 1]]
    BY <1>1, <2>1
  <2>3. apply[one].attempt + 1 \in Retries
    BY <1>1, <1>5 DEF ApplyState, Retries
  <2>4. ~Write(one)
    BY <1>5 DEF CheckUnloaded, Write
  <2> QED
    BY <1>1, <2>2, <2>3, <2>4 DEF Advances, ApplyState, PC, RollsBack
<1>6. ASSUME NEW pc \in PC \ {"poll"}, Goto(one, pc), ~Write(one),
             RollsBack(one) => PollTimesOut(one)
      PROVE  Advances(one)
  BY <1>6, GotoIs DEF Advances
<1>7. CASE WriteFails(one)
  <2>1. Goto(one, "write failed") /\ "write failed" \in PC \ {"poll"}
    BY <1>7 DEF WriteFails, PC, Answer
  <2>2. ~RollsBack(one)
    BY <1>7 DEF WriteFails, RollsBack
  <2>3. ~Write(one)
    <3>1. apply'[one].pc = "write failed"
      BY <2>1, GotoIs
    <3>2. Write(one) => apply' = [apply EXCEPT ![one] = [apply[one] EXCEPT
             !.pc = "poll", !.had = (swap # NoFile), !.replaced = swap]]
      BY <1>1 DEF Write
    <3>3. Write(one) => apply'[one].pc = "poll"
      BY <1>1, <3>2 DEF ApplyState
    <3> QED
      BY <3>1, <3>3
  <2> QED
    BY <1>6, <2>1, <2>2, <2>3
<1>8. CASE PollTimesOut(one)
  BY <1>6, <1>8 DEF PollTimesOut, PC, Answer, Write
<1>9. CASE WarmUp(one)
  BY <1>6, <1>9 DEF WarmUp, RollsBack, PC, Write
<1>10. CASE CheckLoaded(one)
  BY <1>6, <1>10 DEF CheckLoaded, RollsBack, PC, Answer, Write
<1>11. CASE CheckUnloaded(one) /\ apply[one].attempt = 2
  BY <1>6, <1>11 DEF CheckUnloaded, RollsBack, PC, Answer, Write
<1> QED
  BY <1>2, <1>3, <1>4, <1>5, <1>7, <1>8, <1>9, <1>10, <1>11 DEF ApplyStep

(* The files, the requests and the world keep their types, however many applies overlap. *)
LEMMA NextTypes ==
  ASSUME TypeOK, [Next]_vars
  PROVE  TypeOK'
<1>1. CASE UNCHANGED vars
  BY <1>1 DEF vars, files, llama, TypeOK
<1>2. ASSUME NEW one \in Apply, Generate(one) \/ ApplyStep(one)
      PROVE  TypeOK'
  <2>1. apply' \in [Apply -> ApplyState]
    BY <1>2, StepAdvances DEF Advances
  <2>2. apply[one].config \in Config
    BY DEF TypeOK, ApplyState
  <2>3. CASE Write(one)
    <3>1. bak' \in File /\ swap' \in File /\ tmp' \in File
      BY <2>2, <2>3 DEF Write, BakAt, TypeOK, File
    <3> QED
      BY <2>1, <2>3, <3>1 DEF Write, TypeOK
  <2>4. CASE WriteFails(one)
    <3>1. PICK stage \in Stage : StopsAt(stage, apply[one].config)
      BY <2>4 DEF WriteFails
    <3>2. swap' = swap /\ bak' \in File /\ tmp' \in File
      BY <2>2, <3>1, StopTypes
    <3> QED
      BY <2>1, <2>4, <3>2 DEF WriteFails, llama, TypeOK
  <2>5. CASE PollTimesOut(one)
    BY <2>1, <2>5 DEF PollTimesOut, TypeOK, File
  <2>6. CASE Generate(one) \/ Healthy(one) \/ WarmUp(one) \/ CheckLoaded(one)
             \/ CheckUnloaded(one)
    BY <2>1, <2>6
       DEF Generate, Healthy, WarmUp, CheckLoaded, CheckUnloaded, files, llama, TypeOK
  <2> QED
    BY <1>2, <2>3, <2>4, <2>5, <2>6 DEF ApplyStep
<1>3. CASE EditConfig \/ Reload
  BY <1>3 DEF EditConfig, Reload, files, llama, TypeOK
<1>4. CASE Crash
  <2>1. apply' \in [Apply -> ApplyState]
    BY <1>4, NewRequestType DEF Crash, TypeOK
  <2>2. swap' = swap /\ bak' \in File /\ tmp' \in File
    <3>1. CASE UNCHANGED files
      BY <3>1 DEF files, TypeOK
    <3>2. CASE \E a \in Apply, stage \in Stage : StopsAt(stage, apply[a].config)
      <4>1. PICK a \in Apply, stage \in Stage : StopsAt(stage, apply[a].config)
        BY <3>2
      <4>2. apply[a].config \in Config
        BY DEF TypeOK, ApplyState
      <4> QED
        BY <4>1, <4>2, StopTypes
    <3> QED
      BY <1>4, <3>1, <3>2 DEF Crash
  <2> QED
    BY <1>4, <2>1, <2>2 DEF Crash, llama, TypeOK
<1> QED
  BY <1>1, <1>2, <1>3, <1>4 DEF Next

(* The files as the service finds them. *)
LEMMA InitInv == Init => OneApplyInv
<1> SUFFICES ASSUME Init PROVE OneApplyInv
  OBVIOUS
<1>1. NewRequest \in ApplyState /\ NewRequest.pc = "new" /\ NewRequest.replaced # Torn
  BY NewRequestType DEF Init
<1>2. apply \in [Apply -> ApplyState] /\ \A a \in Apply : apply[a] = NewRequest
  BY <1>1 DEF Init
<1> QED
  BY <1>1, <1>2, GpuAssumption DEF Init, OneApplyInv, TypeOK, SwapIsWhole, BackupIsPrevious, File

(* A step of a request while no other one waits: the file stays whole, and what is replaced *)
(* is at hand until the poll is over.                                                       *)
LEMMA SerialStep ==
  ASSUME OneApplyInv, Serial, NEW one \in Apply, Generate(one) \/ ApplyStep(one)
  PROVE  /\ SwapIsWhole' /\ BackupIsPrevious' /\ \A a \in Apply : apply'[a].replaced # Torn
         /\ \A a \in Apply : RollsBack(a) => swap' \in {swap, apply[a].replaced}
<1>1. Advances(one)
  BY StepAdvances DEF OneApplyInv
<1>2. \A a \in Apply : apply'[a].replaced # Torn
  BY <1>1 DEF Advances, OneApplyInv, SwapIsWhole
<1>3. \A a \in Apply \ {one} : ~RollsBack(a)
  BY <1>1 DEF Advances, RollsBack
<1>4. CASE Write(one)
  <2>1. apply[one].pc = "generated" /\ Waiting(one)
    BY <1>4 DEF Write, Waiting, Answer
  <2>2. \A a \in Apply \ {one} : apply'[a].pc # "poll"
    BY <1>1, <2>1 DEF Serial, Waiting, Answer, Advances
  <2>3. apply'[one].had = (swap # NoFile) /\ apply'[one].replaced = swap
    <3>1. apply[one] \in ApplyState
      BY DEF OneApplyInv, TypeOK
    <3>2. apply'[one] = [apply[one] EXCEPT !.pc = "poll", !.had = (swap # NoFile),
                                             !.replaced = swap]
      BY <1>4 DEF Write, OneApplyInv, TypeOK
    <3> QED
      BY <3>1, <3>2 DEF ApplyState
  <2>4. bak' = IF swap = NoFile THEN bak ELSE swap
    BY <1>4 DEF Write, BakAt
  <2>5. BackupIsPrevious'
    BY <2>2, <2>3, <2>4 DEF BackupIsPrevious
  <2>6. SwapIsWhole'
    BY <1>4, GpuAssumption DEF Write, SwapIsWhole, OneApplyInv, TypeOK, ApplyState
  <2>7. ~RollsBack(one)
    BY <2>1 DEF RollsBack
  <2> QED
    BY <1>2, <1>3, <2>5, <2>6, <2>7
<1>5. CASE ~Write(one)
  <2>1. apply'[one].pc # "poll"
    BY <1>1, <1>5 DEF Advances
  <2>2. CASE WriteFails(one) \/ PollTimesOut(one)
    <3>1. Waiting(one)
      BY <2>2 DEF WriteFails, PollTimesOut, Waiting, Answer
    <3>2. \A a \in Apply \ {one} : apply'[a].pc # "poll"
      BY <1>1, <3>1 DEF Serial, Waiting, Answer, Advances
    <3>3. BackupIsPrevious'
      BY <2>1, <3>2 DEF BackupIsPrevious
    <3>4. SwapIsWhole' /\ (RollsBack(one) => swap' \in {swap, apply[one].replaced})
      <4>1. CASE WriteFails(one)
        BY <4>1 DEF WriteFails, StopsAt, OneApplyInv, SwapIsWhole
      <4>2. CASE PollTimesOut(one)
        <5>1. apply[one].had /\ bak # NoFile => bak = apply[one].replaced /\ bak # Torn
          BY <4>2 DEF PollTimesOut, OneApplyInv, BackupIsPrevious
        <5> QED
          BY <4>2, <5>1 DEF PollTimesOut, OneApplyInv, SwapIsWhole
      <4> QED
        BY <2>2, <4>1, <4>2
    <3> QED
      BY <1>2, <1>3, <3>3, <3>4
  <2>3. CASE ~WriteFails(one) /\ ~PollTimesOut(one)
    <3>1. UNCHANGED files
      BY <1>5, <2>3
         DEF ApplyStep, Generate, Healthy, WarmUp, CheckLoaded, CheckUnloaded
    <3>2. BackupIsPrevious' /\ SwapIsWhole'
      BY <1>1, <2>1, <3>1 DEF files, Advances, OneApplyInv, BackupIsPrevious, SwapIsWhole
    <3>3. ~RollsBack(one)
      BY <1>1, <2>3 DEF Advances
    <3> QED
      BY <1>2, <1>3, <3>2, <3>3
  <2> QED
    BY <2>2, <2>3
<1> QED
  BY <1>4, <1>5

(* What a step of the endpoint and its surroundings keeps and what it may do. *)
LEMMA StepKeeps ==
  ASSUME OneApplyInv, Serial, [Next]_vars
  PROVE  /\ OneApplyInv'
         /\ \A a \in Apply : RollsBack(a) => swap' \in {swap, apply[a].replaced}
<1>1. TypeOK'
  BY NextTypes DEF OneApplyInv
<1>2. CASE UNCHANGED vars \/ EditConfig \/ Reload
  <2>1. swap' = swap /\ bak' = bak /\ apply' = apply
    BY <1>2 DEF vars, EditConfig, Reload, files
  <2>2. OneApplyInv'
    BY <1>1, <2>1 DEF OneApplyInv, SwapIsWhole, BackupIsPrevious
  <2> QED
    BY <2>1, <2>2
<1>3. CASE Crash
  <2>1. NewRequest.pc = "new" /\ NewRequest.replaced # Torn
    BY NewRequestType DEF OneApplyInv, TypeOK
  <2>2. \A a \in Apply : apply'[a] = NewRequest
    BY <1>3 DEF Crash
  <2>3. swap' = swap
    BY <1>3 DEF Crash, files, StopsAt
  <2> QED
    BY <1>1, <2>1, <2>2, <2>3 DEF OneApplyInv, SwapIsWhole, BackupIsPrevious, RollsBack
<1>4. CASE \E a \in Apply : Generate(a) \/ ApplyStep(a)
  BY <1>1, <1>4, SerialStep DEF OneApplyInv
<1> QED
  BY <1>2, <1>3, <1>4 DEF Next

(* The files, the requests and what is around them have their types, however many applies *)
(* there are and however they overlap.                                                    *)
THEOREM TypeCorrect == Spec => []TypeOK
<1>1. Init => TypeOK
  BY InitInv DEF OneApplyInv
<1>2. TypeOK /\ [Next]_vars => TypeOK'
  BY NextTypes
<1> QED
  BY <1>1, <1>2, PTL DEF Spec

(* gpu/api.py: the invariant that applies keep which do not overlap. *)
THEOREM SerialInvariant == Spec /\ []Serial => []OneApplyInv
<1>1. Init => OneApplyInv
  BY InitInv
<1>2. OneApplyInv /\ Serial /\ [Next]_vars => OneApplyInv'
  BY StepKeeps
<1> QED
  BY <1>1, <1>2, PTL DEF Spec

(* Without overlap llama-swap never reads a part of a file. *)
THEOREM SwapAlwaysWhole == Spec /\ []Serial => []SwapIsWhole
<1>1. OneApplyInv => SwapIsWhole
  BY DEF OneApplyInv
<1> QED
  BY <1>1, SerialInvariant, PTL

(* Without overlap the previous file is at hand until the apply is decided. *)
THEOREM BackupKept == Spec /\ []Serial => []BackupIsPrevious
<1>1. OneApplyInv => BackupIsPrevious
  BY DEF OneApplyInv
<1> QED
  BY <1>1, SerialInvariant, PTL

(* Without overlap a rollback puts back what the apply had replaced. *)
THEOREM RollbackRestores == Spec /\ []Serial => RollbackRestoresPrevious
<1>1. OneApplyInv /\ Serial /\ [Next]_vars =>
        [\A a \in Apply : RollsBack(a) => swap' \in {swap, apply[a].replaced}]_vars
  BY StepKeeps
<1> QED
  BY <1>1, SerialInvariant, PTL DEF Spec, RollbackRestoresPrevious

(* With overlap a part of a file can come to llama-swap in one way only: a rollback puts   *)
(* back a .bak that another apply's copying has left half written.  No write tears it.     *)
TornByRollback == swap # Torn /\ swap' = Torn => bak = Torn /\ \E a \in Apply : RollsBack(a)

(* However applies overlap, and whatever fails or crashes, only a rollback tears the file. *)
THEOREM OnlyRollbacksTear == Spec => [][TornByRollback]_vars
<1>1. TypeOK /\ [Next]_vars => [TornByRollback]_vars
  <2> SUFFICES ASSUME TypeOK, Next, swap # Torn, swap' = Torn
               PROVE  bak = Torn /\ \E a \in Apply : RollsBack(a)
    BY DEF TornByRollback
  <2>1. ~EditConfig /\ ~Reload /\ ~Crash
    BY DEF EditConfig, Reload, Crash, files, StopsAt
  <2>2. PICK one \in Apply : Generate(one) \/ ApplyStep(one)
    BY <2>1 DEF Next
  <2>3. ~Write(one)
    BY GpuAssumption DEF Write, TypeOK, ApplyState
  <2>4. PollTimesOut(one)
    BY <2>2, <2>3
       DEF ApplyStep, Generate, WriteFails, StopsAt, Healthy, WarmUp, CheckLoaded,
           CheckUnloaded, files
  <2>5. RollsBack(one)
    BY <2>4, GotoIs DEF PollTimesOut, RollsBack, PC, Answer
  <2> QED
    BY <2>4, <2>5 DEF PollTimesOut
<1> QED
  BY <1>1, TypeCorrect, PTL DEF Spec

-----------------------------------------------------------------------------
(* Names of servers *)

(* A set of numbers has a least one.  Below, the loop over the entries is followed by *)
(* looking at the least place where it would go wrong.                              *)
LEMMA LeastNumber ==
  ASSUME NEW T, T \subseteq Nat, T # {}
  PROVE  \E x \in T : \A y \in T : x <= y
<1> DEFINE Less == {p \in Nat \X Nat : p[1] < p[2]}
<1>1. IsWellFoundedOn(Less, Nat)
  BY NatLessThanWellFounded DEF OpToRel
<1>3. \A x, y \in Nat : x < y => <<x, y>> \in Less
  OBVIOUS
<1> HIDE DEF Less
<1>2. PICK x \in T : \A y \in T : <<y, x>> \notin Less
  BY <1>1, WFMin
<1>4. \A y \in T : x \in Nat /\ y \in Nat /\ ~(y < x)
  BY <1>2, <1>3
<1> QED
  BY <1>4

Least(S) == CHOOSE x \in S : \A y \in S : x <= y

(* What the least number of a set is. *)
LEMMA LeastIs ==
  ASSUME NEW S, S \subseteq Nat, S # {}
  PROVE  Least(S) \in S /\ \A y \in S : Least(S) <= y
BY LeastNumber DEF Least

(* A member with none below it is the least. *)
LEMMA LeastOf ==
  ASSUME NEW S, S \subseteq Nat, NEW x \in S, \A y \in S : x <= y
  PROVE  Least(S) = x
<1>1. Least(S) \in S /\ \A y \in S : Least(S) <= y
  BY LeastIs
<1>2. Least(S) \in Nat /\ x \in Nat /\ Least(S) <= x /\ x <= Least(S)
  BY <1>1
<1> QED
  BY <1>2

(* What the loop of Canonical has found after n entries: of each key the first resident *)
(* entry, or the first entry if none is resident.                                       *)
Entries(c, key, k, n) == {i \in 1..n : c[i].enabled /\ key[i] = k}
Residents(c, key, k, n) == {i \in Entries(c, key, k, n) : c[i].resident}
NameOf(c, key, k, n) ==
  IF Residents(c, key, k, n) # {} THEN Least(Residents(c, key, k, n))
                                  ELSE Least(Entries(c, key, k, n))
KeysOf(c, key, n) == {key[i] : i \in {j \in 1..n : c[j].enabled}}
Names(c, key, n) == [k \in KeysOf(c, key, n) |-> NameOf(c, key, k, n)]

(* A key has entries, which are places of the list, if one of them gave it. *)
LEMMA EntriesOfKeys ==
  ASSUME NEW c, NEW key, NEW n \in Nat, NEW k
  PROVE  /\ Entries(c, key, k, n) \subseteq Nat /\ Residents(c, key, k, n) \subseteq Nat
         /\ k \in KeysOf(c, key, n) <=> Entries(c, key, k, n) # {}
BY DEF Entries, Residents, KeysOf

(* The name of a key is one of its entries, a resident one if there is any. *)
LEMMA NameOfIs ==
  ASSUME NEW c, NEW key, NEW n \in Nat, NEW k \in KeysOf(c, key, n)
  PROVE  LET m == NameOf(c, key, k, n)
         IN /\ m \in Entries(c, key, k, n)
            /\ Residents(c, key, k, n) # {} => m \in Residents(c, key, k, n)
BY EntriesOfKeys, LeastIs DEF NameOf, Residents

(* One more entry changes the names as the body of the loop does. *)
LEMMA NamesGrow ==
  ASSUME NEW c, NEW key, NEW m \in Nat \ {0}
  PROVE  Names(c, key, m) = WithEntry(c, key, m, Names(c, key, m - 1))
<1> DEFINE before(k) == Entries(c, key, k, m - 1)
           residents(k) == Residents(c, key, k, m - 1)
<1>1. m - 1 \in Nat /\ 1..m = 1..(m-1) \cup {m} /\ \A i \in 1..(m-1) : i < m
  OBVIOUS
<1>2. ASSUME NEW k, ~c[m].enabled \/ key[m] # k
      PROVE  Entries(c, key, k, m) = before(k) /\ Residents(c, key, k, m) = residents(k)
  BY <1>1, <1>2 DEF Entries, Residents
<1>3. ASSUME c[m].enabled
      PROVE  /\ Entries(c, key, key[m], m) = before(key[m]) \cup {m}
             /\ c[m].resident => Residents(c, key, key[m], m) = residents(key[m]) \cup {m}
             /\ ~c[m].resident => Residents(c, key, key[m], m) = residents(key[m])
  BY <1>1, <1>3 DEF Entries, Residents
<1>4. \A k : \A i \in before(k) : i \in Nat /\ i < m
  BY <1>1 DEF Entries
<1>5. \A k : residents(k) \subseteq before(k) /\ before(k) \subseteq Nat
  BY <1>1 DEF Entries, Residents
<1>6. KeysOf(c, key, m) = IF c[m].enabled THEN KeysOf(c, key, m - 1) \cup {key[m]}
                                          ELSE KeysOf(c, key, m - 1)
  BY <1>1 DEF KeysOf
<1>7. ASSUME NEW k \in KeysOf(c, key, m - 1), ~c[m].enabled \/ key[m] # k
      PROVE  NameOf(c, key, k, m) = NameOf(c, key, k, m - 1)
  BY <1>2, <1>7 DEF NameOf
<1>8. CASE c[m].enabled /\ key[m] \notin KeysOf(c, key, m - 1)
  <2>1. before(key[m]) = {} /\ residents(key[m]) = {}
    BY <1>1, <1>5, <1>8, EntriesOfKeys
  <2>2. NameOf(c, key, key[m], m) = m
    <3>1. Entries(c, key, key[m], m) = {m} /\ Residents(c, key, key[m], m) \in {{}, {m}}
      BY <1>3, <1>8, <2>1
    <3>2. Least({m}) = m
      BY LeastOf
    <3> QED
      BY <3>1, <3>2 DEF NameOf
  <2> QED
    BY <1>6, <1>7, <1>8, <2>2 DEF Names, WithEntry
<1>9. CASE c[m].enabled /\ key[m] \in KeysOf(c, key, m - 1)
  <2> DEFINE n == NameOf(c, key, key[m], m - 1)
  <2>1. /\ n \in before(key[m]) /\ n \in Nat /\ n < m
        /\ residents(key[m]) # {} => n \in residents(key[m])
        /\ residents(key[m]) = {} => ~c[n].resident
    BY <1>1, <1>4, <1>9, NameOfIs DEF Residents
  <2>2. /\ residents(key[m]) # {} => c[n].resident /\ \A i \in residents(key[m]) : n <= i
        /\ residents(key[m]) = {} => \A i \in before(key[m]) : n <= i
    BY <1>5, <1>9, <2>1, LeastIs DEF NameOf, Residents
  <2> HIDE DEF n, before, residents
  <2>3. CASE c[m].resident /\ residents(key[m]) = {}
    <3>1. NameOf(c, key, key[m], m) = m
      <4>1. Residents(c, key, key[m], m) = {m} /\ Least({m}) = m
        BY <1>3, <1>9, <2>3, LeastOf
      <4> QED
        BY <4>1 DEF NameOf
    <3> QED
      BY <1>6, <1>7, <1>9, <2>1, <2>3, <3>1 DEF Names, WithEntry, n
  <2>4. CASE residents(key[m]) # {}
    <3>1. NameOf(c, key, key[m], m) = n
      <4> DEFINE R == Residents(c, key, key[m], m)
      <4>1. R \in {residents(key[m]), residents(key[m]) \cup {m}}
        BY <1>3, <1>9
      <4>2. n \in R /\ R \subseteq Nat /\ \A i \in R : n <= i
        BY <1>5, <2>1, <2>2, <2>4, <4>1
      <4> QED
        BY <4>2, LeastOf DEF NameOf
    <3> QED
      BY <1>6, <1>7, <1>9, <2>2, <2>4, <3>1 DEF Names, WithEntry, n
  <2>5. CASE ~c[m].resident /\ residents(key[m]) = {}
    <3>1. NameOf(c, key, key[m], m) = n
      <4> DEFINE E == Entries(c, key, key[m], m)
      <4>1. E = before(key[m]) \cup {m} /\ Residents(c, key, key[m], m) = {}
        BY <1>3, <1>9, <2>5
      <4>2. n \in E /\ E \subseteq Nat /\ \A i \in E : n <= i
        BY <1>5, <2>1, <2>2, <2>5, <4>1
      <4> QED
        BY <4>1, <4>2, LeastOf DEF NameOf
    <3> QED
      BY <1>6, <1>7, <1>9, <2>5, <3>1 DEF Names, WithEntry, n
  <2> QED
    BY <2>3, <2>4, <2>5
<1>10. CASE ~c[m].enabled
  BY <1>6, <1>7, <1>10 DEF Names, WithEntry
<1> QED
  BY <1>8, <1>9, <1>10

(* What the loop over the entries, of the generator and of the orchestrator, ends with: *)
(* each key of an enabled entry is named after its first resident, or else its first.   *)
THEOREM CanonicalIs ==
  ASSUME NEW c, NEW key, Len(c) \in Nat
  PROVE  Canonical(c, key) = Names(c, key, Len(c))
<1> DEFINE Body(f, m) == IF m = 0 THEN << >> ELSE WithEntry(c, key, m, f[m - 1])
           Loop(f) == f = [m \in 0..Len(c) |-> Body(f, m)]
           after == CHOOSE f : Loop(f)
           names == [m \in 0..Len(c) |-> Names(c, key, m)]
<1>1. Loop(names)
  <2>1. ASSUME NEW m \in 0..Len(c)
        PROVE  Names(c, key, m) = Body(names, m)
    <3>1. CASE m = 0
      <4>1. KeysOf(c, key, 0) = {}
        BY DEF KeysOf
      <4> QED
        BY <3>1, <4>1 DEF Names
    <3>2. CASE m # 0
      <4>1. m \in Nat \ {0} /\ names[m - 1] = Names(c, key, m - 1)
        BY <3>2
      <4> QED
        BY <3>2, <4>1, NamesGrow
    <3> QED
      BY <3>1, <3>2
  <2> HIDE DEF Body
  <2> QED
    BY <2>1
<1>2. Loop(after)
  <2> HIDE DEF Loop, names
  <2> QED
    BY <1>1
<1>3. ASSUME NEW m \in 0..Len(c), after[m] # names[m]
      PROVE  FALSE
  <2> DEFINE Bad == {n \in 0..Len(c) : after[n] # names[n]}
  <2> HIDE DEF after, names
  <2>0. m \in Bad /\ Bad \subseteq Nat
    BY <1>3
  <2>1. PICK n \in Bad : \A i \in Bad : n <= i
    <3> HIDE DEF Bad
    <3> QED
      BY <2>0, LeastNumber
  <2>2. n \in 0..Len(c) /\ after[n] = Body(after, n) /\ names[n] = Body(names, n)
    <3> HIDE DEF Body
    <3> QED
      BY <1>1, <1>2
  <2>3. n # 0 => n - 1 \in 0..Len(c) /\ after[n - 1] = names[n - 1]
    BY <2>1
  <2> QED
    BY <2>1, <2>2, <2>3
<1>4. after[Len(c)] = names[Len(c)]
  BY <1>3
<1>5. Canonical(c, key) = after[Len(c)]
  BY DEF Canonical
<1> QED
  BY <1>4, <1>5

-----------------------------------------------------------------------------
(* The entries of a key, with the whole list read. *)
LEMMA NamedEntry ==
  ASSUME NEW c \in Seq(ModelEntry), NEW key, NEW m \in EnabledIn(c)
  PROVE  LET n == Canonical(c, key)[key[m]]
         IN /\ key[m] \in DOMAIN Canonical(c, key)
            /\ n = NameOf(c, key, key[m], Len(c))
            /\ n \in EnabledIn(c) /\ key[n] = key[m]
            /\ c[m].resident => c[n].resident
<1>1. Len(c) \in Nat /\ DOMAIN c = 1..Len(c) /\ m \in 1..Len(c) /\ c[m].enabled
  BY DEF EnabledIn
<1>2. m \in Entries(c, key, key[m], Len(c))
      /\ (c[m].resident => m \in Residents(c, key, key[m], Len(c)))
      /\ key[m] \in KeysOf(c, key, Len(c))
  BY <1>1 DEF Entries, Residents, KeysOf
<1> DEFINE n == NameOf(c, key, key[m], Len(c))
<1>3. Canonical(c, key) = Names(c, key, Len(c))
  BY <1>1, CanonicalIs
<1>4. key[m] \in DOMAIN Canonical(c, key) /\ Canonical(c, key)[key[m]] = n
  BY <1>2, <1>3 DEF Names
<1>5. /\ n \in Entries(c, key, key[m], Len(c))
      /\ Residents(c, key, key[m], Len(c)) # {} => n \in Residents(c, key, key[m], Len(c))
  BY <1>1, <1>2, NameOfIs
<1> HIDE DEF n
<1>6. n \in EnabledIn(c) /\ key[n] = key[m]
  BY <1>1, <1>5 DEF Entries, EnabledIn
<1>7. c[m].resident => c[n].resident
  BY <1>2, <1>5 DEF Residents
<1> QED
  BY <1>4, <1>6, <1>7 DEF n

Identities(c) == [m \in DOMAIN c |-> server_identity(c, m)]

(* The server of an entry: it has a name of its own, one in the generated file. *)
LEMMA ServerOfEntry ==
  ASSUME NEW c \in Seq(ModelEntry), NEW m \in EnabledIn(c)
  PROVE  LET n == NameOf(c, Identities(c), server_identity(c, m), Len(c))
         IN /\ n \in select_entries(c) /\ server_identity(c, n) = server_identity(c, m)
            /\ c[m].resident => c[n].resident
            /\ m \in select_entries(c) <=> n = m
<1>1. m \in DOMAIN c /\ Identities(c)[m] = server_identity(c, m)
  BY DEF EnabledIn, Identities
<1> DEFINE n == NameOf(c, Identities(c), server_identity(c, m), Len(c))
<1>2. /\ Canonical(c, Identities(c))[server_identity(c, m)] = n
      /\ n \in EnabledIn(c) /\ Identities(c)[n] = server_identity(c, m)
      /\ c[m].resident => c[n].resident
  <2>1. ASSUME NEW key, key = Identities(c)
        PROVE  LET k == Canonical(c, key)[key[m]]
               IN /\ k = NameOf(c, key, key[m], Len(c))
                  /\ k \in EnabledIn(c) /\ key[k] = key[m]
                  /\ c[m].resident => c[k].resident
    BY NamedEntry
  <2>2. LET k == Canonical(c, Identities(c))[Identities(c)[m]]
        IN /\ k = NameOf(c, Identities(c), Identities(c)[m], Len(c))
           /\ k \in EnabledIn(c) /\ Identities(c)[k] = Identities(c)[m]
           /\ c[m].resident => c[k].resident
    BY <2>1
  <2> QED
    BY <1>1, <2>2
<1> HIDE DEF n
<1>3. server_identity(c, n) = server_identity(c, m)
  BY <1>2 DEF Identities, EnabledIn
<1>4. select_entries(c) =
        {k \in EnabledIn(c) : Canonical(c, Identities(c))[server_identity(c, k)] = k}
  BY DEF select_entries, Identities
<1> QED
  BY <1>2, <1>3, <1>4 DEF n

(* Each enabled alias has just one server in the generated file, resident if it wants. *)
LEMMA EveryListHasOneServer ==
  ASSUME NEW c \in Seq(ModelEntry)
  PROVE  OneServerEach(c)
<1> SUFFICES ASSUME NEW m \in EnabledIn(c)
             PROVE  \E n \in select_entries(c) :
                      /\ {n} = {k \in select_entries(c) :
                                  server_identity(c, k) = server_identity(c, m)}
                      /\ c[m].resident => c[n].resident
  BY DEF OneServerEach
<1> DEFINE n == NameOf(c, Identities(c), server_identity(c, m), Len(c))
<1>1. /\ n \in select_entries(c) /\ server_identity(c, n) = server_identity(c, m)
      /\ c[m].resident => c[n].resident
  BY ServerOfEntry
<1>2. ASSUME NEW k \in select_entries(c), server_identity(c, k) = server_identity(c, m)
      PROVE  k = n
  <2>1. k \in EnabledIn(c)
    BY DEF select_entries
  <2> QED
    BY <1>2, <2>1, ServerOfEntry
<1> HIDE DEF n
<1> QED
  BY <1>1, <1>2

(* The warm-up's own way to a name, the first resident of an identity, comes to those *)
(* the generator keeps loaded.                                                      *)
LEMMA EveryListIsWarmed ==
  ASSUME NEW c \in Seq(ModelEntry)
  PROVE  WarmsResidents(c)
<1> DEFINE Wanted == {m \in EnabledIn(c) : c[m].resident /\ c[m].gpu # Gpu0}
<1>1. ASSUME NEW m \in Wanted
      PROVE  m \in select_entries(c) <=>
               \A n \in Wanted : server_identity(c, n) = server_identity(c, m) => m <= n
  <2> DEFINE R == Residents(c, Identities(c), server_identity(c, m), Len(c))
  <2>1. R = {n \in EnabledIn(c) : c[n].resident
                                /\ server_identity(c, n) = server_identity(c, m)}
    BY DEF Residents, Entries, EnabledIn, Identities
  <2>2. R = {n \in Wanted : server_identity(c, n) = server_identity(c, m)}
    BY <2>1 DEF server_identity
  <2>3. m \in R /\ R \subseteq Nat
    BY <2>1, <2>2 DEF EnabledIn
  <2>4. m \in EnabledIn(c) /\ NameOf(c, Identities(c), server_identity(c, m), Len(c)) = Least(R)
    BY <2>3 DEF NameOf
  <2>5. m \in select_entries(c) <=> Least(R) = m
    BY <2>4, ServerOfEntry
  <2> HIDE DEF R, Wanted
  <2>6. ASSUME \A n \in R : m <= n
        PROVE  Least(R) = m
    BY <2>3, <2>6, LeastOf
  <2>7. ASSUME Least(R) = m
        PROVE  \A n \in R : m <= n
    <3>1. \A n \in R : Least(R) <= n
      BY <2>3, LeastIs
    <3> QED
      BY <2>7, <3>1
  <2> QED
    BY <2>2, <2>5, <2>6, <2>7
<1>2. resident_swap_names(c) =
        {m \in Wanted : \A n \in Wanted : server_identity(c, n) = server_identity(c, m) => m <= n}
  BY DEF resident_swap_names
<1>3. resident_names(c) = {m \in Wanted : m \in select_entries(c)}
  BY DEF resident_names, select_entries
<1> HIDE DEF Wanted
<1> QED
  BY <1>1, <1>2, <1>3 DEF WarmsResidents

(* The name a turn asks for is that of an enabled entry of the same file. *)
LEMMA TurnsAskForTheFile ==
  ASSUME NEW c \in Seq(ModelEntry), NEW m \in EnabledIn(c)
  PROVE  LET n == canonical_swap_name(c, m)
         IN /\ n \in EnabledIn(c) /\ c[n].file = c[m].file
            /\ n = NameOf(c, [i \in DOMAIN c |-> c[i].file], c[m].file, Len(c))
<1> DEFINE paths == [i \in DOMAIN c |-> c[i].file]
           n == Canonical(c, paths)[paths[m]]
<1>1. m \in DOMAIN c /\ paths[m] = c[m].file
  BY DEF EnabledIn
<1>2. /\ paths[m] \in DOMAIN Canonical(c, paths)
      /\ n \in EnabledIn(c) /\ paths[n] = paths[m]
      /\ n = NameOf(c, paths, paths[m], Len(c))
  <2> HIDE DEF paths
  <2> QED
    BY NamedEntry
<1>3. c[n].file = c[m].file
  BY <1>1, <1>2 DEF EnabledIn
<1>4. canonical_swap_name(c, m) = n
  BY <1>1, <1>2 DEF canonical_swap_name
<1> HIDE DEF n
<1> QED
  BY <1>1, <1>2, <1>3, <1>4

(* The file alone is the key of a turn's request: it names the server of the model if no *)
(* enabled file is on two devices.                                                       *)
THEOREM TurnsAskTheServer ==
  ASSUME NEW c \in Seq(ModelEntry), OneDevicePerFile(c)
  PROVE  AsksItsServer(c)
<1> SUFFICES ASSUME NEW m \in EnabledIn(c)
             PROVE  /\ canonical_swap_name(c, m) \in select_entries(c)
                    /\ server_identity(c, canonical_swap_name(c, m)) = server_identity(c, m)
  BY DEF AsksItsServer
<1> DEFINE n == canonical_swap_name(c, m)
           paths == [i \in DOMAIN c |-> c[i].file]
<1>1. n \in EnabledIn(c) /\ c[n].file = c[m].file
      /\ n = NameOf(c, paths, c[m].file, Len(c))
  BY TurnsAskForTheFile
<1>2. ASSUME NEW i \in EnabledIn(c)
      PROVE  c[i].file = c[m].file <=> server_identity(c, i) = server_identity(c, m)
  BY DEF OneDevicePerFile, server_identity
<1>3. /\ Entries(c, paths, c[m].file, Len(c)) = {i \in EnabledIn(c) : c[i].file = c[m].file}
      /\ Entries(c, Identities(c), server_identity(c, m), Len(c))
           = {i \in EnabledIn(c) : server_identity(c, i) = server_identity(c, m)}
  BY DEF Entries, EnabledIn, Identities
<1>4. Entries(c, paths, c[m].file, Len(c))
        = Entries(c, Identities(c), server_identity(c, m), Len(c))
  BY <1>2, <1>3
<1>5. NameOf(c, paths, c[m].file, Len(c))
        = NameOf(c, Identities(c), server_identity(c, m), Len(c))
  BY <1>4 DEF NameOf, Residents
<1> HIDE DEF n, paths
<1>6. n = NameOf(c, Identities(c), server_identity(c, n), Len(c))
      /\ server_identity(c, n) = server_identity(c, m)
  BY <1>1, <1>2, <1>5
<1>7. n \in select_entries(c)
  BY <1>1, <1>6, ServerOfEntry
<1> QED
  BY <1>6, <1>7 DEF n
-----------------------------------------------------------------------------
(* Generator, warm-up and turns agree of every list of models, of any length. *)
THEOREM ServersAgreeAlways == MCFairSpec => []ServersAgree
<1> DEFINE Tried == tried \in Seq(ModelEntry)
<1>1. Configs \subseteq Seq(ModelEntry)
  <2>1. MaxModels \in Nat
    BY SlotAssumption
  <2> QED
    BY <2>1 DEF Configs, BoundedSeq, SeqOf
<1>2. MCInit => Tried
  BY DEF MCInit
<1>3. Tried /\ [MCNext]_<<slotVars, tried>> => Tried'
  BY <1>1 DEF MCNext, Try
<1>4. Tried => ServersAgree
  BY EveryListHasOneServer, EveryListIsWarmed, TurnsAskTheServer DEF ServersAgree
<1> QED
  BY <1>2, <1>3, <1>4, PTL DEF MCFairSpec

-----------------------------------------------------------------------------
(* The slot of GPU0 *)

(* What the constants are. *)
LEMMA SlotConstants ==
  /\ Models \in Seq(ModelEntry) /\ Default \in EnabledIn(Models)
  /\ Threshold \in Nat /\ None \notin Nat /\ EnabledIn(Models) \subseteq DOMAIN Models
BY SlotAssumption DEF EnabledIn

(* A turn is answered by a server of the generated file, of the file of its model. *)
LEMMA TurnsAskAServer ==
  ASSUME NEW m \in EnabledIn(Models)
  PROVE  ServerOf(m) \in Server /\ ServerOf(m)[1] = Models[m].file
<1> DEFINE n == canonical_swap_name(Models, m)
<1>1. n \in EnabledIn(Models) /\ Models[n].file = Models[m].file
  BY SlotConstants, TurnsAskForTheFile
<1> HIDE DEF n
<1>2. \E k \in select_entries(Models) : server_identity(Models, k) = server_identity(Models, n)
  BY <1>1, SlotConstants, ServerOfEntry
<1> QED
  BY <1>1, <1>2 DEF ServerOf, Server, server_identity, n

\* SlotTypeOK, with what it rests on: turns are on enabled models.
SlotTypes == SlotTypeOK /\ \A t \in Turn : turn[t].model \in EnabledIn(Models)

(* Every step of the slot, the turns and the loop keeps the types. *)
LEMMA SlotTypesStep ==
  ASSUME SlotTypes, [SlotNext]_slotVars
  PROVE  SlotTypes'
<1> USE SlotConstants DEF SlotTypes, SlotTypeOK
<1>0. NoTurn \in TurnState /\ NoTurn.model \in EnabledIn(Models)
  BY DEF NoTurn, TurnState
<1>1. CASE UNCHANGED slotVars
  BY <1>1 DEF slotVars
<1>2. ASSUME NEW t \in Turn, NEW m \in EnabledIn(Models), Ask(t, m)
      PROVE  SlotTypes'
  BY <1>2 DEF Ask, NoTurn, TurnState
<1>3. ASSUME NEW t \in Turn, Load(t)
      PROVE  SlotTypes'
  <2>1. ServerOf(turn[t].model) \in Server
    BY TurnsAskAServer
  <2>2. slot' \in Server \cup {None} /\ reported' \in BOOLEAN
    BY <1>3, <2>1 DEF Load, Swap
  <2>3. turn' \in [Turn -> TurnState] /\ \A u \in Turn : turn'[u].model \in EnabledIn(Models)
    BY <1>3 DEF Load, TurnState
  <2> QED
    BY <1>3, <2>2, <2>3 DEF Load
<1>4. ASSUME NEW t \in Turn, Delayed(t)
      PROVE  SlotTypes'
  BY <1>4 DEF Delayed, TurnState
<1>5. ASSUME NEW t \in Turn, Delta(t)
      PROVE  SlotTypes'
  <2>1. \/ turn' = [turn EXCEPT ![t] = [turn[t] EXCEPT !.pc = "answering"]]
        \/ turn' = [turn EXCEPT ![t] = [turn[t] EXCEPT !.pc = "answering", !.rewarm_reported = TRUE]]
    BY <1>5 DEF Delta
  <2>2. turn' \in [Turn -> TurnState] /\ \A u \in Turn : turn'[u].model \in EnabledIn(Models)
    <3>1. turn[t] \in TurnState /\ turn[t].model \in EnabledIn(Models)
      OBVIOUS
    <3>2. ASSUME NEW next \in TurnState, next.model \in EnabledIn(Models),
                 turn' = [turn EXCEPT ![t] = next]
          PROVE  turn' \in [Turn -> TurnState]
                 /\ \A u \in Turn : turn'[u].model \in EnabledIn(Models)
      BY <3>2
    <3>3. /\ [turn[t] EXCEPT !.pc = "answering"] \in TurnState
          /\ [turn[t] EXCEPT !.pc = "answering", !.rewarm_reported = TRUE] \in TurnState
          /\ [turn[t] EXCEPT !.pc = "answering"].model = turn[t].model
          /\ [turn[t] EXCEPT !.pc = "answering", !.rewarm_reported = TRUE].model = turn[t].model
      BY <3>1 DEF TurnState
    <3> QED
      BY <2>1, <3>1, <3>2, <3>3
  <2>3. \/ UNCHANGED <<pending, same, reported>>
        \/ pending' = 0 /\ same' = FALSE /\ reported' = (slot = ServerOf(turn[t].model))
    BY <1>5 DEF Delta, mark_gpu0_activity
  <2>4. pending' \in 0..Threshold \cup {None} /\ same' \in BOOLEAN
    <3>1. 0 \in 0..Threshold
      OBVIOUS
    <3> QED
      BY <2>3, <3>1
  <2>5. reported' \in BOOLEAN
    BY <2>3
  <2> QED
    BY <1>5, <2>2, <2>4, <2>5 DEF Delta
<1>6. ASSUME NEW t \in Turn, End(t)
      PROVE  SlotTypes'
  BY <1>0, <1>6 DEF End
<1>7. CASE Minute
  BY <1>7 DEF Minute
<1>8. CASE Poll
  BY <1>8 DEF Poll
<1>9. CASE PingLoads
  <2>1. DefaultServer \in Server
    BY <1>9 DEF PingLoads, Server, DefaultServer
  <2> QED
    BY <1>9, <2>1 DEF PingLoads, Swap
<1>10. CASE PingAnswered \/ PingReturns \/ PingFails
  BY <1>10 DEF PingAnswered, PingReturns, PingFails
<1>11. CASE Stop \/ Start
  BY <1>0, <1>11 DEF Stop, Start
<1>12. CASE Unload \/ ServersStop
  <2>1. turn' \in [Turn -> TurnState] /\ \A u \in Turn : turn'[u].model \in EnabledIn(Models)
    BY <1>0, <1>12 DEF Unload, ServersStop
  <2> QED
    BY <1>12, <2>1 DEF Unload, ServersStop, Swap
<1> QED
  BY <1>1, <1>2, <1>3, <1>4, <1>5, <1>6, <1>7, <1>8, <1>9, <1>10, <1>11, <1>12 DEF SlotNext

(* The slot, the turns and the loop have their types; GPU0 only ever holds a server of the *)
(* generated file.                                                                         *)
THEOREM SlotTypesInvariant == SlotSpec => []SlotTypes
<1>1. SlotInit => SlotTypes
  <2>1. NoTurn \in TurnState /\ NoTurn.model \in EnabledIn(Models)
    BY SlotConstants DEF NoTurn, TurnState
  <2> QED
    BY <2>1 DEF SlotInit, SlotTypes, SlotTypeOK
<1> QED
  BY <1>1, SlotTypesStep, PTL DEF SlotSpec

-----------------------------------------------------------------------------
(* The inductive invariant.  What is on GPU0 and reported is not the default's server, so *)
(* that a ping, once llama-swap has served it, leaves nothing reported: what it then      *)
(* forgets is what it has read.                                                           *)
Remembered ==
  /\ reported => pending # None /\ slot # DefaultServer
  /\ loop \in {"served", "answered"} /\ same => ~reported

(* Every step keeps it, if the default model is one of GPU0. *)
LEMMA RememberedStep ==
  ASSUME Models[Default].gpu = Gpu0, SlotTypes, Remembered, [SlotNext]_slotVars
  PROVE  Remembered'
<1> USE SlotConstants DEF Remembered
<1>0. pending \in 0..Threshold \cup {None} /\ slot \in Server \cup {None}
      /\ \A t \in Turn : turn[t].model \in EnabledIn(Models)
  BY DEF SlotTypes, SlotTypeOK
<1>1. CASE UNCHANGED slotVars
  BY <1>1 DEF slotVars
<1>2. ASSUME NEW t \in Turn, NEW m \in EnabledIn(Models), Ask(t, m)
      PROVE  Remembered'
  BY <1>2 DEF Ask, DefaultServer
<1>3. ASSUME NEW t \in Turn, Load(t)
      PROVE  Remembered'
  BY <1>3 DEF Load, Swap, DefaultServer
<1>4. ASSUME NEW t \in Turn, Delayed(t) \/ End(t)
      PROVE  Remembered'
  BY <1>4 DEF Delayed, End
<1>5. ASSUME NEW t \in Turn, Delta(t)
      PROVE  Remembered'
  <2>1. CASE ~DistinctGpu0(turn[t].model) \/ UNCHANGED <<pending, same, reported>>
    BY <1>5, <2>1 DEF Delta, mark_gpu0_activity
  <2>2. CASE DistinctGpu0(turn[t].model) /\ ~UNCHANGED <<pending, same, reported>>
    <3>1. ServerOf(turn[t].model)[1] = Models[turn[t].model].file
      BY <1>0, TurnsAskAServer
    <3>2. ServerOf(turn[t].model) # DefaultServer
      BY <2>2, <3>1 DEF DistinctGpu0, DefaultServer, server_identity
    <3>3. /\ pending' = 0 /\ same' = FALSE /\ slot' = slot
          /\ reported' <=> slot = ServerOf(turn[t].model)
      BY <1>5, <2>2 DEF Delta, mark_gpu0_activity
    <3>4. pending' # None /\ (reported' => slot' # DefaultServer')
      BY <3>2, <3>3 DEF DefaultServer
    <3> QED
      BY <3>3, <3>4
  <2> QED
    BY <2>1, <2>2
<1>6. CASE Minute
  BY <1>0, <1>6 DEF Minute
<1>7. CASE Poll
  BY <1>7 DEF Poll
<1>8. CASE PingLoads
  <2>1. DefaultServer[2] = Gpu0
    BY DEF DefaultServer, server_identity
  <2>2. reported' = FALSE
    BY <1>8, <2>1 DEF PingLoads, Swap
  <2> QED
    BY <2>2
<1>9. CASE PingAnswered \/ PingReturns \/ PingFails
  BY <1>9 DEF PingAnswered, PingReturns, PingFails
<1>10. CASE Stop \/ Start
  BY <1>10 DEF Stop, Start
<1>11. CASE Unload \/ ServersStop
  BY <1>11 DEF Unload, ServersStop, Swap
<1> QED
  BY <1>1, <1>2, <1>3, <1>4, <1>5, <1>6, <1>7, <1>8, <1>9, <1>10, <1>11 DEF SlotNext

(* A swap that was reported is not forgotten, if the default model is one of GPU0: with a  *)
(* default elsewhere a ping gives GPU0 to nobody, and still the activity is forgotten.     *)
THEOREM SwapsAreRemembered ==
  ASSUME Models[Default].gpu = Gpu0
  PROVE  SlotSpec => []SwapIsRemembered
<1>1. SlotInit => Remembered
  BY DEF SlotInit, Remembered
<1>2. Remembered => SwapIsRemembered
  BY DEF Remembered, SwapIsRemembered
<1>3. SlotTypes /\ Remembered /\ [SlotNext]_slotVars => Remembered'
  BY RememberedStep
<1> QED
  BY <1>1, <1>2, <1>3, SlotTypesInvariant, PTL DEF SlotSpec
=============================================================================

------------------------------ MODULE Topology ------------------------------
(***************************************************************************)
(* The CPUs of a machine, by their maximum frequency, as the two sides see *)
(* them: the GUI in groups that it names (gui/sys_topology.py), the        *)
(* scheduler in kinds that it numbers from 1 and packs into the constants  *)
(* of the BPF program (src/topology.rs, pack_topology of src/main.rs).     *)
(* Each side scans sysfs by itself; a configuration is written with the    *)
(* groups of one and carried out with the kinds of the other.              *)
(*                                                                         *)
(* A machine is [freq, online]: the frequency in the policy of each CPU, 0 *)
(* if it has no policy that can be read, and the CPUs that are online.     *)
(***************************************************************************)
EXTENDS Naturals, Sequences, FiniteSets, SequencesExt

CONSTANTS Cpus,    \* the numbers of logical CPUs
          Byte,    \* how many values a u8 has: 256
          MaxCpu   \* MAX_CPU of topology.rs

ASSUME CpuAssumption == Cpus \subseteq Nat /\ IsFiniteSet(Cpus)
ASSUME WidthAssumption == Byte \in Nat \ {0} /\ MaxCpu \in Nat \ {0}

Machine(freqs) == [freq : [Cpus -> freqs], online : (SUBSET Cpus) \ {{}}]

(* read_cpufreq, _read_cpufreq *)
Known(m) == {c \in Cpus : m.freq[c] # 0}

(* the sum over the ranges of /sys/devices/system/cpu/online *)
OnlineCount(m) == Cardinality(m.online)

(* the members of a finite set in the order of op, strict and total on it:  *)
(* SetToSortSeq of SequencesExt, spelled out                                *)
Sorted(S, op(_, _)) ==
  CHOOSE f \in [1 .. Cardinality(S) -> S] : \A i, j \in DOMAIN f : i < j => op(f[i], f[j])

-----------------------------------------------------------------------------
(* The GUI. *)

(* the distinct frequencies, sorted high to low *)
SortedFreqs(m) == Sorted({m.freq[c] : c \in Known(m)}, >)

(* _name_for_index: a word, and for a tier its number after it *)
GroupName(idx, total) ==
  IF total = 1 THEN <<"core">>
  ELSE IF total = 2 THEN (IF idx = 0 THEN <<"P-core">> ELSE <<"E-core">>)
  ELSE <<"tier", idx>>

(* discover of sys_topology.py *)
Groups(m) ==
  IF Known(m) = {}
  THEN <<[name |-> <<"core">>, cpus |-> 0 .. OnlineCount(m) - 1]>>
  ELSE LET freqs == SortedFreqs(m)
       IN  [i \in DOMAIN freqs |->
              [name |-> GroupName(i - 1, Len(freqs)),
               cpus |-> {c \in Cpus : m.freq[c] = freqs[i]}]]

-----------------------------------------------------------------------------
(* The scheduler. *)

(* fallback_cpu_count, and the bound its caller sets *)
FallbackCount(m) ==
  IF OnlineCount(m) = 0 THEN 1
  ELSE IF OnlineCount(m) > MaxCpu THEN MaxCpu ELSE OnlineCount(m)

(* slip: a.cmp(b) *)
FreqsUp(m) == Sorted({m.freq[c] : c \in Known(m)}, <)

(* freqs: sorted high to low, duplicates dropped *)
Freqs(m) == Sorted({m.freq[c] : c \in Known(m)}, >)

(* slip: the shared queue's slot is taken for the fastest kind *)
KindFromZero(m, c) ==
  IF m.freq[c] = 0 THEN 0
  ELSE CHOOSE k \in 0 .. Len(Freqs(m)) - 1 : Freqs(m)[k + 1] = m.freq[c]

(* cpu_info[c].cpu_kind, 0 for a gap *)
Kind(m, c) ==
  IF Known(m) = {} THEN (IF c < FallbackCount(m) THEN 1 ELSE 0)
  ELSE IF m.freq[c] = 0 THEN 0
  ELSE (CHOOSE k \in 1 .. Len(Freqs(m)) : Freqs(m)[k] = m.freq[c]) % Byte

KindNum(m) == IF Known(m) = {} THEN 1 ELSE Len(Freqs(m)) % Byte

CpuNum(m) ==
  (IF Known(m) = {} THEN FallbackCount(m) ELSE Cardinality(Known(m))) % Byte

(* cpus_fast_to_slow: by kind, then by number *)
FastToSlow(m) ==
  IF Known(m) = {} THEN [i \in 1 .. CpuNum(m) |-> i - 1]
  ELSE LET Before(a, b) == \/ Kind(m, a) < Kind(m, b)
                           \/ Kind(m, a) = Kind(m, b) /\ a < b
           order == Sorted(Known(m), Before)
       IN  [i \in DOMAIN order |-> order[i] % Byte]

SlowToFast(m) == Reverse(FastToSlow(m))

(* pack_topology *)
Packed(m) ==
  [kindNum |-> KindNum(m), cpuNum |-> CpuNum(m), kind |-> [c \in Cpus |-> Kind(m, c)],
   fastToSlow |-> FastToSlow(m), slowToFast |-> SlowToFast(m)]

-----------------------------------------------------------------------------
(* Kind k of the scheduler is the k-th group of the GUI. *)
SidesAgree(groups, packed) ==
  /\ packed.kindNum = Len(groups)
  /\ \A k \in 1 .. packed.kindNum : {c \in Cpus : packed.kind[c] = k} = groups[k].cpus

(* The lists select_cpu walks name every CPU that has a kind once, the fast  *)
(* kinds first in one and last in the other, and cpuNum is their length.    *)
OrderComplete(packed) ==
  LET f == packed.fastToSlow
      s == packed.slowToFast
  IN  /\ Len(f) = packed.cpuNum /\ Len(s) = packed.cpuNum
      /\ {f[i] : i \in DOMAIN f} = {c \in Cpus : packed.kind[c] # 0}
      /\ {s[i] : i \in DOMAIN s} = {f[i] : i \in DOMAIN f}
      /\ \A i, j \in DOMAIN f :
           i < j => f[i] # f[j] /\ packed.kind[f[i]] <= packed.kind[f[j]]
                                /\ packed.kind[s[i]] >= packed.kind[s[j]]
=============================================================================

----------------------------- MODULE QuickSelect -----------------------------
(***************************************************************************)
(* The selection behind the noise of SignalDetect (findmid.c): quickselect *)
(* partitions the array in place around its last element and goes on in    *)
(* the part that has the wanted rank.  The recursion is a tail call, here a *)
(* loop.  Energies are numbers; a NaN, which compares with nothing, is left*)
(* out.                                                                    *)
(***************************************************************************)
EXTENDS Integers, FiniteSets

CONSTANTS
  Size,  \* elements of the array (334)
  Values \* of an element

ASSUME SelectAssumption ==
  /\ Size \in Nat \ {0}
  /\ Values \subseteq Int

Index == 0 .. Size - 1

VARIABLES
  given,  \* history: the array as it was passed
  rank,   \* wanted, never changes
  arr,    \* subch_energy_back
  low, high,
  at,     \* "select", "scan", "compare", "returned"
  last,   \* i of partition: the last element less than the pivot
  next,   \* j of partition
  chosen  \* what quickselect returns

selectVars == <<given, rank, arr, low, high, at, last, next, chosen>>

SelectInit ==
  /\ given \in [Index -> Values] /\ arr = given
  /\ rank \in Index
  /\ low = 0 /\ high = Size - 1
  /\ at = "select" /\ last = 0 /\ next = 0 /\ chosen = 0

Swap(p, q) == arr' = [arr EXCEPT ![p] = arr[q], ![q] = arr[p]]

(* One element is left, or it is partitioned.                              *)
Single ==
  /\ at = "select" /\ low = high
  /\ chosen' = arr[low] /\ at' = "returned"
  /\ UNCHANGED <<given, rank, arr, low, high, last, next>>

Partition ==
  /\ at = "select" /\ low # high
  /\ last' = low - 1 /\ next' = low /\ at' = "scan"
  /\ UNCHANGED <<given, rank, arr, low, high, chosen>>

(* A turn of the loop.  The pivot, arr[high], stays where it is.           *)
Scan ==
  /\ at = "scan" /\ next < high
  /\ IF arr[next] < arr[high]
       THEN Swap(last + 1, next) /\ last' = last + 1
       ELSE UNCHANGED <<arr, last>>
  /\ next' = next + 1
  /\ UNCHANGED <<given, rank, low, high, at, chosen>>

(* Mutant: the pivot stays at the end.                                     *)
PlaceNothing ==
  /\ at = "scan" /\ next = high
  /\ at' = "compare"
  /\ UNCHANGED <<given, rank, arr, low, high, last, next, chosen>>

(* The pivot is put between the smaller and the other elements.            *)
Place ==
  /\ at = "scan" /\ next = high
  /\ Swap(last + 1, high)
  /\ at' = "compare"
  /\ UNCHANGED <<given, rank, low, high, last, next, chosen>>

(* Is it the wanted one?  If not, on which side is that?                   *)
Compare ==
  /\ at = "compare"
  /\ \/ rank = last + 1 /\ chosen' = arr[rank] /\ at' = "returned"
        /\ UNCHANGED <<low, high>>
     \/ rank < last + 1 /\ high' = last /\ at' = "select"
        /\ UNCHANGED <<low, chosen>>
     \/ rank > last + 1 /\ low' = last + 2 /\ at' = "select"
        /\ UNCHANGED <<high, chosen>>
  /\ UNCHANGED <<given, rank, arr, last, next>>

SelectNext == Single \/ Partition \/ Scan \/ Place \/ Compare
SelectSpec == SelectInit /\ [][SelectNext]_selectVars

-----------------------------------------------------------------------------
SelectTypeOK ==
  /\ given \in [Index -> Values] /\ arr \in [Index -> Values]
  /\ rank \in Index /\ {low, high} \subseteq Index
  /\ at \in {"select", "scan", "compare", "returned"}
  /\ last \in -1 .. Size - 1 /\ next \in Index
  /\ chosen \in Values \cup {0}

(* What is returned has the wanted rank in the array that was passed, equal*)
(* elements or not, however the partitions fall (findmid.c:12-41); this is *)
(* the noise of SignalDetect.                                              *)
RankSelected ==
  at = "returned" =>
    /\ Cardinality({p \in Index : given[p] < chosen}) <= rank
    /\ rank < Cardinality({p \in Index : given[p] <= chosen})
=============================================================================

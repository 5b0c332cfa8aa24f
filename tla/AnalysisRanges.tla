--------------------------- MODULE AnalysisRanges ---------------------------
(***************************************************************************)
(* The depth-first worklist of an analysis page that the AI service could  *)
(* not answer (analysisPendingRanges).  A page that fails with a           *)
(* splittable error is replaced by its two halves, one level deeper; the   *)
(* head of the worklist is the only range that may be analysed next.       *)
(*                                                                         *)
(* The store and the scheduler validate the worklist independently with    *)
(* the same limits (7 ranges, depth 6) and throw when it exceeds them, so  *)
(* the limits must be unreachable for every page size they admit.          *)
(***************************************************************************)
EXTENDS Integers, Sequences

CONSTANTS ItemCount,   \* repositories in the frozen scope
          PageMax      \* ORGANIZE_ANALYSIS_BATCH_MAX

ASSUME WorklistConstants ==
  /\ ItemCount \in Nat
  /\ PageMax \in Nat \ {0}

MaxRanges == 7
MaxDepth  == 6

RangeRecord == [start : 0..ItemCount, end : 0..ItemCount, depth : 1..MaxDepth]

PendingRange(s, e, d) == [start |-> s, end |-> e, depth |-> d]

Size(r) == r.end - r.start

(* validateAnalysisRanges: the ranges tile a segment that starts at `from', *)
(* none is empty or leaves the scope, and depths never grow along it.       *)
ValidRanges(rs, from) ==
  /\ Len(rs) <= MaxRanges
  /\ \A k \in DOMAIN rs :
       /\ rs[k].start = IF k = 1 THEN from ELSE rs[k - 1].end
       /\ rs[k].start < rs[k].end
       /\ rs[k].end <= ItemCount
       /\ rs[k].depth \in 1..MaxDepth
       /\ k > 1 => rs[k].depth <= rs[k - 1].depth

(* The page [s, e) is the worklist's head, or the worklist is empty. *)
IsHead(rs, s, e) == rs # <<>> => rs[1].start = s /\ rs[1].end = e

Rest(rs) == IF rs = <<>> THEN <<>> ELSE Tail(rs)

SplitDepth(rs) == IF rs = <<>> THEN 1 ELSE rs[1].depth + 1

(* splitOrganizeAnalysisPage / splitPendingAnalyzerBatch: [s, e) becomes its *)
(* two halves, one level deeper, in front of the remaining ranges.           *)
SplitHead(rs, s, e) ==
  LET mid == s + (e - s) \div 2
  IN  << PendingRange(s, mid, SplitDepth(rs)), PendingRange(mid, e, SplitDepth(rs)) >>
        \o Rest(rs)
=============================================================================

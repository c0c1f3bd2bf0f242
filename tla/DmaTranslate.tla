----------------------------- MODULE DmaTranslate ---------------------------
(***************************************************************************)
(* DmaMemory::new and DmaMemory::translate (src/src/dma.rs): the segments  *)
(* of a generation are sorted and checked, and a guest range is cut into   *)
(* host parts, one iteration of the loop per step.  Addresses are those of *)
(* an unsigned type with the values 0..Top; usize is as wide as u64.       *)
(*                                                                         *)
(* A segment maps guest addresses gpa..gpa+length-1 to the host block      *)
(* base; a host address is the pair of that block and an offset in it.     *)
(***************************************************************************)
EXTENDS Integers, Sequences

CONSTANTS
  Top,           \* u64::MAX
  Bases,         \* the host blocks
  SegmentLists,  \* the lists of segments given to new()
  Ranges         \* the DmaRanges given to translate()

Segment == [gpa : Nat, base : Bases, length : Nat]
Part == [gpa : Nat, base : Bases, offset : Nat, length : Nat]
DmaRange == [gpa : Nat, length : Nat]

ASSUME TopAssumption == Top \in Nat
ASSUME InputAssumption ==
  /\ \A s \in SegmentLists : s \in Seq(Segment)
  /\ \A r \in Ranges : r \in DmaRange

VARIABLES
  segments,      \* the segments, as given and then as stored
  range,         \* the range being translated
  cursor, parts,
  phase          \* new, invalid, ready, loop, ok or err

translateVars == <<segments, range, cursor, parts, phase>>

\* checked_add: None when the sum does not fit.
Fits(x) == x.gpa + x.length <= Top
EndOf(x) == x.gpa + x.length

NoRange == [gpa |-> 0, length |-> 0]

TranslateInit ==
  /\ segments \in SegmentLists
  /\ range = NoRange
  /\ cursor = 0
  /\ parts = <<>>
  /\ phase = "new"

\* Faulty variant: neighbours are not compared.
ValidNoOverlapCheck(s) ==
  /\ s # <<>>
  /\ \A i \in DOMAIN s : s[i].length # 0 /\ Fits(s[i])

\* The checks of new() on the sorted list.
Valid(s) ==
  /\ s # <<>>
  /\ \A i \in DOMAIN s :
       /\ s[i].length # 0 /\ Fits(s[i])
       /\ i # 1 => EndOf(s[i - 1]) <= s[i].gpa

Sorted(s) == \A i, j \in DOMAIN s : i < j => s[i].gpa <= s[j].gpa

\* DmaMemory::new: sort by guest address, equal ones in any order; then check.
New ==
  /\ phase = "new"
  /\ \E p \in [DOMAIN segments -> DOMAIN segments] :
       /\ \A i, j \in DOMAIN segments : p[i] = p[j] => i = j
       /\ segments' = [i \in DOMAIN segments |-> segments[p[i]]]
  /\ Sorted(segments')
  /\ phase' = IF Valid(segments') THEN "ready" ELSE "invalid"
  /\ UNCHANGED <<range, cursor, parts>>

\* translate: the end of the range must be representable.
Begin ==
  /\ phase = "ready"
  /\ \E r \in Ranges :
       /\ range' = r
       /\ cursor' = r.gpa
       /\ phase' = IF Fits(r) THEN "loop" ELSE "err"
  /\ parts' = <<>>
  /\ UNCHANGED segments

Contains(segment, a) == segment.gpa <= a /\ a < EndOf(segment)

\* Faulty variant: the part runs to the end of its segment.
PartEndUncut(segment) == EndOf(segment)
PartEnd(segment) ==
  IF EndOf(segment) < EndOf(range) THEN EndOf(segment) ELSE EndOf(range)

\* Faulty variant: a hole ends the translation instead of failing it.
AtHoleStop == "ok"
AtHole == "err"

\* One iteration: the first segment with the cursor gives the next part.
Iterate ==
  /\ phase = "loop" /\ cursor < EndOf(range)
  /\ LET found == {i \in DOMAIN segments : Contains(segments[i], cursor)}
     IN  IF found = {}
         THEN phase' = AtHole /\ UNCHANGED <<cursor, parts>>
         ELSE LET i == CHOOSE i \in found : \A j \in found : i <= j
              IN  /\ parts' = Append(parts,
                       [gpa |-> cursor,
                        base |-> segments[i].base,
                        offset |-> cursor - segments[i].gpa,
                        length |-> PartEnd(segments[i]) - cursor])
                  /\ cursor' = PartEnd(segments[i])
                  /\ UNCHANGED phase
  /\ UNCHANGED <<segments, range>>

Finish ==
  /\ phase = "loop" /\ cursor >= EndOf(range)
  /\ phase' = "ok"
  /\ UNCHANGED <<segments, range, cursor, parts>>

\* The caller is done with the result and translates another range.
Again ==
  /\ phase \in {"ok", "err"}
  /\ phase' = "ready"
  /\ range' = NoRange /\ cursor' = 0 /\ parts' = <<>>
  /\ UNCHANGED segments

TranslateNext == New \/ Begin \/ Iterate \/ Finish \/ Again

TranslateSpec == TranslateInit /\ [][TranslateNext]_translateVars

-----------------------------------------------------------------------------
(* Properties.                                                             *)

\* The reference: what guest address a means, by the segments alone.
Mapped(a) == \E i \in DOMAIN segments : Contains(segments[i], a)
HostOf(a) ==
  {<<segments[i].base, a - segments[i].gpa>> :
     i \in {j \in DOMAIN segments : Contains(segments[j], a)}}

\* A list that new() accepted gives every guest address at most one meaning.
NoAliases ==
  phase \notin {"new", "invalid"} =>
    \A a \in 0..Top : \A h, k \in HostOf(a) : h = k

\* The parts made so far tile the range up to the cursor, in order and without
\* a gap or an overlap, none is empty, and each address of a part is
\* the host address its segment gives it.
PartsTile ==
  /\ phase \in {"loop", "ok"} /\ parts # <<>> =>
       /\ parts[1].gpa = range.gpa
       /\ EndOf(parts[Len(parts)]) = cursor
       /\ cursor <= EndOf(range)
  /\ \A i \in DOMAIN parts :
       /\ parts[i].length > 0
       /\ i > 1 => parts[i].gpa = EndOf(parts[i - 1])
       /\ \A a \in parts[i].gpa..(EndOf(parts[i]) - 1) :
            <<parts[i].base, parts[i].offset + (a - parts[i].gpa)>> \in HostOf(a)

\* translate() succeeds exactly when the end of the range is representable and
\* every address of it is mapped, and then the parts cover all of it.
TranslatesMappedRanges ==
  LET good == Fits(range) /\ \A a \in range.gpa..(EndOf(range) - 1) : Mapped(a)
  IN  /\ phase = "ok" => good /\ cursor = EndOf(range)
      /\ phase = "err" => ~good

=============================================================================

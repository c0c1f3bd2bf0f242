--------------------------- MODULE MC_DmaTranslate --------------------------
(* DmaTranslate with every list of at most two segments, and some of three, *)
(* in a space of eight addresses, and every range of it.                    *)
EXTENDS DmaTranslate

Segments(base) == [gpa : 0..Top, base : {base}, length : 0..4]
MCSegmentLists ==
  {<<>>}
    \cup {<<s>> : s \in Segments("b1")}
    \cup {<<s, t>> : s \in Segments("b1"), t \in Segments("b2")}
    \cup {<<[gpa |-> 5, base |-> "b3", length |-> 2], s, t>> :
            s \in {x \in Segments("b1") : x.length = 2},
            t \in {x \in Segments("b2") : x.length \in {1, 2}}}
MCRanges == [gpa : 0..Top, length : 0..Top]
=============================================================================

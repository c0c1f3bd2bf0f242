----------------------------- MODULE MC_RequestIo ---------------------------
(* Descriptors of no, one or two bytes, in one part or two, in either      *)
(* direction, and one byte that is not mapped; block chains of a header, a *)
(* status and up to two descriptors between, and chains of one descriptor. *)
EXTENDS RequestIo

MCDescriptors ==
  {[parts |-> ps, write |-> w, mapped |-> TRUE] :
     ps \in {<<>>, <<1>>, <<2>>, <<1, 1>>}, w \in BOOLEAN}
  \cup {[parts |-> <<1>>, write |-> w, mapped |-> FALSE] : w \in BOOLEAN}
MCBlockChains ==
  {<<h>> \o p \o <<s>> :
     h \in {[parts |-> ps, write |-> w, mapped |-> TRUE] : ps \in {<<2>>, <<1, 1>>}, w \in BOOLEAN},
     p \in UNION {[1..n -> MCDescriptors] : n \in 0..2},
     s \in {[parts |-> <<1>>, write |-> w, mapped |-> m] : w \in BOOLEAN, m \in BOOLEAN}}
  \cup {<<d>> : d \in MCDescriptors}
=============================================================================

--------------------------- MODULE RequestChannel ---------------------------
(***************************************************************************)
(* What a virtqueue is for: a driver posts descriptor chains in order, the *)
(* device takes each of them once and in that order, answers every taken   *)
(* chain at most once and in any order, and the driver collects exactly    *)
(* the answers the device gave, with the lengths it gave and in the order  *)
(* it gave them.  An answer is begun, when its chain and its length are    *)
(* fixed, and appears later, whole.                                        *)
(***************************************************************************)
EXTENDS Naturals, Sequences

CONSTANTS
  Chains,    \* the chains a driver can post, records with a field head
  Lens,      \* the lengths a device can answer with
  NoAnswer   \* no answer is begun

VARIABLES
  posted,    \* sequence of chains the device has not taken
  taken,     \* set of chains the device works on
  answering, \* the answer that is begun, a head and a length
  answered   \* sequence of answers the driver has not collected

vars == <<posted, taken, answering, answered>>

\* The heads of all chains that the driver has not got back.
Outstanding ==
  {posted[i].head : i \in DOMAIN posted}
    \cup {c.head : c \in taken}
    \cup {answered[i].head : i \in DOMAIN answered}

Init ==
  /\ posted = <<>>
  /\ taken = {}
  /\ answering = NoAnswer
  /\ answered = <<>>

Post(c) ==
  /\ c.head \notin Outstanding
  /\ posted' = Append(posted, c)
  /\ UNCHANGED <<taken, answering, answered>>

Take ==
  /\ posted # <<>>
  /\ taken' = taken \cup {Head(posted)}
  /\ posted' = Tail(posted)
  /\ UNCHANGED <<answering, answered>>

Begin(c, len) ==
  /\ answering = NoAnswer
  /\ answering' = [head |-> c.head, len |-> len]
  /\ UNCHANGED <<posted, taken, answered>>

Answer ==
  /\ answering # NoAnswer
  /\ taken' = {c \in taken : c.head # answering.head}
  /\ answered' = Append(answered, answering)
  /\ answering' = NoAnswer
  /\ UNCHANGED posted

Collect ==
  /\ answered # <<>>
  /\ answered' = Tail(answered)
  /\ UNCHANGED <<posted, taken, answering>>

Next ==
  \/ \E c \in Chains : Post(c)
  \/ Take
  \/ \E c \in taken, len \in Lens : Begin(c, len)
  \/ Answer
  \/ Collect

Spec == Init /\ [][Next]_vars
=============================================================================

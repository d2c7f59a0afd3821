----------------------------- MODULE Surrogate -----------------------------
(***************************************************************************)
(* The numbers that stand for the labels of paths (surrogate.cpp).  A      *)
(* label gets the next number when it is first seen and keeps it; its code *)
(* is the number cut to BytesPerLabel bytes.                               *)
(***************************************************************************)
EXTENDS Integers, Sequences

CONSTANTS LabelName,       \* the labels
          NoLabel,         \* the empty label
          MaxDepth,        \* Surrogate::max_depth_
          BytesPerLabel,   \* Surrogate::bytes_per_label_
          Base             \* number of different bytes

ASSUME SurrogateAssumption ==
  /\ MaxDepth \in Nat \ {0} /\ BytesPerLabel \in Nat \ {0} /\ Base \in Nat \ {0, 1}
  /\ NoLabel \notin LabelName

VARIABLES counter,   \* counter_
          map        \* map_; map_inv_ is its inverse

NrBytes == MaxDepth * BytesPerLabel

SurrogateInit == counter = 0 /\ map = [l \in {} |-> 0]

\* Defect: the counter is increased after its value has been taken.
MapLabelFromZero(l) ==
  IF l \in DOMAIN map THEN UNCHANGED <<counter, map>>
  ELSE /\ counter' = counter + 1
       /\ map' = [k \in DOMAIN map \cup {l} |-> IF k = l THEN counter ELSE map[k]]

\* MapLabel changes the map only for a new label.
MapLabel(l) ==
  IF l \in DOMAIN map THEN UNCHANGED <<counter, map>>
  ELSE /\ counter' = counter + 1
       /\ map' = [k \in DOMAIN map \cup {l} |-> IF k = l THEN counter + 1 ELSE map[k]]

\* Nothing else changes the map, whoever maps labels.
SurrogateNext == \E l \in LabelName : MapLabel(l)
SurrogateSpec == SurrogateInit /\ [][SurrogateNext]_<<counter, map>>

\* The bytes MapLabel returns for a number, the most significant one first.
Code(number) ==
  [i \in 1..BytesPerLabel |-> (number \div Base^(BytesPerLabel - i)) % Base]

\* Defect: the length is compared with the depth, not with the bytes.
PaddedToDepth(bytes) ==
  [i \in 1..(IF Len(bytes) < MaxDepth THEN MaxDepth ELSE Len(bytes)) |->
     IF i <= Len(bytes) THEN bytes[i] ELSE 0]

\* MapPath fills a short path up; a path that is too deep keeps all its bytes.
Padded(bytes) ==
  [i \in 1..(IF Len(bytes) < NrBytes THEN NrBytes ELSE Len(bytes)) |->
     IF i <= Len(bytes) THEN bytes[i] ELSE 0]

Number(bytes) ==
  LET n[i \in 0..BytesPerLabel] == IF i = 0 THEN 0 ELSE n[i - 1] * Base + bytes[i]
  IN  n[BytesPerLabel]

MapLabelInv(bytes) ==
  IF \E l \in DOMAIN map : map[l] = Number(bytes)
  THEN CHOOSE l \in DOMAIN map : map[l] = Number(bytes)
  ELSE NoLabel

\* KeyDecoder::DecodePath: the labels of a buffer's first NrBytes bytes; codes
\* that stand for no label, like the padding, are left out.
DecodePath(buffer) ==
  LET label(i) == MapLabelInv(SubSeq(buffer, (i - 1) * BytesPerLabel + 1, i * BytesPerLabel))
  IN  SelectSeq([i \in 1..MaxDepth |-> label(i)], LAMBDA l : l # NoLabel)
=============================================================================

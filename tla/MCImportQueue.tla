--------------------------- MODULE MCImportQueue ---------------------------
(* Two drops.  d1 has two part-marked files, of which the first may be      *)
(* late, and a text file; d2 has a video that would land where d1's first   *)
(* part lands (its size is another) and a text file.  Two calls import to   *)
(* two recordings.                                                          *)
EXTENDS ImportQueue

CONSTANTS d1, d2, p1, p2, x1, v2, x2, r1, r2, q1, q2

MCDropOf == [f \in Files |-> IF f \in {p1, p2, x1} THEN d1 ELSE d2]
MCPartNo == [f \in Files |-> CASE f \in {p1, v2} -> 1 [] f = p2 -> 2 [] OTHER -> 0]
MCRank == [f \in Files |-> CASE f = p1 -> 2 [] f = p2 -> 3 [] OTHER -> 4]
MCSize == [f \in Files |-> CASE f \in {x1, x2} -> 1 [] f = v2 -> 2 [] OTHER -> 5]
Here(S, late) ==
    [f \in Files |-> IF f \in S THEN "here" ELSE IF f \in late THEN "late" ELSE "never"]
MCStarts == {Here({p1, x1}, {}), Here({p1, v2}, {}), Here({p2}, {p1})}
MeetingStarts == {Here({p2, x1, v2, x2}, {})}
EachItsOwn == [q \in Requests |-> IF q = q1 THEN r1 ELSE r2]
AllTheSame == [q \in Requests |-> r1]
(* Extras keep their base name; here no two of them share one ... *)
NamesApart == [f \in Files |-> f]
(* ... and here the two drops each hold a notes.txt. *)
NamesMeet == [f \in Files |-> IF f \in {x1, x2} THEN x1 ELSE f]
=============================================================================

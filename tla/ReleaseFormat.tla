---------------------------- MODULE ReleaseFormat ----------------------------
(***************************************************************************)
(* The release format of a recording: the string that is shown and pushed  *)
(* to Encora, computed from its version rows.                              *)
(*                                                                         *)
(* internal/storage/versions.go (ListVersions, ComputeFormatString) and    *)
(* internal/releaseformat (Compose); the rows change as the rename, the    *)
(* reprobe and the ingest engine change them.  A line of the string is the *)
(* format it names, its height, its size and its number of files; how they *)
(* are worded is left out.                                                 *)
(***************************************************************************)
EXTENDS Naturals, Sequences, FiniteSetsExt, Sorting

CONSTANTS
    Formats,  \* container with video and audio codec
    Heights,  \* video heights, 0 for unknown
    Sizes,    \* file sizes
    MaxRows   \* bound: version rows

ASSUME FormatAssumption ==
    /\ Heights \subseteq Nat /\ Sizes \subseteq Nat /\ MaxRows \in Nat

VARIABLE versions  \* the rows of the recording in the order of their ids

VersionRow == [format : Formats, height : Heights, size : Sizes]

----------------------------------------------------------------------------
(* Mutant: the rows by id only. *)
ListVersionsById(rows) == rows

(* ListVersions: the largest file first, then by id. *)
LargestFirst(rows) ==
    {p \in (DOMAIN rows) \X (DOMAIN rows) :
        \/ rows[p[1]].size > rows[p[2]].size
        \/ rows[p[1]].size = rows[p[2]].size /\ p[1] < p[2]}
ListVersions(rows) == Arranged(rows, LargestFirst(rows))

SameGroup(v, w) == v.format = w.format /\ v.height = w.height
SumOf(S, rows) == MapThenSumSet(LAMBDA i : rows[i].size, S)

(* ComputeFormatString: one line per format and height, in the order of     *)
(* first occurrence, with the sizes summed and the files counted.           *)
Mine(rows, i) == {j \in DOMAIN rows : SameGroup(rows[i], rows[j])}
Firsts(rows) == {i \in DOMAIN rows : ~\E j \in 1 .. i - 1 : SameGroup(rows[i], rows[j])}
Line(rows, i) ==
    [format |-> rows[i].format, height |-> rows[i].height,
     size |-> SumOf(Mine(rows, i), rows), files |-> Cardinality(Mine(rows, i))]
Grouped(rows) ==
    LET first == Ascending(Firsts(rows))
    IN  [n \in 1 .. Cardinality(Firsts(rows)) |-> Line(rows, first[n])]

(* Compose: a stable sort by height, the best first. *)
BestFirst(lines) ==
    {p \in (DOMAIN lines) \X (DOMAIN lines) :
        \/ lines[p[1]].height > lines[p[2]].height
        \/ lines[p[1]].height = lines[p[2]].height /\ p[1] < p[2]}
Compose(lines) == Arranged(lines, BestFirst(lines))

FormatOf(rows) == Compose(Grouped(ListVersions(rows)))

----------------------------------------------------------------------------
FormatInit == versions = <<>>

Without(i) == [n \in 1 .. Len(versions) - 1 |-> IF n < i THEN versions[n] ELSE versions[n + 1]]

(* UpsertVersion of a new path: a new row id. *)
Insert ==
    /\ Len(versions) < MaxRows
    /\ \E v \in VersionRow : versions' = Append(versions, v)

(* UpsertVersion of a known path: a reprobe finds another encode. *)
Reprobe(i) == \E v \in VersionRow : versions' = [versions EXCEPT ![i] = v]

Delete(i) == versions' = Without(i)

(* A rename deletes the row and inserts it under the new path: a new id. *)
Reinsert(i) == versions' = Append(Without(i), versions[i])

FormatNext ==
    \/ Insert
    \/ \E i \in DOMAIN versions : Reprobe(i) \/ Delete(i) \/ Reinsert(i)
FormatSpec == FormatInit /\ [][FormatNext]_versions

----------------------------------------------------------------------------
(* Properties. *)

(* Renaming files does not change what is pushed to Encora, although every  *)
(* row gets a new id, unless two files of different formats at one height   *)
(* have the very same size.                                                 *)
Ties == \E i, j \in DOMAIN versions :
            /\ ~SameGroup(versions[i], versions[j])
            /\ versions[i].height = versions[j].height /\ versions[i].size = versions[j].size
FormatSurvivesRename ==
    [][(\E i \in DOMAIN versions : Reinsert(i)) /\ ~Ties => FormatOf(versions') = FormatOf(versions)]_versions
=============================================================================

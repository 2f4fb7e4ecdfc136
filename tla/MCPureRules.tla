----------------------------- MODULE MCPureRules -----------------------------
(* The classification of a folder and the release format of a recording.    *)
(* They share nothing, so one of them moves while the other is at its start *)
(* and the numbers of states add.                                           *)
(*                                                                          *)
(* The folder: root and nested videos and audio, two of them with part      *)
(* markers, a text file; discs in Act 1/ and Act 2/, each with a VIDEO_TS   *)
(* of its own, the second with two title sets, and content at the root.     *)
EXTENDS FolderDrop, ReleaseFormat

(* Names in lexical order: 1 and 2 are Act 1 and Act 2, 3 is audio, 9 is    *)
(* VIDEO_TS.                                                                *)
Media(dir, base, kind, size, part) ==
    [dir |-> dir, base |-> base, kind |-> kind, size |-> size, part |-> part, title |-> 0, chunk |-> 0]
Vob(dir, title, chunk) ==
    [dir |-> dir, base |-> 10 * title + chunk, kind |-> "vob", size |-> 50, part |-> 0,
     title |-> title, chunk |-> chunk]

MCContents ==
    {Media(<<>>, 1, "video", 100, 1), Media(<<>>, 2, "video", 95, 0), Media(<<>>, 3, "audio", 96, 0),
     Media(<<1>>, 4, "video", 100, 2), Media(<<3>>, 5, "audio", 104, 0), Media(<<>>, 6, "other", 1, 0),
     Media(<<9>>, 7, "other", 1, 0), Media(<<1, 9>>, 8, "toc", 1, 0), Media(<<2, 9>>, 8, "ifo", 1, 0),
     Vob(<<1, 9>>, 1, 1), Vob(<<1, 9>>, 1, 2), Vob(<<2, 9>>, 1, 1), Vob(<<2, 9>>, 2, 1),
     Vob(<<>>, 1, 1)}

ASSUME InstanceIsApart == VobsApart /\ NoNestedVideoTS

Init == DropInit /\ FormatInit

Next ==
    \/ /\ versions = <<>> /\ UNCHANGED versions
       /\ DropNext
    \/ /\ folder = {} /\ UNCHANGED folder
       /\ FormatNext

Spec == Init /\ [][Next]_<<folder, versions>>
=============================================================================

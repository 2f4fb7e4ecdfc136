----------------------------- MODULE FolderDrop -----------------------------
(***************************************************************************)
(* What the scanner and the importer make of one dropped folder: the pure  *)
(* rules of internal/scanner/classify.go (which file is the recording,     *)
(* which are its parts, extras and disc scaffolding), the shape check of   *)
(* internal/ingest/assignments.go that the resulting offer must pass, and  *)
(* the destination subfolder of a disc (dvdDestSubfolderFor in             *)
(* internal/ingest/ingest.go).                                             *)
(*                                                                         *)
(* The folder fills up file by file, and a pass may classify it at any     *)
(* time.  A name is a number in lexical order, a directory a sequence of   *)
(* names below the folder.  Which kind of extra a file is is left out.     *)
(***************************************************************************)
EXTENDS Naturals, FiniteSets, SequencesExt, Sorting

CONSTANTS
    Contents,  \* every file that may settle in the folder
    VideoTS,   \* the name VIDEO_TS
    DropName   \* the folder's own name

(* ifo: a .IFO or .BUP; toc: VIDEO_TS.IFO; menu: VTS_NN_0.VOB, VIDEO_TS.VOB; *)
(* vob: a content VOB VTS_title_chunk.VOB.  part: the marker in its name.   *)
MediaFiles ==
    [dir : Seq(Nat), base : Nat, size : Nat, part : Nat, title : Nat, chunk : Nat,
     kind : {"video", "audio", "other", "vob", "menu", "ifo", "toc"}]

ASSUME ContentsAssumption ==
    /\ Contents \subseteq MediaFiles /\ IsFiniteSet(Contents)
    /\ \A f, g \in Contents : f.dir = g.dir /\ f.base = g.base => f = g
    /\ VideoTS \in Nat /\ DropName \in Nat

VARIABLE folder  \* the settled files

----------------------------------------------------------------------------
(* Lists of files.  Every list the code keeps is in the order of            *)
(* filepath.WalkDir until it is sorted, so it is the set of its files, put  *)
(* in order where a loop depends on it.                                     *)

Path(f) == Append(f.dir, f.base)
Before(p, q) ==
    \E n \in 0 .. Len(p) :
        /\ n < Len(q) /\ \A k \in 1 .. n : p[k] = q[k]
        /\ n < Len(p) => p[n + 1] < q[n + 1]
WalkOrder(S) == {p \in S \X S : Before(Path(p[1]), Path(p[2]))}
CollectMediaFiles(S) == Sorted(S, WalkOrder(S))

IsVideo(f) == f.kind \in {"video", "vob", "menu"}
IsCandidate(f) == IsVideo(f) \/ f.kind = "audio"
RootLevel(f) == f.dir = <<>>

----------------------------------------------------------------------------
(* classifyFolder without a disc. *)

(* splitCandidates and splitRootVideos, both results of each. *)
SplitCandidates(media) == {f \in media : IsCandidate(f)}
AlwaysExtras(media) == {f \in media : ~IsCandidate(f)}
RootVideos(candidates) == {f \in candidates : RootLevel(f) /\ IsVideo(f)}
Others(candidates) == {f \in candidates : ~(RootLevel(f) /\ IsVideo(f))}

(* The second result of the picks: what is not the leader. *)
Rest(S, leader) == {f \in S : f # leader}

(* The loops that keep a leader: a file replaces the one it betters. *)
Leader(s, better) ==
    LET leader[i \in 1 .. Len(s)] ==
          IF i > 1 /\ <<s[i], leader[i - 1]>> \notin better THEN leader[i - 1] ELSE s[i]
    IN  leader[Len(s)]

Larger(S) == {p \in S \X S : p[1].size > p[2].size}
PickLargest(S) == Leader(CollectMediaFiles(S), Larger(S))
InBand(f, leader) == f.size >= leader.size - (leader.size * 10) \div 100
(* Mutant: the tie-break forgets about the root. *)
BetterTiebreakMainFlat(f, leader) == IsVideo(f) /\ ~IsVideo(leader)
BetterTiebreakMain(f, leader) ==
    \/ RootLevel(f) /\ ~RootLevel(leader)
    \/ (RootLevel(f) <=> RootLevel(leader)) /\ IsVideo(f) /\ ~IsVideo(leader)
Preferable(S) == {p \in S \X S : BetterTiebreakMain(p[1], p[2])}
PickLargestWithRootTiebreak(S) ==
    LET largest == PickLargest(S)
        close == {f \in S : InBand(f, largest)}
    IN  Leader(<<largest>> \o CollectMediaFiles(close), Preferable(S))

(* Part-marked candidates by index, those of one index in walk order. *)
PartOrder(S) ==
    {p \in S \X S : \/ p[1].part < p[2].part
                    \/ p[1].part = p[2].part /\ p \in WalkOrder(S)}
DetectParts(S) ==
    LET hits == {f \in S : f.part > 0}
        ranked == Sorted(hits, PartOrder(hits))
    IN  IF Cardinality(hits) < 2 THEN <<>>
        ELSE [i \in 1 .. Cardinality(hits) |-> [file |-> ranked[i], index |-> ranked[i].part]]

Main(f) == <<[file |-> f, index |-> 0]>>
FilesOf(parts) == {parts[i].file : i \in DOMAIN parts}
(* extras: the files that one loop after the other appends to Extras. *)
NoOffer ==
    [parts |-> <<>>, extras |-> <<>>, scaffolding |-> {}, ambiguous |-> FALSE, disc |-> FALSE]

(* classifyAmbiguousRootVideos: another root video comes close. *)
AmbiguousRootVideos(rootVideos) ==
    LET main == PickLargest(rootVideos)
    IN  \E f \in rootVideos : f # main /\ InBand(f, main)

----------------------------------------------------------------------------
(* classifyDVD. *)

LooksLikeDVD(media) == \E f \in media : f.kind = "toc"
InsideVideoTS(f) == VideoTS \in Range(f.dir)

(* Content VOBs by directory, then chunk, then walk order.  The code         *)
(* compares directories as whole strings, which tells siblings apart        *)
(* otherwise only where one name begins with the other; what is stated      *)
(* below needs no more than a total order of directories.                   *)
DiscOrder(S) ==
    {p \in S \X S :
        \/ Before(p[1].dir, p[2].dir)
        \/ /\ p[1].dir = p[2].dir
           /\ p[1].chunk < p[2].chunk \/ (p[1].chunk = p[2].chunk /\ p[1].base < p[2].base)}

(* What the loop over the files does with one of them. *)
DiscRole(f) ==
    CASE f.kind \in {"ifo", "toc"} -> "scaffolding"
      [] f.kind = "vob" -> "part"
      [] f.kind = "menu" -> "scaffolding"
      [] OTHER -> IF InsideVideoTS(f) THEN "scaffolding" ELSE "extra"
Filed(media, role) == {f \in media : DiscRole(f) = role}
ContentVobs(media) == Filed(media, "part")

(* Mutant: a VOB keeps its chunk number as its part index. *)
DiscPartsByChunk(media) ==
    LET vobs == ContentVobs(media)  ranked == Sorted(vobs, DiscOrder(vobs))
    IN  [i \in 1 .. Cardinality(vobs) |-> [file |-> ranked[i], index |-> ranked[i].chunk]]

(* Numbered through. *)
DiscParts(media) ==
    LET vobs == ContentVobs(media)  ranked == Sorted(vobs, DiscOrder(vobs))
    IN  [i \in 1 .. Cardinality(vobs) |-> [file |-> ranked[i], index |-> i]]

ClassifyDVD(media) ==
    [parts |-> DiscParts(media), extras |-> <<Filed(media, "extra")>>,
     scaffolding |-> Filed(media, "scaffolding"), ambiguous |-> FALSE, disc |-> TRUE]

(* classifyFolder, branch by branch. *)
Offer(parts, extras, ambiguous) ==
    [parts |-> parts, extras |-> extras, scaffolding |-> {},
     ambiguous |-> ambiguous, disc |-> FALSE]

OfferMarked(media) ==
    LET candidates == SplitCandidates(media)
        parts == DetectParts(candidates)
        unmarked == {f \in candidates : f \notin FilesOf(parts)}
    IN  Offer(parts, <<unmarked, AlwaysExtras(media)>>, FALSE)

OfferNested(media) ==
    LET candidates == SplitCandidates(media)
        main == PickLargestWithRootTiebreak(candidates)
    IN  Offer(Main(main), <<Rest(candidates, main), AlwaysExtras(media)>>, FALSE)

(* Mutant: the candidates beside the one root video are not carried along. *)
OfferRootVideoAlone(media) ==
    LET candidates == SplitCandidates(media)
        main == CHOOSE f \in RootVideos(candidates) : TRUE
    IN  Offer(Main(main), <<AlwaysExtras(media)>>, FALSE)

OfferRootVideo(media) ==
    LET candidates == SplitCandidates(media)
        main == CHOOSE f \in RootVideos(candidates) : TRUE
    IN  Offer(Main(main), <<Others(candidates), AlwaysExtras(media)>>, FALSE)

(* classifyAmbiguousRootVideos. *)
OfferLargestRootVideo(media) ==
    LET candidates == SplitCandidates(media)
        rootVideos == RootVideos(candidates)
        main == PickLargest(rootVideos)
    IN  Offer(Main(main), <<Rest(rootVideos, main), Others(candidates), AlwaysExtras(media)>>,
              AmbiguousRootVideos(rootVideos))

ClassifyFolder(media) ==
    LET candidates == SplitCandidates(media)
        rootVideos == RootVideos(candidates)
    IN  IF LooksLikeDVD(media) THEN ClassifyDVD(media)
        ELSE IF candidates = {} THEN NoOffer
        ELSE IF DetectParts(candidates) # <<>> THEN OfferMarked(media)
        ELSE IF rootVideos = {} THEN OfferNested(media)
        ELSE IF \E f \in rootVideos : rootVideos = {f} THEN OfferRootVideo(media)
        ELSE OfferLargestRootVideo(media)

----------------------------------------------------------------------------
(* classifyAssignments on the offer as it is: a main, or two and more parts *)
(* with the indices 1 to n.                                                 *)
ValidateAssignments(parts) ==
    \/ Len(parts) = 1 /\ parts[1].index = 0
    \/ Len(parts) >= 2 /\ {parts[i].index : i \in DOMAIN parts} = 1 .. Len(parts)

(* Mutant: the folder of the first part stands for the folder of the drop. *)
SourceFolderOfFirst(offer) == offer.parts[1].file.dir

(* sourceFolderForQueueEntry: the common parent of parts and extras. *)
SourceFolder(offer) ==
    LongestCommonPrefix({f.dir : f \in FilesOf(offer.parts) \cup UNION Range(offer.extras)})

(* dvdDestSubfolderFor: below the source folder the relative parent, beside *)
(* it the name of the file's own directory; a VIDEO_TS at its end stands    *)
(* for the one that is appended.                                            *)
WithoutVideoTS(dir) == IF dir # <<>> /\ Last(dir) = VideoTS THEN Front(dir) ELSE dir
DvdDestSubfolderFor(source, f) ==
    LET parent == IF IsPrefix(source, f.dir) THEN SubSeq(f.dir, Len(source) + 1, Len(f.dir))
                  ELSE <<IF f.dir = <<>> THEN DropName ELSE Last(f.dir)>>
    IN  Append(WithoutVideoTS(parent), VideoTS)

----------------------------------------------------------------------------
DropInit == folder = {}

(* A download settles, or a file is copied into the folder. *)
Settle(f) == folder' = folder \cup {f}

DropNext == \E f \in Contents : Settle(f)
DropSpec == DropInit /\ [][DropNext]_folder

TheOffer == ClassifyFolder(folder)

----------------------------------------------------------------------------
(* Properties.  They hold at every moment of the folder's filling up. *)

(* Nothing in an offered folder is left behind or listed twice: every file  *)
(* is a part, is scaffolding, or is appended by exactly one of the loops    *)
(* that the branch taken has for the extras ("so every file in the folder   *)
(* is preserved in the queue row").                                         *)
EveryFileHasARole ==
    LET offer == TheOffer
        parts == FilesOf(offer.parts)
        loops == offer.extras
    IN  offer.parts # <<>> =>
            /\ folder = parts \cup offer.scaffolding \cup UNION Range(loops)
            /\ parts \cap offer.scaffolding = {}
            /\ \A i \in DOMAIN loops : loops[i] \cap (parts \cup offer.scaffolding) = {}
            /\ \A i, j \in DOMAIN loops : i # j => loops[i] \cap loops[j] = {}
            /\ Cardinality(parts) = Len(offer.parts)

(* Names that differ in letter case only are one name: no two content VOBs  *)
(* of one directory have the same title set and chunk, and a VIDEO_TS does  *)
(* not hold another.                                                        *)
VobsApart ==
    \A f, g \in ContentVobs(Contents) :
        f.dir = g.dir /\ f.title = g.title /\ f.chunk = g.chunk => f = g
NoNestedVideoTS ==
    \A f \in Contents : \A k \in 1 .. Len(f.dir) - 1 : f.dir[k] = VideoTS => f.dir[k + 1] # VideoTS

(* A disc with two content VOBs or more imports as it is offered: the      *)
(* importer's validation accepts it ("monotonic ordinals to satisfy the     *)
(* multipart validator"); it plays one directory after the other, and       *)
(* within a title set by chunk; and the VOBs of different discs of one drop *)
(* are moved to different folders, discs in a VIDEO_TS of their own         *)
(* included ("so each scaffold lands in its own subfolder and shared        *)
(* VTS_NN_M.VOB filenames don't collide").                                  *)
DiscsImportWhole ==
    LET offer == TheOffer
        parts == offer.parts
        source == SourceFolder(offer)
    IN  offer.disc /\ Len(parts) >= 2 =>
            /\ ValidateAssignments(parts)
            /\ \A i, j \in DOMAIN parts :
                 LET f == parts[i].file  g == parts[j].file
                 IN  /\ parts[i].index < parts[j].index /\ f.dir = g.dir /\ f.title = g.title
                           => f.chunk < g.chunk
                     /\ \A k \in DOMAIN parts :
                          i < k /\ k < j /\ f.dir = g.dir => parts[k].file.dir = f.dir
                     /\ WithoutVideoTS(f.dir) # WithoutVideoTS(g.dir) =>
                          DvdDestSubfolderFor(source, f) # DvdDestSubfolderFor(source, g)

(* The one main file is a root video when there is one, and then no smaller *)
(* than another, with every other that comes within a tenth of it flagged;  *)
(* else it is within a tenth of the largest candidate, and none so close is *)
(* preferable by place and kind.                                            *)
MainIsUndominated ==
    LET offer == TheOffer
        main == offer.parts[1].file
        candidates == {f \in folder : IsCandidate(f)}
        rootVideos == {f \in candidates : RootLevel(f) /\ IsVideo(f)}
        close == {f \in candidates : \A g \in candidates : InBand(f, g)}
    IN  ~offer.disc /\ Len(offer.parts) = 1 =>
            IF rootVideos # {}
            THEN /\ main \in rootVideos
                 /\ \A f \in rootVideos : f.size <= main.size
                 /\ offer.ambiguous <=> \E f \in rootVideos : f # main /\ InBand(f, main)
            ELSE /\ main \in close
                 /\ (\E f \in close : RootLevel(f)) => RootLevel(main)
                 /\ (\E f \in close : RootLevel(f) = RootLevel(main) /\ IsVideo(f)) => IsVideo(main)
=============================================================================

--------------------------- MODULE MCVersionRows ---------------------------
(* Three recordings, one per initial layout: a two-VOB DVD, a two-part      *)
(* recording in its library folder, and one that an external tool manages.  *)
EXTENDS VersionRows

CONSTANTS vob1, vob2, f1, f2, up, mkv1, mkv2, a1, a2

MCPaths == ({"VIDEO_TS", "original"} \X {1, 2}) \cup ({"library"} \X (0 .. 7)) \cup ({"ext1", "ext2"} \X {1, 2})
MCMkv == <<mkv1, mkv2>>
MCMkvPath == [n \in 0 .. 2 |-> <<"library", n>>]
(* VOB names carry no part marker, so both render to one name; the parts of *)
(* the library files are in their names.                                    *)
MCCanon == [p \in MCPaths |-> CASE p[1] = "VIDEO_TS" -> <<"library", 7>>
                                [] p[1] = "library" /\ p[2] \in {3, 4} -> <<"library", 3>>
                                [] p[1] = "library" /\ p[2] \in {5, 6} -> <<"library", 5>>
                                [] OTHER -> p]
MCPartOf == [f \in Files |-> CASE f \in {vob1, f1, mkv1} -> 1 [] f \in {vob2, f2, mkv2} -> 2 [] OTHER -> 0]
Layout(disks, seen) ==
    [disk |-> [p \in MCPaths |-> IF p \in DOMAIN disks THEN disks[p] ELSE Nothing],
     rows |-> {[id |-> p[2], path |-> p, part |-> MCPartOf[disks[p]], info |-> disks[p]] : p \in DOMAIN disks},
     next |-> 10, kinds |-> seen]
Two(p, f, q, g) == [r \in {p, q} |-> IF r = p THEN f ELSE g]
DVD == Layout(Two(<<"VIDEO_TS", 1>>, vob1, <<"VIDEO_TS", 2>>, vob2), {"remux", "refresh", "rename"})
TwoParts == Layout(Two(<<"library", 4>>, f1, <<"library", 6>>, f2), {"rename", "refresh", "edit"})
ManagedFolder == Layout(Two(<<"ext1", 1>>, f1, <<"ext1", 2>>, f2), {"drift", "refresh", "edit"})
MCStarts == {DVD, TwoParts, ManagedFolder}
OverlapStarts == {TwoParts}

(* The instance is one the theorems speak of. *)
MCSlot == [p \in MCPaths |-> IF p[1] = "library" THEN Canon[p] ELSE <<"any", p[2]>>]
ASSUME InstanceIsApart ==
    /\ TemplatesApart /\ TitlesTell /\ NamesTell(MCSlot)
    /\ \A s \in Starts : TrueStart(s) /\ SwapStart(s) /\ (DiscStart(s) \/ NamedStart(s, MCSlot))
=============================================================================

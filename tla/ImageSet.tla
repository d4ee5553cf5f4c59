------------------------------ MODULE ImageSet ------------------------------
(***************************************************************************)
(* The set of images and partitions a configuration file describes          *)
(* (ImageSet), and how the names in it become pointers.  An image names its *)
(* partitions and its boot image; both are looked up only when all blocks   *)
(* have been read, by two functions that callers put around the filter.     *)
(* The filter destroys images, and references hold plain pointers to them.  *)
(***************************************************************************)
EXTENDS Integers, SequencesExt

CONSTANTS ImageNames,  \* names of images
          PartNames,   \* names of partitions
          Nothing,     \* no image, no list
          MaxBlocks,   \* bound: blocks in the file
          MaxCalls     \* bound: calls on the set once it is read

ASSUME SetAssumption ==
    /\ Nothing \notin ImageNames \cup PartNames
    /\ MaxBlocks \in Nat
    /\ MaxCalls \in Nat

VARIABLES images,      \* the images in the set: name to image
          partitions,  \* names of the partitions in the set
          partRefs,    \* references to partitions, with their owners
          stage,       \* how far the file and the calls are
          calls,       \* the calls made, in order
          told         \* what the block of each image says

setVars == <<images, partitions, partRefs, stage, calls, told>>

NewImageOf(boot) == [ref |-> boot, bootImage |-> Nothing, parts |-> <<>>]

\* The lists of a block: none, one name, two names that may be the same.
PartLists == UNION {[1 .. k -> PartNames] : k \in 0 .. 2}

SetInit ==
    /\ images = <<>>
    /\ partitions = {}
    /\ partRefs = <<>>
    /\ stage = "parsing"
    /\ calls = <<>>
    /\ told = <<>>

-----------------------------------------------------------------------------
(* ImageConf::Parse, block by block.                                        *)

BlocksRead == Cardinality(DOMAIN told) + Cardinality(partitions)

MayReadBlock == stage = "parsing" /\ BlocksRead < MaxBlocks

FindImage(n) == n \in DOMAIN images

\* A map with one more name.
Added(map, n, value) == [m \in DOMAIN map \cup {n} |-> IF m = n THEN value ELSE map[m]]

\* The references are there before the image is in the set.
createImage(n, parts, boot) ==
    /\ MayReadBlock
    /\ partRefs' = partRefs \o [i \in DOMAIN parts |-> [part |-> parts[i], owner |-> n]]
    /\ IF FindImage(n) THEN stage' = "failed" /\ UNCHANGED <<images, told>>
       ELSE /\ images' = Added(images, n, NewImageOf(boot))
            /\ told' = Added(told, n, [parts |-> parts, boot |-> boot])
            /\ UNCHANGED stage
    /\ UNCHANGED <<partitions, calls>>

createPartition(p) ==
    /\ MayReadBlock
    /\ IF p \in partitions THEN stage' = "failed" ELSE UNCHANGED stage
    /\ partitions' = partitions \cup {p}
    /\ UNCHANGED <<images, partRefs, calls, told>>

\* A block of another type, a setting that is refused, a syntax error.  The
\* image of a refused block is gone; its references may be there.
RefuseBlock(n, parts) ==
    /\ stage = "parsing"
    /\ partRefs' = partRefs \o [i \in DOMAIN parts |-> [part |-> parts[i], owner |-> n]]
    /\ stage' = "failed"
    /\ UNCHANGED <<images, partitions, calls, told>>

EndOfFile ==
    /\ stage = "parsing"
    /\ stage' = "read"
    /\ UNCHANGED <<images, partitions, partRefs, calls, told>>

-----------------------------------------------------------------------------
(* Calls on the set.                                                        *)

Calls(call) ==
    /\ stage = "read"
    /\ Len(calls) < MaxCalls
    /\ calls' = Append(calls, call)
    /\ UNCHANGED <<partitions, partRefs, told>>

\* Mutant: the image's own name shadows the one it refers to.
Target_Own(n) == n

\* The image the reference of n names.
Target(n) == images[n].ref

Resolvable(n) == images[n].ref # Nothing => FindImage(Target(n))

\* The setter of a reference stores the pointer.
SetPointer(n) ==
    IF images[n].ref = Nothing THEN images[n]
    ELSE [images[n] EXCEPT !.bootImage = Target(n)]

\* The images come in the order of a hash table; the first name that no image
\* has ends the loop, and what was set stays.
ResolveImgRefs ==
    LET good == {n \in DOMAIN images : Resolvable(n)}
    IN  \E visited \in IF good = DOMAIN images THEN {good} ELSE SUBSET good :
            /\ Calls(IF good = DOMAIN images THEN "images" ELSE "imagesFailed")
            /\ images' = [n \in DOMAIN images |->
                             IF n \in visited THEN SetPointer(n) ELSE images[n]]
            /\ UNCHANGED stage

\* The images once the references are attached to them, in order.
Attach(imgs, refs) ==
    LET after[k \in 0 .. Len(refs)] ==
            IF k = 0 THEN imgs
            ELSE [after[k - 1] EXCEPT ![refs[k].owner].parts = Append(@, refs[k].part)]
    IN  after[Len(refs)]

\* The references up to the first whose partition is not in the set.
Found ==
    LET lost == {i \in DOMAIN partRefs : partRefs[i].part \notin partitions}
    IN  IF lost = {} THEN partRefs ELSE SubSeq(partRefs, 1, Min(lost) - 1)

\* In order; what was attached stays attached if a later name is unknown, and
\* a second call attaches it again.  The owner of a reference may be gone.
ResolvePartRefs ==
    /\ Calls(IF Found = partRefs THEN "parts" ELSE "partsFailed")
    /\ IF \A i \in DOMAIN Found : FindImage(Found[i].owner)
       THEN images' = Attach(images, Found) /\ UNCHANGED stage
       ELSE stage' = "undefined" /\ UNCHANGED images

\* Images that are not selected are erased, and pointers to them stay.
Filter(kept) ==
    /\ Calls("filter")
    /\ images' = [n \in DOMAIN images \cap kept |-> images[n]]
    /\ UNCHANGED stage

\* IsoPartComp::Validate asks the boot image for its layout.
UseBootImage(n) ==
    /\ Calls("use")
    /\ FindImage(n)
    /\ images[n].bootImage # Nothing
    /\ IF FindImage(images[n].bootImage) THEN UNCHANGED stage ELSE stage' = "undefined"
    /\ UNCHANGED images

\* The file was refused, the calls are made, or nothing is defined any more.
SetDone ==
    /\ \/ stage \in {"failed", "undefined"}
       \/ stage = "read" /\ Len(calls) = MaxCalls
    /\ UNCHANGED setVars

SetNext ==
    \/ \E n \in ImageNames, parts \in PartLists, boot \in ImageNames \cup {Nothing} :
          createImage(n, parts, boot)
    \/ \E p \in PartNames : createPartition(p)
    \/ \E n \in ImageNames, parts \in PartLists : RefuseBlock(n, parts)
    \/ EndOfFile
    \/ ResolveImgRefs \/ ResolvePartRefs
    \/ \E kept \in SUBSET ImageNames : Filter(kept)
    \/ \E n \in ImageNames : UseBootImage(n)
    \/ SetDone

SetSpec == SetInit /\ [][SetNext]_setVars

-----------------------------------------------------------------------------
Made(call) == {i \in DOMAIN calls : calls[i] = call}

\* Partitions are attached once and before any image is destroyed, image
\* references are resolved after that.
Orderly ==
    /\ Cardinality(Made("parts")) <= 1
    /\ Made("partsFailed") = {}
    /\ \A f \in Made("filter") :
          /\ \A p \in Made("parts") : p < f
          /\ \A r \in Made("images") \cup Made("imagesFailed") : f < r

\* Called in that order, the functions touch no image that is gone; each image
\* left has exactly the partitions its block lists, in the order and as often as
\* it lists them; and its boot image is the one it names, or ResolveImgRefs has
\* said that there is none in the set.
RefsAlive ==
    Orderly =>
        /\ stage # "undefined"
        /\ stage = "read" =>
              \A n \in DOMAIN images :
                 /\ images[n].parts = IF Made("parts") = {} THEN <<>> ELSE told[n].parts
                 /\ images[n].bootImage \in {Nothing, told[n].boot}
                 /\ Made("images") # {} => images[n].bootImage = told[n].boot

=============================================================================

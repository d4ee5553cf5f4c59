------------------------------ MODULE Dispatch ------------------------------
(***************************************************************************)
(* One run of the program (main and Dispatch::Execute): the options are     *)
(* parsed, a front end fills the image set, images are selected, named and  *)
(* validated, the operation prepares a target for each, and options nobody  *)
(* used are reported.  The first step that fails ends the run.              *)
(***************************************************************************)
EXTENDS Image

CONSTANTS Blocks,       \* settings a front end may read for one image
          OptionSets,   \* command lines
          Anonymous,    \* the name of an image given on the command line
          Plain,        \* an output file given without an image
          MaxImages     \* bound: image blocks in a configuration file

\* The set each option of the front ends is in; all others are in "dispatch".
FrontendSets == [frontend_cmd  |-> {"size", "type", "bootmode", "imgprop", "format", "partition"},
                 frontend_conf |-> {"file", "confenc"}]

\* Given: options of the front ends, the two that ask for information, and an
\* argument too many.  A file that is named has a name.
ASSUME DispatchAssumption ==
    /\ Blocks \subseteq Seq(Settings)
    /\ Anonymous \in Names
    /\ Plain \notin Names
    /\ MaxImages \in Nat \ {0}
    /\ \A o \in OptionSets :
          /\ o.given \subseteq FrontendSets["frontend_cmd"] \cup FrontendSets["frontend_conf"]
                                \cup {"help", "version", "extra"}
          /\ o.files \in Seq(ToSet(o.files))
          /\ \A f \in ToSet(o.files) : f.file # NoValue

VARIABLES opts,      \* what the command line says
          used,      \* the option sets in use
          stage,     \* how far the run is
          error,     \* the error that ended it
          images,    \* the image set: from a name to its image
          file,      \* the file of each image of the set
          parsed,    \* the images the front end read
          todo,      \* images validateImages has still to visit
          targets    \* the actions prepared for each image

vars == <<opts, used, stage, error, images, file, parsed, todo, targets>>

\* The operations, the actions each runs, and those that create images.
OpActions == [init      |-> <<"Init">>,
              create    |-> <<"Init", "Partition", "Format">>,
              partition |-> <<"Partition">>,
              format    |-> <<"Format">>,
              update    |-> <<"Update">>]

CreatesImage == opts.operation \in {"init", "create"}

InSet == DOMAIN images

Fail(code) ==
    /\ stage' = "failed"
    /\ error' = code

\* A front end's image: every setting in order, all of them accepted.
Build(settings) ==
    LET after[k \in 0 .. Len(settings)] ==
            IF k = 0 THEN {NewImage} ELSE UNION {Set(img, settings[k]) : img \in after[k - 1]}
    IN  after[Len(settings)]

Init ==
    /\ opts \in OptionSets
    /\ used = {"dispatch"}
    /\ stage = "options"
    /\ error = NoValue
    /\ images = <<>>
    /\ file = <<>>
    /\ parsed = <<>>
    /\ todo = {}
    /\ targets = <<>>

-----------------------------------------------------------------------------
(* The options.                                                             *)

\* OptionsParser::Parse.
ParseOptions ==
    /\ stage = "options"
    /\ CASE "extra" \in opts.given                    -> Fail("OptError")
         [] {"help", "version"} \cap opts.given # {} -> stage' = "shown" /\ UNCHANGED error
         [] OTHER                                     -> stage' = "collected" /\ UNCHANGED error
    /\ UNCHANGED <<opts, used, images, file, parsed, todo, targets>>

InvalidOption ==
    \/ opts.operation = ""
    \/ opts.conf /\ {"size", "partition"} \cap opts.given # {}

RefuseOptions ==
    /\ stage = "collected"
    /\ InvalidOption
    /\ Fail("InvalidOption")
    /\ UNCHANGED <<opts, used, images, file, parsed, todo, targets>>

\* A file that is named makes its front end; a name may be empty.
CreateFrontend ==
    /\ stage = "collected"
    /\ ~ InvalidOption
    /\ used' = used \cup {IF opts.conf THEN "frontend_conf" ELSE "frontend_cmd"}
    /\ stage' = "parsing"
    /\ UNCHANGED <<opts, error, images, file, parsed, todo, targets>>

-----------------------------------------------------------------------------
(* The front end.                                                           *)

\* Extend a function by one argument.
With(f, n, v) == [m \in DOMAIN f \cup {n} |-> IF m = n THEN v ELSE f[m]]

\* One image block of a file, or the one image of the command line.
MayRead(n) ==
    /\ stage = "parsing"
    /\ IF opts.conf THEN n # Anonymous /\ Cardinality(InSet) < MaxImages
       ELSE n = Anonymous /\ InSet = {}

ReadImage(n, settings) ==
    /\ MayRead(n)
    /\ n \notin InSet
    /\ \E img \in Build(settings) :
           LET done == IF opts.conf THEN ResolveAllDeferred(img) ELSE img
           IN  /\ images' = With(images, n, done)
               /\ parsed' = With(parsed, n, done)
    /\ file' = With(file, n, NoValue)
    /\ UNCHANGED <<opts, used, stage, error, todo, targets>>

\* A setting is refused, or the name is taken.
RefuseImage(n, settings) ==
    /\ MayRead(n)
    /\ \/ Build(settings) = {} /\ Fail("badSetting")
       \/ Build(settings) # {} /\ n \in InSet /\ Fail("DuplicateImage")
    /\ UNCHANGED <<opts, used, images, file, parsed, todo, targets>>

EndParse ==
    /\ stage = "parsing"
    /\ opts.conf \/ InSet # {}
    /\ stage' = "parsed"
    /\ UNCHANGED <<opts, used, error, images, file, parsed, todo, targets>>

-----------------------------------------------------------------------------
(* selectImages and createFileNames.                                        *)

Keep(f, S) == [n \in DOMAIN f \cap S |-> f[n]]

\* Names the filter has not taken off the selection.
Unfound == opts.selected \ InSet

selectImages ==
    /\ stage = "parsed"
    /\ IF opts.selected = {} THEN UNCHANGED <<images, file>>
       ELSE /\ images' = Keep(images, opts.selected)
            /\ file' = Keep(file, opts.selected)
    /\ IF Unfound = {} THEN stage' = "selected" /\ UNCHANGED error
       ELSE Fail("ImgFilterFailed")
    /\ UNCHANGED <<opts, used, parsed, todo, targets>>

\* KeyVal::Parse succeeds when every output file names its image.
AllKeyed == \A i \in DOMAIN opts.files : opts.files[i].name # Plain

\* The places of the files named for n.
FilesFor(n) == {i \in DOMAIN opts.files : opts.files[i].name = n}

\* Mutant: the first file named for an image is the one it gets.
Explicit_First(n) ==
    IF ~ AllKeyed THEN Head(opts.files).file
    ELSE IF FilesFor(n) # {} THEN opts.files[Min(FilesFor(n))].file ELSE NoValue

Explicit(n) ==
    IF ~ AllKeyed THEN Head(opts.files).file
    ELSE IF FilesFor(n) # {} THEN opts.files[Max(FilesFor(n))].file ELSE NoValue

\* The name of the image with the extension of its format.
setDefaultFile(n) ==
    IF Loaded(images[n], "Format") THEN <<n, images[n].comps["Format"]>> ELSE NoValue

BadFiles ==
    \/ /\ Len(opts.files) = 1 /\ ~ AllKeyed /\ Cardinality(InSet) # 1
       /\ Fail("ImgFileAmbiguous")
    \/ /\ AllKeyed /\ \E i \in DOMAIN opts.files : opts.files[i].name \notin InSet
       /\ Fail("ImgNonExistant")
    \* The value of an empty optional: undefined behaviour, followed no further.
    \/ /\ Len(opts.files) > 1 /\ ~ AllKeyed
       /\ stage' = "undefined" /\ UNCHANGED error

RefuseFiles ==
    /\ stage = "selected"
    /\ BadFiles
    /\ UNCHANGED <<opts, used, images, file, parsed, todo, targets>>

createFileNames ==
    /\ stage = "selected"
    /\ IF AllKeyed THEN \A i \in DOMAIN opts.files : opts.files[i].name \in InSet
       ELSE Len(opts.files) = 1 /\ Cardinality(InSet) = 1
    /\ file' = [n \in InSet |->
                   IF Explicit(n) # NoValue THEN Explicit(n) ELSE setDefaultFile(n)]
    /\ stage' = "named"
    /\ UNCHANGED <<opts, used, error, images, parsed, todo, targets>>

-----------------------------------------------------------------------------
(* The operation, validateImages and PrepareTargets.                        *)

MakeOperation ==
    /\ stage = "named"
    /\ IF opts.operation \in DOMAIN OpActions
       THEN stage' = "validating" /\ todo' = InSet /\ UNCHANGED error
       ELSE Fail("UnknownOperation") /\ UNCHANGED todo
    /\ UNCHANGED <<opts, used, images, file, parsed, targets>>

\* Only an operation that creates the image applies defaults.
Completed(n) == IF CreatesImage THEN SetDefaults(images[n]) ELSE images[n]

TypeOf == [n \in Names |-> IF n \in InSet THEN PartType(images[n]) ELSE NoValue]

\* Mutant: the answer of Finalize is not looked at.
Problem_NotFinalized(n) ==
    CASE file[n] = NoValue                 -> "ImgFileNotSpecified"
      [] ~ Loaded(Completed(n), "Format")  -> "ImgFormatRequired"
      [] OTHER                             -> "valid"

\* The first of the tests that the image fails.
Problem(n) ==
    CASE file[n] = NoValue                 -> "ImgFileNotSpecified"
      [] ~ Loaded(Completed(n), "Format")  -> "ImgFormatRequired"
      [] OTHER                             -> Finalize(Completed(n), TypeOf)

\* The images come in the order of a hash table.  Finalize's replay changes an
\* image that fails an earlier test no more than any other (DeferredIsStuck).
ValidateImage(n) ==
    /\ stage = "validating"
    /\ n \in todo
    /\ images' = [images EXCEPT ![n] = ResolveAllDeferred(Completed(n))]
    /\ todo' = todo \ {n}
    /\ CASE Problem(n) = "valid"   -> UNCHANGED <<stage, error>>
         [] Problem(n) = "aborted" -> stage' = "aborted" /\ UNCHANGED error
         [] OTHER                  -> Fail(Problem(n))
    /\ UNCHANGED <<opts, used, file, parsed, targets>>

PrepareTargets ==
    /\ stage = "validating"
    /\ todo = {}
    /\ targets' = [n \in InSet |-> OpActions[opts.operation]]
    /\ stage' = "prepared"
    /\ UNCHANGED <<opts, used, error, images, file, parsed, todo>>

\* The options given whose set nobody uses.
Unused == {o \in opts.given : \E set \in DOMAIN FrontendSets \ used : o \in FrontendSets[set]}

CheckUnusedOpts ==
    /\ stage = "prepared"
    /\ IF Unused # {} THEN Fail("UnusedArg") ELSE stage' = "done" /\ UNCHANGED error
    /\ UNCHANGED <<opts, used, images, file, parsed, todo, targets>>

\* The program has returned or was ended.
Ended ==
    /\ stage \in {"shown", "done", "failed", "aborted", "undefined"}
    /\ UNCHANGED vars

Next ==
    \/ \E n \in Names, b \in Blocks : ReadImage(n, b) \/ RefuseImage(n, b)
    \/ ParseOptions \/ RefuseOptions \/ CreateFrontend
    \/ EndParse \/ selectImages \/ RefuseFiles \/ createFileNames
    \/ MakeOperation \/ PrepareTargets \/ CheckUnusedOpts
    \/ \E n \in Names : ValidateImage(n)
    \/ Ended

Spec == Init /\ [][Next]_vars

-----------------------------------------------------------------------------
\* A run that succeeds has a target for exactly the images that were asked
\* for, each of them with a file, a format, no setting left over and valid
\* components; an operation on existing images has invented nothing about them,
\* no default and no component; and every option on the command line was one
\* its front end reads.
DoneIsReady ==
    stage = "done" =>
        /\ DOMAIN targets = IF opts.selected = {} THEN DOMAIN parsed ELSE opts.selected
        /\ \A n \in DOMAIN targets :
               /\ file[n] # NoValue
               /\ Loaded(images[n], "Format")
               /\ images[n].deferred = <<>>
               /\ Validate(images[n], TypeOf) = "valid"
               /\ CreatesImage \/ images[n] = parsed[n]
        /\ opts.given \subseteq IF opts.conf THEN {"file", "confenc"}
                                ELSE {"size", "type", "bootmode", "imgprop", "format", "partition"}

\* An output file given for an image is the one used, the last if there are
\* several, whatever the image's format says.
ExplicitFileUsed ==
    stage = "done" =>
        \A i \in DOMAIN opts.files :
            LET n == opts.files[i].name
            IN  IF n = Plain THEN \A m \in InSet : file[m] = opts.files[i].file
                ELSE (\A j \in DOMAIN opts.files : j > i => opts.files[j].name # n)
                         => file[n] = opts.files[i].file

-----------------------------------------------------------------------------
(* What the code says of itself and does not keep.                          *)

\* "Parse() must resolve boot_image references without any extra manual step".
ReferencesResolved ==
    stage = "parsed" =>
        \A n \in InSet :
            ToSet(images[n].refs) \cap InSet # {} => images[n].bootImage # NoValue

=============================================================================

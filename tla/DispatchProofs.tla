--------------------------- MODULE DispatchProofs ---------------------------
(***************************************************************************)
(* Proofs about Dispatch: whatever settings a front end reads and whatever   *)
(* the command line says, a run that succeeds is ready for exactly the       *)
(* images asked for, and uses the files given for them.                     *)
(***************************************************************************)
EXTENDS Dispatch, ImageFacts

\* The option sets of the front end that the command line chooses.
Own == IF opts.conf THEN "frontend_conf" ELSE "frontend_cmd"

Reading   == {"options", "shown", "collected", "parsing", "parsed"}
Unchecked == Reading \cup {"selected", "named"}
Named     == {"named", "validating", "prepared", "done"}
Prepared  == {"prepared", "done"}

\* An image as a front end made it: it fits the settings of some block, and
\* no reference is resolved.
Fresh(i) ==
    /\ i.bootImage = NoValue
    /\ \E b \in Blocks : Fits(i, ToSet(b), FALSE)

\* An image that has passed validateImages.
Checked(i) ==
    /\ Loaded(i, "Format")
    /\ i.deferred = <<>>
    /\ i.bootImage = NoValue
    /\ PartType(i) = "iso9660" => i.bootEmu = "noemu"

\* Only one front end's options are read, and the program goes on only if it is
\* asked for no information.
OptionsInv ==
    /\ opts \in OptionSets
    /\ used \subseteq {"dispatch", Own}
    /\ stage \in (Unchecked \cup Named) \ {"options", "shown"} =>
          {"help", "version", "extra"} \cap opts.given = {}
    /\ stage = "done" => Unused = {}

\* The selection.
SetInv ==
    /\ stage \in Reading => DOMAIN images = DOMAIN parsed
    /\ stage \in {"selected"} \cup Named =>
          DOMAIN images = IF opts.selected = {} THEN DOMAIN parsed ELSE opts.selected
    /\ stage \in Prepared => todo = {} /\ DOMAIN targets = DOMAIN images

\* An image is as it was read until it is visited, and checked from then on.
ImagesInv ==
    \A n \in DOMAIN images :
        /\ (stage \in Unchecked \/ (stage = "validating" /\ n \in todo)) =>
              images[n] = parsed[n] /\ Fresh(images[n])
        /\ (stage \in Prepared \/ (stage = "validating" /\ n \notin todo)) =>
              /\ Checked(images[n])
              /\ file[n] # NoValue
              /\ CreatesImage \/ images[n] = parsed[n]

FilesInv ==
    stage \in Named =>
        /\ \A n \in DOMAIN images : Explicit(n) # NoValue => file[n] = Explicit(n)
        /\ IF AllKeyed THEN \A i \in DOMAIN opts.files : opts.files[i].name \in DOMAIN images
           ELSE Len(opts.files) = 1

DispatchIInv == OptionsInv /\ SetInv /\ ImagesInv /\ FilesInv

-----------------------------------------------------------------------------
(* What a front end makes of a block.                                       *)

\* The images after each setting of s.
After(g, s, n) ==
    g = [k \in 0 .. n |->
            IF k = 0 THEN {NewImage} ELSE UNION {Set(img, s[k]) : img \in g[k - 1]}]

LEMMA AfterExists ==
    ASSUME NEW s, NEW n \in Nat
    PROVE  \E g : After(g, s, n)
<1> DEFINE Good == {k \in Nat : \E g : After(g, s, k)}
<1>1. 0 \in Good
  <2>1. After([k \in 0 .. 0 |-> {NewImage}], s, 0)
    BY DEF After
  <2> QED
    BY <2>1
<1>2. ASSUME NEW k \in Nat, k \in Good
      PROVE  k + 1 \in Good
  <2>1. PICK g : After(g, s, k)
    BY <1>2
  <2> DEFINE last == UNION {Set(img, s[k + 1]) : img \in g[k]}
             h == [j \in 0 .. k + 1 |-> IF j = k + 1 THEN last ELSE g[j]]
  <2> HIDE DEF last
  <2>2. ASSUME NEW j \in 0 .. k + 1
        PROVE  h[j] = IF j = 0 THEN {NewImage} ELSE UNION {Set(img, s[j]) : img \in h[j - 1]}
    <3>1. CASE j = k + 1
      <4>1. h[j] = last /\ j # 0 /\ j - 1 = k /\ k \in 0 .. k + 1 /\ h[k] = g[k]
        BY <3>1
      <4> HIDE DEF h
      <4> QED
        BY <3>1, <4>1 DEF last
    <3>2. CASE j # k + 1
      <4>1. j \in 0 .. k /\ h[j] = g[j] /\ (j # 0 => j - 1 \in 0 .. k /\ h[j - 1] = g[j - 1])
        BY <3>2
      <4>2. g[j] = IF j = 0 THEN {NewImage} ELSE UNION {Set(img, s[j]) : img \in g[j - 1]}
        BY <2>1, <4>1 DEF After
      <4> HIDE DEF h
      <4> QED
        BY <4>1, <4>2
    <3> QED
      BY <3>1, <3>2
  <2>3. h = [j \in 0 .. k + 1 |-> h[j]]
    OBVIOUS
  <2> HIDE DEF h
  <2>4. After(h, s, k + 1)
    BY <2>2, <2>3 DEF After
  <2> QED
    BY <2>4
<1> HIDE DEF Good
<1>3. Nat \subseteq Good
  BY <1>1, <1>2, NatSet
<1> QED
  BY <1>3 DEF Good

\* An image a front end has made of a block fits the block's settings.
LEMMA BuildFits ==
    ASSUME NEW b \in Blocks, NEW i \in Build(b)
    PROVE  Fits(i, ToSet(b), FALSE) /\ i.bootImage = NoValue
<1> DEFINE n == Len(b)
           g == CHOOSE f : After(f, b, n)
           Upto(k) == {b[j] : j \in 1 .. k}
           Right(x, k) == Fits(x, Upto(k), FALSE) /\ x.bootImage = NoValue
           Good == {k \in Nat : k <= n => \A x \in g[k] : Right(x, k)}
<1>1. b \in Seq(Settings) /\ n \in Nat /\ DOMAIN b = 1 .. n
  BY DispatchAssumption
<1>2. Build(b) = g[n]
  BY DEF Build, After
<1>3. \A j \in 1 .. n : b[j] \in Settings
  BY <1>1
<1>4. ToSet(b) = Upto(n)
  BY <1>1 DEF ToSet
<1> HIDE DEF n
<1>5. After(g, b, n)
  BY <1>1, AfterExists
<1> HIDE DEF g
<1>6. 0 \in Good
  <2>1. g[0] = {NewImage}
    BY <1>1, <1>5 DEF After
  <2>2. Upto(0) = {}
    OBVIOUS
  <2>3. NewImage.bootImage = NoValue
    BY DEF NewImage
  <2> HIDE DEF Upto
  <2>4. Right(NewImage, 0)
    BY <2>2, <2>3, FirstFits
  <2> QED
    BY <2>1, <2>4
<1> HIDE DEF Right, Upto
<1>7. ASSUME NEW k \in Nat, k \in Good
      PROVE  k + 1 \in Good
  <2> SUFFICES ASSUME k + 1 <= n, NEW x \in g[k + 1]
               PROVE  Right(x, k + 1)
    OBVIOUS
  <2>1. k + 1 \in 1 .. n /\ k + 1 \in 0 .. n /\ k + 1 # 0 /\ (k + 1) - 1 = k /\ k <= n
    BY <1>1
  <2>2. g[k + 1] = UNION {Set(img, b[k + 1]) : img \in g[k]}
    BY <1>5, <2>1 DEF After
  <2>3. PICK y \in g[k] : x \in Set(y, b[k + 1])
    BY <2>2
  <2>4. Right(y, k)
    BY <1>7, <2>1
  <2>5. b[k + 1] \in Settings
    BY <1>3, <2>1
  <2>6. Upto(k + 1) = Upto(k) \cup {b[k + 1]}
    <3>1. \A j \in 1 .. k + 1 : j = k + 1 \/ j \in 1 .. k
      OBVIOUS
    <3>2. k + 1 \in 1 .. k + 1 /\ \A j \in 1 .. k : j \in 1 .. k + 1
      OBVIOUS
    <3> QED
      BY <3>1, <3>2 DEF Upto
  <2>7. Fits(x, Upto(k) \cup {b[k + 1]}, FALSE)
    BY <2>3, <2>4, <2>5, SetFits DEF Right
  <2>8. x.bootImage = NoValue
    BY <2>3, <2>4, <2>5, SetKeepsUnresolved DEF Right
  <2> QED
    BY <2>6, <2>7, <2>8 DEF Right
<1>9. n <= n
  BY <1>1
<1> HIDE DEF Good
<1>8. n \in Good
  BY <1>1, <1>6, <1>7, NatSet
<1>10. \A x \in g[n] : Right(x, n)
  BY <1>8, <1>9 DEF Good
<1> QED
  BY <1>2, <1>4, <1>10 DEF Right

LEMMA BuiltIsFresh ==
    ASSUME NEW b \in Blocks, NEW i \in Build(b)
    PROVE  Fresh(i) /\ Fresh(ResolveAllDeferred(i))
<1>1. Fits(i, ToSet(b), FALSE) /\ i.bootImage = NoValue
  BY BuildFits
<1>2. \A r : r = ResolveAllDeferred(i) =>
          Fits(r, ToSet(b), FALSE) /\ r.bootImage = i.bootImage
  BY <1>1, ReplayFits
<1> QED
  BY <1>1, <1>2 DEF Fresh

-----------------------------------------------------------------------------
(* What validateImages makes of an image.                                   *)

LEMMA NothingToReplay ==
    ASSUME NEW i \in Images, i.deferred = <<>>
    PROVE  ResolveAllDeferred(i) = i
<1> DEFINE b == [i EXCEPT !.deferred = <<>>]
<1>1. b = i
  BY DEF Images
<1>2. <<>> \in Seq(Settings) /\ Len(<<>>) = 0
  OBVIOUS
<1>3. \A s \in Seq(Settings) :
          \E f : f[0] = b /\ FoldLeft(resolveDeferredProp, b, s) = f[Len(s)]
  <2> HIDE DEF b
  <2> SUFFICES ASSUME NEW s \in Seq(Settings)
               PROVE  \E f : f[0] = b /\ FoldLeft(resolveDeferredProp, b, s) = f[Len(s)]
    OBVIOUS
  <2>1. PICK f : /\ f[0] = b
                 /\ \A k \in 1 .. Len(s) : f[k] = resolveDeferredProp(f[k - 1], s[k])
                 /\ FoldLeft(resolveDeferredProp, b, s) = f[Len(s)]
    BY ReplayTrace
  <2> QED
    BY <2>1
<1> HIDE DEF b
<1>4. FoldLeft(resolveDeferredProp, b, <<>>) = b
  BY <1>2, <1>3
<1> QED
  BY <1>1, <1>4 DEF ResolveAllDeferred, b

\* Either front end's image that Finalize accepts, with its defaults or without.
LEMMA FinalizedIsChecked ==
    ASSUME NEW i, Fresh(i), NEW c, c \in {i, SetDefaults(i)}, Loaded(c, "Format"),
           NEW t, Finalize(c, t) = "valid", NEW r, r = ResolveAllDeferred(c)
    PROVE  Checked(r) /\ (c = i => r = i)
<1>1. PICK b \in Blocks : Fits(i, ToSet(b), FALSE)
  BY DEF Fresh
<1>2. i.bootImage = NoValue
  BY DEF Fresh
<1>3. c.bootImage = NoValue /\ \E defaults : Fits(c, ToSet(b), defaults)
  <2>1. CASE c = i
    BY <1>1, <1>2, <2>1
  <2>2. CASE c = SetDefaults(i)
    <3>1. Fits(c, ToSet(b), TRUE) /\ c.bootImage \in {i.bootImage, NoValue}
      BY <1>1, <2>2, DefaultsFit
    <3> QED
      BY <1>2, <3>1
  <2> QED
    BY <2>1, <2>2
<1>4. PICK defaults : Fits(c, ToSet(b), defaults)
  BY <1>3
<1>5. /\ r.comps = c.comps /\ r.bootImage = c.bootImage /\ r.bootEmu = c.bootEmu
      /\ ToSet(r.deferred) = ToSet(c.deferred)
  BY <1>4, ReplayFits
<1>6. r.deferred = <<>> /\ Validate(r, t) = "valid"
  BY DEF Finalize
<1>7. Loaded(r, "Format") /\ r.bootImage = NoValue
  BY <1>3, <1>5 DEF Loaded
<1>8. PartType(r) = "iso9660" => r.bootEmu = "noemu"
  BY <1>6, <1>7 DEF Validate, ValidIso, Aborts
<1>9. Checked(r)
  BY <1>6, <1>7, <1>8 DEF Checked
<1>10. ASSUME c = i
       PROVE  r = i
  <2>1. i \in Images
    BY <1>1 DEF Fits
  <2> DEFINE d == i.deferred
  <2>2. d \in Seq(Settings) /\ Len(d) \in Nat /\ DOMAIN d = 1 .. Len(d)
    <3>1. d \in Seq(Settings)
      BY <2>1 DEF Images
    <3> QED
      BY <3>1
  <2>3. ToSet(d) = {}
    <3>1. ToSet(<<>>) = {}
      BY DEF ToSet
    <3> QED
      BY <1>5, <1>6, <1>10, <3>1
  <2>4. d = <<>>
    <3> HIDE DEF d
    <3>1. 1 \notin DOMAIN d
      BY <2>3 DEF ToSet
    <3> QED
      BY <2>2, <3>1
  <2> QED
    BY <1>10, <2>1, <2>4, NothingToReplay
<1> QED
  BY <1>9, <1>10

\* The layouts of other images do not matter to it.
LEMMA CheckedIsValid ==
    ASSUME NEW i, Checked(i), NEW t
    PROVE  Validate(i, t) = "valid"
<1>1. "noemu" # NoValue
  BY NoValueIsNone
<1> QED
  BY <1>1 DEF Checked, Validate, ValidIso, Aborts

-----------------------------------------------------------------------------
(* The actions.                                                             *)

\* A step that ends the run in failure needs nothing more.
LEMMA FailedStep ==
    ASSUME DispatchIInv, UNCHANGED <<opts, used>>, stage' \in {"failed", "aborted", "undefined"}
    PROVE  DispatchIInv'
<1>1. OptionsInv'
  BY DEF DispatchIInv, OptionsInv, Own, Unchecked, Named, Reading
<1>2. SetInv' /\ ImagesInv' /\ FilesInv'
  BY DEF SetInv, ImagesInv, FilesInv, Unchecked, Named, Reading, Prepared
<1> QED
  BY <1>1, <1>2 DEF DispatchIInv

\* A step of the options or of the parser that leaves the set alone.
LEMMA EarlyStep ==
    ASSUME DispatchIInv, UNCHANGED <<opts, images, file, parsed, todo, targets>>,
           used' \subseteq {"dispatch", Own}, stage \in Reading, stage' \in Reading,
           stage' \notin {"options", "shown"} => {"help", "version", "extra"} \cap opts.given = {}
    PROVE  DispatchIInv'
<1>1. OptionsInv'
  BY DEF DispatchIInv, OptionsInv, Own, Unchecked, Named, Reading
<1>2. SetInv'
  BY DEF DispatchIInv, SetInv, Named, Reading, Prepared
<1>3. ImagesInv'
  BY DEF DispatchIInv, ImagesInv, Unchecked, Reading, Prepared
<1>4. FilesInv'
  BY DEF FilesInv, Named, Reading
<1> QED
  BY <1>1, <1>2, <1>3, <1>4 DEF DispatchIInv

LEMMA OptionSteps ==
    ASSUME DispatchIInv, ParseOptions \/ RefuseOptions \/ CreateFrontend \/ EndParse
    PROVE  DispatchIInv'
<1>1. CASE ParseOptions
  <2>1. stage' = "failed" \/ (stage' = "shown") \/ (stage' = "collected" /\ {"help", "version", "extra"} \cap opts.given = {})
    BY <1>1 DEF ParseOptions, Fail
  <2>2. stage = "options" /\ UNCHANGED <<opts, used, images, file, parsed, todo, targets>>
    BY <1>1 DEF ParseOptions
  <2>3. used' \subseteq {"dispatch", Own}
    BY <2>2 DEF DispatchIInv, OptionsInv
  <2>4. stage \in Reading
    BY <2>2 DEF Reading
  <2>5. CASE stage' = "failed"
    BY <2>2, <2>5, FailedStep
  <2>6. CASE stage' # "failed"
    <3>1. stage' \in Reading
      BY <2>1, <2>6 DEF Reading
    <3>2. stage' \notin {"options", "shown"} => {"help", "version", "extra"} \cap opts.given = {}
      BY <2>1, <2>6
    <3> QED
      BY <2>2, <2>3, <2>4, <3>1, <3>2, EarlyStep
  <2> QED
    BY <2>5, <2>6
<1>2. CASE RefuseOptions
  BY <1>2, FailedStep DEF RefuseOptions, Fail
<1>3. CASE CreateFrontend \/ EndParse
  <2>1. /\ stage \in Reading \ {"options", "shown"} /\ stage' \in Reading
        /\ UNCHANGED <<opts, images, file, parsed, todo, targets>>
    BY <1>3 DEF CreateFrontend, EndParse, Reading
  <2>2. used' \subseteq {"dispatch", Own}
    BY <1>3 DEF CreateFrontend, EndParse, DispatchIInv, OptionsInv, Own
  <2>3. {"help", "version", "extra"} \cap opts.given = {}
    BY <2>1 DEF DispatchIInv, OptionsInv, Unchecked
  <2> QED
    BY <2>1, <2>2, <2>3, EarlyStep
<1> QED
  BY <1>1, <1>2, <1>3

LEMMA ReadImageStep ==
    ASSUME DispatchIInv, NEW n \in Names, NEW b \in Blocks, ReadImage(n, b)
    PROVE  DispatchIInv'
<1>1. /\ stage = "parsing" /\ n \notin DOMAIN images
      /\ UNCHANGED <<opts, used, stage, error, todo, targets>>
  BY DEF ReadImage, MayRead, InSet
<1>2. PICK i : /\ Fresh(i)
               /\ images' = With(images, n, i) /\ parsed' = With(parsed, n, i)
  BY BuiltIsFresh DEF ReadImage
<1>3. OptionsInv'
  BY <1>1 DEF DispatchIInv, OptionsInv, Own
<1>4. DOMAIN images = DOMAIN parsed
  BY <1>1 DEF DispatchIInv, SetInv, Reading
<1>5. /\ DOMAIN images' = DOMAIN images \cup {n} /\ DOMAIN parsed' = DOMAIN images'
      /\ images'[n] = i /\ parsed'[n] = i
      /\ \A m \in DOMAIN images : images'[m] = images[m] /\ parsed'[m] = parsed[m]
  BY <1>1, <1>2, <1>4 DEF With
<1>6. SetInv'
  BY <1>1, <1>5 DEF SetInv, Named, Prepared
<1>7. ImagesInv'
  <2>1. \A m \in DOMAIN images : images[m] = parsed[m] /\ Fresh(images[m])
    BY <1>1 DEF DispatchIInv, ImagesInv, Unchecked, Reading
  <2>2. \A m \in DOMAIN images' : images'[m] = parsed'[m] /\ Fresh(images'[m])
    BY <1>2, <1>5, <2>1
  <2> QED
    BY <1>1, <2>2 DEF ImagesInv, Prepared
<1>8. FilesInv'
  BY <1>1 DEF FilesInv, Named
<1> QED
  BY <1>3, <1>6, <1>7, <1>8 DEF DispatchIInv

LEMMA SelectStep ==
    ASSUME DispatchIInv, selectImages
    PROVE  DispatchIInv'
<1>1. stage = "parsed" /\ UNCHANGED <<opts, used, parsed, todo, targets>>
  BY DEF selectImages
<1>2. CASE Unfound # {}
  BY <1>1, <1>2, FailedStep DEF selectImages, Fail
<1>3. CASE Unfound = {}
  <2>1. stage' = "selected"
    BY <1>3 DEF selectImages
  <2>2. DOMAIN images = DOMAIN parsed
    BY <1>1 DEF DispatchIInv, SetInv, Reading
  <2>3. /\ DOMAIN images' = IF opts.selected = {} THEN DOMAIN parsed ELSE opts.selected
        /\ \A n \in DOMAIN images' : n \in DOMAIN images /\ images'[n] = images[n]
    BY <1>3, <2>2 DEF selectImages, Keep, Unfound, InSet
  <2>4. OptionsInv'
    BY <1>1, <2>1 DEF DispatchIInv, OptionsInv, Own, Unchecked, Named, Reading
  <2>5. SetInv'
    BY <1>1, <2>1, <2>3 DEF SetInv, Reading, Prepared
  <2>6. \A n \in DOMAIN images : images[n] = parsed[n] /\ Fresh(images[n])
    BY <1>1 DEF DispatchIInv, ImagesInv, Unchecked, Reading
  <2>7. ImagesInv'
    BY <1>1, <2>1, <2>3, <2>6 DEF ImagesInv, Prepared
  <2>8. FilesInv'
    BY <2>1 DEF FilesInv, Named
  <2> QED
    BY <2>4, <2>5, <2>7, <2>8 DEF DispatchIInv
<1> QED
  BY <1>2, <1>3

LEMMA NameStep ==
    ASSUME DispatchIInv, createFileNames
    PROVE  DispatchIInv'
<1>1. /\ stage = "selected" /\ stage' = "named"
      /\ UNCHANGED <<opts, used, error, images, parsed, todo, targets>>
      /\ IF AllKeyed THEN \A i \in DOMAIN opts.files : opts.files[i].name \in DOMAIN images
         ELSE Len(opts.files) = 1
      /\ \A n \in DOMAIN images : Explicit(n) # NoValue => file'[n] = Explicit(n)
  BY DEF createFileNames, InSet
<1>2. OptionsInv'
  BY <1>1 DEF DispatchIInv, OptionsInv, Own, Unchecked, Named, Reading
<1>3. SetInv'
  BY <1>1 DEF DispatchIInv, SetInv, Reading, Named, Prepared
<1>4. ImagesInv'
  BY <1>1 DEF DispatchIInv, ImagesInv, Unchecked, Prepared
<1>5. FilesInv'
  BY <1>1 DEF FilesInv, AllKeyed, Explicit, FilesFor
<1> QED
  BY <1>2, <1>3, <1>4, <1>5 DEF DispatchIInv

\* A step that leaves the set and its files alone.
LEMMA SameFiles ==
    ASSUME DispatchIInv, UNCHANGED <<opts, file>>, DOMAIN images' = DOMAIN images,
           stage \in Named
    PROVE  FilesInv'
BY DEF DispatchIInv, FilesInv, AllKeyed, Explicit, FilesFor

LEMMA OperationStep ==
    ASSUME DispatchIInv, MakeOperation
    PROVE  DispatchIInv'
<1>1. stage = "named" /\ UNCHANGED <<opts, used, images, file, parsed, targets>>
  BY DEF MakeOperation
<1>2. CASE stage' = "failed"
  BY <1>1, <1>2, FailedStep
<1>3. CASE stage' # "failed"
  <2>1. stage' = "validating" /\ todo' = DOMAIN images
    BY <1>3 DEF MakeOperation, Fail, InSet
  <2>2. OptionsInv'
    BY <1>1, <2>1 DEF DispatchIInv, OptionsInv, Own, Unchecked, Named, Reading
  <2>3. SetInv'
    BY <1>1, <2>1 DEF DispatchIInv, SetInv, Reading, Named, Prepared
  <2>4. ImagesInv'
    BY <1>1, <2>1 DEF DispatchIInv, ImagesInv, Unchecked, Prepared, Reading
  <2>5. FilesInv'
    BY <1>1, SameFiles DEF Named
  <2> QED
    BY <2>2, <2>3, <2>4, <2>5 DEF DispatchIInv
<1> QED
  BY <1>2, <1>3

LEMMA ValidateStep ==
    ASSUME DispatchIInv, NEW n \in Names, ValidateImage(n)
    PROVE  DispatchIInv'
<1> DEFINE c == Completed(n)
           r == ResolveAllDeferred(c)
<1>1. /\ stage = "validating" /\ n \in todo /\ UNCHANGED <<opts, used, file, parsed, targets>>
      /\ images' = [images EXCEPT ![n] = r] /\ todo' = todo \ {n}
  BY DEF ValidateImage
<1>2. CASE stage' \in {"failed", "aborted"}
  BY <1>1, <1>2, FailedStep
<1>3. CASE stage' \notin {"failed", "aborted"}
  <2>1. Problem(n) = "valid" /\ stage' = stage
    BY <1>3 DEF ValidateImage, Fail
  <2>2. file[n] # NoValue /\ Loaded(c, "Format") /\ Finalize(c, TypeOf) = "valid"
    BY <2>1 DEF Problem
  <2>3. DOMAIN images' = DOMAIN images
    BY <1>1
  <2>4. OptionsInv'
    BY <1>1, <2>1 DEF DispatchIInv, OptionsInv, Own, Unchecked, Named, Reading
  <2>5. SetInv'
    BY <1>1, <2>1, <2>3 DEF DispatchIInv, SetInv, Reading, Named, Prepared
  <2>6. FilesInv'
    BY <1>1, <2>3, SameFiles DEF Named
  <2>7. ASSUME n \in DOMAIN images
        PROVE  Checked(r) /\ (CreatesImage \/ r = parsed[n])
    <3>1. images[n] = parsed[n] /\ Fresh(images[n])
      BY <1>1, <2>7 DEF DispatchIInv, ImagesInv
    <3>2. c = IF CreatesImage THEN SetDefaults(images[n]) ELSE images[n]
      BY DEF Completed
    <3>3. r = ResolveAllDeferred(c) /\ c \in {images[n], SetDefaults(images[n])}
      BY <3>2
    <3> HIDE DEF c, r
    <3>4. Checked(r) /\ (c = images[n] => r = images[n])
      BY <2>2, <3>1, <3>3, FinalizedIsChecked
    <3> QED
      BY <3>1, <3>2, <3>4
  <2> HIDE DEF c, r
  <2>8. ASSUME NEW m \in DOMAIN images
        PROVE  images'[m] = IF m = n THEN r ELSE images[m]
    BY <1>1
  <2>9. CreatesImage' <=> CreatesImage
    BY <1>1 DEF CreatesImage
  <2>10. ImagesInv'
    <3> SUFFICES ASSUME NEW m \in DOMAIN images
                 PROVE  /\ m \in todo' => images'[m] = parsed[m] /\ Fresh(images'[m])
                        /\ m \notin todo' => /\ Checked(images'[m]) /\ file[m] # NoValue
                                             /\ CreatesImage \/ images'[m] = parsed[m]
      BY <1>1, <2>1, <2>3, <2>9 DEF ImagesInv, Unchecked, Prepared, Reading
    <3>1. CASE m = n
      BY <1>1, <2>2, <2>7, <2>8, <3>1
    <3>2. CASE m # n
      <4>1. /\ m \in todo => images[m] = parsed[m] /\ Fresh(images[m])
            /\ m \notin todo => /\ Checked(images[m]) /\ file[m] # NoValue
                                /\ CreatesImage \/ images[m] = parsed[m]
        BY <1>1 DEF DispatchIInv, ImagesInv
      <4> QED
        BY <1>1, <2>8, <3>2, <4>1
    <3> QED
      BY <3>1, <3>2
  <2> QED
    BY <2>4, <2>5, <2>6, <2>10 DEF DispatchIInv
<1> QED
  BY <1>2, <1>3

LEMMA PrepareStep ==
    ASSUME DispatchIInv, PrepareTargets
    PROVE  DispatchIInv'
<1>1. /\ stage = "validating" /\ todo = {} /\ stage' = "prepared"
      /\ DOMAIN targets' = DOMAIN images
      /\ UNCHANGED <<opts, used, error, images, file, parsed, todo>>
  BY DEF PrepareTargets, InSet
<1>2. OptionsInv'
  BY <1>1 DEF DispatchIInv, OptionsInv, Own, Unchecked, Named, Reading
<1>3. SetInv'
  BY <1>1 DEF DispatchIInv, SetInv, Reading, Named, Prepared
<1>4. ImagesInv'
  BY <1>1 DEF DispatchIInv, ImagesInv, Unchecked, Prepared, Reading, CreatesImage
<1>5. FilesInv'
  BY <1>1, SameFiles DEF Named
<1> QED
  BY <1>2, <1>3, <1>4, <1>5 DEF DispatchIInv

LEMMA UnusedStep ==
    ASSUME DispatchIInv, CheckUnusedOpts
    PROVE  DispatchIInv'
<1>1. stage = "prepared" /\ UNCHANGED <<opts, used, images, file, parsed, todo, targets>>
  BY DEF CheckUnusedOpts
<1>2. CASE Unused # {}
  BY <1>1, <1>2, FailedStep DEF CheckUnusedOpts, Fail
<1>3. CASE Unused = {}
  <2>1. stage' = "done"
    BY <1>3 DEF CheckUnusedOpts
  <2>2. OptionsInv'
    BY <1>1, <1>3, <2>1 DEF DispatchIInv, OptionsInv, Own, Unchecked, Named, Reading, Unused
  <2>3. SetInv'
    BY <1>1, <2>1 DEF DispatchIInv, SetInv, Reading, Named, Prepared
  <2>4. ImagesInv'
    BY <1>1, <2>1 DEF DispatchIInv, ImagesInv, Unchecked, Prepared, Reading, CreatesImage
  <2>5. FilesInv'
    BY <1>1, SameFiles DEF Named
  <2> QED
    BY <2>2, <2>3, <2>4, <2>5 DEF DispatchIInv
<1> QED
  BY <1>2, <1>3

LEMMA SameRun ==
    ASSUME DispatchIInv, UNCHANGED vars
    PROVE  DispatchIInv'
<1>1. /\ opts' = opts /\ used' = used /\ stage' = stage /\ images' = images /\ file' = file
      /\ parsed' = parsed /\ todo' = todo /\ targets' = targets
  BY DEF vars
<1>2. OptionsInv'
  BY <1>1 DEF DispatchIInv, OptionsInv, Own, Unused
<1>3. SetInv'
  BY <1>1 DEF DispatchIInv, SetInv
<1>4. ImagesInv'
  BY <1>1 DEF DispatchIInv, ImagesInv, CreatesImage
<1>5. FilesInv'
  BY <1>1 DEF DispatchIInv, FilesInv, AllKeyed, Explicit, FilesFor
<1> QED
  BY <1>2, <1>3, <1>4, <1>5 DEF DispatchIInv

LEMMA DispatchStep ==
    ASSUME DispatchIInv, [Next]_vars
    PROVE  DispatchIInv'
<1>1. ASSUME NEW n \in Names, NEW b \in Blocks, ReadImage(n, b)
      PROVE  DispatchIInv'
  BY <1>1, ReadImageStep
<1>2. ASSUME NEW n \in Names, NEW b \in Blocks, RefuseImage(n, b)
      PROVE  DispatchIInv'
  BY <1>2, FailedStep DEF RefuseImage, Fail
<1>3. CASE RefuseFiles
  BY <1>3, FailedStep DEF RefuseFiles, BadFiles, Fail
<1>4. CASE Ended \/ UNCHANGED vars
  BY <1>4, SameRun DEF Ended
<1> QED
  BY <1>1, <1>2, <1>3, <1>4, OptionSteps, SelectStep, NameStep, OperationStep, ValidateStep,
     PrepareStep, UnusedStep DEF Next

LEMMA DispatchStart ==
    ASSUME Init
    PROVE  DispatchIInv
<1>1. /\ opts \in OptionSets /\ used = {"dispatch"} /\ stage = "options"
      /\ DOMAIN images = {} /\ DOMAIN parsed = {}
  BY DEF Init
<1> QED
  BY <1>1 DEF DispatchIInv, OptionsInv, SetInv, ImagesInv, FilesInv, Reading, Named, Prepared

-----------------------------------------------------------------------------
(* The theorems.                                                            *)

\* What each stage of Dispatch::Execute relies on, established by the stages
\* before it.
THEOREM DispatchInvariant == Spec => []DispatchIInv
<1>1. DispatchIInv /\ [Next]_vars => DispatchIInv'
  BY DispatchStep
<1> QED
  BY <1>1, DispatchStart, PTL DEF Spec

\* A run that succeeds has validated exactly the images asked for, and used
\* every option given; without defaults it changed none of them.
THEOREM SuccessIsReady == Spec => []DoneIsReady
<1>1. DispatchIInv => DoneIsReady
  <2> SUFFICES ASSUME DispatchIInv, stage = "done"
               PROVE  /\ DOMAIN targets = IF opts.selected = {} THEN DOMAIN parsed ELSE opts.selected
                      /\ \A n \in DOMAIN targets :
                             /\ file[n] # NoValue
                             /\ Loaded(images[n], "Format")
                             /\ images[n].deferred = <<>>
                             /\ Validate(images[n], TypeOf) = "valid"
                             /\ CreatesImage \/ images[n] = parsed[n]
                      /\ opts.given \subseteq IF opts.conf THEN {"file", "confenc"}
                             ELSE {"size", "type", "bootmode", "imgprop", "format", "partition"}
    BY DEF DoneIsReady
  <2>1. /\ DOMAIN targets = DOMAIN images
        /\ DOMAIN images = IF opts.selected = {} THEN DOMAIN parsed ELSE opts.selected
    BY DEF DispatchIInv, SetInv, Prepared, Named
  <2>2. \A n \in DOMAIN images : /\ Checked(images[n]) /\ file[n] # NoValue
                                 /\ CreatesImage \/ images[n] = parsed[n]
    BY DEF DispatchIInv, ImagesInv, Prepared
  <2>3. \A n \in DOMAIN images : Validate(images[n], TypeOf) = "valid"
    BY <2>2, CheckedIsValid
  <2>4. /\ opts \in OptionSets /\ used \subseteq {"dispatch", Own} /\ Unused = {}
        /\ {"help", "version", "extra"} \cap opts.given = {}
    BY DEF DispatchIInv, OptionsInv, Named
  <2>5. opts.given \subseteq FrontendSets["frontend_cmd"] \cup FrontendSets["frontend_conf"]
    BY <2>4, DispatchAssumption
  <2>6. \A s \in DOMAIN FrontendSets : s # Own => opts.given \cap FrontendSets[s] = {}
    <3>1. "dispatch" \notin DOMAIN FrontendSets
      BY DEF FrontendSets
    <3> QED
      BY <2>4, <3>1 DEF Unused
  <2>7. opts.given \subseteq FrontendSets[Own]
    BY <2>5, <2>6 DEF FrontendSets, Own
  <2> QED
    BY <2>1, <2>2, <2>3, <2>7 DEF Checked, FrontendSets, Own
<1> QED
  BY <1>1, DispatchInvariant, PTL

\* A run that succeeds writes an image to the file given for it, the last one.
THEOREM GivenFileIsUsed == Spec => []ExplicitFileUsed
<1>1. DispatchIInv => ExplicitFileUsed
  <2> SUFFICES ASSUME DispatchIInv, stage = "done", NEW i \in DOMAIN opts.files
               PROVE  IF opts.files[i].name = Plain
                      THEN \A m \in DOMAIN images : file[m] = opts.files[i].file
                      ELSE (\A j \in DOMAIN opts.files : j > i => opts.files[j].name # opts.files[i].name)
                               => file[opts.files[i].name] = opts.files[i].file
    BY DEF ExplicitFileUsed, InSet
  <2> DEFINE files == opts.files
             n == files[i].name
  <2>1. /\ \A m \in DOMAIN images : Explicit(m) # NoValue => file[m] = Explicit(m)
        /\ IF AllKeyed THEN \A j \in DOMAIN files : files[j].name \in DOMAIN images
           ELSE Len(files) = 1
    BY DEF DispatchIInv, FilesInv, Named
  <2>2. opts \in OptionSets
    BY DEF DispatchIInv, OptionsInv
  <2>3. files \in Seq(ToSet(files)) /\ \A f \in ToSet(files) : f.file # NoValue
    BY <2>2, DispatchAssumption
  <2>4. files[i].file # NoValue
    BY <2>3 DEF ToSet
  <2>5. CASE ~ AllKeyed
    <3>1. i = 1 /\ \A m : Explicit(m) = files[i].file
      <4>1. i = 1
        BY <2>1, <2>3, <2>5
      <4> QED
        BY <2>5, <4>1 DEF Explicit
    <3>2. \E j \in DOMAIN files : files[j].name = Plain
      BY <2>5 DEF AllKeyed
    <3>3. n = Plain
      BY <2>1, <2>3, <2>5, <3>1, <3>2
    <3> QED
      BY <2>1, <2>4, <3>1, <3>3
  <2>6. CASE AllKeyed
    <3>1. n # Plain /\ n \in DOMAIN images
      BY <2>1, <2>6 DEF AllKeyed
    <3>2. ASSUME \A j \in DOMAIN files : j > i => files[j].name # n
          PROVE  Explicit(n) = files[i].file
      <4>1. FilesFor(n) \in SUBSET (1 .. Len(files)) /\ Len(files) \in Nat /\ i \in FilesFor(n)
        BY <2>3 DEF FilesFor
      <4>2. Max(FilesFor(n)) \in FilesFor(n) /\ \A y \in FilesFor(n) : Max(FilesFor(n)) >= y
        BY <4>1, MaxOfSome
      <4>3. Max(FilesFor(n)) = i
        <5> DEFINE k == Max(FilesFor(n))
        <5>1. k \in DOMAIN files /\ files[k].name = n
          BY <4>2 DEF FilesFor
        <5>2. k >= i /\ k \in Nat /\ i \in Nat
          BY <2>3, <4>1, <4>2
        <5> HIDE DEF k
        <5> QED
          BY <3>2, <5>1, <5>2 DEF k
      <4> QED
        BY <2>6, <4>1, <4>3 DEF Explicit
    <3> QED
      BY <2>1, <2>4, <3>1, <3>2
  <2> QED
    BY <2>5, <2>6
<1> QED
  BY <1>1, DispatchInvariant, PTL

=============================================================================

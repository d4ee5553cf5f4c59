---------------------------- MODULE ImageProofs -----------------------------
(***************************************************************************)
(* Proofs about one image and its components (ImageBuild, CompRegistry), and*)
(* about the images and partitions of a run of the program (ImageSet).      *)
(***************************************************************************)
EXTENDS ImageBuild, CompRegistry, ImageSet, ImageFacts, FiniteSetTheorems

-----------------------------------------------------------------------------
(***************************************************************************)
(* One image.  For any settings, however many and in whatever order, none is*)
(* lost, and the order does not decide whether an image can be built.       *)
(***************************************************************************)

(* Soundness.                                                               *)

\* As Sound, for a set of settings.
EitherOf(G, p, default, defaults) ==
    IF Vals(G, p) # {} THEN CHOOSE v \in Vals(G, p) : TRUE
    ELSE IF defaults THEN default ELSE NoValue

FormatOf(G, defaults) == EitherOf(G, "format", "raw", defaults)

LayoutOf(G, defaults) ==
    EitherOf(G, "type", IF FormatOf(G, defaults) = "iso9660" THEN "iso9660" ELSE "gpt", defaults)

EmuOf(G, defaults) == EitherOf(G, "boot_emu", "noemu", defaults)

SoundOf(i, G, defaults) ==
    /\ \A p \in Props : Vals(G, p) \subseteq Known[p]
    /\ LayoutOf(G, defaults) # "iso9660" => \A p \in CompProps : Vals(G, p) = {}
    /\ LayoutOf(G, defaults) = "iso9660" =>
           IF EmuOf(G, defaults) = "noemu" THEN i.bootImage = NoValue
           ELSE /\ i.bootImage \in Vals(G, "boot_image")
                /\ TypeOf[i.bootImage] \in ValidBootImage[EmuOf(G, defaults)]

-----------------------------------------------------------------------------
(* The verdict.                                                             *)

Single(G) == \A x, y \in G : x.prop = y.prop => x = y

LEMMA OneValue ==
    ASSUME NEW G \in SUBSET Settings, Single(G), NEW p, NEW v \in Vals(G, p)
    PROVE  Vals(G, p) = {v} /\ \A default, defaults : EitherOf(G, p, default, defaults) = v
<1>1. PICK x \in G : x.prop = p /\ x.val = v
  BY DEF Vals
<1>2. Vals(G, p) = {v}
  BY <1>1 DEF Vals, Single
<1> QED
  BY <1>2 DEF EitherOf

\* The layout and the format that the settings describe are those of the image.
LEMMA SlotsSound ==
    ASSUME NEW i, NEW G, NEW defaults \in BOOLEAN, Fits(i, G, defaults), Single(G)
    PROVE  LayoutOf(G, defaults) = PartType(i)
<1>1. G \in SUBSET Settings /\ SlotsFrom(i, G, defaults)
  BY DEF Fits
<1>2. FormatOf(G, defaults) = i.comps["Format"]
  <2>1. CASE Vals(G, "format") # {}
    <3>1. i.comps["Format"] \in Vals(G, "format")
      BY <1>1, <2>1, PropTable DEF SlotsFrom
    <3> QED
      BY <1>1, <3>1, OneValue DEF FormatOf
  <2>2. CASE Vals(G, "format") = {}
    <3>1. i.comps["Format"] = IF defaults THEN "raw" ELSE NoValue
      BY <1>1, <2>2, PropTable DEF SlotsFrom, DefaultOf
    <3> QED
      BY <2>2, <3>1 DEF FormatOf, EitherOf
  <2> QED
    BY <2>1, <2>2
<1>3. CASE Vals(G, "type") # {}
  <2>1. i.comps["PartType"] \in Vals(G, "type")
    BY <1>1, <1>3, PropTable DEF SlotsFrom
  <2> QED
    BY <1>1, <2>1, OneValue DEF LayoutOf, PartType
<1>4. CASE Vals(G, "type") = {}
  <2>1. i.comps["PartType"]
           = IF defaults THEN (IF i.comps["Format"] = "iso9660" THEN "iso9660" ELSE "gpt") ELSE NoValue
    BY <1>1, <1>4, PropTable DEF SlotsFrom, DefaultOf
  <2> QED
    BY <1>2, <1>4, <2>1 DEF LayoutOf, EitherOf, PartType
<1> QED
  BY <1>3, <1>4

\* So is the emulation, if no setting of it is deferred.
LEMMA EmuSound ==
    ASSUME NEW i, NEW G, NEW defaults \in BOOLEAN, Fits(i, G, defaults), Single(G),
           ToSet(i.deferred) = {}, PartType(i) = "iso9660"
    PROVE  EmuOf(G, defaults) = i.bootEmu
<1>1. G \in SUBSET Settings /\ EmuFrom(i, G, defaults) /\ KeepsAll(i, G)
  BY DEF Fits
<1>2. CASE Vals(G, "boot_emu") = {}
  BY <1>1, <1>2 DEF EmuFrom, EmuOf, EitherOf
<1>3. CASE Vals(G, "boot_emu") # {}
  <2>1. PICK x \in G : x.prop = "boot_emu"
    BY <1>3 DEF Vals
  <2>2. PICK v \in Vals(G, "boot_emu") : HasProp(i, "boot_emu", v)
    BY <1>1, <2>1 DEF KeepsAll
  <2>3. i.bootEmu \in Vals(G, "boot_emu")
    BY <2>2 DEF HasProp
  <2> QED
    BY <1>1, <2>3, OneValue DEF EmuOf
<1> QED
  BY <1>2, <1>3

LEMMA VerdictSound ==
    ASSUME NEW i, NEW G, NEW defaults \in BOOLEAN, Fits(i, G, defaults), Single(G),
           NEW v, v = IF i.deferred = <<>> THEN Validate(i, TypeOf) ELSE "refused",
           v \in {"valid", "refused"}
    PROVE  v = "valid" <=> SoundOf(i, G, defaults)
<1>1. /\ i \in Images /\ G \in SUBSET Settings /\ Stuck(i) /\ Waits(i, G) /\ KeepsAll(i, G)
      /\ IsoOnly(i) /\ RefsFrom(i, G, defaults)
  BY DEF Fits
<1>2. LayoutOf(G, defaults) = PartType(i)
  BY SlotsSound
<1>3. \A p : NoValue \notin Vals(G, p)
  BY <1>1, NoValueNotGiven
<1> DEFINE d == i.deferred
<1>4. d \in Seq(Settings) /\ i.deferred = d
  BY <1>1 DEF Images
<1> HIDE DEF d
<1>5. CASE d # <<>>
  <2>1. Len(d) \in Nat /\ DOMAIN d = 1 .. Len(d) /\ Len(d) # 0
    BY <1>4, <1>5
  <2>2. 1 \in DOMAIN d
    BY <2>1
  <2> DEFINE s == d[1]
  <2>3. s \in ToSet(i.deferred)
    BY <1>4, <2>2 DEF ToSet
  <2> HIDE DEF s
  <2>4. s \in G /\ s.prop \in CompProps /\ ~ CompTakes(i, s) /\ s.prop \in Props
    BY <1>1, <2>3, PropTable DEF Stuck, Waits
  <2>5. s.val \in Vals(G, s.prop)
    BY <2>4 DEF Vals
  <2>6. ~ SoundOf(i, G, defaults)
    BY <1>2, <2>4, <2>5 DEF SoundOf, CompTakes
  <2> QED
    BY <1>4, <1>5, <2>6
<1>6. CASE d = <<>>
  <2>1. ToSet(i.deferred) = {}
    BY <1>4, <1>6 DEF ToSet
  <2>2. v = Validate(i, TypeOf)
    BY <1>4, <1>6
  <2>3. \A p \in Props : Vals(G, p) \subseteq Known[p]
    BY <1>1, <2>1 DEF KeepsAll, Vals
  <2>4. CASE PartType(i) # "iso9660"
    <3>1. ASSUME NEW p \in CompProps, NEW x \in Vals(G, p)
          PROVE  FALSE
      <4>1. PICK y \in G : y.prop = p
        BY <3>1 DEF Vals
      <4>2. PICK w \in Vals(G, p) : HasProp(i, p, w)
        BY <1>1, <2>1, <4>1 DEF KeepsAll
      <4>3. i.bootEmu = w \/ w \in ToSet(i.refs)
        BY <4>2, PropTable DEF HasProp
      <4> QED
        BY <1>1, <1>3, <2>4, <4>3 DEF IsoOnly
    <3>2. v = "valid"
      BY <2>2, <2>4 DEF Validate
    <3>3. SoundOf(i, G, defaults)
      BY <1>2, <2>3, <2>4, <3>1 DEF SoundOf
    <3> QED
      BY <3>2, <3>3
  <2>5. CASE PartType(i) = "iso9660"
    <3>1. EmuOf(G, defaults) = i.bootEmu
      BY <2>1, <2>5, EmuSound
    <3>2. i.bootEmu # NoValue
      BY <2>2, <2>5 DEF Validate, Aborts
    <3>3. v = "valid" <=> ValidIso(i, TypeOf)
      BY <2>2, <2>5, <3>2 DEF Validate, Aborts
    <3>4. SoundOf(i, G, defaults) <=>
             IF i.bootEmu = "noemu" THEN i.bootImage = NoValue
             ELSE /\ i.bootImage \in Vals(G, "boot_image")
                  /\ TypeOf[i.bootImage] \in ValidBootImage[i.bootEmu]
      BY <1>2, <2>3, <2>5, <3>1 DEF SoundOf
    <3>5. i.bootEmu \in BootEmus
      BY <1>1, <3>2 DEF Images
    <3>6. DOMAIN ValidBootImage = {"hdd", "fdd"}
      BY DEF ValidBootImage
    <3>7. i.bootImage \in Vals(G, "boot_image") <=> i.bootImage # NoValue
      BY <1>1, <1>3 DEF RefsFrom
    <3>8. i.bootEmu \in DOMAIN ValidBootImage <=> i.bootEmu # "noemu"
      BY <3>5, <3>6 DEF BootEmus
    <3> QED
      BY <3>3, <3>4, <3>7, <3>8 DEF ValidIso
  <2> QED
    BY <2>4, <2>5
<1> QED
  BY <1>5, <1>6

\* A setting that is refused makes the settings unsound.
LEMMA RefusedUnsound ==
    ASSUME NEW i, NEW G, Fits(i, G, FALSE), NEW s \in Settings, Set(i, s) = {},
           Single(G \cup {s}), s \notin G
    PROVE  ~ SoundOf(i, G \cup {s}, FALSE)
<1> DEFINE H == G \cup {s}
<1>1. G \in SUBSET Settings /\ H \in SUBSET Settings /\ i \in Images /\ SlotsFrom(i, G, FALSE)
  BY DEF Fits
<1>2. /\ \A p : Vals(H, p) = Vals(G, p) \cup IF s.prop = p THEN {s.val} ELSE {}
      /\ s.val \in Vals(H, s.prop) /\ s.prop \in Props
  BY OneMoreVal, SettingShape
<1>3. Single(H)
  OBVIOUS
<1>4. Vals(G, s.prop) = {}
  BY DEF Single, Vals
<1> HIDE DEF H
<1>5. ~ Defers(i, s)
  <2> SUFFICES ASSUME Defers(i, s)
               PROVE  FALSE
    OBVIOUS
  <2> DEFINE d == i.deferred
  <2>1. d \in Seq(Settings)
    BY <1>1 DEF Images
  <2>2. 1 \in 1 .. Len(d) + 1
    BY <2>1
  <2>3. Defer(i, s) # {}
    BY <2>2 DEF Defer
  <2> QED
    BY <2>3 DEF Set
<1>6. ~ Takes(i, s)
  BY <1>5 DEF Set
<1>7. CASE s.val \notin Known[s.prop]
  BY <1>2, <1>7 DEF SoundOf, H
<1>8. CASE s.val \in Known[s.prop] /\ s.prop \in CompProps /\ ~ CompTakes(i, s)
  <2>1. PartType(i) # "iso9660" /\ PartType(i) # NoValue
    BY <1>5, <1>8 DEF CompTakes, Defers, Loaded, PartType
  <2>2. PartType(i) \in Vals(G, "type")
    BY <1>1, <2>1, PropTable DEF SlotsFrom, PartType
  <2>3. LayoutOf(H, FALSE) = PartType(i)
    <3>1. PartType(i) \in Vals(H, "type")
      BY <1>2, <2>2
    <3>2. \A default, defaults : EitherOf(H, "type", default, defaults) = PartType(i)
      BY <1>1, <1>3, <3>1, OneValue
    <3> QED
      BY <3>2 DEF LayoutOf
  <2> QED
    BY <1>2, <1>8, <2>1, <2>3 DEF SoundOf, H
<1>9. CASE s.prop \in DOMAIN SlotOf /\ Loaded(i, SlotOf[s.prop])
  BY <1>1, <1>4, <1>9 DEF SlotsFrom, Loaded
<1> QED
  BY <1>6, <1>7, <1>8, <1>9 DEF Takes

-----------------------------------------------------------------------------
(* The inductive invariant.                                                 *)

BuildTypes ==
    /\ given \in Seq(Settings)
    /\ phase \in {"parsing", "parsed", "ready", "final", "dropped"}
    /\ defaulted \in BOOLEAN
    /\ verdict \in {NoValue, "valid", "refused", "aborted"}
    /\ phase \notin {"ready", "final"} => ~ defaulted
    /\ phase \notin {"final", "dropped"} => verdict = NoValue

BuildIInv ==
    /\ BuildTypes
    /\ Stuck(img)
    /\ phase # "dropped" => Fits(img, ToSet(given), defaulted)
    /\ DefaultsPreventAbort
    /\ VerdictOrderFree

-----------------------------------------------------------------------------
(* The actions.                                                             *)

\* The settings given, as a set.
LEMMA GivenVals ==
    ASSUME NEW g \in Seq(Settings)
    PROVE  \A p : {g[i].val : i \in {j \in DOMAIN g : g[j].prop = p}} = Vals(ToSet(g), p)
BY DEF ToSet, Vals

LEMMA SoundIs ==
    ASSUME given' \in Seq(Settings)
    PROVE  Sound' <=> SoundOf(img', ToSet(given'), defaulted')
<1> DEFINE G == ToSet(given')
<1>1. \A p : {given'[i].val : i \in {j \in DOMAIN given' : given'[j].prop = p}} = Vals(G, p)
  BY GivenVals
<1> HIDE DEF G
<1>3. Either("format", "raw")' = FormatOf(G, defaulted')
  BY <1>1 DEF FormatOf, Either, EitherOf, Given
<1>4. Either("type", IF Either("format", "raw") = "iso9660" THEN "iso9660" ELSE "gpt")'
         = LayoutOf(G, defaulted')
  BY <1>1, <1>3 DEF LayoutOf, Either, EitherOf, Given
<1>5. Either("boot_emu", "noemu")' = EmuOf(G, defaulted')
  BY <1>1 DEF EmuOf, Either, EitherOf, Given
<1> QED
  BY <1>1, <1>3, <1>4, <1>5 DEF Sound, SoundOf, Given, G

LEMMA GivesMore ==
    ASSUME BuildIInv, NEW s \in Settings, given' = Append(given, s)
    PROVE  given' \in Seq(Settings) /\ ToSet(given') = ToSet(given) \cup {s}
BY AppendSetting DEF BuildIInv, BuildTypes

LEMMA GivenFits ==
    ASSUME BuildIInv, NEW s \in Settings, GiveProp(s)
    PROVE  /\ BuildIInv'
           /\ \A slot \in Slots : Loaded(img, slot) => img'.comps[slot] = img.comps[slot]
<1> DEFINE G == ToSet(given)
<1>1. /\ BuildTypes /\ phase = "parsing" /\ defaulted = FALSE /\ verdict = NoValue
      /\ Fits(img, G, FALSE)
  BY DEF BuildIInv, BuildTypes, GiveProp, MayGive
<1>2. given' \in Seq(Settings) /\ ToSet(given') = G \cup {s}
  BY GivesMore DEF GiveProp
<1>3. phase' = phase /\ defaulted' = defaulted /\ verdict' = verdict
  BY DEF GiveProp
<1>4. img' \in Set(img, s)
  BY DEF GiveProp
<1> HIDE DEF G
<1>5. /\ Fits(img', G \cup {s}, FALSE)
      /\ \A slot \in Slots : Loaded(img, slot) => img'.comps[slot] = img.comps[slot]
  <2>1. Fits(img, G, FALSE)
    BY <1>1
  <2>2. \A r \in Set(img, s) :
            /\ Fits(r, G \cup {s}, FALSE)
            /\ \A slot \in Slots : Loaded(img, slot) => r.comps[slot] = img.comps[slot]
    BY <2>1, SetFits
  <2> QED
    BY <1>4, <2>2
<1>6. BuildTypes'
  BY <1>1, <1>2, <1>3 DEF BuildTypes
<1>7. DefaultsPreventAbort' /\ VerdictOrderFree'
  BY <1>1, <1>3, BuildAssumption DEF DefaultsPreventAbort, VerdictOrderFree
<1>8. Stuck(img')
  BY <1>5 DEF Fits
<1> QED
  BY <1>1, <1>2, <1>3, <1>5, <1>6, <1>7, <1>8 DEF BuildIInv

LEMMA RefusedFits ==
    ASSUME BuildIInv, NEW s \in Settings, RefuseProp(s)
    PROVE  BuildIInv' /\ img' = img
<1> DEFINE G == ToSet(given)
           n == Len(given)
<1>1. /\ BuildTypes /\ phase = "parsing" /\ defaulted = FALSE /\ verdict = NoValue
      /\ Fits(img, G, FALSE) /\ given \in Seq(Settings)
  BY DEF BuildIInv, BuildTypes, RefuseProp, MayGive
<1>2. given' \in Seq(Settings) /\ ToSet(given') = G \cup {s}
  BY GivesMore DEF RefuseProp
<1>3. /\ phase' = "dropped" /\ defaulted' = defaulted /\ verdict' = "refused" /\ img' = img
      /\ Set(img, s) = {} /\ given' = Append(given, s)
  BY DEF RefuseProp
<1>4. BuildTypes'
  BY <1>1, <1>2, <1>3 DEF BuildTypes
<1>5. Stuck(img') /\ DefaultsPreventAbort'
  BY <1>3 DEF BuildIInv, DefaultsPreventAbort
<1>6. ASSUME \A i, j \in DOMAIN given' : given'[i].prop = given'[j].prop => i = j
      PROVE  ~ Sound'
  <2>1. Single(ToSet(given'))
    BY <1>6 DEF Single, ToSet
  <2>2. /\ n \in Nat /\ DOMAIN given = 1 .. n /\ DOMAIN given' = 1 .. n + 1
        /\ given'[n + 1] = s /\ \A k \in 1 .. n : given'[k] = given[k]
    BY <1>1, <1>3
  <2>3. s \notin G
    <3> SUFFICES ASSUME NEW k \in 1 .. n, given[k] = s
                 PROVE  FALSE
      BY <2>2 DEF ToSet
    <3>1. k \in 1 .. n + 1 /\ n + 1 \in 1 .. n + 1 /\ k # n + 1
      BY <2>2
    <3>2. given'[k] = given'[n + 1]
      BY <2>2
    <3> QED
      BY <1>6, <2>2, <3>1, <3>2
  <2> HIDE DEF G, n
  <2>4. ~ SoundOf(img, G \cup {s}, FALSE)
    BY <1>1, <1>2, <1>3, <2>1, <2>3, RefusedUnsound
  <2> QED
    BY <1>1, <1>2, <1>3, <2>4, SoundIs
<1>7. VerdictOrderFree'
  BY <1>3, <1>6, BuildAssumption DEF VerdictOrderFree
<1> QED
  BY <1>3, <1>4, <1>5, <1>7 DEF BuildIInv

LEMMA FinalFits ==
    ASSUME BuildIInv, DoFinalize
    PROVE  BuildIInv' /\ img'.comps = img.comps
<1> DEFINE G == ToSet(given)
<1>1. /\ BuildTypes /\ Fits(img, G, defaulted) /\ given \in Seq(Settings)
      /\ defaulted \in BOOLEAN
  BY DEF BuildIInv, BuildTypes, DoFinalize
<1>2. /\ phase' = "final" /\ defaulted' = defaulted /\ given' = given
      /\ img' = ResolveAllDeferred(img) /\ verdict' = Finalize(img, TypeOf)
  BY DEF DoFinalize
<1> DEFINE i == img'
<1>3. Fits(i, G, defaulted) /\ i.comps = img.comps
  BY <1>1, <1>2, ReplayFits
<1>4. verdict' = IF i.deferred = <<>> THEN Validate(i, TypeOf) ELSE "refused"
  BY <1>2 DEF Finalize
<1>5. verdict' \in {"valid", "refused", "aborted"}
  BY <1>4 DEF Validate
<1>6. BuildTypes'
  BY <1>1, <1>2, <1>5 DEF BuildTypes
<1>7. DefaultsPreventAbort'
  <2> SUFFICES ASSUME defaulted
               PROVE  verdict' # "aborted"
    BY <1>2 DEF DefaultsPreventAbort
  <2>1. EmuFrom(i, G, TRUE)
    BY <1>1, <1>3 DEF Fits
  <2>2. ~ Aborts(i)
    BY <2>1 DEF EmuFrom, Aborts
  <2> QED
    BY <1>4, <2>2 DEF Validate
<1>8. ASSUME \A k, j \in DOMAIN given' : given'[k].prop = given'[j].prop => k = j,
             verdict' \in {"valid", "refused"}
      PROVE  verdict' = "valid" <=> Sound'
  <2>1. Single(G)
    BY <1>2, <1>8 DEF Single, ToSet
  <2> HIDE DEF G
  <2>2. verdict' = "valid" <=> SoundOf(i, G, defaulted)
    BY <1>1, <1>3, <1>4, <1>8, <2>1, VerdictSound
  <2> QED
    BY <1>1, <1>2, <2>2, SoundIs DEF G
<1>9. VerdictOrderFree'
  BY <1>8 DEF VerdictOrderFree
<1> QED
  BY <1>2, <1>3, <1>6, <1>7, <1>9 DEF BuildIInv, Fits

\* What is done between the last setting and the verdict.
LEMMA BetweenFits ==
    ASSUME BuildIInv, EndBuild \/ ResolveRefs \/ ApplyDefaults \/ SkipDefaults
    PROVE  /\ BuildIInv'
           /\ \A slot \in Slots : Loaded(img, slot) => img'.comps[slot] = img.comps[slot]
<1> DEFINE G == ToSet(given)
<1>1. /\ BuildTypes /\ Fits(img, G, FALSE) /\ defaulted = FALSE /\ verdict = NoValue
  BY DEF BuildIInv, BuildTypes, EndBuild, ResolveRefs, ApplyDefaults, SkipDefaults
<1>2. given' = given /\ verdict' = verdict /\ phase' \in {"parsed", "ready"}
  BY DEF EndBuild, ResolveRefs, ApplyDefaults, SkipDefaults, BuildIInv, BuildTypes
<1>3. defaulted' \in BOOLEAN /\ (defaulted' => phase' = "ready")
  BY <1>1 DEF EndBuild, ResolveRefs, ApplyDefaults, SkipDefaults
<1>4. /\ Fits(img', G, defaulted')
      /\ \A slot \in Slots : Loaded(img, slot) => img'.comps[slot] = img.comps[slot]
  <2> HIDE DEF G
  <2>1. CASE EndBuild
    <3>1. defaulted' = FALSE
      BY <1>1, <2>1 DEF EndBuild
    <3>2. CASE img' = img
      BY <1>1, <3>1, <3>2
    <3>3. CASE img' = ResolveAllDeferred(img)
      BY <1>1, <3>1, <3>3, ReplayFits
    <3> QED
      BY <2>1, <3>2, <3>3 DEF EndBuild
  <2>2. CASE ResolveRefs
    <3>1. defaulted' = FALSE /\ img.refs # <<>> /\ img' = [img EXCEPT !.bootImage = Last(img.refs)]
      BY <1>1, <2>2 DEF ResolveRefs
    <3> QED
      BY <1>1, <3>1, ReferenceFits
  <2>3. CASE ApplyDefaults
    <3>1. defaulted' = TRUE /\ img' = SetDefaults(img)
      BY <2>3 DEF ApplyDefaults
    <3> QED
      BY <1>1, <3>1, DefaultsFit
  <2>4. CASE SkipDefaults
    BY <1>1, <2>4 DEF SkipDefaults
  <2> QED
    BY <2>1, <2>2, <2>3, <2>4
<1>5. BuildTypes'
  BY <1>1, <1>2, <1>3 DEF BuildTypes
<1>6. DefaultsPreventAbort' /\ VerdictOrderFree'
  BY <1>1, <1>2, BuildAssumption DEF DefaultsPreventAbort, VerdictOrderFree
<1>7. Stuck(img')
  BY <1>4 DEF Fits
<1> QED
  BY <1>2, <1>4, <1>5, <1>6, <1>7 DEF BuildIInv

LEMMA SameBuild ==
    ASSUME BuildIInv, UNCHANGED buildVars
    PROVE  BuildIInv' /\ img' = img
<1>1. /\ img' = img /\ given' = given /\ phase' = phase /\ defaulted' = defaulted
      /\ verdict' = verdict
  BY DEF buildVars
<1>2. BuildTypes' /\ DefaultsPreventAbort'
  BY <1>1 DEF BuildIInv, BuildTypes, DefaultsPreventAbort
<1>3. Sound' <=> Sound
  BY <1>1 DEF Sound, Either, Given
<1>4. VerdictOrderFree'
  BY <1>1, <1>3 DEF BuildIInv, VerdictOrderFree
<1> QED
  BY <1>1, <1>2, <1>4 DEF BuildIInv

LEMMA BuildStep ==
    ASSUME BuildIInv, [BuildNext]_buildVars
    PROVE  /\ BuildIInv'
           /\ \A slot \in Slots : Loaded(img, slot) => img'.comps[slot] = img.comps[slot]
<1>1. ASSUME NEW s \in Settings, GiveProp(s) \/ RefuseProp(s)
      PROVE  /\ BuildIInv'
             /\ \A slot \in Slots : Loaded(img, slot) => img'.comps[slot] = img.comps[slot]
  BY <1>1, GivenFits, RefusedFits
<1>2. CASE EndBuild \/ ResolveRefs \/ ApplyDefaults \/ SkipDefaults
  BY <1>2, BetweenFits
<1>3. CASE DoFinalize
  BY <1>3, FinalFits
<1>4. CASE Ended \/ UNCHANGED buildVars
  BY <1>4, SameBuild DEF Ended
<1> QED
  BY <1>1, <1>2, <1>3, <1>4 DEF BuildNext

LEMMA BuildStart ==
    ASSUME BuildInit
    PROVE  BuildIInv
<1>1. /\ img = NewImage /\ given = <<>> /\ phase = "parsing" /\ defaulted = FALSE
      /\ verdict = NoValue
  BY DEF BuildInit
<1>2. ToSet(<<>>) = {} /\ <<>> \in Seq(Settings)
  BY DEF ToSet
<1>3. BuildTypes
  BY <1>1, <1>2 DEF BuildTypes
<1>4. DefaultsPreventAbort /\ VerdictOrderFree
  BY <1>1, BuildAssumption DEF DefaultsPreventAbort, VerdictOrderFree
<1>5. Fits(img, ToSet(given), defaulted) /\ Stuck(img)
  BY <1>1, <1>2, FirstFits DEF Fits
<1> QED
  BY <1>3, <1>4, <1>5 DEF BuildIInv

-----------------------------------------------------------------------------
(* The theorems.                                                            *)

\* At any point of its life the image is what the settings it accepted, as a
\* set, make of it (BuildIInv): Image::Set, Image::SetDefaults,
\* ImgComponent's setters and the replay of what was deferred.
THEOREM BuildInvariant == BuildSpec => []BuildIInv
<1>1. BuildIInv /\ [BuildNext]_buildVars => BuildIInv'
  BY BuildStep
<1> QED
  BY <1>1, BuildStart, PTL DEF BuildSpec

\* No setting that Image::Set accepted gets lost, and no default of
\* Image::SetDefaults takes its place.
THEOREM SettingsStay == BuildSpec => []NothingLost
<1>1. BuildIInv => NothingLost
  <2> SUFFICES ASSUME BuildIInv, phase # "dropped", NEW k \in DOMAIN given
               PROVE  \/ given[k] \in ToSet(img.deferred)
                      \/ \E v \in Given(given[k].prop) : InForce([given[k] EXCEPT !.val = v])
    BY DEF NothingLost
  <2> DEFINE s == given[k]
  <2>1. given \in Seq(Settings) /\ s \in ToSet(given) /\ KeepsAll(img, ToSet(given))
    BY DEF BuildIInv, BuildTypes, Fits, ToSet
  <2>2. s \in Settings
    BY <2>1
  <2>3. s.prop \in Props /\ s = [prop |-> s.prop, val |-> s.val]
    BY <2>2, SettingShape
  <2>4. Given(s.prop) = Vals(ToSet(given), s.prop)
    BY <2>1, GivenVals DEF Given
  <2>5. s \in ToSet(img.deferred) \/ \E v \in Given(s.prop) : HasProp(img, s.prop, v)
    BY <2>1, <2>4 DEF KeepsAll
  <2> HIDE DEF s
  <2>6. ASSUME NEW v, HasProp(img, s.prop, v)
        PROVE  InForce([s EXCEPT !.val = v])
    <3> DEFINE x == [s EXCEPT !.val = v]
    <3>1. x.prop = s.prop /\ x.val = v
      BY <2>3
    <3> HIDE DEF x
    <3>2. InForce(x)
      BY <2>3, <2>6, <3>1, PropTable DEF HasProp, InForce
    <3> QED
      BY <3>2 DEF x
  <2> QED
    BY <2>5, <2>6 DEF s
<1> QED
  BY <1>1, BuildInvariant, PTL

\* ResolveAllDeferred leaves nothing behind that the loaded component takes.
THEOREM NothingWaitsInVain == BuildSpec => []DeferredIsStuck
<1>1. BuildIInv => DeferredIsStuck
  BY DEF BuildIInv, Stuck, DeferredIsStuck, ToSet
<1> QED
  BY <1>1, BuildInvariant, PTL

\* The assertion of IsoPartComp::Validate holds for an image whose defaults
\* were set.
THEOREM DefaultsSuffice == BuildSpec => []DefaultsPreventAbort
<1>1. BuildIInv => DefaultsPreventAbort
  BY DEF BuildIInv
<1> QED
  BY <1>1, BuildInvariant, PTL

\* The order in which a front end's hash table yields the settings does not
\* decide whether Image::Set and Image::Finalize accept the image.
THEOREM OrderIsFree == BuildSpec => []VerdictOrderFree
<1>1. BuildIInv => VerdictOrderFree
  BY DEF BuildIInv
<1> QED
  BY <1>1, BuildInvariant, PTL

\* Image::AddComponent never replaces a component.
THEOREM SlotsStay == BuildSpec => SlotsKeep
<1>1. BuildIInv /\ [BuildNext]_buildVars
         => [\A s \in Slots : Loaded(img, s) => img'.comps[s] = img.comps[s]]_buildVars
  BY BuildStep
<1> QED
  BY <1>1, BuildInvariant, PTL DEF BuildSpec, SlotsKeep

-----------------------------------------------------------------------------
(***************************************************************************)
(* The properties of a component.  For any number of threads, properties and*)
(* gets, a get that meets no other one, and every get that begins after the *)
(* first, is right, although the merge itself is not protected.             *)
(***************************************************************************)

Places == {"idle", "lock", "main", "sub", "find"}

RegTypeOK ==
    /\ merged \in SUBSET Whole
    /\ regLock \in Readers \cup {NoReader}
    /\ at \in [Readers -> Places]
    /\ want \in [Readers -> Whole \cup OtherProps \cup {NoGet}]
    /\ left \in [Readers -> SUBSET Whole]
    /\ answer \in [Readers -> {"none", "found", "missing", "thrown"}]
    /\ gets \in Int
    /\ warm \in BOOLEAN
    /\ sole \in SUBSET Readers

\* The lock is held exactly by the thread that merges.
LockHeld == \A t \in Readers : at[t] \in {"main", "sub"} <=> regLock = t

\* Only the first merge finds anything missing: what it has not yet inserted.
\* Every later one works on a table that is whole.
FirstMerge ==
    \A t \in Readers :
        /\ at[t] = "main" => left[t] \subseteq MainProps /\ merged \in {Whole, MainProps \ left[t]}
        /\ at[t] = "sub"  => merged \in {Whole, Whole \ left[t]}

\* A free lock leaves the table as it was in the beginning, or whole.
FreeIsWhole == regLock = NoReader => merged \in {{}, Whole}

\* A thread looks a property up once the table is whole, or too early, beside
\* the first merge.
FindIsWhole == \A t \in Readers : at[t] = "find" => merged = Whole \/ regLock # NoReader

WarmIsWhole == warm => merged = Whole

\* While the first get is on its way a thread is sole because it is alone.
SoleIsAlone == ~ warm => \A t \in sole : at[t] # "idle" => Busy = {t}

\* What a sole thread finds at each place.
SoleProgress ==
    \A t \in sole :
        /\ at[t] = "lock" => merged = {}
        /\ at[t] = "main" => merged = MainProps \ left[t]
        /\ at[t] = "sub"  => merged = Whole \ left[t]
        /\ at[t] = "find" => merged = Whole
        /\ at[t] # "idle" => answer[t] = NoGet

RegIInv ==
    /\ RegTypeOK
    /\ LockHeld /\ FirstMerge /\ FreeIsWhole /\ FindIsWhole
    /\ WarmIsWhole /\ SoleIsAlone /\ SoleProgress
    /\ SoleReaderFinds

-----------------------------------------------------------------------------
(* The invariant holds at first, and each step of a get keeps it.           *)
LEMMA RegInitInv == RegInit => RegIInv
<1> SUFFICES ASSUME RegInit PROVE RegIInv
    OBVIOUS
<1>1. RegTypeOK
  <2>1. warm \in BOOLEAN
      BY Zenon DEF RegInit
  <2> QED BY <2>1 DEF RegInit, RegTypeOK, Places, NoGet
<1>2. LockHeld /\ FirstMerge
    BY RegistryAssumption DEF RegInit, LockHeld, FirstMerge
<1>3. FreeIsWhole /\ FindIsWhole /\ WarmIsWhole
    BY DEF RegInit, FreeIsWhole, FindIsWhole, WarmIsWhole
<1>4. SoleIsAlone /\ SoleProgress /\ SoleReaderFinds
    BY DEF RegInit, SoleIsAlone, SoleProgress, SoleReaderFinds, AnsweredRight
<1> QED BY <1>1, <1>2, <1>3, <1>4 DEF RegIInv

LEMMA RegIInvBegin ==
    ASSUME NEW t \in Readers, NEW p \in Whole \cup OtherProps, RegIInv, Begin(t, p)
    PROVE  RegIInv'
<1>1. RegTypeOK'
    BY DEF Begin, RegIInv, RegTypeOK, Places, NoGet, Goto
<1>2. LockHeld'
    BY DEF Begin, RegIInv, LockHeld, Goto
<1>3. FirstMerge'
    BY DEF Begin, RegIInv, FirstMerge, Goto
<1>4. FreeIsWhole'
    BY DEF Begin, RegIInv, FreeIsWhole
<1>5. FindIsWhole'
    BY DEF Begin, RegIInv, RegTypeOK, FreeIsWhole, FindIsWhole, Filling, Goto, Places
<1>6. WarmIsWhole'
    BY DEF Begin, RegIInv, WarmIsWhole
<1>7. SoleIsAlone'
    BY DEF Begin, SoleIsAlone, Goto, Busy
<1>8. SoleProgress'
  <2>1. ASSUME ~ Filling
        PROVE  at' = [at EXCEPT ![t] = IF merged = {} THEN "lock" ELSE "find"]
      BY <2>1 DEF Begin, Goto
  <2>2. merged' = merged /\ left' = left /\ answer' = [answer EXCEPT ![t] = NoGet]
      BY DEF Begin
  <2>3. CASE warm
    <3>1. merged = Whole /\ ~ Filling
        BY <2>3 DEF RegIInv, WarmIsWhole, Filling
    <3>2. sole' = sole \cup {t}
        BY <2>3 DEF Begin
    <3> QED BY <2>1, <2>2, <3>1, <3>2 DEF RegIInv, RegTypeOK, SoleProgress
  <2>4. CASE ~ warm /\ Busy = {}
    <3>1. regLock = NoReader
        BY <2>4 DEF RegIInv, RegTypeOK, LockHeld, Busy
    <3>2. merged \in {{}, Whole} /\ ~ Filling
        BY <3>1 DEF RegIInv, FreeIsWhole, Filling
    <3>3. sole' = {t}
        BY <2>4 DEF Begin
    <3> QED BY <2>1, <2>2, <3>2, <3>3 DEF RegIInv, RegTypeOK, SoleProgress
  <2>5. CASE ~ warm /\ Busy # {}
      BY <2>5 DEF Begin, SoleProgress
  <2> QED BY <2>3, <2>4, <2>5
<1>9. SoleReaderFinds'
    BY DEF Begin, RegIInv, RegTypeOK, SoleReaderFinds, AnsweredRight
<1> QED BY <1>1, <1>2, <1>3, <1>4, <1>5, <1>6, <1>7, <1>8, <1>9 DEF RegIInv

LEMMA RegIInvTakeLock ==
    ASSUME NEW t \in Readers, RegIInv, TakeLock(t)
    PROVE  RegIInv'
<1>1. RegTypeOK'
    BY DEF TakeLock, RegIInv, RegTypeOK, Places, Whole, Goto
<1>2. LockHeld'
    BY RegistryAssumption DEF TakeLock, RegIInv, RegTypeOK, LockHeld, Goto
<1>3. FirstMerge'
    BY DEF TakeLock, RegIInv, RegTypeOK, FirstMerge, FreeIsWhole, Goto
<1>4. FreeIsWhole'
    BY DEF TakeLock, RegIInv, FreeIsWhole
<1>5. FindIsWhole'
    BY DEF TakeLock, RegIInv, FindIsWhole, Goto
<1>6. WarmIsWhole'
    BY DEF TakeLock, RegIInv, WarmIsWhole
<1>7. SoleIsAlone'
    BY DEF TakeLock, RegIInv, SoleIsAlone, Goto, Busy
<1>8. SoleProgress'
    BY DEF TakeLock, RegIInv, RegTypeOK, SoleProgress, Goto
<1>9. SoleReaderFinds'
    BY DEF TakeLock, RegIInv, SoleReaderFinds, AnsweredRight
<1> QED BY <1>1, <1>2, <1>3, <1>4, <1>5, <1>6, <1>7, <1>8, <1>9 DEF RegIInv

LEMMA RegIInvInsertMain ==
    ASSUME NEW t \in Readers, NEW p \in Whole, RegIInv, InsertMain(t, p)
    PROVE  RegIInv'
<1>1. RegTypeOK'
    BY DEF InsertMain, RegIInv, RegTypeOK
<1>2. LockHeld'
    BY DEF InsertMain, RegIInv, LockHeld
<1>3. FirstMerge'
    BY DEF InsertMain, RegIInv, RegTypeOK, LockHeld, FirstMerge
<1>4. FreeIsWhole'
    BY RegistryAssumption DEF InsertMain, RegIInv, LockHeld, FreeIsWhole
<1>5. FindIsWhole'
    BY DEF InsertMain, RegIInv, FindIsWhole
<1>6. WarmIsWhole'
    BY DEF InsertMain, RegIInv, WarmIsWhole
<1>7. SoleIsAlone'
    BY DEF InsertMain, RegIInv, SoleIsAlone, Busy
<1>8. SoleProgress'
    BY DEF InsertMain, RegIInv, RegTypeOK, FirstMerge, WarmIsWhole, SoleIsAlone, SoleProgress, Busy
<1>9. SoleReaderFinds'
    BY DEF InsertMain, RegIInv, SoleReaderFinds, AnsweredRight
<1> QED BY <1>1, <1>2, <1>3, <1>4, <1>5, <1>6, <1>7, <1>8, <1>9 DEF RegIInv

LEMMA RegIInvTurnToSub ==
    ASSUME NEW t \in Readers, RegIInv, TurnToSub(t)
    PROVE  RegIInv'
<1>1. RegTypeOK'
    BY DEF TurnToSub, RegIInv, RegTypeOK, Places, Whole, Goto
<1>2. LockHeld'
    BY DEF TurnToSub, RegIInv, LockHeld, Goto
<1>3. FirstMerge'
    BY RegistryAssumption DEF TurnToSub, RegIInv, RegTypeOK, FirstMerge, Whole, Goto
<1>4. FreeIsWhole'
    BY DEF TurnToSub, RegIInv, FreeIsWhole
<1>5. FindIsWhole'
    BY DEF TurnToSub, RegIInv, FindIsWhole, Goto
<1>6. WarmIsWhole'
    BY DEF TurnToSub, RegIInv, WarmIsWhole
<1>7. SoleIsAlone'
    BY DEF TurnToSub, RegIInv, SoleIsAlone, Goto, Busy
<1>8. SoleProgress'
    BY RegistryAssumption DEF TurnToSub, RegIInv, RegTypeOK, SoleProgress, Whole, Goto
<1>9. SoleReaderFinds'
    BY DEF TurnToSub, RegIInv, SoleReaderFinds, AnsweredRight
<1> QED BY <1>1, <1>2, <1>3, <1>4, <1>5, <1>6, <1>7, <1>8, <1>9 DEF RegIInv

LEMMA RegIInvInsertSub ==
    ASSUME NEW t \in Readers, NEW p \in Whole, RegIInv, InsertSub(t, p)
    PROVE  RegIInv'
<1>1. RegTypeOK'
    BY DEF InsertSub, RegIInv, RegTypeOK
<1>2. LockHeld'
    BY DEF InsertSub, RegIInv, LockHeld
<1>3. FirstMerge'
    BY DEF InsertSub, RegIInv, RegTypeOK, LockHeld, FirstMerge
<1>4. FreeIsWhole'
    BY RegistryAssumption DEF InsertSub, RegIInv, LockHeld, FreeIsWhole
<1>5. FindIsWhole'
    BY DEF InsertSub, RegIInv, FindIsWhole
<1>6. WarmIsWhole'
    BY DEF InsertSub, RegIInv, WarmIsWhole
<1>7. SoleIsAlone'
    BY DEF InsertSub, RegIInv, SoleIsAlone, Busy
<1>8. SoleProgress'
    BY DEF InsertSub, RegIInv, RegTypeOK, WarmIsWhole, SoleIsAlone, SoleProgress, Busy
<1>9. SoleReaderFinds'
    BY DEF InsertSub, RegIInv, SoleReaderFinds, AnsweredRight
<1> QED BY <1>1, <1>2, <1>3, <1>4, <1>5, <1>6, <1>7, <1>8, <1>9 DEF RegIInv

LEMMA RegIInvUnlock ==
    ASSUME NEW t \in Readers, RegIInv, Unlock(t)
    PROVE  RegIInv'
<1>1. RegTypeOK'
    BY DEF Unlock, RegIInv, RegTypeOK, Places, Goto
<1>2. LockHeld'
    BY RegistryAssumption DEF Unlock, RegIInv, RegTypeOK, LockHeld, Goto
<1>3. FirstMerge'
    BY DEF Unlock, RegIInv, FirstMerge, Goto
<1>4. FreeIsWhole'
    BY DEF Unlock, RegIInv, FirstMerge, FreeIsWhole
<1>5. FindIsWhole'
    BY DEF Unlock, RegIInv, FirstMerge, FindIsWhole
<1>6. WarmIsWhole'
    BY DEF Unlock, RegIInv, WarmIsWhole
<1>7. SoleIsAlone'
    BY DEF Unlock, RegIInv, SoleIsAlone, Goto, Busy
<1>8. SoleProgress'
    BY DEF Unlock, RegIInv, SoleProgress, Goto
<1>9. SoleReaderFinds'
    BY DEF Unlock, RegIInv, SoleReaderFinds, AnsweredRight
<1> QED BY <1>1, <1>2, <1>3, <1>4, <1>5, <1>6, <1>7, <1>8, <1>9 DEF RegIInv

LEMMA RegIInvThrow ==
    ASSUME NEW t \in Readers, RegIInv, Throw(t)
    PROVE  RegIInv'
<1>1. RegTypeOK'
    BY DEF Throw, RegIInv, RegTypeOK, Places, Goto, End
<1>2. LockHeld'
    BY RegistryAssumption DEF Throw, RegIInv, RegTypeOK, LockHeld, Goto, End
<1>3. FirstMerge'
    BY DEF Throw, RegIInv, FirstMerge, Goto, End
<1>4. FreeIsWhole'
    BY DEF Throw, RegIInv, FirstMerge, FreeIsWhole
<1>5. FindIsWhole'
    BY DEF Throw, RegIInv, FirstMerge, FindIsWhole
<1>6. WarmIsWhole'
    BY DEF Throw, RegIInv, FirstMerge, WarmIsWhole
<1>7. SoleIsAlone'
    BY DEF Throw, RegIInv, RegTypeOK, SoleIsAlone, Goto, Busy, End
<1>8. SoleProgress'
    BY DEF Throw, RegIInv, SoleProgress, Goto, End
<1>9. SoleReaderFinds'
    BY DEF Throw, RegIInv, SoleProgress, SoleReaderFinds, AnsweredRight, End
<1> QED BY <1>1, <1>2, <1>3, <1>4, <1>5, <1>6, <1>7, <1>8, <1>9 DEF RegIInv

LEMMA RegIInvFind ==
    ASSUME NEW t \in Readers, RegIInv, Find(t)
    PROVE  RegIInv'
<1>1. RegTypeOK'
    BY DEF Find, RegIInv, RegTypeOK, Places, Goto, End
<1>2. LockHeld'
    BY DEF Find, RegIInv, LockHeld, Goto, End
<1>3. FirstMerge'
    BY DEF Find, RegIInv, FirstMerge, Goto, End
<1>4. FreeIsWhole'
    BY DEF Find, RegIInv, FreeIsWhole
<1>5. FindIsWhole'
    BY DEF Find, RegIInv, FindIsWhole
<1>6. WarmIsWhole'
    BY DEF Find, RegIInv, RegTypeOK, LockHeld, FindIsWhole, WarmIsWhole, Busy, End
<1>7. SoleIsAlone'
    BY DEF Find, RegIInv, RegTypeOK, SoleIsAlone, Goto, Busy, End
<1>8. SoleProgress'
    BY DEF Find, RegIInv, RegTypeOK, SoleProgress, Goto, End
<1>9. SoleReaderFinds'
  <2>1. \A s \in sole : s # t => answer'[s] = answer[s]
      BY DEF Find, End, RegIInv, RegTypeOK
  <2>2. t \in sole => answer'[t] = IF want[t] \in Whole THEN "found" ELSE "missing"
    <3> SUFFICES ASSUME t \in sole
                 PROVE  answer'[t] = IF want[t] \in Whole THEN "found" ELSE "missing"
        OBVIOUS
    <3>1. merged = Whole /\ ~ Filling
        BY DEF Find, RegIInv, SoleProgress, Filling
    <3>2. PICK found \in {want[t] \in merged} : End(t, IF found THEN "found" ELSE "missing")
        BY <3>1 DEF Find
    <3>3. found <=> want[t] \in Whole
        BY <3>1, <3>2
    <3> QED BY <3>2, <3>3, Zenon DEF End, RegIInv, RegTypeOK
  <2>3. want' = want /\ sole' = sole
      BY DEF Find, End
  <2> QED BY <2>1, <2>2, <2>3 DEF RegIInv, SoleReaderFinds, AnsweredRight
<1> QED BY <1>1, <1>2, <1>3, <1>4, <1>5, <1>6, <1>7, <1>8, <1>9 DEF RegIInv
LEMMA RegIInvStutter ==
    ASSUME RegIInv, UNCHANGED regVars
    PROVE  RegIInv'
BY DEF regVars, RegIInv, RegTypeOK, LockHeld, FirstMerge, FreeIsWhole, FindIsWhole,
       WarmIsWhole, SoleIsAlone, SoleProgress, SoleReaderFinds, AnsweredRight, Busy

LEMMA RegStepInv == RegIInv /\ [RegNext]_regVars => RegIInv'
<1> SUFFICES ASSUME RegIInv, [RegNext]_regVars
             PROVE  RegIInv'
    OBVIOUS
<1>1. ASSUME NEW t \in Readers, NEW p \in Whole \cup OtherProps, Begin(t, p)
      PROVE  RegIInv'
    BY <1>1, RegIInvBegin
<1>2. ASSUME NEW t \in Readers,
             TakeLock(t) \/ TurnToSub(t) \/ Unlock(t) \/ Throw(t) \/ Find(t)
      PROVE  RegIInv'
    BY <1>2, RegIInvTakeLock, RegIInvTurnToSub, RegIInvUnlock, RegIInvThrow, RegIInvFind
<1>3. ASSUME NEW t \in Readers, NEW p \in Whole, InsertMain(t, p) \/ InsertSub(t, p)
      PROVE  RegIInv'
    BY <1>3, RegIInvInsertMain, RegIInvInsertSub
<1>4. CASE GetsDone \/ UNCHANGED regVars
    BY <1>4, RegIInvStutter DEF GetsDone
<1> QED BY <1>1, <1>2, <1>3, <1>4 DEF RegNext

-----------------------------------------------------------------------------
(* The inductive invariant of the merged registry: the lock is held by the  *)
(* thread that merges, a free lock leaves a table that is empty or whole,    *)
(* and a sole thread finds at each place what it has itself inserted.       *)
THEOREM RegistryInvariant == RegSpec => []RegIInv
BY RegInitInv, RegStepInv, PTL DEF RegSpec

(* Component::getProperty: a get that meets no other one, and every get     *)
(* that begins once one has ended and none is going on, finds exactly the   *)
(* properties of the component's kind and of its type, and never throws.    *)
THEOREM SoleReadersFind == RegSpec => []SoleReaderFinds
<1>1. RegIInv => SoleReaderFinds
    BY DEF RegIInv
<1> QED BY RegistryInvariant, <1>1, PTL

-----------------------------------------------------------------------------
(***************************************************************************)
(* The images of a run.  An image's references are those of its block, in a *)
(* row and in its order, to partitions that are there while they are used.  *)
(***************************************************************************)

Refs == [part : PartNames, owner : ImageNames]

CallNames == {"images", "imagesFailed", "parts", "partsFailed", "filter", "use"}

\* Made and Orderly, for any sequence of calls.
MadeIn(c, call) == {i \in DOMAIN c : c[i] = call}

InOrder(c) ==
    /\ Cardinality(MadeIn(c, "parts")) <= 1
    /\ MadeIn(c, "partsFailed") = {}
    /\ \A f \in MadeIn(c, "filter") :
          /\ \A p \in MadeIn(c, "parts") : p < f
          /\ \A r \in MadeIn(c, "images") \cup MadeIn(c, "imagesFailed") : f < r

\* The references of an image are those of its block, in a row from some place.
InARow(refs, n, parts) ==
    \E o \in 0 .. Len(refs) :
        /\ o + Len(parts) <= Len(refs)
        /\ \A i \in 1 .. Len(refs) : refs[i].owner = n <=> o < i /\ i <= o + Len(parts)
        /\ \A j \in 1 .. Len(parts) : refs[o + j].part = parts[j]

\* An image resolved or not, with what is attached to it.
ImageFrom(block, boot, parts) == [ref |-> block.boot, bootImage |-> boot, parts |-> parts]

\* The images of the blocks, as far as the calls have changed them.
AsCalled(imgs, blocks, c) ==
    /\ imgs = [n \in DOMAIN imgs |-> imgs[n]]
    /\ DOMAIN imgs \subseteq DOMAIN blocks
    /\ MadeIn(c, "filter") = {} => DOMAIN imgs = DOMAIN blocks
    /\ \A n \in DOMAIN imgs :
          /\ imgs[n] = ImageFrom(blocks[n], imgs[n].bootImage,
                                 IF MadeIn(c, "parts") = {} THEN <<>> ELSE blocks[n].parts)
          /\ imgs[n].bootImage \in {Nothing, blocks[n].boot}
          /\ imgs[n].bootImage # Nothing => imgs[n].bootImage \in DOMAIN imgs
          /\ MadeIn(c, "images") \cup MadeIn(c, "imagesFailed") = {} => imgs[n].bootImage = Nothing
          /\ MadeIn(c, "images") # {} => imgs[n].bootImage = blocks[n].boot

SetTypes ==
    /\ DOMAIN told \subseteq ImageNames
    /\ \A n \in DOMAIN told : /\ told[n].parts \in Seq(PartNames)
                              /\ told[n].boot \in ImageNames \cup {Nothing}
    /\ partRefs \in Seq(Refs)
    /\ calls \in Seq(CallNames)
    /\ stage \in {"parsing", "read", "failed", "undefined"}
    /\ stage = "parsing" => calls = <<>>

\* While no block is refused, each reference is one of a block, and the other way
\* round.
RefsOfBlocks ==
    stage \in {"parsing", "read"} =>
        /\ \A i \in 1 .. Len(partRefs) : partRefs[i].owner \in DOMAIN told
        /\ \A n \in DOMAIN told : InARow(partRefs, n, told[n].parts)

SetAsCalled ==
    InOrder(calls) =>
        /\ stage # "undefined"
        /\ stage \in {"parsing", "read"} => AsCalled(images, told, calls)

SetIInv == SetTypes /\ RefsOfBlocks /\ SetAsCalled

-----------------------------------------------------------------------------
(* The order of the calls.                                                  *)

LEMMA NoCalls == InOrder(<<>>) /\ \A x : MadeIn(<<>>, x) = {}
<1>1. \A x : MadeIn(<<>>, x) = {}
  BY DEF MadeIn
<1>2. Cardinality({}) = 0
  BY FS_EmptySet
<1>3. /\ MadeIn(<<>>, "parts") = {} /\ MadeIn(<<>>, "partsFailed") = {}
      /\ MadeIn(<<>>, "filter") = {}
  BY <1>1
<1>4. Cardinality(MadeIn(<<>>, "parts")) <= 1
  <2>1. Cardinality(MadeIn(<<>>, "parts")) = 0
    BY <1>2, <1>3, Zenon
  <2> QED
    BY <2>1
<1> QED
  BY <1>1, <1>3, <1>4, Zenon DEF InOrder

LEMMA OneMoreCall ==
    ASSUME NEW c \in Seq(CallNames), NEW x \in CallNames
    PROVE  /\ Append(c, x) \in Seq(CallNames)
           /\ \A y : MadeIn(Append(c, x), y) = MadeIn(c, y) \cup IF x = y THEN {Len(c) + 1} ELSE {}
           /\ \A y : MadeIn(c, y) \subseteq 1 .. Len(c)
<1> DEFINE d == Append(c, x)
<1>1. /\ d \in Seq(CallNames) /\ Len(d) = Len(c) + 1 /\ Len(c) \in Nat
      /\ DOMAIN d = 1 .. Len(c) + 1 /\ DOMAIN c = 1 .. Len(c)
      /\ \A i \in 1 .. Len(c) : d[i] = c[i]
      /\ d[Len(c) + 1] = x
  OBVIOUS
<1>2. \A i \in 1 .. Len(c) + 1 : i = Len(c) + 1 \/ i \in 1 .. Len(c)
  BY <1>1
<1>3. Len(c) + 1 \in 1 .. Len(c) + 1 /\ \A i \in 1 .. Len(c) : i \in 1 .. Len(c) + 1
  BY <1>1
<1> HIDE DEF d
<1>4. /\ \A y : MadeIn(d, y) = MadeIn(c, y) \cup IF x = y THEN {Len(c) + 1} ELSE {}
      /\ \A y : MadeIn(c, y) \subseteq 1 .. Len(c)
  BY <1>1, <1>2, <1>3 DEF MadeIn
<1> QED
  BY <1>1, <1>4 DEF d

LEMMA OrderBefore ==
    ASSUME NEW c \in Seq(CallNames), NEW x \in CallNames, InOrder(Append(c, x))
    PROVE  /\ InOrder(c)
           /\ x # "partsFailed"
           /\ x = "parts" => MadeIn(c, "parts") = {} /\ MadeIn(c, "filter") = {}
           /\ x = "filter" => MadeIn(c, "images") \cup MadeIn(c, "imagesFailed") = {}
<1> DEFINE d == Append(c, x)
           n == Len(c)
<1>1. /\ \A y : MadeIn(d, y) = MadeIn(c, y) \cup IF x = y THEN {n + 1} ELSE {}
      /\ \A y : MadeIn(c, y) \subseteq 1 .. n
  BY OneMoreCall
<1>2. n \in Nat
  OBVIOUS
<1> HIDE DEF n, d
<1>3. InOrder(d)
  BY DEF d
<1>4. \A y : IsFiniteSet(MadeIn(c, y)) /\ IsFiniteSet(MadeIn(d, y))
  <2>1. IsFiniteSet(1 .. n) /\ IsFiniteSet({n + 1}) /\ IsFiniteSet({})
    <3>1. IsFiniteSet(1 .. n)
      BY <1>2, FS_Interval
    <3>2. IsFiniteSet({n + 1}) /\ IsFiniteSet({})
      BY FS_Singleton, FS_EmptySet
    <3> QED
      BY <3>1, <3>2
  <2>2. \A y : IsFiniteSet(MadeIn(c, y))
    BY <1>1, <2>1, FS_Subset
  <2>3. ASSUME NEW y
        PROVE  IsFiniteSet(MadeIn(d, y))
    <3>1. PICK more \in {{n + 1}, {}} : MadeIn(d, y) = MadeIn(c, y) \cup more
      BY <1>1
    <3>2. IsFiniteSet(more) /\ IsFiniteSet(MadeIn(c, y))
      BY <2>1, <2>2
    <3>3. IsFiniteSet(MadeIn(c, y) \cup more)
      BY <3>2, FS_Union
    <3> QED
      BY <3>1, <3>3
  <2> QED
    BY <2>2, <2>3
<1>5. Cardinality(MadeIn(c, "parts")) <= 1
  <2>1. Cardinality(MadeIn(c, "parts")) <= Cardinality(MadeIn(d, "parts"))
    BY <1>1, <1>4, FS_Subset
  <2>2. Cardinality(MadeIn(c, "parts")) \in Nat /\ Cardinality(MadeIn(d, "parts")) \in Nat
    BY <1>4, FS_CardinalityType
  <2> QED
    BY <1>3, <2>1, <2>2 DEF InOrder
<1>6. InOrder(c)
  <2>1. \A y : MadeIn(c, y) \subseteq MadeIn(d, y)
    BY <1>1
  <2> QED
    BY <1>3, <1>5, <2>1 DEF InOrder
<1>7. x # "partsFailed"
  BY <1>1, <1>3 DEF InOrder
<1>8. ASSUME x = "parts"
      PROVE  MadeIn(c, "parts") = {} /\ MadeIn(c, "filter") = {}
  <2>1. MadeIn(d, "parts") = MadeIn(c, "parts") \cup {n + 1} /\ n + 1 \notin MadeIn(c, "parts")
    BY <1>1, <1>2, <1>8
  <2>2. Cardinality(MadeIn(d, "parts")) = Cardinality(MadeIn(c, "parts")) + 1
    BY <1>4, <2>1, FS_AddElement
  <2>3. Cardinality(MadeIn(c, "parts")) \in Nat
    BY <1>4, FS_CardinalityType
  <2>4. Cardinality(MadeIn(c, "parts")) = 0
    BY <1>3, <2>2, <2>3 DEF InOrder
  <2>5. MadeIn(c, "parts") = {}
    BY <1>4, <2>4, FS_EmptySet
  <2>6. ASSUME NEW f \in MadeIn(c, "filter")
        PROVE  FALSE
    <3>1. f \in 1 .. n /\ f \in MadeIn(d, "filter") /\ n + 1 \in MadeIn(d, "parts")
      BY <1>1, <2>1
    <3>2. n + 1 < f
      BY <1>3, <3>1 DEF InOrder
    <3> QED
      BY <1>2, <3>1, <3>2
  <2> QED
    BY <2>5, <2>6
<1>9. ASSUME x = "filter"
      PROVE  MadeIn(c, "images") \cup MadeIn(c, "imagesFailed") = {}
  <2> SUFFICES ASSUME NEW r \in MadeIn(c, "images") \cup MadeIn(c, "imagesFailed")
               PROVE  FALSE
    OBVIOUS
  <2>1. /\ r \in 1 .. n /\ n + 1 \in MadeIn(d, "filter")
        /\ r \in MadeIn(d, "images") \cup MadeIn(d, "imagesFailed")
    BY <1>1, <1>9
  <2>2. n + 1 < r
    BY <1>3, <2>1 DEF InOrder
  <2> QED
    BY <1>2, <2>1, <2>2
<1> QED
  BY <1>6, <1>7, <1>8, <1>9

-----------------------------------------------------------------------------
(* Attaching the partitions.                                                *)

Attached(g, imgs, refs, n) ==
    g = [k \in 0 .. n |->
            IF k = 0 THEN imgs
            ELSE [g[k - 1] EXCEPT ![refs[k].owner].parts = Append(@, refs[k].part)]]

LEMMA AttachedExists ==
    ASSUME NEW imgs, NEW refs, NEW n \in Nat
    PROVE  \E g : Attached(g, imgs, refs, n)
<1> DEFINE Good == {k \in Nat : \E g : Attached(g, imgs, refs, k)}
<1>1. 0 \in Good
  <2>1. Attached([k \in 0 .. 0 |-> imgs], imgs, refs, 0)
    BY DEF Attached
  <2> QED
    BY <2>1
<1>2. ASSUME NEW k \in Nat, k \in Good
      PROVE  k + 1 \in Good
  <2>1. PICK g : Attached(g, imgs, refs, k)
    BY <1>2
  <2> DEFINE last == [g[k] EXCEPT ![refs[k + 1].owner].parts = Append(@, refs[k + 1].part)]
             h == [j \in 0 .. k + 1 |-> IF j = k + 1 THEN last ELSE g[j]]
  <2> HIDE DEF last
  <2>2. ASSUME NEW j \in 0 .. k + 1
        PROVE  h[j] = IF j = 0 THEN imgs
                      ELSE [h[j - 1] EXCEPT ![refs[j].owner].parts = Append(@, refs[j].part)]
    <3>1. CASE j = k + 1
      <4>1. h[j] = last /\ j # 0 /\ j - 1 = k /\ k \in 0 .. k + 1 /\ h[k] = g[k]
        BY <3>1
      <4> HIDE DEF h
      <4> QED
        BY <3>1, <4>1 DEF last
    <3>2. CASE j # k + 1
      <4>1. j \in 0 .. k /\ h[j] = g[j] /\ (j # 0 => j - 1 \in 0 .. k /\ h[j - 1] = g[j - 1])
        BY <3>2
      <4>2. g[j] = IF j = 0 THEN imgs
                   ELSE [g[j - 1] EXCEPT ![refs[j].owner].parts = Append(@, refs[j].part)]
        BY <2>1, <4>1 DEF Attached
      <4> HIDE DEF h
      <4> QED
        BY <4>1, <4>2
    <3> QED
      BY <3>1, <3>2
  <2>3. h = [j \in 0 .. k + 1 |-> h[j]]
    OBVIOUS
  <2> HIDE DEF h
  <2>4. Attached(h, imgs, refs, k + 1)
    BY <2>2, <2>3 DEF Attached
  <2> QED
    BY <2>4
<1> HIDE DEF Good
<1>3. Nat \subseteq Good
  BY <1>1, <1>2, NatSet
<1> QED
  BY <1>3 DEF Good

\* How many of the parts that begin after place o the first k references attach.
Done(k, o, len) == IF k <= o THEN 0 ELSE IF k >= o + len THEN len ELSE k - o

\* One reference of an image attaches the next part of its list.
LEMMA OnePart ==
    ASSUME NEW s \in Seq(PartNames), NEW o \in Nat, NEW k \in Nat, o < k + 1, k + 1 <= o + Len(s),
           NEW p, p = s[(k + 1) - o]
    PROVE  /\ Append(SubSeq(s, 1, Done(k, o, Len(s))), p) = SubSeq(s, 1, Done(k + 1, o, Len(s)))
<1> DEFINE j == k - o
<1>1. /\ Len(s) \in Nat /\ j \in Nat /\ j + 1 \in 1 .. Len(s) /\ j + 1 = (k + 1) - o
      /\ Done(k, o, Len(s)) = j /\ Done(k + 1, o, Len(s)) = j + 1
  BY DEF Done
<1> HIDE DEF j
<1>2. Append(SubSeq(s, 1, j), s[j + 1]) = SubSeq(s, 1, j + 1)
  BY <1>1
<1> QED
  BY <1>1, <1>2

\* A reference of another image attaches none of it.
LEMMA NoPart ==
    ASSUME NEW len \in Nat, NEW o \in Nat, NEW k \in Nat, ~ (o < k + 1 /\ k + 1 <= o + len)
    PROVE  Done(k + 1, o, len) = Done(k, o, len)
BY DEF Done

LEMMA PartAppended ==
    ASSUME NEW block, NEW boot, NEW parts, NEW p, NEW i, i = ImageFrom(block, boot, parts)
    PROVE  [i EXCEPT !.parts = Append(i.parts, p)] = ImageFrom(block, boot, Append(parts, p))
BY DEF ImageFrom

\* Each image is attached the parts of its block, in their order.
LEMMA AttachesAll ==
    ASSUME NEW refs \in Seq(Refs), NEW S, NEW imgs, DOMAIN imgs = S, NEW blocks,
           NEW boot,
           imgs = [n \in S |-> ImageFrom(blocks[n], boot[n], <<>>)],
           \A n \in S : blocks[n].parts \in Seq(PartNames) /\ InARow(refs, n, blocks[n].parts),
           \A i \in 1 .. Len(refs) : refs[i].owner \in S
    PROVE  Attach(imgs, refs) = [n \in S |-> ImageFrom(blocks[n], boot[n], blocks[n].parts)]
<1> DEFINE N == Len(refs)
           g == CHOOSE f : Attached(f, imgs, refs, N)
           Starts(n, o) ==
              /\ o + Len(blocks[n].parts) <= N
              /\ \A i \in 1 .. N : refs[i].owner = n <=> o < i /\ i <= o + Len(blocks[n].parts)
              /\ \A j \in 1 .. Len(blocks[n].parts) : refs[o + j].part = blocks[n].parts[j]
           begin == [n \in S |-> CHOOSE o \in 0 .. N : Starts(n, o)]
           Now(n, k) == SubSeq(blocks[n].parts, 1, Done(k, begin[n], Len(blocks[n].parts)))
           Good == {k \in Nat : k <= N =>
                       g[k] = [n \in S |-> ImageFrom(blocks[n], boot[n], Now(n, k))]}
<1>1. N \in Nat
  OBVIOUS
<1>2. Attach(imgs, refs) = g[N]
  BY DEF Attach, Attached
<1>3. \A n \in S : begin[n] \in 0 .. N /\ Starts(n, begin[n])
  BY DEF InARow
<1> HIDE DEF N
<1>4. Attached(g, imgs, refs, N)
  BY <1>1, AttachedExists
<1> HIDE DEF g, begin
<1>5. 0 \in Good
  <2>1. g[0] = imgs
    BY <1>1, <1>4 DEF Attached
  <2>2. ASSUME NEW n \in S
        PROVE  Now(n, 0) = <<>>
    <3>1. Done(0, begin[n], Len(blocks[n].parts)) = 0
      BY <1>1, <1>3 DEF Done
    <3> QED
      BY <3>1
  <2> HIDE DEF Now
  <2> QED
    BY <2>1, <2>2
<1>6. ASSUME NEW k \in Nat, k \in Good
      PROVE  k + 1 \in Good
  <2> SUFFICES ASSUME k + 1 <= N
               PROVE  g[k + 1] = [n \in S |-> ImageFrom(blocks[n], boot[n], Now(n, k + 1))]
    OBVIOUS
  <2> DEFINE m == refs[k + 1].owner
             p == refs[k + 1].part
  <2>1. k + 1 \in 0 .. N /\ k + 1 # 0 /\ (k + 1) - 1 = k /\ k <= N /\ k + 1 \in 1 .. N
    BY <1>1
  <2>2. g[k + 1] = [g[k] EXCEPT ![m].parts = Append(@, p)]
    BY <1>4, <2>1 DEF Attached
  <2>3. g[k] = [n \in S |-> ImageFrom(blocks[n], boot[n], Now(n, k))]
    BY <1>6, <2>1
  <2>4. m \in S
    BY <2>1 DEF N
  <2>5. ASSUME NEW n \in S, n # m
        PROVE  Now(n, k + 1) = Now(n, k)
    <3>1. ~ (begin[n] < k + 1 /\ k + 1 <= begin[n] + Len(blocks[n].parts))
      BY <1>3, <2>1, <2>5
    <3>2. begin[n] \in Nat /\ Len(blocks[n].parts) \in Nat
      BY <1>1, <1>3
    <3>3. Done(k + 1, begin[n], Len(blocks[n].parts)) = Done(k, begin[n], Len(blocks[n].parts))
      BY <3>1, <3>2, NoPart
    <3> QED
      BY <3>3
  <2>6. Append(Now(m, k), p) = Now(m, k + 1)
    <3>1. begin[m] < k + 1 /\ k + 1 <= begin[m] + Len(blocks[m].parts)
      BY <1>3, <2>1, <2>4
    <3>2. begin[m] \in Nat /\ blocks[m].parts \in Seq(PartNames)
      BY <1>1, <1>3, <2>4
    <3>3. p = blocks[m].parts[(k + 1) - begin[m]]
      <4>1. /\ (k + 1) - begin[m] \in 1 .. Len(blocks[m].parts)
            /\ begin[m] + ((k + 1) - begin[m]) = k + 1
        BY <3>1, <3>2
      <4> QED
        BY <1>3, <2>4, <4>1
    <3> HIDE DEF m, p
    <3> QED
      BY <3>1, <3>2, <3>3, OnePart
  <2> HIDE DEF m, p, Now
  <2>7. ASSUME NEW n \in S
        PROVE  g[k + 1][n] = ImageFrom(blocks[n], boot[n], Now(n, k + 1))
    <3>1. g[k][n] = ImageFrom(blocks[n], boot[n], Now(n, k)) /\ n \in DOMAIN g[k]
      BY <2>3
    <3>2. g[k + 1][n] = IF n = m THEN [g[k][n] EXCEPT !.parts = Append(@, p)] ELSE g[k][n]
      BY <2>2, <3>1
    <3>3. CASE n = m
      <4>1. PICK i : i = g[k][n]
        OBVIOUS
      <4>2. PICK parts : parts = Now(n, k)
        OBVIOUS
      <4>3. PICK block, from : block = blocks[n] /\ from = boot[n]
        OBVIOUS
      <4>4. i = ImageFrom(block, from, parts)
        BY <3>1, <4>1, <4>2, <4>3
      <4>5. [i EXCEPT !.parts = Append(i.parts, p)] = ImageFrom(block, from, Append(parts, p))
        BY <4>4, PartAppended
      <4> QED
        BY <2>6, <3>2, <3>3, <4>1, <4>2, <4>3, <4>5
    <3>4. CASE n # m
      BY <2>5, <3>1, <3>2, <3>4
    <3> QED
      BY <3>3, <3>4
  <2>8. g[k + 1] = [n \in S |-> g[k + 1][n]]
    BY <2>2, <2>3
  <2> QED
    BY <2>7, <2>8
<1>7. N \in Good
  <2> HIDE DEF Good
  <2> QED
    BY <1>1, <1>5, <1>6, NatSet
<1>8. \A n \in S : Now(n, N) = blocks[n].parts
  <2> SUFFICES ASSUME NEW n \in S
               PROVE  Now(n, N) = blocks[n].parts
    OBVIOUS
  <2>1. /\ begin[n] \in Nat /\ begin[n] + Len(blocks[n].parts) <= N
        /\ blocks[n].parts \in Seq(PartNames) /\ Len(blocks[n].parts) \in Nat
    BY <1>1, <1>3
  <2>2. Done(N, begin[n], Len(blocks[n].parts)) = Len(blocks[n].parts)
    BY <1>1, <2>1 DEF Done
  <2> QED
    BY <2>1, <2>2
<1>9. N <= N
  BY <1>1
<1> HIDE DEF Now
<1> QED
  BY <1>2, <1>7, <1>8, <1>9

-----------------------------------------------------------------------------
(* Reading the blocks.                                                      *)

RefsTo(n, parts) == [i \in DOMAIN parts |-> [part |-> parts[i], owner |-> n]]

LEMMA ListsAreSeqs == PartLists \subseteq Seq(PartNames)
<1> SUFFICES ASSUME NEW k \in 0 .. 2, NEW list \in [1 .. k -> PartNames]
             PROVE  list \in Seq(PartNames)
  BY DEF PartLists
<1> QED
  OBVIOUS

LEMMA RefsAppended ==
    ASSUME NEW refs \in Seq(Refs), NEW n \in ImageNames, NEW parts \in Seq(PartNames)
    PROVE  /\ refs \o RefsTo(n, parts) \in Seq(Refs)
           /\ Len(refs \o RefsTo(n, parts)) = Len(refs) + Len(parts)
           /\ \A i \in 1 .. Len(refs) : (refs \o RefsTo(n, parts))[i] = refs[i]
           /\ \A j \in 1 .. Len(parts) :
                 (refs \o RefsTo(n, parts))[Len(refs) + j] = [part |-> parts[j], owner |-> n]
<1> DEFINE more == RefsTo(n, parts)
           ref(j) == [part |-> parts[j], owner |-> n]
<1>4. DOMAIN parts = 1 .. Len(parts) /\ Len(parts) \in Nat
  OBVIOUS
<1>5. \A j \in 1 .. Len(parts) : ref(j) \in Refs
  BY DEF Refs
<1>6. more = [j \in 1 .. Len(parts) |-> ref(j)]
  BY <1>4 DEF RefsTo
<1> HIDE DEF more, ref
<1>1. /\ more \in Seq(Refs) /\ Len(more) = Len(parts)
      /\ \A j \in 1 .. Len(parts) : more[j] = ref(j)
  BY <1>4, <1>5, <1>6
<1>2. /\ refs \o more \in Seq(Refs)
      /\ Len(refs \o more) = Len(refs) + Len(parts)
      /\ \A i \in 1 .. Len(refs) : (refs \o more)[i] = refs[i]
  BY <1>1
<1>3. ASSUME NEW j \in 1 .. Len(parts)
      PROVE  (refs \o more)[Len(refs) + j] = more[j]
  BY <1>1
<1> QED
  BY <1>1, <1>2, <1>3 DEF more, ref

\* The references of another image, and those of the image itself.
LEMMA RowsKept ==
    ASSUME NEW refs \in Seq(Refs), NEW n \in ImageNames, NEW parts \in Seq(PartNames),
           \A i \in 1 .. Len(refs) : refs[i].owner # n
    PROVE  /\ InARow(refs \o RefsTo(n, parts), n, parts)
           /\ \A m, l : m # n /\ l \in Seq(PartNames) /\ InARow(refs, m, l)
                           => InARow(refs \o RefsTo(n, parts), m, l)
<1> DEFINE d == refs \o RefsTo(n, parts)
           N == Len(refs)
           L == Len(parts)
<1>1. N \in Nat /\ L \in Nat
  OBVIOUS
<1>2. /\ Len(d) = N + L /\ \A i \in 1 .. N : d[i] = refs[i]
      /\ \A j \in 1 .. L : d[N + j] = [part |-> parts[j], owner |-> n]
  BY RefsAppended
<1> HIDE DEF d, L, N
<1>3. \A i \in 1 .. N : d[i].owner = refs[i].owner /\ d[i].part = refs[i].part /\ d[i].owner # n
  BY <1>2 DEF N
<1>4. ASSUME NEW i \in 1 .. N + L, i \notin 1 .. N
      PROVE  d[i].owner = n
  <2>1. i - N \in 1 .. L /\ i = N + (i - N)
    BY <1>1, <1>4
  <2>2. d[N + (i - N)] = [part |-> parts[i - N], owner |-> n]
    BY <1>2, <2>1
  <2> QED
    BY <2>1, <2>2
<1>5. InARow(d, n, parts)
  <2>1. N \in 0 .. Len(d) /\ N + L <= Len(d)
    BY <1>1, <1>2
  <2>2. \A i \in 1 .. Len(d) : d[i].owner = n <=> N < i /\ i <= N + L
    BY <1>1, <1>2, <1>3, <1>4
  <2>3. ASSUME NEW j \in 1 .. L
        PROVE  d[N + j].part = parts[j]
    <3>1. d[N + j] = [part |-> parts[j], owner |-> n]
      BY <1>2
    <3> QED
      BY <3>1
  <2> QED
    BY <2>1, <2>2, <2>3 DEF InARow, L
<1>6. ASSUME NEW m, NEW l \in Seq(PartNames), m # n, InARow(refs, m, l)
      PROVE  InARow(d, m, l)
  <2>1. PICK o \in 0 .. N : /\ o + Len(l) <= N
                            /\ \A i \in 1 .. N : refs[i].owner = m <=> o < i /\ i <= o + Len(l)
                            /\ \A j \in 1 .. Len(l) : refs[o + j].part = l[j]
    BY <1>6 DEF InARow, N
  <2>2. Len(l) \in Nat /\ o \in Nat
    BY <1>1
  <2>3. o \in 0 .. Len(d) /\ o + Len(l) <= Len(d)
    BY <1>1, <1>2, <2>1, <2>2
  <2>4. ASSUME NEW i \in 1 .. Len(d)
        PROVE  d[i].owner = m <=> o < i /\ i <= o + Len(l)
    <3>1. CASE i \in 1 .. N
      BY <1>3, <2>1, <3>1
    <3>2. CASE i \notin 1 .. N
      <4>1. d[i].owner # m
        BY <1>2, <1>4, <1>6, <3>2
      <4>2. ~ (i <= o + Len(l))
        BY <1>1, <1>2, <2>1, <2>2, <3>2
      <4> QED
        BY <4>1, <4>2
    <3> QED
      BY <3>1, <3>2
  <2>5. ASSUME NEW j \in 1 .. Len(l)
        PROVE  d[o + j].part = l[j]
    <3>1. o + j \in 1 .. N
      BY <1>1, <2>1, <2>2
    <3> QED
      BY <1>3, <2>1, <3>1
  <2> QED
    BY <2>3, <2>4, <2>5 DEF InARow
<1> QED
  BY <1>5, <1>6 DEF d

LEMMA SetStart ==
    ASSUME SetInit
    PROVE  SetIInv
<1>1. images = <<>> /\ partRefs = <<>> /\ stage = "parsing" /\ calls = <<>> /\ told = <<>>
  BY DEF SetInit
<1>2. DOMAIN told = {} /\ DOMAIN images = {} /\ images = [n \in DOMAIN images |-> images[n]]
  BY <1>1
<1>3. SetTypes
  BY <1>1, <1>2 DEF SetTypes
<1>4. RefsOfBlocks
  BY <1>1, <1>2 DEF RefsOfBlocks
<1>5. AsCalled(images, told, calls)
  BY <1>2 DEF AsCalled
<1>6. SetAsCalled
  BY <1>1, <1>5 DEF SetAsCalled
<1> QED
  BY <1>3, <1>4, <1>6 DEF SetIInv

\* What holds until the file is read.
LEMMA WhileParsing ==
    ASSUME SetIInv, stage = "parsing"
    PROVE  /\ calls = <<>> /\ InOrder(calls)
           /\ AsCalled(images, told, calls)
           /\ DOMAIN images = DOMAIN told
           /\ \A x : MadeIn(calls, x) = {}
<1>1. calls = <<>>
  BY DEF SetIInv, SetTypes
<1>2. InOrder(calls) /\ \A x : MadeIn(calls, x) = {}
  BY <1>1, NoCalls
<1>3. AsCalled(images, told, calls)
  BY <1>2 DEF SetIInv, SetAsCalled
<1> QED
  BY <1>1, <1>2, <1>3 DEF AsCalled

LEMMA ImageCreated ==
    ASSUME SetIInv, NEW n \in ImageNames, NEW parts \in PartLists,
           NEW boot \in ImageNames \cup {Nothing}, createImage(n, parts, boot)
    PROVE  SetIInv'
<1>1. /\ stage = "parsing" /\ calls' = calls
      /\ partRefs' = partRefs \o RefsTo(n, parts)
  BY DEF createImage, MayReadBlock, RefsTo
<1>2. calls = <<>> /\ DOMAIN images = DOMAIN told /\ AsCalled(images, told, calls)
      /\ \A x : MadeIn(calls, x) = {}
  BY <1>1, WhileParsing
<1>3. /\ parts \in Seq(PartNames) /\ partRefs \in Seq(Refs)
      /\ calls \in Seq(CallNames)
  BY ListsAreSeqs DEF SetIInv, SetTypes
<1>4. partRefs' \in Seq(Refs)
  BY <1>1, <1>3, RefsAppended
<1>5. CASE FindImage(n)
  <2>1. stage' = "failed" /\ images' = images /\ told' = told
    BY <1>5 DEF createImage
  <2> QED
    BY <1>1, <1>3, <1>4, <2>1 DEF SetIInv, SetTypes, RefsOfBlocks, SetAsCalled
<1>6. CASE ~ FindImage(n)
  <2>1. /\ images' = Added(images, n, NewImageOf(boot))
        /\ told' = Added(told, n, [parts |-> parts, boot |-> boot])
        /\ stage' = stage
    BY <1>6 DEF createImage
  <2>2. n \notin DOMAIN told
    BY <1>2, <1>6 DEF FindImage
  <2>3. /\ DOMAIN told' = DOMAIN told \cup {n} /\ told'[n] = [parts |-> parts, boot |-> boot]
        /\ \A m \in DOMAIN told : told'[m] = told[m]
    BY <2>1, <2>2 DEF Added
  <2>4. /\ DOMAIN images' = DOMAIN told \cup {n} /\ images'[n] = NewImageOf(boot)
        /\ \A m \in DOMAIN told : images'[m] = images[m]
        /\ images' = [m \in DOMAIN images' |-> images'[m]]
    <3>1. n \notin DOMAIN images
      BY <1>2, <2>2
    <3>2. /\ DOMAIN images' = DOMAIN images \cup {n} /\ images'[n] = NewImageOf(boot)
          /\ \A m \in DOMAIN images : images'[m] = images[m]
          /\ images' = [m \in DOMAIN images \cup {n} |-> images'[m]]
      BY <2>1, <3>1 DEF Added
    <3> QED
      BY <1>2, <3>2
  <2>5. SetTypes'
    <3>1. DOMAIN told' \subseteq ImageNames
      BY <2>3 DEF SetIInv, SetTypes
    <3>2. ASSUME NEW m \in DOMAIN told'
          PROVE  told'[m].parts \in Seq(PartNames) /\ told'[m].boot \in ImageNames \cup {Nothing}
      <4>1. CASE m = n
        BY <1>3, <2>3, <4>1
      <4>2. CASE m # n
        BY <2>3, <4>2 DEF SetIInv, SetTypes
      <4> QED
        BY <4>1, <4>2
    <3> QED
      BY <1>1, <1>2, <1>3, <1>4, <2>1, <3>1, <3>2 DEF SetTypes
  <2>6. RefsOfBlocks'
    <3>1. /\ \A i \in 1 .. Len(partRefs) : partRefs[i].owner \in DOMAIN told
          /\ \A m \in DOMAIN told : /\ InARow(partRefs, m, told[m].parts)
                                    /\ told[m].parts \in Seq(PartNames)
      BY <1>1 DEF SetIInv, RefsOfBlocks, SetTypes
    <3>2. \A i \in 1 .. Len(partRefs) : partRefs[i].owner # n
      BY <2>2, <3>1
    <3>3. /\ InARow(partRefs', n, parts)
          /\ \A m, l : m # n /\ l \in Seq(PartNames) /\ InARow(partRefs, m, l)
                          => InARow(partRefs', m, l)
      BY <1>1, <1>3, <3>2, RowsKept
    <3>4. ASSUME NEW m \in DOMAIN told'
          PROVE  InARow(partRefs', m, told'[m].parts)
      <4>1. CASE m = n
        BY <2>3, <3>3, <4>1
      <4>2. CASE m # n
        BY <2>3, <3>1, <3>3, <4>2
      <4> QED
        BY <4>1, <4>2
    <3>5. ASSUME NEW i \in 1 .. Len(partRefs')
          PROVE  partRefs'[i].owner \in DOMAIN told'
      <4>1. /\ Len(partRefs') = Len(partRefs) + Len(parts)
            /\ \A k \in 1 .. Len(partRefs) : partRefs'[k] = partRefs[k]
            /\ \A j \in 1 .. Len(parts) :
                  partRefs'[Len(partRefs) + j] = [part |-> parts[j], owner |-> n]
        BY <1>1, <1>3, RefsAppended
      <4>2. Len(partRefs) \in Nat /\ Len(parts) \in Nat
        BY <1>3
      <4>3. CASE i \in 1 .. Len(partRefs)
        BY <2>3, <3>1, <4>1, <4>3
      <4>4. CASE i \notin 1 .. Len(partRefs)
        <5>1. i - Len(partRefs) \in 1 .. Len(parts) /\ i = Len(partRefs) + (i - Len(partRefs))
          BY <4>1, <4>2, <4>4
        <5>2. partRefs'[i] = [part |-> parts[i - Len(partRefs)], owner |-> n]
          BY <4>1, <5>1
        <5> QED
          BY <2>3, <5>2
      <4> QED
        BY <4>3, <4>4
    <3> QED
      BY <3>4, <3>5 DEF RefsOfBlocks
  <2>7. AsCalled(images', told', calls')
    <3>1. ASSUME NEW m \in DOMAIN images'
          PROVE  /\ images'[m] = ImageFrom(told'[m], images'[m].bootImage, <<>>)
                 /\ images'[m].bootImage = Nothing
      <4>1. CASE m = n
        <5>1. images'[m] = [ref |-> boot, bootImage |-> Nothing, parts |-> <<>>]
          BY <2>4, <4>1 DEF NewImageOf
        <5>2. told'[m].boot = boot
          BY <2>3, <4>1
        <5> QED
          BY <5>1, <5>2 DEF ImageFrom
      <4>2. CASE m # n
        <5>1. m \in DOMAIN images /\ m \in DOMAIN told
          BY <1>2, <2>4, <4>2
        <5>2. images'[m] = images[m] /\ told'[m] = told[m]
          BY <2>3, <2>4, <5>1
        <5>3. images[m] = ImageFrom(told[m], images[m].bootImage, <<>>)
              /\ images[m].bootImage = Nothing
          BY <1>2, <5>1 DEF AsCalled
        <5> QED
          BY <5>2, <5>3
      <4> QED
        BY <4>1, <4>2
    <3>2. DOMAIN images' = DOMAIN told'
      BY <2>3, <2>4
    <3> QED
      BY <1>1, <1>2, <2>4, <3>1, <3>2 DEF AsCalled
  <2>8. SetAsCalled'
    BY <1>1, <2>1, <2>7 DEF SetAsCalled
  <2> QED
    BY <2>5, <2>6, <2>8 DEF SetIInv
<1> QED
  BY <1>5, <1>6

\* The other steps of the parser: the set stays what it is.
LEMMA OtherBlocks ==
    ASSUME SetIInv,
           \/ \E p \in PartNames : createPartition(p)
           \/ \E n \in ImageNames, parts \in PartLists : RefuseBlock(n, parts)
           \/ EndOfFile
    PROVE  SetIInv'
<1>1. stage = "parsing" /\ calls' = calls /\ images' = images /\ told' = told
  BY DEF createPartition, RefuseBlock, EndOfFile, MayReadBlock
<1>2. InOrder(calls) /\ AsCalled(images, told, calls) /\ calls = <<>>
  BY <1>1, WhileParsing
<1>3. CASE \/ \E p \in PartNames : createPartition(p)
           \/ EndOfFile
  <2>1. partRefs' = partRefs /\ stage' \in {"parsing", "failed", "read"}
    BY <1>1, <1>3 DEF createPartition, EndOfFile
  <2> QED
    BY <1>1, <1>2, <2>1 DEF SetIInv, SetTypes, RefsOfBlocks, SetAsCalled
<1>4. CASE \E n \in ImageNames, parts \in PartLists : RefuseBlock(n, parts)
  <2>1. PICK n \in ImageNames, parts \in PartLists : RefuseBlock(n, parts)
    BY <1>4
  <2>2. stage' = "failed" /\ partRefs' = partRefs \o RefsTo(n, parts)
    BY <2>1 DEF RefuseBlock, RefsTo
  <2>3. partRefs' \in Seq(Refs)
    BY <2>2, ListsAreSeqs, RefsAppended DEF SetIInv, SetTypes
  <2> QED
    BY <1>1, <1>2, <2>2, <2>3 DEF SetIInv, SetTypes, RefsOfBlocks, SetAsCalled
<1> QED
  BY <1>3, <1>4

-----------------------------------------------------------------------------
(* The calls.                                                               *)

LEMMA CallKeepsFile ==
    ASSUME SetIInv, NEW x \in CallNames, Calls(x), stage' \in {"read", "undefined"}
    PROVE  SetTypes' /\ RefsOfBlocks'
<1>1. stage = "read" /\ calls' = Append(calls, x) /\ told' = told /\ partRefs' = partRefs
  BY DEF Calls
<1>2. calls' \in Seq(CallNames)
  BY <1>1 DEF SetIInv, SetTypes
<1> QED
  BY <1>1, <1>2 DEF SetIInv, SetTypes, RefsOfBlocks

\* What held before a call made in its order.
LEMMA CallInOrder ==
    ASSUME SetIInv, NEW x \in CallNames, Calls(x), InOrder(calls')
    PROVE  /\ AsCalled(images, told, calls)
           /\ stage = "read" /\ told' = told /\ partRefs' = partRefs
           /\ \A y : MadeIn(calls', y) = MadeIn(calls, y)
                                            \cup IF x = y THEN {Len(calls) + 1} ELSE {}
           /\ x # "partsFailed"
           /\ x = "parts" => MadeIn(calls, "parts") = {} /\ MadeIn(calls, "filter") = {}
           /\ x = "filter" => MadeIn(calls, "images") \cup MadeIn(calls, "imagesFailed") = {}
<1>1. /\ stage = "read" /\ calls' = Append(calls, x) /\ told' = told /\ partRefs' = partRefs
      /\ calls \in Seq(CallNames)
  BY DEF Calls, SetIInv, SetTypes
<1>2. InOrder(Append(calls, x))
  BY <1>1
<1>3. InOrder(calls)
  BY <1>1, <1>2, OrderBefore
<1>4. AsCalled(images, told, calls)
  BY <1>1, <1>3 DEF SetIInv, SetAsCalled
<1>5. /\ x # "partsFailed"
      /\ x = "parts" => MadeIn(calls, "parts") = {} /\ MadeIn(calls, "filter") = {}
      /\ x = "filter" => MadeIn(calls, "images") \cup MadeIn(calls, "imagesFailed") = {}
  BY <1>1, <1>2, OrderBefore
<1>6. \A y : MadeIn(calls', y) = MadeIn(calls, y) \cup IF x = y THEN {Len(calls) + 1} ELSE {}
  BY <1>1, OneMoreCall
<1> QED
  BY <1>1, <1>4, <1>5, <1>6

LEMMA Pointed ==
    ASSUME NEW block, NEW boot, NEW parts, NEW x, NEW i, i = ImageFrom(block, boot, parts)
    PROVE  /\ [i EXCEPT !.bootImage = x] = ImageFrom(block, x, parts)
           /\ i.ref = block.boot /\ i.bootImage = boot /\ i.parts = parts
           /\ ImageFrom(block, x, parts).bootImage = x
BY DEF ImageFrom

LEMMA UsedInOrder ==
    ASSUME SetIInv, NEW n \in ImageNames, UseBootImage(n)
    PROVE  SetIInv'
<1>1. /\ Calls("use") /\ "use" \in CallNames /\ images' = images /\ stage = "read"
      /\ stage' \in {"read", "undefined"}
      /\ n \in DOMAIN images /\ images[n].bootImage # Nothing
      /\ images[n].bootImage \in DOMAIN images => stage' = stage
  BY DEF UseBootImage, FindImage, Calls, CallNames
<1>2. SetTypes' /\ RefsOfBlocks'
  BY <1>1, CallKeepsFile
<1>3. SetAsCalled'
  <2> SUFFICES ASSUME InOrder(calls')
               PROVE  stage' # "undefined" /\ AsCalled(images', told', calls')
    BY DEF SetAsCalled
  <2>1. /\ AsCalled(images, told, calls) /\ told' = told
        /\ \A y : MadeIn(calls', y) = MadeIn(calls, y)
                                         \cup IF "use" = y THEN {Len(calls) + 1} ELSE {}
    BY <1>1, CallInOrder
  <2>2. \A y : y # "use" => MadeIn(calls', y) = MadeIn(calls, y)
    BY <2>1
  <2>3. stage' # "undefined"
    BY <1>1, <2>1 DEF AsCalled
  <2>4. AsCalled(images, told, calls')
    BY <2>1, <2>2 DEF AsCalled
  <2> QED
    BY <1>1, <2>1, <2>3, <2>4
<1> QED
  BY <1>2, <1>3 DEF SetIInv

LEMMA FilteredInOrder ==
    ASSUME SetIInv, NEW kept \in SUBSET ImageNames, Filter(kept)
    PROVE  SetIInv'
<1>1. Calls("filter") /\ "filter" \in CallNames /\ stage' = stage /\ stage = "read"
      /\ images' = [n \in DOMAIN images \cap kept |-> images[n]]
  BY DEF Filter, Calls, CallNames
<1>2. SetTypes' /\ RefsOfBlocks'
  BY <1>1, CallKeepsFile
<1>3. SetAsCalled'
  <2> SUFFICES ASSUME InOrder(calls')
               PROVE  AsCalled(images', told', calls')
    BY <1>1 DEF SetAsCalled
  <2>1. /\ AsCalled(images, told, calls) /\ told' = told
        /\ \A y : MadeIn(calls', y) = MadeIn(calls, y)
                                         \cup IF "filter" = y THEN {Len(calls) + 1} ELSE {}
        /\ MadeIn(calls, "images") \cup MadeIn(calls, "imagesFailed") = {}
    BY <1>1, CallInOrder
  <2>2. /\ \A y : y # "filter" => MadeIn(calls', y) = MadeIn(calls, y)
        /\ MadeIn(calls', "filter") # {}
    BY <2>1
  <2>3. /\ DOMAIN images' \subseteq DOMAIN images
        /\ \A n \in DOMAIN images' : images'[n] = images[n]
        /\ images' = [n \in DOMAIN images' |-> images'[n]]
    BY <1>1
  <2>4. \A n \in DOMAIN images : images[n].bootImage = Nothing
    BY <2>1 DEF AsCalled
  <2> QED
    BY <2>1, <2>2, <2>3, <2>4 DEF AsCalled
<1> QED
  BY <1>2, <1>3 DEF SetIInv

LEMMA ImagesResolved ==
    ASSUME SetIInv, ResolveImgRefs
    PROVE  SetIInv'
<1> DEFINE good == {n \in DOMAIN images : Resolvable(n)}
           x == IF good = DOMAIN images THEN "images" ELSE "imagesFailed"
<1>1. PICK visited \in SUBSET good :
         /\ good = DOMAIN images => visited = DOMAIN images
         /\ Calls(x) /\ stage' = stage
         /\ images' = [n \in DOMAIN images |->
                          IF n \in visited THEN SetPointer(n) ELSE images[n]]
  BY DEF ResolveImgRefs
<1>2. x \in CallNames /\ stage = "read" /\ x \in {"images", "imagesFailed"}
      /\ (x = "images" => visited = DOMAIN images)
  BY <1>1 DEF Calls, CallNames
<1>3. \A n \in visited : n \in DOMAIN images /\ (images[n].ref # Nothing => images[n].ref \in DOMAIN images)
  BY <1>1 DEF Resolvable, FindImage, Target
<1> HIDE DEF good, x
<1>4. SetTypes' /\ RefsOfBlocks'
  BY <1>1, <1>2, CallKeepsFile
<1>5. SetAsCalled'
  <2> SUFFICES ASSUME InOrder(calls')
               PROVE  AsCalled(images', told', calls')
    BY <1>1, <1>2 DEF SetAsCalled
  <2>1. /\ AsCalled(images, told, calls) /\ told' = told
        /\ \A y : MadeIn(calls', y) = MadeIn(calls, y)
                                         \cup IF x = y THEN {Len(calls) + 1} ELSE {}
    BY <1>1, <1>2, CallInOrder
  <2>2. /\ \A y : y # x => MadeIn(calls', y) = MadeIn(calls, y)
        /\ MadeIn(calls', x) # {}
        /\ MadeIn(calls', "filter") = MadeIn(calls, "filter")
        /\ MadeIn(calls', "parts") = MadeIn(calls, "parts")
        /\ MadeIn(calls', "images") \cup MadeIn(calls', "imagesFailed") # {}
    BY <1>2, <2>1
  <2>3. DOMAIN images' = DOMAIN images /\ images' = [n \in DOMAIN images' |-> images'[n]]
    BY <1>1
  <2>4. ASSUME NEW n \in DOMAIN images'
        PROVE  /\ images'[n] = ImageFrom(told[n], images'[n].bootImage,
                                         IF MadeIn(calls, "parts") = {} THEN <<>> ELSE told[n].parts)
               /\ images'[n].bootImage \in {Nothing, told[n].boot}
               /\ images'[n].bootImage # Nothing => images'[n].bootImage \in DOMAIN images
               /\ MadeIn(calls', "images") # {} => images'[n].bootImage = told[n].boot
    <3>1. PICK block, parts : /\ block = told[n]
                              /\ parts = IF MadeIn(calls, "parts") = {} THEN <<>> ELSE told[n].parts
      OBVIOUS
    <3>2. PICK boot : boot = images[n].bootImage
      OBVIOUS
    <3>3. PICK i : i = images[n]
      OBVIOUS
    <3>4. /\ n \in DOMAIN images /\ boot \in {Nothing, block.boot}
          /\ i = ImageFrom(block, boot, parts)
          /\ boot # Nothing => boot \in DOMAIN images
          /\ MadeIn(calls, "images") # {} => boot = block.boot
      BY <2>1, <2>3, <3>1, <3>2, <3>3 DEF AsCalled
    <3>5. /\ i.ref = block.boot /\ i.bootImage = boot
          /\ \A y : [i EXCEPT !.bootImage = y] = ImageFrom(block, y, parts)
          /\ \A y : ImageFrom(block, y, parts).bootImage = y
      BY <3>4, Pointed
    <3>6. PICK now \in {boot, block.boot} :
             /\ images'[n] = ImageFrom(block, now, parts)
             /\ now # Nothing => now \in DOMAIN images
             /\ n \in visited => now = block.boot
             /\ n \notin visited => now = boot
      <4>1. images'[n] = IF n \in visited THEN SetPointer(n) ELSE i
        BY <1>1, <3>3, <3>4
      <4>2. CASE n \in visited /\ i.ref # Nothing
        <5>1. images'[n] = [i EXCEPT !.bootImage = i.ref]
          BY <3>3, <4>1, <4>2 DEF SetPointer, Target
        <5>2. i.ref \in DOMAIN images
          BY <1>3, <3>3, <4>2
        <5>3. images'[n] = ImageFrom(block, block.boot, parts)
          BY <3>5, <5>1
        <5> QED
          BY <3>5, <4>2, <5>2, <5>3
      <4>3. CASE n \in visited /\ i.ref = Nothing
        <5>1. images'[n] = i /\ boot = Nothing /\ block.boot = Nothing
          BY <3>3, <3>4, <3>5, <4>1, <4>3 DEF SetPointer
        <5> QED
          BY <3>4, <5>1
      <4>4. CASE n \notin visited
        BY <3>4, <4>1, <4>4
      <4> QED
        BY <4>2, <4>3, <4>4
    <3>7. images'[n].bootImage = now
      BY <3>5, <3>6
    <3>8. MadeIn(calls', "images") # {} => now = block.boot
      <4>1. CASE x = "images"
        BY <1>2, <3>4, <3>6, <4>1
      <4>2. CASE x # "images"
        BY <2>2, <3>4, <3>6, <4>2
      <4> QED
        BY <4>1, <4>2
    <3> QED
      BY <3>1, <3>4, <3>6, <3>7, <3>8
  <2> QED
    BY <2>1, <2>2, <2>3, <2>4 DEF AsCalled
<1> QED
  BY <1>4, <1>5 DEF SetIInv

LEMMA PartsResolved ==
    ASSUME SetIInv, ResolvePartRefs
    PROVE  SetIInv'
<1> DEFINE x == IF Found = partRefs THEN "parts" ELSE "partsFailed"
<1>1. /\ Calls(x) /\ x \in CallNames /\ stage = "read" /\ stage' \in {"read", "undefined"}
      /\ x # "partsFailed" => x = "parts" /\ Found = partRefs
      /\ (\A i \in DOMAIN Found : FindImage(Found[i].owner)) =>
            images' = Attach(images, Found) /\ stage' = stage
  BY DEF ResolvePartRefs, Calls, CallNames
<1> HIDE DEF x
<1>2. SetTypes' /\ RefsOfBlocks'
  BY <1>1, CallKeepsFile
<1>3. SetAsCalled'
  <2> SUFFICES ASSUME InOrder(calls')
               PROVE  stage' = "read" /\ AsCalled(images', told', calls')
    BY DEF SetAsCalled
  <2>1. /\ AsCalled(images, told, calls) /\ told' = told
        /\ \A y : MadeIn(calls', y) = MadeIn(calls, y)
                                         \cup IF x = y THEN {Len(calls) + 1} ELSE {}
        /\ x # "partsFailed"
        /\ x = "parts" => MadeIn(calls, "parts") = {} /\ MadeIn(calls, "filter") = {}
    BY <1>1, CallInOrder
  <2>2. x = "parts" /\ Found = partRefs /\ MadeIn(calls, "parts") = {} /\ MadeIn(calls, "filter") = {}
    BY <1>1, <2>1
  <2>3. /\ \A y : y # "parts" => MadeIn(calls', y) = MadeIn(calls, y)
        /\ MadeIn(calls', "parts") # {}
    BY <2>1, <2>2
  <2>4. PICK S : S = DOMAIN images
    OBVIOUS
  <2>5. S = DOMAIN told
    BY <2>1, <2>2, <2>4 DEF AsCalled
  <2>6. /\ \A i \in 1 .. Len(partRefs) : partRefs[i].owner \in S
        /\ \A n \in S : told[n].parts \in Seq(PartNames) /\ InARow(partRefs, n, told[n].parts)
        /\ partRefs \in Seq(Refs)
    BY <1>1, <2>5 DEF SetIInv, RefsOfBlocks, SetTypes
  <2>7. images' = Attach(images, partRefs) /\ stage' = "read"
    <3>1. DOMAIN partRefs = 1 .. Len(partRefs)
      BY <2>6
    <3> QED
      BY <1>1, <2>2, <2>4, <2>6, <3>1 DEF FindImage
  <2>8. PICK boot : boot = [n \in S |-> images[n].bootImage]
    OBVIOUS
  <2>9. images = [n \in S |-> ImageFrom(told[n], boot[n], <<>>)]
    BY <2>1, <2>2, <2>4, <2>8 DEF AsCalled
  <2>10. Attach(images, partRefs) = [n \in S |-> ImageFrom(told[n], boot[n], told[n].parts)]
    BY <2>4, <2>6, <2>9, AttachesAll
  <2>11. \A n \in S : /\ images'[n] = ImageFrom(told[n], boot[n], told[n].parts)
                      /\ images'[n].bootImage = boot[n]
    BY <2>7, <2>10 DEF ImageFrom
  <2>12. DOMAIN images' = S /\ images' = [n \in DOMAIN images' |-> images'[n]]
    BY <2>7, <2>10
  <2>13. \A n \in S : boot[n] = images[n].bootImage
    BY <2>8
  <2>14. \A n \in S :
            /\ boot[n] \in {Nothing, told[n].boot}
            /\ boot[n] # Nothing => boot[n] \in S
            /\ MadeIn(calls, "images") \cup MadeIn(calls, "imagesFailed") = {} => boot[n] = Nothing
            /\ MadeIn(calls, "images") # {} => boot[n] = told[n].boot
    BY <2>1, <2>4, <2>13 DEF AsCalled
  <2>15. AsCalled(images', told, calls')
    BY <2>3, <2>5, <2>11, <2>12, <2>14 DEF AsCalled
  <2> QED
    BY <2>1, <2>7, <2>15
<1> QED
  BY <1>2, <1>3 DEF SetIInv

LEMMA SetStep ==
    ASSUME SetIInv, [SetNext]_setVars
    PROVE  SetIInv'
<1>1. ASSUME NEW n \in ImageNames, NEW parts \in PartLists, NEW boot \in ImageNames \cup {Nothing},
             createImage(n, parts, boot)
      PROVE  SetIInv'
  BY <1>1, ImageCreated
<1>2. CASE \/ \E p \in PartNames : createPartition(p)
           \/ \E n \in ImageNames, parts \in PartLists : RefuseBlock(n, parts)
           \/ EndOfFile
  BY <1>2, OtherBlocks
<1>3. CASE ResolveImgRefs
  BY <1>3, ImagesResolved
<1>4. CASE ResolvePartRefs
  BY <1>4, PartsResolved
<1>5. ASSUME NEW kept \in SUBSET ImageNames, Filter(kept)
      PROVE  SetIInv'
  BY <1>5, FilteredInOrder
<1>6. ASSUME NEW n \in ImageNames, UseBootImage(n)
      PROVE  SetIInv'
  BY <1>6, UsedInOrder
<1>7. CASE UNCHANGED setVars
  BY <1>7 DEF setVars, SetIInv, SetTypes, RefsOfBlocks, SetAsCalled
<1> QED
  BY <1>1, <1>2, <1>3, <1>4, <1>5, <1>6, <1>7 DEF SetNext, SetDone

-----------------------------------------------------------------------------
(* The invariant and what it gives.                                         *)

\* Of any number of images, partitions, blocks and calls: while no block is
\* refused, the references of an image are those of its block, in a row; and as
\* long as the calls are made in their order, what is attached to an image and
\* what it points at is what they have resolved.
THEOREM SetInvariant == SetSpec => []SetIInv
<1>1. SetInit => SetIInv
  BY SetStart
<1>2. SetIInv /\ [SetNext]_setVars => SetIInv'
  BY SetStep
<1> QED
  BY <1>1, <1>2, PTL DEF SetSpec

\* ImageSet::ResolvePartRefs, Filter and ResolveImgRefs: called in that order, which
\* nothing in the program does yet, they touch no image that is gone, attach each image the partitions of its block
\* in their order, and set its boot image to the one it names.
THEOREM RefsStayAlive == SetSpec => []RefsAlive
<1>1. SetIInv => RefsAlive
  <2> SUFFICES ASSUME SetIInv, Orderly
               PROVE  /\ stage # "undefined"
                      /\ stage = "read" =>
                            \A n \in DOMAIN images :
                               /\ images[n].parts = IF Made("parts") = {} THEN <<>> ELSE told[n].parts
                               /\ images[n].bootImage \in {Nothing, told[n].boot}
                               /\ Made("images") # {} => images[n].bootImage = told[n].boot
    BY DEF RefsAlive
  <2>1. \A call : Made(call) = MadeIn(calls, call)
    BY DEF Made, MadeIn
  <2>2. InOrder(calls)
    BY <2>1 DEF Orderly, InOrder
  <2>3. stage # "undefined" /\ (stage = "read" => AsCalled(images, told, calls))
    BY <2>2 DEF SetIInv, SetAsCalled
  <2>4. ASSUME stage = "read", NEW n \in DOMAIN images
        PROVE  /\ images[n].parts = IF MadeIn(calls, "parts") = {} THEN <<>> ELSE told[n].parts
               /\ images[n].bootImage \in {Nothing, told[n].boot}
               /\ MadeIn(calls, "images") # {} => images[n].bootImage = told[n].boot
    BY <2>3, <2>4, Pointed DEF AsCalled
  <2> QED
    BY <2>1, <2>3, <2>4
<1> QED
  BY <1>1, SetInvariant, PTL

=============================================================================

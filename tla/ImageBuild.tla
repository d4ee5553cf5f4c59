----------------------------- MODULE ImageBuild -----------------------------
(***************************************************************************)
(* The life of one image: a front end gives it settings in some order, its  *)
(* reference to a boot image may be resolved, defaults are applied if the   *)
(* operation creates the image, and it is finalized.                        *)
(***************************************************************************)
EXTENDS Image

CONSTANTS MaxSettings,   \* bound: how many settings are given
          TypeOf         \* the layouts of the images a reference may name

ASSUME BuildAssumption ==
    /\ MaxSettings \in Nat
    /\ TypeOf \in [Names -> PartTypes \cup {NoValue}]
    /\ "" \notin Names
    /\ NoValue \notin {"valid", "refused", "aborted"}

VARIABLES img,       \* the image
          given,     \* the settings it accepted, in order
          phase,     \* where its life is
          defaulted, \* whether defaults were applied
          verdict    \* what Finalize answered

buildVars == <<img, given, phase, defaulted, verdict>>

BuildInit ==
    /\ img = NewImage
    /\ given = <<>>
    /\ phase = "parsing"
    /\ defaulted = FALSE
    /\ verdict = NoValue

\* A configuration file holds one value for each property of an image, in the
\* order of a hash table; the command line may give a property again.
MayGive(s) ==
    /\ phase = "parsing"
    /\ Offered(s)
    /\ Len(given) < MaxSettings

\* A front end sets one more property.
GiveProp(s) ==
    /\ MayGive(s)
    /\ \E set \in Set(img, s) : img' = set
    /\ given' = Append(given, s)
    /\ UNCHANGED <<phase, defaulted, verdict>>

\* The first setting that fails ends the front end, and the image with it.
RefuseProp(s) ==
    /\ MayGive(s)
    /\ Set(img, s) = {}
    /\ given' = Append(given, s)
    /\ phase' = "dropped"
    /\ verdict' = "refused"
    /\ UNCHANGED <<img, defaulted>>

\* A configuration file's image replays its deferred settings at this point.
EndBuild ==
    /\ phase = "parsing"
    /\ \/ img' = ResolveAllDeferred(img)
       \/ UNCHANGED img
    /\ phase' = "parsed"
    /\ UNCHANGED <<given, defaulted, verdict>>

\* ResolveImgRefs calls the setter of every reference; the last one stays.  A
\* name that no image has ends the program.
ResolveRefs ==
    /\ phase = "parsed"
    /\ img.bootImage = NoValue
    /\ img.refs # <<>>
    /\ img' = [img EXCEPT !.bootImage = Last(img.refs)]
    /\ UNCHANGED <<given, phase, defaulted, verdict>>

ApplyDefaults ==
    /\ phase = "parsed"
    /\ img' = SetDefaults(img)
    /\ phase' = "ready"
    /\ defaulted' = TRUE
    /\ UNCHANGED <<given, verdict>>

\* An operation on an existing image applies no defaults.
SkipDefaults ==
    /\ phase = "parsed"
    /\ phase' = "ready"
    /\ UNCHANGED <<img, given, defaulted, verdict>>

DoFinalize ==
    /\ phase = "ready"
    /\ verdict' = Finalize(img, TypeOf)
    /\ img' = ResolveAllDeferred(img)
    /\ phase' = "final"
    /\ UNCHANGED <<given, defaulted>>

\* The image was dropped by the front end or has its answer.
Ended ==
    /\ phase \in {"dropped", "final"}
    /\ UNCHANGED buildVars

BuildNext ==
    \/ \E s \in Settings : GiveProp(s) \/ RefuseProp(s)
    \/ EndBuild \/ ResolveRefs \/ ApplyDefaults \/ SkipDefaults \/ DoFinalize
    \/ Ended

BuildSpec == BuildInit /\ [][BuildNext]_buildVars

-----------------------------------------------------------------------------
InForce(s) ==
    CASE s.prop = "size"          -> img.size = s.val
      [] s.prop = "boot_mode"     -> img.bootMode = BootModeOf(s.val)
      [] s.prop \in DOMAIN SlotOf -> img.comps[SlotOf[s.prop]] = s.val
      [] s.prop = "boot_emu"      -> img.bootEmu = s.val
      [] s.prop = "boot_image"    -> s.val \in ToSet(img.refs)

Given(p) == {given[i].val : i \in {j \in DOMAIN given : given[j].prop = p}}

\* No setting a front end was told is fine gets lost, and no default takes
\* its place: it is still deferred, and then Finalize reports it, or a value
\* given for its property is in force.
NothingLost ==
    phase # "dropped" =>
        \A i \in DOMAIN given :
            \/ given[i] \in ToSet(img.deferred)
            \/ \E v \in Given(given[i].prop) : InForce([given[i] EXCEPT !.val = v])

\* Nothing waits that could be applied: every way a component can get loaded
\* replays what was deferred for it.
DeferredIsStuck == \A i \in DOMAIN img.deferred : ~ CompTakes(img, img.deferred[i])

\* SetDefaults leaves no ISO9660 image without an emulation, so the assertion
\* in IsoPartComp::Validate holds when the operation creates the image.
DefaultsPreventAbort == defaulted => verdict # "aborted"

Either(p, default) ==
    IF Given(p) # {} THEN CHOOSE v \in Given(p) : TRUE
    ELSE IF defaulted THEN default ELSE NoValue

\* The settings, taken as a set, describe an image that can be built.
Sound ==
    LET format == Either("format", "raw")
        type   == Either("type", IF format = "iso9660" THEN "iso9660" ELSE "gpt")
        emu    == Either("boot_emu", "noemu")
    IN  /\ \A p \in Props : Given(p) \subseteq Known[p]
        /\ type # "iso9660" => \A p \in CompProps : Given(p) = {}
        /\ type = "iso9660" =>
               IF emu = "noemu" THEN img.bootImage = NoValue
               ELSE /\ img.bootImage \in Given("boot_image")
                    /\ TypeOf[img.bootImage] \in ValidBootImage[emu]

\* Whether an image whose settings are of different properties is accepted
\* depends on the settings only, never on the order the hash table of a parsed
\* block yields them in: no error comes too early, and none is missed.
VerdictOrderFree ==
    ((\A i, j \in DOMAIN given : given[i].prop = given[j].prop => i = j)
        /\ verdict \in {"valid", "refused"}) => (verdict = "valid" <=> Sound)

\* A slot is filled once: no call replaces a loaded component, and with it
\* the properties it holds.
SlotsKeep ==
    [][\A s \in Slots : Loaded(img, s) => img'.comps[s] = img.comps[s]]_buildVars

-----------------------------------------------------------------------------
(* What the code says of itself and does not keep.                          *)

\* assert (bootEmu != IsoBootEmu::Max)
NeverAborts == verdict # "aborted"

=============================================================================

------------------------------- MODULE Image -------------------------------
(***************************************************************************)
(* One disk image and its components (src/source/Image.cxx and comps/) as   *)
(* operators on a record.  An image has three component slots, properties   *)
(* of its own, and properties that belong to whichever component is loaded  *)
(* in the slot of the partition type.  A property set before its component  *)
(* is loaded is deferred and replayed later.                                *)
(*                                                                          *)
(* A value is an identifier; Mistyped stands for a value of a type that     *)
(* cannot be cast to the property's.  An operation that fails changes       *)
(* nothing, so a setter yields the set of images it may leave, empty when   *)
(* it returns an error.                                                     *)
(***************************************************************************)
EXTENDS Integers, SequencesExt

CONSTANTS Names,       \* names an image may refer to
          Sizes,       \* sizes an image may be given
          NoValue      \* not set, not loaded, not resolved

Mistyped == "mistyped"

\* "unknown" stands for an identifier that no table has.
ASSUME ImageAssumption ==
    /\ NoValue \notin Names \cup Sizes
    /\ NoValue \notin {"mbr", "gpt", "iso9660", "floppy", "raw", "qcow2", "grub", "none",
                       "noemu", "hdd", "fdd", "bios", "efi", "uefi", "unknown", Mistyped}
    /\ {Mistyped, "unknown"} \cap (Names \cup Sizes) = {}

PartTypes   == {"mbr", "gpt", "iso9660", "floppy"}
FormatTypes == {"raw", "qcow2", "iso9660"}
BootTypes   == {"grub", "none"}
BootEmus    == {"noemu", "hdd", "fdd"}
BootModes   == {"none", "bios", "efi"}

Slots == {"Boot", "Format", "PartType"}

\* The base properties that load a component, and the slot they fill.
SlotOf == [type |-> "PartType", format |-> "Format", bootloader |-> "Boot"]

\* The properties owned by the component in the slot PartType.
CompProps == {"boot_emu", "boot_image"}

\* The identifiers each property's setter knows.
Known == [size       |-> Sizes,
          boot_mode  |-> BootModes \cup {"uefi"},
          type       |-> PartTypes,
          format     |-> FormatTypes,
          bootloader |-> BootTypes,
          boot_emu   |-> BootEmus,
          boot_image |-> Names]

Props == DOMAIN Known

Settings == UNION {[prop : {p}, val : Known[p] \cup {"unknown", Mistyped}] : p \in Props}

\* boot_image is any identifier, and a size has no identifier.
Offered(s) == s.prop \in {"size", "boot_image"} => s.val # "unknown"

Images == [comps     : [Slots -> PartTypes \cup FormatTypes \cup BootTypes \cup {NoValue}],
           size      : Sizes \cup {NoValue},
           bootMode  : BootModes \cup {NoValue},
           bootEmu   : BootEmus \cup {NoValue},
           bootImage : Names \cup {NoValue},
           refs      : Seq(Names \cup {""}),
           deferred  : Seq(Settings)]

NewImage == [comps     |-> [s \in Slots |-> NoValue],
             size      |-> NoValue,
             bootMode  |-> NoValue,
             bootEmu   |-> NoValue,
             bootImage |-> NoValue,
             refs      |-> <<>>,
             deferred  |-> <<>>]

-----------------------------------------------------------------------------
(* Components and deferred properties.                                      *)

Loaded(img, slot) == img.comps[slot] # NoValue

PartType(img) == img.comps["PartType"]

\* Only the ISO9660 layout has properties of its own; the others answer that
\* the property is missing.
CompTakes(img, s) == PartType(img) = "iso9660" /\ s.val \in Known[s.prop]

\* The setters of the ISO9660 registry: a boot image is recorded as a
\* reference by name, to be resolved when all images are known.
CompSet(img, s) ==
    IF s.prop = "boot_emu" THEN [img EXCEPT !.bootEmu = s.val]
    ELSE [img EXCEPT !.refs = Append(@, s.val)]

\* Mutants: a setting that cannot be applied is dropped; nothing is replayed.
resolveDeferredProp_Dropped(img, s) == IF CompTakes(img, s) THEN CompSet(img, s) ELSE img
ResolveAllDeferred_Never(img) == img

\* What fails stays deferred.
resolveDeferredProp(img, s) ==
    IF CompTakes(img, s) THEN CompSet(img, s)
    ELSE [img EXCEPT !.deferred = Append(@, s)]

\* Replay in the order of the container.
ResolveAllDeferred(img) ==
    FoldLeft(resolveDeferredProp, [img EXCEPT !.deferred = <<>>], img.deferred)

\* A component loaded in the slot that owns deferred properties replays them.
AddComponent(img, slot, type) ==
    LET loaded == [img EXCEPT !.comps[slot] = type]
    IN  IF slot = "PartType" THEN ResolveAllDeferred(loaded) ELSE loaded

-----------------------------------------------------------------------------
(* Image::Set.                                                              *)

Defers(img, s) == s.prop \in CompProps /\ ~ Loaded(img, "PartType")

\* Mutant: a loaded component is replaced.
Takes_Overwrite(img, s) ==
    /\ s.val \in Known[s.prop]
    /\ s.prop \in CompProps => CompTakes(img, s)

\* The setter succeeds: a known identifier, a component that has the property,
\* an empty slot.
Takes(img, s) ==
    /\ s.val \in Known[s.prop]
    /\ s.prop \in CompProps => CompTakes(img, s)
    /\ s.prop \in DOMAIN SlotOf => ~ Loaded(img, SlotOf[s.prop])

\* Mutant: the two names of the mode are two modes.
BootModeOf_Apart(id) == id

BootModeOf(id) == IF id = "uefi" THEN "efi" ELSE id

Put(img, s) ==
    CASE s.prop = "size"           -> [img EXCEPT !.size = s.val]
      [] s.prop = "boot_mode"      -> [img EXCEPT !.bootMode = BootModeOf(s.val)]
      [] s.prop \in DOMAIN SlotOf  -> AddComponent(img, SlotOf[s.prop], s.val)
      [] s.prop \in CompProps      -> CompSet(img, s)

\* deferredProps is an unordered_multimap: where a new element goes among the
\* equal ones is the library's choice.
Defer(img, s) ==
    {[img EXCEPT !.deferred = InsertAt(@, i, s)] : i \in 1 .. Len(img.deferred) + 1}

Set(img, s) ==
    IF Defers(img, s) THEN Defer(img, s)
    ELSE IF Takes(img, s) THEN {Put(img, s)} ELSE {}

-----------------------------------------------------------------------------
(* Image::SetDefaults: the image's own properties, then each component.     *)

Default(img, slot, type) ==
    IF Loaded(img, slot) THEN img ELSE AddComponent(img, slot, type)

BaseDefaults(img) ==
    Default(Default([img EXCEPT !.bootMode = IF @ = NoValue THEN "none" ELSE @],
                    "Format", "raw"),
            "Boot", "none")

\* Mutant: the layout does not follow the format.
FormatDefaults_Gpt(img) == Default(img, "PartType", "gpt")

FormatDefaults(img) ==
    Default(img, "PartType",
            IF img.comps["Format"] = "iso9660" THEN "iso9660" ELSE "gpt")

\* The default of boot_image is the empty name, set like any other: as long
\* as no reference is resolved, a reference to it is recorded.
PartDefaults(img) ==
    IF PartType(img) # "iso9660" THEN img
    ELSE [img EXCEPT !.bootEmu = IF @ = NoValue THEN "noemu" ELSE @,
                     !.refs = IF img.bootImage = NoValue THEN Append(@, "") ELSE @]

\* Mutant: the components are visited the other way round.
SetDefaults_Reversed(img) == FormatDefaults(PartDefaults(BaseDefaults(img)))

SetDefaults(img) == PartDefaults(FormatDefaults(BaseDefaults(img)))

-----------------------------------------------------------------------------
(* Image::Finalize.  typeOf[n] is the layout of the image n, or NoValue.    *)

\* The layouts a boot image may have under each emulation.
ValidBootImage == [hdd |-> {"mbr", "gpt"}, fdd |-> {"floppy"}]

\* IsoPartComp::Validate.
ValidIso(img, typeOf) ==
    \/ img.bootEmu = "noemu" /\ img.bootImage = NoValue
    \/ /\ img.bootEmu \in DOMAIN ValidBootImage
       /\ img.bootImage # NoValue
       /\ typeOf[img.bootImage] \in ValidBootImage[img.bootEmu]

\* The assertion of IsoPartComp::Validate fails and ends the program.
Aborts(img) == PartType(img) = "iso9660" /\ img.bootEmu = NoValue

Validate(img, typeOf) ==
    CASE PartType(img) # "iso9660" -> "valid"
      [] Aborts(img)               -> "aborted"
      [] OTHER                     -> IF ValidIso(img, typeOf) THEN "valid" ELSE "refused"

\* What Finalize answers; it first replays what is deferred.
Finalize(img, typeOf) ==
    LET final == ResolveAllDeferred(img)
    IN  IF final.deferred = <<>> THEN Validate(final, typeOf) ELSE "refused"

=============================================================================

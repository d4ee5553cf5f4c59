----------------------------- MODULE ImageFacts -----------------------------
(***************************************************************************)
(* Facts about the operators of Image: what a replay of deferred settings,   *)
(* a setter and the defaults make of an image, in terms of the set of the    *)
(* settings it accepted.  The proofs about one image and those about a run   *)
(* of the program rest on them.                                             *)
(***************************************************************************)
EXTENDS Image, WellFoundedInduction, TLAPS

-----------------------------------------------------------------------------
(* A replay, setting by setting.                                            *)

\* Induction, for a set.
LEMMA NatSet ==
    ASSUME NEW S, 0 \in S, \A n \in Nat : n \in S => n + 1 \in S
    PROVE  Nat \subseteq S
<1> SUFFICES ASSUME Nat \ S # {}
             PROVE  FALSE
  OBVIOUS
<1>1. PICK x \in Nat \ S : \A y \in Nat \ S : ~ (<<y, x>> \in OpToRel(<, Nat))
  BY WFMin, NatLessThanWellFounded, Zenon
<1>2. \A y \in Nat \ S : ~ (y < x)
  BY <1>1 DEF OpToRel
<1>3. x # 0 /\ x - 1 \in Nat
  OBVIOUS
<1>4. x - 1 \in S
  BY <1>2, <1>3
<1>5. (x - 1) + 1 \in S
  BY <1>3, <1>4
<1> QED
  BY <1>5

\* The largest of some of the first numbers.
LEMMA MaxOfSome ==
    ASSUME NEW n \in Nat, NEW s \in SUBSET (1 .. n), s # {}
    PROVE  Max(s) \in s /\ \A y \in s : Max(s) >= y
<1> DEFINE Good == {k \in Nat : \A t \in SUBSET (1 .. k) : t # {} => \E x \in t : \A y \in t : x >= y}
<1>1. 0 \in Good
  <2>1. \A t \in SUBSET (1 .. 0) : t = {}
    OBVIOUS
  <2> QED
    BY <2>1
<1>2. ASSUME NEW k \in Nat, k \in Good
      PROVE  k + 1 \in Good
  <2> SUFFICES ASSUME NEW t \in SUBSET (1 .. k + 1), t # {}
               PROVE  \E x \in t : \A y \in t : x >= y
    OBVIOUS
  <2>1. CASE k + 1 \in t
    BY <2>1
  <2>2. CASE k + 1 \notin t
    <3>1. t \in SUBSET (1 .. k)
      BY <2>2
    <3> QED
      BY <1>2, <3>1
  <2> QED
    BY <2>1, <2>2
<1>3. n \in Good
  <2> HIDE DEF Good
  <2>1. Nat \subseteq Good
    BY <1>1, <1>2, NatSet
  <2> QED
    BY <2>1
<1>4. \E x \in s : \A y \in s : x >= y
  BY <1>3
<1> QED
  BY <1>4 DEF Max

LEMMA MaxIsLast ==
    ASSUME NEW n \in Nat, NEW s \in SUBSET (1 .. n + 1), n + 1 \in s
    PROVE  Max(s) = n + 1
<1>1. n + 1 \in Nat /\ s # {}
  OBVIOUS
<1>2. Max(s) \in s /\ Max(s) >= n + 1
  BY <1>1, MaxOfSome
<1>3. Max(s) \in 1 .. n + 1
  BY <1>2
<1> QED
  BY <1>2, <1>3

LEMMA FirstOnes ==
    ASSUME NEW n \in Nat, NEW k \in 1 .. n
    PROVE  /\ 1 .. k \in SUBSET (1 .. n) /\ 1 .. k # {} /\ (1 .. k) \ {k} = 1 .. k - 1
           /\ k \in Nat /\ k - 1 \in 0 .. n /\ k \in 0 .. n
           /\ Max(1 .. k) = k
<1>1. k \in Nat /\ k - 1 \in Nat /\ k - 1 \in 0 .. n /\ k \in 0 .. n /\ (k - 1) + 1 = k
  OBVIOUS
<1>2. 1 .. k \in SUBSET (1 .. n) /\ k \in 1 .. k
  OBVIOUS
<1>3. (1 .. k) \ {k} = 1 .. k - 1
  BY <1>1
<1>4. Max(1 .. k) = k
  BY <1>1, <1>2, MaxIsLast
<1> QED
  BY <1>1, <1>2, <1>3, <1>4

\* What FoldLeft computes, for each part of the sequence.
IsFold(g, b, s, n) ==
    g = [t \in SUBSET (1 .. n) |->
            IF t = {} THEN b ELSE resolveDeferredProp(g[t \ {Max(t)}], s[Max(t)])]

LEMMA FoldExists ==
    ASSUME NEW b, NEW s, NEW n \in Nat
    PROVE  \E g : IsFold(g, b, s, n)
<1> DEFINE Good == {k \in Nat : \E g : IsFold(g, b, s, k)}
<1>1. 0 \in Good
  <2>1. SUBSET (1 .. 0) = {{}}
    OBVIOUS
  <2>2. IsFold([t \in {{}} |-> b], b, s, 0)
    BY <2>1 DEF IsFold
  <2> QED
    BY <2>2
<1>2. ASSUME NEW k \in Nat, k \in Good
      PROVE  k + 1 \in Good
  <2>1. PICK g : IsFold(g, b, s, k)
    BY <1>2
  <2> DEFINE h == [t \in SUBSET (1 .. k + 1) |->
                      IF k + 1 \in t THEN resolveDeferredProp(g[t \ {k + 1}], s[k + 1]) ELSE g[t]]
  <2>2. \A t \in SUBSET (1 .. k + 1) : t \ {k + 1} \in SUBSET (1 .. k)
    OBVIOUS
  <2>3. \A t \in SUBSET (1 .. k) : t \in SUBSET (1 .. k + 1) /\ k + 1 \notin t
    OBVIOUS
  <2>4. \A t \in SUBSET (1 .. k) : h[t] = g[t]
    BY <2>3
  <2>5. ASSUME NEW t \in SUBSET (1 .. k + 1)
        PROVE  h[t] = IF t = {} THEN b ELSE resolveDeferredProp(h[t \ {Max(t)}], s[Max(t)])
    <3>1. CASE k + 1 \in t
      <4>1. Max(t) = k + 1
        BY <3>1, MaxIsLast
      <4>3. h[t] = resolveDeferredProp(g[t \ {k + 1}], s[k + 1])
        BY <3>1
      <4>4. h[t \ {k + 1}] = g[t \ {k + 1}]
        BY <2>2, <2>4
      <4> HIDE DEF h
      <4> QED
        BY <3>1, <4>1, <4>3, <4>4
    <3>2. CASE k + 1 \notin t
      <4>1. t \in SUBSET (1 .. k) /\ h[t] = g[t]
        BY <2>2, <3>2
      <4>2. CASE t = {}
        <5>1. g[t] = b
          BY <2>1, <4>1, <4>2 DEF IsFold
        <5> HIDE DEF h
        <5> QED
          BY <4>1, <4>2, <5>1
      <4>3. CASE t # {}
        <5>1. t \ {Max(t)} \in SUBSET (1 .. k)
          BY <4>1
        <5>2. g[t] = resolveDeferredProp(g[t \ {Max(t)}], s[Max(t)])
          BY <2>1, <4>1, <4>3 DEF IsFold
        <5>3. h[t \ {Max(t)}] = g[t \ {Max(t)}]
          BY <2>4, <5>1
        <5> HIDE DEF h
        <5> QED
          BY <4>1, <4>3, <5>2, <5>3
      <4> QED
        BY <4>2, <4>3
    <3> QED
      BY <3>1, <3>2
  <2>6. h = [t \in SUBSET (1 .. k + 1) |-> h[t]]
    OBVIOUS
  <2> HIDE DEF h
  <2>7. IsFold(h, b, s, k + 1)
    BY <2>5, <2>6 DEF IsFold
  <2> QED
    BY <2>7
<1> HIDE DEF Good
<1>3. Nat \subseteq Good
  BY <1>1, <1>2, NatSet
<1> QED
  BY <1>3 DEF Good

\* A replay goes through the settings one after the other.
LEMMA ReplayTrace ==
    ASSUME NEW b, NEW s \in Seq(Settings)
    PROVE  \E f : /\ f[0] = b
                  /\ \A k \in 1 .. Len(s) : f[k] = resolveDeferredProp(f[k - 1], s[k])
                  /\ FoldLeft(resolveDeferredProp, b, s) = f[Len(s)]
<1> DEFINE n == Len(s)
           F == CHOOSE g : IsFold(g, b, s, n)
           f == [k \in 0 .. n |-> F[1 .. k]]
<1>1. n \in Nat /\ DOMAIN s = 1 .. n
  OBVIOUS
<1>2. FoldLeft(resolveDeferredProp, b, s) = F[1 .. n]
  BY <1>1 DEF FoldLeft, MapThenFoldSet, IsFold
<1> HIDE DEF n
<1>3. IsFold(F, b, s, n)
  BY <1>1, FoldExists
<1> HIDE DEF F
<1>4. f[0] = b
  <2>1. 1 .. 0 = {} /\ {} \in SUBSET (1 .. n)
    OBVIOUS
  <2>2. F[{}] = b
    BY <1>3, <2>1 DEF IsFold
  <2> QED
    BY <1>1, <2>1, <2>2
<1>5. ASSUME NEW k \in 1 .. n
      PROVE  f[k] = resolveDeferredProp(f[k - 1], s[k])
  <2>1. /\ 1 .. k \in SUBSET (1 .. n) /\ 1 .. k # {} /\ (1 .. k) \ {k} = 1 .. k - 1
        /\ k - 1 \in 0 .. n /\ k \in 0 .. n
    BY <1>1, FirstOnes
  <2>2. Max(1 .. k) = k
    BY <1>1, FirstOnes
  <2>3. F[1 .. k] = resolveDeferredProp(F[(1 .. k) \ {Max(1 .. k)}], s[Max(1 .. k)])
    BY <1>3, <2>1 DEF IsFold
  <2>4. F[1 .. k] = resolveDeferredProp(F[1 .. k - 1], s[k])
    BY <2>1, <2>2, <2>3
  <2> QED
    BY <2>1, <2>4
<1>6. FoldLeft(resolveDeferredProp, b, s) = f[n]
  BY <1>1, <1>2
<1> QED
  BY <1>4, <1>5, <1>6 DEF n
-----------------------------------------------------------------------------
(* The tables.                                                              *)

LEMMA PropTable ==
    /\ Props = {"size", "boot_mode", "type", "format", "bootloader", "boot_emu", "boot_image"}
    /\ DOMAIN SlotOf = {"type", "format", "bootloader"}
    /\ SlotOf["type"] = "PartType" /\ SlotOf["format"] = "Format" /\ SlotOf["bootloader"] = "Boot"
    /\ CompProps = {"boot_emu", "boot_image"}
    /\ Slots = {"PartType", "Format", "Boot"}
BY DEF Props, Known, SlotOf, CompProps, Slots

LEMMA KnownTable ==
    /\ Known["size"] = Sizes /\ Known["boot_mode"] = BootModes \cup {"uefi"}
    /\ Known["type"] = PartTypes /\ Known["format"] = FormatTypes
    /\ Known["bootloader"] = BootTypes /\ Known["boot_emu"] = BootEmus
    /\ Known["boot_image"] = Names
BY DEF Known

LEMMA SettingShape ==
    ASSUME NEW s \in Settings
    PROVE  /\ s.prop \in Props
           /\ s = [prop |-> s.prop, val |-> s.val]
           /\ s.val \in Known[s.prop] \cup {"unknown", Mistyped}
BY DEF Settings

LEMMA NoValueIsNone ==
    /\ NoValue \notin Sizes /\ NoValue \notin BootModes /\ NoValue \notin PartTypes
    /\ NoValue \notin FormatTypes /\ NoValue \notin BootTypes /\ NoValue \notin BootEmus
    /\ NoValue \notin Names /\ NoValue \notin {"raw", "none", "gpt", "iso9660", "noemu"}
BY ImageAssumption DEF BootModes, PartTypes, FormatTypes, BootTypes, BootEmus

LEMMA NotASetting ==
    ASSUME NEW s \in Settings
    PROVE  s.val # NoValue
<1>1. s.prop \in Props /\ s.val \in Known[s.prop] \cup {"unknown", Mistyped}
  BY SettingShape
<1>2. NoValue \notin {"unknown", Mistyped, "uefi"}
  BY ImageAssumption
<1>3. \A p \in Props : NoValue \notin Known[p]
  BY <1>2, NoValueIsNone, KnownTable, PropTable
<1> QED
  BY <1>1, <1>2, <1>3

-----------------------------------------------------------------------------
(* What a replay does.                                                      *)

\* The names that references are to.
RefNames == Names \cup {""}

Vals(G, p) == {s.val : s \in {x \in G : x.prop = p}}

\* r is i but for what was taken of the settings of D.
Replayed(i, D, r) ==
    /\ r \in Images
    /\ r.comps = i.comps /\ r.size = i.size /\ r.bootMode = i.bootMode
    /\ r.bootImage = i.bootImage
    /\ ToSet(r.deferred) = {s \in D : ~ CompTakes(i, s)}
    /\ ToSet(r.refs) = ToSet(i.refs) \cup Vals({s \in D : CompTakes(i, s)}, "boot_image")
    /\ \/ Vals({s \in D : CompTakes(i, s)}, "boot_emu") = {} /\ r.bootEmu = i.bootEmu
       \/ r.bootEmu \in Vals({s \in D : CompTakes(i, s)}, "boot_emu")

LEMMA AppendSet ==
    ASSUME NEW S, NEW s \in Seq(S), NEW x \in S
    PROVE  Append(s, x) \in Seq(S) /\ ToSet(Append(s, x)) = ToSet(s) \cup {x}
<1> DEFINE a == Append(s, x)
<1>1. /\ a \in Seq(S) /\ Len(a) = Len(s) + 1 /\ DOMAIN a = 1 .. Len(s) + 1
      /\ \A i \in 1 .. Len(s) : a[i] = s[i]
      /\ a[Len(s) + 1] = x
      /\ DOMAIN s = 1 .. Len(s) /\ Len(s) \in Nat
  OBVIOUS
<1> HIDE DEF a
<1>2. ToSet(a) = ToSet(s) \cup {x}
  <2>1. \A i \in 1 .. Len(s) + 1 : i = Len(s) + 1 \/ i \in 1 .. Len(s)
    BY <1>1
  <2>2. Len(s) + 1 \in 1 .. Len(s) + 1 /\ \A i \in 1 .. Len(s) : i \in 1 .. Len(s) + 1
    BY <1>1
  <2> QED
    BY <1>1, <2>1, <2>2 DEF ToSet
<1> QED
  BY <1>1, <1>2 DEF a

LEMMA AppendSetting ==
    ASSUME NEW d \in Seq(Settings), NEW s \in Settings
    PROVE  Append(d, s) \in Seq(Settings) /\ ToSet(Append(d, s)) = ToSet(d) \cup {s}
BY AppendSet, Zenon

LEMMA AppendName ==
    ASSUME NEW d \in Seq(RefNames), NEW s \in RefNames
    PROVE  Append(d, s) \in Seq(RefNames) /\ ToSet(Append(d, s)) = ToSet(d) \cup {s}
BY AppendSet, Zenon

LEMMA ReplaysOne ==
    ASSUME NEW i \in Images, NEW D, NEW m, Replayed(i, D, m), NEW s \in Settings,
           s.prop \in CompProps, NEW r, r = resolveDeferredProp(m, s)
    PROVE  Replayed(i, D \cup {s}, r)
<1>1. m \in Images /\ m.comps = i.comps
  BY DEF Replayed
<1> DEFINE d == m.deferred
           names == m.refs
<1>2. d = m.deferred /\ names = m.refs
  OBVIOUS
<1>7. d \in Seq(Settings) /\ names \in Seq(RefNames)
  BY <1>1 DEF Images, RefNames
<1> HIDE DEF d, names
<1>3. CompTakes(m, s) <=> CompTakes(i, s)
  BY <1>1 DEF CompTakes, PartType
<1>4. CASE ~ CompTakes(i, s)
  <2>1. r = [m EXCEPT !.deferred = Append(@, s)]
    BY <1>3, <1>4 DEF resolveDeferredProp
  <2> DEFINE a == Append(d, s)
  <2>2. a \in Seq(Settings) /\ ToSet(a) = ToSet(d) \cup {s}
    BY <1>7, AppendSetting
  <2>6. a = Append(d, s)
    OBVIOUS
  <2> HIDE DEF a
  <2>3. /\ r \in Images /\ r.comps = m.comps /\ r.size = m.size /\ r.bootMode = m.bootMode
        /\ r.bootImage = m.bootImage /\ r.bootEmu = m.bootEmu /\ r.refs = m.refs
        /\ r.deferred = a
    BY <1>1, <1>2, <2>1, <2>2, <2>6 DEF Images
  <2>4. {x \in D \cup {s} : CompTakes(i, x)} = {x \in D : CompTakes(i, x)}
    BY <1>4
  <2>5. {x \in D \cup {s} : ~ CompTakes(i, x)} = {x \in D : ~ CompTakes(i, x)} \cup {s}
    BY <1>4
  <2> QED
    BY <1>2, <2>2, <2>3, <2>4, <2>5 DEF Replayed
<1>5. CASE CompTakes(i, s) /\ s.prop = "boot_emu"
  <2>1. r = [m EXCEPT !.bootEmu = s.val]
    BY <1>3, <1>5 DEF resolveDeferredProp, CompSet
  <2>2. s.val \in BootEmus
    BY <1>5, KnownTable DEF CompTakes
  <2>3. /\ r \in Images /\ r.comps = m.comps /\ r.size = m.size /\ r.bootMode = m.bootMode
        /\ r.bootImage = m.bootImage /\ r.bootEmu = s.val /\ r.refs = m.refs
        /\ r.deferred = m.deferred
    BY <1>1, <2>1, <2>2 DEF Images
  <2>4. {x \in D \cup {s} : CompTakes(i, x)} = {x \in D : CompTakes(i, x)} \cup {s}
    BY <1>5
  <2>5. {x \in D \cup {s} : ~ CompTakes(i, x)} = {x \in D : ~ CompTakes(i, x)}
    BY <1>5
  <2>6. /\ Vals({x \in D : CompTakes(i, x)} \cup {s}, "boot_image")
              = Vals({x \in D : CompTakes(i, x)}, "boot_image")
        /\ s.val \in Vals({x \in D : CompTakes(i, x)} \cup {s}, "boot_emu")
    BY <1>5 DEF Vals
  <2> QED
    BY <2>3, <2>4, <2>5, <2>6 DEF Replayed
<1>6. CASE CompTakes(i, s) /\ s.prop = "boot_image"
  <2>1. r = [m EXCEPT !.refs = Append(@, s.val)]
    BY <1>3, <1>6 DEF resolveDeferredProp, CompSet
  <2>2. s.val \in Names
    BY <1>6, KnownTable DEF CompTakes
  <2> DEFINE a == Append(names, s.val)
  <2>8. a = Append(names, s.val)
    OBVIOUS
  <2>9. s.val \in RefNames
    BY <2>2 DEF RefNames
  <2>3. a \in Seq(RefNames) /\ ToSet(a) = ToSet(names) \cup {s.val}
    BY <1>7, <2>9, AppendName
  <2> HIDE DEF a
  <2>4. /\ r \in Images /\ r.comps = m.comps /\ r.size = m.size /\ r.bootMode = m.bootMode
        /\ r.bootImage = m.bootImage /\ r.bootEmu = m.bootEmu /\ r.refs = a
        /\ r.deferred = m.deferred
    BY <1>1, <1>2, <2>1, <2>3, <2>8 DEF Images, RefNames
  <2>5. {x \in D \cup {s} : CompTakes(i, x)} = {x \in D : CompTakes(i, x)} \cup {s}
    BY <1>6
  <2>6. {x \in D \cup {s} : ~ CompTakes(i, x)} = {x \in D : ~ CompTakes(i, x)}
    BY <1>6
  <2>7. /\ Vals({x \in D : CompTakes(i, x)} \cup {s}, "boot_image")
              = Vals({x \in D : CompTakes(i, x)}, "boot_image") \cup {s.val}
        /\ Vals({x \in D : CompTakes(i, x)} \cup {s}, "boot_emu")
              = Vals({x \in D : CompTakes(i, x)}, "boot_emu")
    BY <1>6 DEF Vals
  <2> QED
    BY <1>2, <2>3, <2>4, <2>5, <2>6, <2>7 DEF Replayed
<1> QED
  BY <1>4, <1>5, <1>6, PropTable

\* A replay applies what can be applied and keeps the rest deferred.
LEMMA ReplaysAll ==
    ASSUME NEW i \in Images, \A s \in ToSet(i.deferred) : s.prop \in CompProps
    PROVE  Replayed(i, ToSet(i.deferred), ResolveAllDeferred(i))
<1> DEFINE d == i.deferred
           b == [i EXCEPT !.deferred = <<>>]
           Upto(k) == {d[j] : j \in 1 .. k}
<1>1. d \in Seq(Settings) /\ Len(d) \in Nat /\ DOMAIN d = 1 .. Len(d)
  <2>1. d \in Seq(Settings)
    BY DEF Images
  <2> QED
    BY <2>1
<1>2. /\ b \in Images /\ b.deferred = <<>> /\ b.comps = i.comps /\ b.size = i.size
      /\ b.bootMode = i.bootMode /\ b.bootImage = i.bootImage /\ b.refs = i.refs
      /\ b.bootEmu = i.bootEmu
  <2>1. <<>> \in Seq(Settings)
    OBVIOUS
  <2> QED
    BY <2>1 DEF Images
<1>3. ResolveAllDeferred(i) = FoldLeft(resolveDeferredProp, b, d)
  BY DEF ResolveAllDeferred
<1>4. ToSet(d) = Upto(Len(d)) /\ \A j \in 1 .. Len(d) : d[j] \in Settings /\ d[j].prop \in CompProps
  BY <1>1 DEF ToSet
<1> HIDE DEF d, b
<1>5. PICK f : /\ f[0] = b
               /\ \A k \in 1 .. Len(d) : f[k] = resolveDeferredProp(f[k - 1], d[k])
               /\ FoldLeft(resolveDeferredProp, b, d) = f[Len(d)]
  BY <1>1, ReplayTrace
<1> DEFINE Good == {k \in Nat : k <= Len(d) => Replayed(i, Upto(k), f[k])}
<1>6. 0 \in Good
  <2>1. Upto(0) = {} /\ ToSet(<<>>) = {}
    BY DEF ToSet
  <2>2. Vals({}, "boot_image") = {} /\ Vals({}, "boot_emu") = {}
    BY DEF Vals
  <2> HIDE DEF Upto
  <2>3. Replayed(i, {}, b)
    BY <1>2, <2>1, <2>2 DEF Replayed
  <2> QED
    BY <1>5, <2>1, <2>3
<1>7. ASSUME NEW k \in Nat, k \in Good
      PROVE  k + 1 \in Good
  <2> SUFFICES ASSUME k + 1 <= Len(d)
               PROVE  Replayed(i, Upto(k + 1), f[k + 1])
    OBVIOUS
  <2>1. k + 1 \in 1 .. Len(d) /\ (k + 1) - 1 = k /\ k <= Len(d)
    BY <1>1
  <2>2. Upto(k + 1) = Upto(k) \cup {d[k + 1]}
    <3>1. \A j \in 1 .. k + 1 : j = k + 1 \/ j \in 1 .. k
      OBVIOUS
    <3>2. k + 1 \in 1 .. k + 1 /\ \A j \in 1 .. k : j \in 1 .. k + 1
      OBVIOUS
    <3> QED
      BY <3>1, <3>2
  <2>3. Replayed(i, Upto(k), f[k])
    BY <1>7, <2>1
  <2>4. f[k + 1] = resolveDeferredProp(f[k], d[k + 1])
    BY <1>5, <2>1
  <2> HIDE DEF Upto, Good
  <2> QED
    BY <1>4, <2>1, <2>2, <2>3, <2>4, ReplaysOne
<1> HIDE DEF Good
<1>8. Nat \subseteq Good
  BY <1>6, <1>7, NatSet
<1>9. Len(d) <= Len(d)
  BY <1>1
<1> HIDE DEF Upto
<1>10. Replayed(i, Upto(Len(d)), f[Len(d)])
  BY <1>1, <1>8, <1>9 DEF Good
<1> QED
  BY <1>3, <1>4, <1>5, <1>10 DEF d

-----------------------------------------------------------------------------
(* What an image is, for a set of settings it accepted.                     *)

\* v is in force for p.
HasProp(i, p, v) ==
    /\ p = "size" => i.size = v
    /\ p = "boot_mode" => i.bootMode = BootModeOf(v)
    /\ p \in DOMAIN SlotOf => i.comps[SlotOf[p]] = v
    /\ p = "boot_emu" => i.bootEmu = v
    /\ p = "boot_image" => v \in ToSet(i.refs)

\* Only settings of G are deferred, and none that can be applied.
Stuck(i) == \A s \in ToSet(i.deferred) : ~ CompTakes(i, s)
Waits(i, G) == \A s \in ToSet(i.deferred) : s.prop \in CompProps /\ s \in G

\* Every setting is deferred, or is known and one for its property is in force.
KeepsAll(i, G) ==
    \A s \in G :
        \/ s \in ToSet(i.deferred)
        \/ s.val \in Known[s.prop] /\ \E v \in Vals(G, s.prop) : HasProp(i, s.prop, v)

DefaultOf(i) ==
    [type       |-> IF i.comps["Format"] = "iso9660" THEN "iso9660" ELSE "gpt",
     format     |-> "raw",
     bootloader |-> "none"]

\* A slot holds what was given for it, or its default.
SlotsFrom(i, G, defaults) ==
    \A p \in DOMAIN SlotOf :
        IF Vals(G, p) # {} THEN i.comps[SlotOf[p]] \in Vals(G, p)
        ELSE i.comps[SlotOf[p]] = IF defaults THEN DefaultOf(i)[p] ELSE NoValue

\* So does the emulation of an ISO9660 image, which defaults always set.
EmuFrom(i, G, defaults) ==
    /\ Vals(G, "boot_emu") = {} =>
          i.bootEmu = IF defaults /\ PartType(i) = "iso9660" THEN "noemu" ELSE NoValue
    /\ (defaults /\ PartType(i) = "iso9660") => i.bootEmu # NoValue

\* Only an ISO9660 image has the properties of one.
IsoOnly(i) ==
    PartType(i) # "iso9660" =>
        i.bootEmu = NoValue /\ ToSet(i.refs) = {} /\ i.bootImage = NoValue

\* Boot images are among those given; defaults add the empty name.
RefsFrom(i, G, defaults) ==
    /\ ToSet(i.refs) \subseteq Vals(G, "boot_image") \cup IF defaults THEN {""} ELSE {}
    /\ i.bootImage \in Vals(G, "boot_image") \cup {NoValue}

Fits(i, G, defaults) ==
    /\ i \in Images /\ G \subseteq Settings
    /\ Stuck(i) /\ Waits(i, G) /\ KeepsAll(i, G)
    /\ SlotsFrom(i, G, defaults) /\ EmuFrom(i, G, defaults)
    /\ IsoOnly(i) /\ RefsFrom(i, G, defaults)

LEMMA OneMoreVal ==
    ASSUME NEW G, NEW s
    PROVE  \A p : Vals(G \cup {s}, p) = Vals(G, p) \cup IF s.prop = p THEN {s.val} ELSE {}
BY DEF Vals

LEMMA NoValueNotGiven ==
    ASSUME NEW G \in SUBSET Settings
    PROVE  \A p : NoValue \notin Vals(G, p)
BY NotASetting DEF Vals

LEMMA FirstFits == Fits(NewImage, {}, FALSE)
<1>1. /\ NewImage \in Images /\ NewImage.deferred = <<>> /\ NewImage.refs = <<>>
      /\ NewImage.bootEmu = NoValue /\ NewImage.bootImage = NoValue
      /\ \A p \in DOMAIN SlotOf : NewImage.comps[SlotOf[p]] = NoValue
  <2>1. <<>> \in Seq(Settings) /\ <<>> \in Seq(Names \cup {""})
    OBVIOUS
  <2> QED
    BY <2>1, PropTable DEF NewImage, Images
<1>2. ToSet(<<>>) = {}
  BY DEF ToSet
<1>3. \A p : Vals({}, p) = {}
  BY DEF Vals
<1>4. Stuck(NewImage) /\ Waits(NewImage, {}) /\ KeepsAll(NewImage, {})
  BY <1>1, <1>2 DEF Stuck, Waits, KeepsAll
<1>5. SlotsFrom(NewImage, {}, FALSE) /\ EmuFrom(NewImage, {}, FALSE)
  BY <1>1, <1>3 DEF SlotsFrom, EmuFrom
<1>6. IsoOnly(NewImage) /\ RefsFrom(NewImage, {}, FALSE)
  BY <1>1, <1>2, <1>3 DEF IsoOnly, RefsFrom
<1> QED
  BY <1>1, <1>4, <1>5, <1>6 DEF Fits

\* A replay of settings that are stuck moves none.
LEMMA ReplayFits ==
    ASSUME NEW i, NEW G, NEW defaults, Fits(i, G, defaults),
           NEW r, r = ResolveAllDeferred(i)
    PROVE  /\ Fits(r, G, defaults)
           /\ r.comps = i.comps /\ r.bootEmu = i.bootEmu /\ r.bootImage = i.bootImage
           /\ ToSet(r.deferred) = ToSet(i.deferred)
<1>1. Replayed(i, ToSet(i.deferred), r)
  BY ReplaysAll DEF Fits, Waits
<1>2. /\ {s \in ToSet(i.deferred) : CompTakes(i, s)} = {}
      /\ {s \in ToSet(i.deferred) : ~ CompTakes(i, s)} = ToSet(i.deferred)
  BY DEF Fits, Stuck
<1>3. \A p : Vals({}, p) = {}
  BY DEF Vals
<1>4. /\ r \in Images /\ r.comps = i.comps /\ r.size = i.size /\ r.bootMode = i.bootMode
      /\ r.bootImage = i.bootImage /\ r.bootEmu = i.bootEmu
      /\ ToSet(r.deferred) = ToSet(i.deferred) /\ ToSet(r.refs) = ToSet(i.refs)
  BY <1>1, <1>2, <1>3 DEF Replayed
<1>5. \A p, v : HasProp(i, p, v) => HasProp(r, p, v)
  BY <1>4 DEF HasProp
<1>6. Stuck(r) /\ Waits(r, G) /\ KeepsAll(r, G)
  BY <1>4, <1>5 DEF Fits, Stuck, Waits, KeepsAll, CompTakes, PartType
<1>7. SlotsFrom(r, G, defaults) /\ EmuFrom(r, G, defaults)
  BY <1>4 DEF Fits, SlotsFrom, EmuFrom, DefaultOf, PartType
<1>8. IsoOnly(r) /\ RefsFrom(r, G, defaults)
  BY <1>4 DEF Fits, IsoOnly, RefsFrom, PartType
<1> QED
  BY <1>4, <1>6, <1>7, <1>8 DEF Fits

\* The layout is loaded, and what was deferred for it is applied.
LEMMA LayoutLoads ==
    ASSUME NEW i \in Images, NEW G \in SUBSET Settings, Waits(i, G), IsoOnly(i),
           ~ Loaded(i, "PartType"), NEW type \in PartTypes,
           NEW r, r = AddComponent(i, "PartType", type)
    PROVE  /\ r \in Images /\ r.size = i.size /\ r.bootMode = i.bootMode
           /\ r.comps = [i.comps EXCEPT !["PartType"] = type]
           /\ r.bootImage = NoValue
           /\ Stuck(r) /\ ToSet(r.deferred) \subseteq ToSet(i.deferred)
           /\ \A s \in ToSet(i.deferred) \ ToSet(r.deferred) :
                 s.val \in Known[s.prop] /\ \E v \in Vals(G, s.prop) : HasProp(r, s.prop, v)
           /\ Vals(G, "boot_emu") = {} => r.bootEmu = NoValue
           /\ ToSet(r.refs) \subseteq Vals(G, "boot_image")
           /\ type # "iso9660" => r.bootEmu = NoValue /\ ToSet(r.refs) = {}
<1> DEFINE loaded == [i EXCEPT !.comps["PartType"] = type]
           D == ToSet(i.deferred)
<1>1. /\ loaded \in Images /\ loaded.comps = [i.comps EXCEPT !["PartType"] = type]
      /\ loaded.size = i.size /\ loaded.bootMode = i.bootMode /\ loaded.refs = i.refs
      /\ loaded.bootImage = i.bootImage /\ loaded.bootEmu = i.bootEmu
      /\ loaded.deferred = i.deferred
  BY PropTable DEF Images
<1>2. PartType(loaded) = type
  BY <1>1, PropTable DEF PartType, Images
<1>3. i.bootEmu = NoValue /\ ToSet(i.refs) = {} /\ i.bootImage = NoValue
  BY NoValueIsNone DEF IsoOnly, Loaded, PartType
<1>4. r = ResolveAllDeferred(loaded)
  BY DEF AddComponent
<1> HIDE DEF loaded
<1>5. Replayed(loaded, D, r)
  BY <1>1, <1>4, ReplaysAll DEF Waits
<1> DEFINE T == {s \in D : CompTakes(loaded, s)}
<1>6. /\ \A s \in T : s \in D /\ s \in G /\ type = "iso9660" /\ s.val \in Known[s.prop]
      /\ \A s \in D \ T : ~ CompTakes(loaded, s)
  BY <1>2 DEF CompTakes, Waits
<1>7. /\ r \in Images /\ r.size = i.size /\ r.bootMode = i.bootMode
      /\ r.comps = [i.comps EXCEPT !["PartType"] = type] /\ r.bootImage = NoValue
      /\ ToSet(r.deferred) = D \ T
      /\ ToSet(r.refs) = Vals(T, "boot_image")
      /\ \/ Vals(T, "boot_emu") = {} /\ r.bootEmu = NoValue
         \/ r.bootEmu \in Vals(T, "boot_emu")
  BY <1>1, <1>3, <1>5 DEF Replayed
<1>8. \A p : Vals(T, p) \subseteq Vals(G, p)
  BY <1>6 DEF Vals
<1>9. Stuck(r)
  BY <1>1, <1>6, <1>7 DEF Stuck, CompTakes, PartType
<1>10. ASSUME NEW s \in T
       PROVE  \E v \in Vals(G, s.prop) : HasProp(r, s.prop, v)
  <2>1. s.prop \in CompProps /\ s.val \in Vals(T, s.prop)
    BY DEF Waits, Vals
  <2>2. CASE s.prop = "boot_emu"
    <3>1. r.bootEmu \in Vals(T, "boot_emu")
      BY <1>7, <2>1, <2>2
    <3>2. HasProp(r, "boot_emu", r.bootEmu)
      BY PropTable DEF HasProp
    <3> QED
      BY <1>8, <2>2, <3>1, <3>2
  <2>3. CASE s.prop = "boot_image"
    <3>1. HasProp(r, "boot_image", s.val)
      BY <1>7, <2>1, <2>3, PropTable DEF HasProp
    <3> QED
      BY <1>8, <2>1, <2>3, <3>1
  <2> QED
    BY <2>1, <2>2, <2>3, PropTable
<1>11. type # "iso9660" => Vals(T, "boot_emu") = {} /\ Vals(T, "boot_image") = {}
  BY <1>6 DEF Vals
<1> HIDE DEF T, D
<1> QED
  BY <1>6, <1>7, <1>8, <1>9, <1>10, <1>11 DEF D

\* A setting that is accepted stays in force when another property is set.
LEMMA SlotFits ==
    ASSUME NEW i, NEW G, Fits(i, G, FALSE), NEW s \in Settings,
           s.prop \in DOMAIN SlotOf, s.val \in Known[s.prop], ~ Loaded(i, SlotOf[s.prop]),
           NEW r, r = AddComponent(i, SlotOf[s.prop], s.val)
    PROVE  /\ Fits(r, G \cup {s}, FALSE)
           /\ \A slot \in Slots : Loaded(i, slot) => r.comps[slot] = i.comps[slot]
<1> DEFINE H == G \cup {s}
<1>1. /\ i \in Images /\ G \in SUBSET Settings /\ H \in SUBSET Settings
      /\ i.comps \in [Slots -> PartTypes \cup FormatTypes \cup BootTypes \cup {NoValue}]
  BY DEF Fits, Images
<1>2. /\ \A p : Vals(H, p) = Vals(G, p) \cup IF s.prop = p THEN {s.val} ELSE {}
      /\ \A p : NoValue \notin Vals(G, p) /\ NoValue \notin Vals(H, p)
      /\ \A x \in H : x \in G \/ x = s
  BY <1>1, OneMoreVal, NoValueNotGiven
<1>3. Vals(G, s.prop) = {}
  BY <1>2 DEF Fits, SlotsFrom, Loaded
<1> HIDE DEF H
<1>4. CASE s.prop = "type"
  <2>1. s.val \in PartTypes /\ SlotOf[s.prop] = "PartType"
    BY <1>4, KnownTable, PropTable
  <2>2. /\ r \in Images /\ r.size = i.size /\ r.bootMode = i.bootMode
        /\ r.comps = [i.comps EXCEPT !["PartType"] = s.val]
        /\ r.bootImage = NoValue
        /\ Stuck(r) /\ ToSet(r.deferred) \subseteq ToSet(i.deferred)
        /\ \A x \in ToSet(i.deferred) \ ToSet(r.deferred) :
              x.val \in Known[x.prop] /\ \E v \in Vals(G, x.prop) : HasProp(r, x.prop, v)
        /\ Vals(G, "boot_emu") = {} => r.bootEmu = NoValue
        /\ ToSet(r.refs) \subseteq Vals(G, "boot_image")
        /\ s.val # "iso9660" => r.bootEmu = NoValue /\ ToSet(r.refs) = {}
    <3>1. Waits(i, G) /\ IsoOnly(i)
      BY DEF Fits
    <3>2. ~ Loaded(i, "PartType") /\ r = AddComponent(i, "PartType", s.val)
      BY <2>1
    <3> QED
      BY <1>1, <2>1, <3>1, <3>2, LayoutLoads
  <2>3. /\ r.comps["PartType"] = s.val
        /\ \A slot \in Slots : slot # "PartType" => r.comps[slot] = i.comps[slot]
    BY <1>1, <2>2, PropTable
  <2>4. i.bootEmu = NoValue /\ ToSet(i.refs) = {} /\ i.comps["PartType"] = NoValue
    BY <2>1, NoValueIsNone DEF Fits, IsoOnly, Loaded, PartType
  <2>5. ASSUME NEW p \in Props, NEW v \in Vals(G, p), HasProp(i, p, v)
        PROVE  HasProp(r, p, v)
    <3>1. v # NoValue
      BY <1>2
    <3>2. p # "type" /\ p # "boot_emu" /\ p # "boot_image"
      BY <2>4, <2>5, <3>1, PropTable DEF HasProp
    <3> QED
      BY <2>2, <2>3, <2>5, <3>2, PropTable DEF HasProp
  <2>6. HasProp(r, s.prop, s.val) /\ s.val \in Vals(H, s.prop)
    BY <1>2, <1>4, <2>3, PropTable DEF HasProp
  <2>7. KeepsAll(r, H)
    <3> SUFFICES ASSUME NEW x \in G
                 PROVE  \/ x \in ToSet(r.deferred)
                        \/ x.val \in Known[x.prop] /\ \E v \in Vals(G, x.prop) : HasProp(r, x.prop, v)
      BY <1>2, <2>6 DEF KeepsAll
    <3>1. CASE x \in ToSet(i.deferred)
      BY <2>2, <3>1
    <3>2. CASE x \notin ToSet(i.deferred)
      <4>1. x.prop \in Props
        BY <1>1, SettingShape
      <4> QED
        BY <2>5, <3>2, <4>1 DEF Fits, KeepsAll
    <3> QED
      BY <3>1, <3>2
  <2>8. SlotsFrom(r, H, FALSE)
    BY <1>2, <1>4, <2>1, <2>3, PropTable DEF Fits, SlotsFrom
  <2>9. Waits(r, H)
    BY <2>2 DEF Fits, Waits, H
  <2>10. EmuFrom(r, H, FALSE) /\ RefsFrom(r, H, FALSE)
    BY <1>2, <1>4, <2>2 DEF EmuFrom, RefsFrom
  <2>11. IsoOnly(r)
    BY <2>2, <2>3 DEF IsoOnly, PartType
  <2>12. Fits(r, H, FALSE)
    BY <1>1, <2>2, <2>7, <2>8, <2>9, <2>10, <2>11 DEF Fits
  <2> QED
    BY <2>3, <2>4, <2>12 DEF Loaded, H
<1>5. CASE s.prop # "type"
  <2> DEFINE slot == SlotOf[s.prop]
  <2>1. /\ slot \in Slots /\ slot # "PartType" /\ s.val \in FormatTypes \cup BootTypes
        /\ \A p \in DOMAIN SlotOf : SlotOf[p] = slot <=> p = s.prop
        /\ s.prop \notin CompProps
    BY <1>5, PropTable, KnownTable
  <2> HIDE DEF slot
  <2>2. r = [i EXCEPT !.comps[slot] = s.val]
    BY <2>1 DEF AddComponent, slot
  <2>3. /\ r \in Images /\ r.size = i.size /\ r.bootMode = i.bootMode /\ r.refs = i.refs
        /\ r.comps = [i.comps EXCEPT ![slot] = s.val]
        /\ r.bootImage = i.bootImage /\ r.bootEmu = i.bootEmu /\ r.deferred = i.deferred
    BY <1>1, <2>1, <2>2 DEF Images
  <2>4. /\ r.comps[slot] = s.val /\ PartType(r) = PartType(i)
        /\ \A other \in Slots : other # slot => r.comps[other] = i.comps[other]
    BY <1>1, <2>1, <2>3, PropTable DEF PartType
  <2>5. ASSUME NEW p \in Props, NEW v \in Vals(G, p), HasProp(i, p, v)
        PROVE  HasProp(r, p, v)
    <3>1. p # s.prop
      BY <1>3
    <3>2. p \in DOMAIN SlotOf => SlotOf[p] \in Slots /\ SlotOf[p] # slot
      BY <2>1, <3>1, PropTable
    <3> QED
      BY <2>3, <2>4, <2>5, <3>2 DEF HasProp
  <2>6. HasProp(r, s.prop, s.val) /\ s.val \in Vals(H, s.prop)
    BY <1>2, <2>4, PropTable DEF HasProp, slot
  <2>7. KeepsAll(r, H)
    <3> SUFFICES ASSUME NEW x \in G
                 PROVE  \/ x \in ToSet(r.deferred)
                        \/ x.val \in Known[x.prop] /\ \E v \in Vals(G, x.prop) : HasProp(r, x.prop, v)
      BY <1>2, <2>6 DEF KeepsAll
    <3>1. x.prop \in Props
      BY <1>1, SettingShape
    <3> QED
      BY <2>3, <2>5, <3>1 DEF Fits, KeepsAll
  <2>8. SlotsFrom(r, H, FALSE)
    <3> SUFFICES ASSUME NEW p \in DOMAIN SlotOf
                 PROVE  IF Vals(H, p) # {} THEN r.comps[SlotOf[p]] \in Vals(H, p)
                        ELSE r.comps[SlotOf[p]] = NoValue
      BY DEF SlotsFrom
    <3>1. CASE p = s.prop
      BY <1>2, <2>4, <3>1 DEF slot
    <3>2. CASE p # s.prop
      <4>1. Vals(H, p) = Vals(G, p) /\ r.comps[SlotOf[p]] = i.comps[SlotOf[p]]
        BY <1>2, <2>1, <2>4, <3>2, PropTable
      <4> QED
        BY <4>1 DEF Fits, SlotsFrom
    <3> QED
      BY <3>1, <3>2
  <2>9. Stuck(r) /\ Waits(r, H)
    BY <2>3, <2>4 DEF Fits, Stuck, Waits, CompTakes, H
  <2>10. EmuFrom(r, H, FALSE) /\ RefsFrom(r, H, FALSE)
    BY <1>2, <2>1, <2>3, <2>4, PropTable DEF Fits, EmuFrom, RefsFrom
  <2>11. IsoOnly(r)
    BY <2>3, <2>4 DEF Fits, IsoOnly
  <2>12. Fits(r, H, FALSE)
    BY <1>1, <2>3, <2>7, <2>8, <2>9, <2>10, <2>11 DEF Fits
  <2>13. \A other \in Slots : Loaded(i, other) => r.comps[other] = i.comps[other]
    BY <2>4 DEF slot
  <2> QED
    BY <2>12, <2>13 DEF H
<1> QED
  BY <1>4, <1>5

\* What the step to r must show of the settings accepted, when s is the last.
LEMMA OneMoreKept ==
    ASSUME NEW i, NEW G \in SUBSET Settings, KeepsAll(i, G), NEW s \in Settings,
           s.val \in Known[s.prop], NEW r, HasProp(r, s.prop, s.val),
           ToSet(r.deferred) = ToSet(i.deferred),
           \A p \in Props : p # s.prop =>
               \A v \in Vals(G, p) : HasProp(i, p, v) => HasProp(r, p, v)
    PROVE  KeepsAll(r, G \cup {s})
<1> DEFINE H == G \cup {s}
<1>1. \A p : Vals(H, p) = Vals(G, p) \cup IF s.prop = p THEN {s.val} ELSE {}
  BY OneMoreVal
<1>2. \A x \in H : x \in G \/ x = s
  OBVIOUS
<1> HIDE DEF H
<1> SUFFICES ASSUME NEW x \in H
             PROVE  \/ x \in ToSet(r.deferred)
                    \/ x.val \in Known[x.prop] /\ \E v \in Vals(H, x.prop) : HasProp(r, x.prop, v)
  BY DEF KeepsAll, H
<1>3. CASE x = s
  <2>1. s.val \in Vals(H, s.prop)
    BY <1>1
  <2> QED
    BY <1>3, <2>1
<1>4. CASE x \in G
  <2>1. CASE x \in ToSet(i.deferred)
    BY <2>1
  <2>2. CASE x \notin ToSet(i.deferred)
    <3>1. x.prop \in Props
      BY <1>4, SettingShape
    <3>2. x.val \in Known[x.prop]
      BY <1>4, <2>2 DEF KeepsAll
    <3>3. PICK v \in Vals(G, x.prop) : HasProp(i, x.prop, v)
      BY <1>4, <2>2 DEF KeepsAll
    <3>4. CASE x.prop = s.prop
      <4>1. s.val \in Vals(H, x.prop) /\ HasProp(r, x.prop, s.val)
        BY <1>1, <3>4
      <4> QED
        BY <3>2, <4>1
    <3>5. CASE x.prop # s.prop
      <4>1. v \in Vals(H, x.prop) /\ HasProp(r, x.prop, v)
        BY <1>1, <3>1, <3>3, <3>5
      <4> QED
        BY <3>2, <4>1
    <3> QED
      BY <3>4, <3>5
  <2> QED
    BY <2>1, <2>2
<1> QED
  BY <1>2, <1>3, <1>4

\* The image's own properties are of no other.
LEMMA OwnPropFits ==
    ASSUME NEW i, NEW G, Fits(i, G, FALSE), NEW s \in Settings,
           s.prop \in {"size", "boot_mode"}, s.val \in Known[s.prop],
           NEW r, r = Put(i, s)
    PROVE  Fits(r, G \cup {s}, FALSE) /\ r.comps = i.comps
<1> DEFINE H == G \cup {s}
<1>1. i \in Images /\ G \in SUBSET Settings /\ H \in SUBSET Settings
  BY DEF Fits
<1>2. \A p : Vals(H, p) = Vals(G, p) \cup IF s.prop = p THEN {s.val} ELSE {}
  BY OneMoreVal
<1>3. /\ s.prop \notin CompProps /\ s.prop \notin DOMAIN SlotOf
      /\ s.prop = "size" => s.val \in Sizes
      /\ s.prop = "boot_mode" => BootModeOf(s.val) \in BootModes
  BY PropTable, KnownTable DEF BootModeOf, BootModes
<1>4. /\ r \in Images /\ r.comps = i.comps
      /\ r.bootImage = i.bootImage /\ r.bootEmu = i.bootEmu
      /\ r.refs = i.refs /\ r.deferred = i.deferred
      /\ IF s.prop = "size" THEN r.size = s.val /\ r.bootMode = i.bootMode
         ELSE r.size = i.size /\ r.bootMode = BootModeOf(s.val)
  <2>1. CASE s.prop = "size"
    <3>1. r = [i EXCEPT !.size = s.val]
      BY <1>3, <2>1 DEF Put
    <3> QED
      BY <1>1, <1>3, <2>1, <3>1 DEF Images
  <2>2. CASE s.prop = "boot_mode"
    <3>1. r = [i EXCEPT !.bootMode = BootModeOf(s.val)]
      BY <1>3, <2>2 DEF Put
    <3>2. BootModeOf(s.val) \in BootModes
      BY <1>3, <2>2
    <3> QED
      BY <1>1, <2>2, <3>1, <3>2 DEF Images
  <2> QED
    BY <2>1, <2>2
<1> HIDE DEF H
<1>5. KeepsAll(r, G \cup {s})
  <2>1. HasProp(r, s.prop, s.val)
    BY <1>3, <1>4, PropTable DEF HasProp
  <2>2. \A p \in Props : p # s.prop => \A v : HasProp(i, p, v) => HasProp(r, p, v)
    BY <1>4 DEF HasProp
  <2>3. KeepsAll(i, G)
    BY DEF Fits
  <2> QED
    BY <1>1, <1>4, <2>1, <2>2, <2>3, OneMoreKept
<1>6. Stuck(r) /\ Waits(r, H)
  BY <1>4 DEF Fits, Stuck, Waits, CompTakes, PartType, H
<1>7. SlotsFrom(r, H, FALSE)
  BY <1>2, <1>3, <1>4 DEF Fits, SlotsFrom
<1>8. EmuFrom(r, H, FALSE) /\ RefsFrom(r, H, FALSE)
  BY <1>2, <1>3, <1>4, PropTable DEF Fits, EmuFrom, RefsFrom
<1>9. IsoOnly(r)
  BY <1>4 DEF Fits, IsoOnly, PartType
<1> QED
  BY <1>1, <1>4, <1>5, <1>6, <1>7, <1>8, <1>9 DEF Fits, H

\* A property of the layout, when it is loaded.
LEMMA CompPropFits ==
    ASSUME NEW i, NEW G, Fits(i, G, FALSE), NEW s \in Settings,
           s.prop \in CompProps, CompTakes(i, s), NEW r, r = CompSet(i, s)
    PROVE  Fits(r, G \cup {s}, FALSE) /\ r.comps = i.comps
<1> DEFINE H == G \cup {s}
<1>1. i \in Images /\ G \in SUBSET Settings /\ H \in SUBSET Settings
  BY DEF Fits
<1>2. \A p : Vals(H, p) = Vals(G, p) \cup IF s.prop = p THEN {s.val} ELSE {}
  BY OneMoreVal
<1>3. PartType(i) = "iso9660" /\ s.val \in Known[s.prop] /\ s.prop \notin DOMAIN SlotOf
  BY PropTable DEF CompTakes
<1> DEFINE names == i.refs
<1>4. names \in Seq(RefNames) /\ i.refs = names
  BY <1>1 DEF Images, RefNames
<1> HIDE DEF names, H
<1>5. /\ r \in Images /\ r.comps = i.comps /\ r.size = i.size /\ r.bootMode = i.bootMode
      /\ r.bootImage = i.bootImage /\ r.deferred = i.deferred
      /\ IF s.prop = "boot_emu" THEN r.bootEmu = s.val /\ ToSet(r.refs) = ToSet(i.refs)
         ELSE r.bootEmu = i.bootEmu /\ ToSet(r.refs) = ToSet(i.refs) \cup {s.val}
  <2>1. CASE s.prop = "boot_emu"
    <3>1. r = [i EXCEPT !.bootEmu = s.val] /\ s.val \in BootEmus
      BY <1>3, <2>1, KnownTable DEF CompSet
    <3> QED
      BY <1>1, <2>1, <3>1 DEF Images
  <2>2. CASE s.prop # "boot_emu"
    <3>1. r = [i EXCEPT !.refs = Append(@, s.val)]
      BY <2>2 DEF CompSet
    <3>2. s.val \in RefNames
      BY <1>3, <2>2, KnownTable, PropTable DEF RefNames
    <3> DEFINE a == Append(names, s.val)
    <3>3. a \in Seq(RefNames) /\ ToSet(a) = ToSet(names) \cup {s.val}
      BY <1>4, <3>2, AppendName
    <3>4. a = Append(names, s.val)
      OBVIOUS
    <3> HIDE DEF a
    <3>5. /\ r \in Images /\ r.comps = i.comps /\ r.size = i.size /\ r.bootMode = i.bootMode
          /\ r.bootImage = i.bootImage /\ r.deferred = i.deferred
          /\ r.bootEmu = i.bootEmu /\ r.refs = a
      BY <1>1, <1>4, <3>1, <3>3, <3>4 DEF Images, RefNames
    <3> QED
      BY <1>4, <2>2, <3>3, <3>5
  <2> QED
    BY <2>1, <2>2
<1>6. KeepsAll(r, G \cup {s})
  <2>1. HasProp(r, s.prop, s.val)
    BY <1>3, <1>5, PropTable DEF HasProp
  <2>2. \A p \in Props : p # s.prop => \A v : HasProp(i, p, v) => HasProp(r, p, v)
    BY <1>5, PropTable DEF HasProp
  <2>3. KeepsAll(i, G)
    BY DEF Fits
  <2> QED
    BY <1>1, <1>3, <1>5, <2>1, <2>2, <2>3, OneMoreKept
<1>7. Stuck(r) /\ Waits(r, H)
  BY <1>5 DEF Fits, Stuck, Waits, CompTakes, PartType, H
<1>8. SlotsFrom(r, H, FALSE)
  BY <1>2, <1>3, <1>5 DEF Fits, SlotsFrom
<1>9. EmuFrom(r, H, FALSE) /\ RefsFrom(r, H, FALSE)
  BY <1>2, <1>5, PropTable DEF Fits, EmuFrom, RefsFrom
<1>10. IsoOnly(r)
  BY <1>3, <1>5 DEF IsoOnly, PartType
<1> QED
  BY <1>1, <1>5, <1>6, <1>7, <1>8, <1>9, <1>10 DEF Fits, H

LEMMA InsertSetting ==
    ASSUME NEW d \in Seq(Settings), NEW s \in Settings, NEW n \in 1 .. Len(d) + 1
    PROVE  InsertAt(d, n, s) \in Seq(Settings) /\ ToSet(InsertAt(d, n, s)) = ToSet(d) \cup {s}
<1> DEFINE a == InsertAt(d, n, s)
<1>1. Len(d) \in Nat /\ DOMAIN d = 1 .. Len(d) /\ n \in Nat
  OBVIOUS
<1>2. /\ a \in Seq(Settings) /\ Len(a) = Len(d) + 1
      /\ \A k \in 1 .. n - 1 : a[k] = d[k]
      /\ a[n] = s
      /\ \A k \in n + 1 .. Len(d) + 1 : a[k] = d[k - 1]
  <2> DEFINE b == SubSeq(d, 1, n - 1)
             e == SubSeq(d, n, Len(d))
  <2>1. /\ b \in Seq(Settings) /\ Len(b) = n - 1 /\ \A k \in 1 .. n - 1 : b[k] = d[k]
    OBVIOUS
  <2>2. /\ e \in Seq(Settings) /\ Len(e) = Len(d) - n + 1
        /\ \A k \in 1 .. Len(d) - n + 1 : e[k] = d[n + k - 1]
    OBVIOUS
  <2>3. a = (b \o <<s>>) \o e
    BY DEF InsertAt
  <2> HIDE DEF b, e, a
  <2> DEFINE c == b \o <<s>>
  <2>4. /\ c \in Seq(Settings) /\ Len(c) = n /\ c[n] = s
        /\ \A k \in 1 .. n - 1 : c[k] = d[k]
    BY <1>1, <2>1
  <2>5. a = c \o e
    BY <2>3
  <2> HIDE DEF c
  <2>6. a \in Seq(Settings) /\ Len(a) = Len(d) + 1
    BY <1>1, <2>2, <2>4, <2>5
  <2>7. \A k \in 1 .. n : a[k] = c[k]
    BY <1>1, <2>2, <2>4, <2>5
  <2>8. ASSUME NEW k \in n + 1 .. Len(d) + 1
        PROVE  a[k] = d[k - 1]
    <3>1. a[k] = e[k - n] /\ k - n \in 1 .. Len(d) - n + 1 /\ n + (k - n) - 1 = k - 1
      BY <1>1, <2>2, <2>4, <2>5
    <3> QED
      BY <2>2, <3>1
  <2>9. a[n] = s /\ \A k \in 1 .. n - 1 : a[k] = d[k]
    BY <1>1, <2>4, <2>7
  <2> QED
    BY <2>6, <2>8, <2>9
<1>3. DOMAIN a = 1 .. Len(d) + 1
  BY <1>1, <1>2
<1> HIDE DEF a
<1>4. \A x \in ToSet(a) : x \in ToSet(d) \cup {s}
  <2> SUFFICES ASSUME NEW k \in 1 .. Len(d) + 1
               PROVE  a[k] \in ToSet(d) \cup {s}
    BY <1>3 DEF ToSet
  <2>1. CASE k \in 1 .. n - 1
    <3>1. k \in 1 .. Len(d)
      BY <1>1, <2>1
    <3> QED
      BY <1>1, <1>2, <2>1, <3>1 DEF ToSet
  <2>2. CASE k = n
    BY <1>2, <2>2
  <2>3. CASE k \in n + 1 .. Len(d) + 1
    <3>1. k - 1 \in 1 .. Len(d)
      BY <1>1, <2>3
    <3> QED
      BY <1>1, <1>2, <2>3, <3>1 DEF ToSet
  <2> QED
    BY <1>1, <2>1, <2>2, <2>3
<1>5. s \in ToSet(a)
  BY <1>2, <1>3 DEF ToSet
<1>6. ASSUME NEW k \in 1 .. Len(d)
      PROVE  d[k] \in ToSet(a)
  <2>1. CASE k < n
    <3>1. k \in 1 .. n - 1 /\ k \in 1 .. Len(d) + 1
      BY <1>1, <2>1
    <3>2. a[k] = d[k]
      BY <1>2, <3>1
    <3> QED
      BY <1>3, <3>1, <3>2 DEF ToSet
  <2>2. CASE ~ (k < n)
    <3>1. k + 1 \in n + 1 .. Len(d) + 1 /\ (k + 1) - 1 = k /\ k + 1 \in 1 .. Len(d) + 1
      BY <1>1, <2>2
    <3>2. a[k + 1] = d[k]
      BY <1>2, <3>1
    <3> QED
      BY <1>3, <3>1, <3>2 DEF ToSet
  <2> QED
    BY <2>1, <2>2
<1>7. ToSet(d) \subseteq ToSet(a)
  BY <1>1, <1>6 DEF ToSet
<1> QED
  BY <1>2, <1>4, <1>5, <1>7 DEF a

\* A property of the layout, before it is loaded.
LEMMA DeferFits ==
    ASSUME NEW i, NEW G, Fits(i, G, FALSE), NEW s \in Settings,
           Defers(i, s), NEW r \in Defer(i, s)
    PROVE  Fits(r, G \cup {s}, FALSE) /\ r.comps = i.comps
<1> DEFINE H == G \cup {s}
           d == i.deferred
<1>1. i \in Images /\ G \in SUBSET Settings /\ H \in SUBSET Settings
  BY DEF Fits
<1>2. \A p : Vals(H, p) = Vals(G, p) \cup IF s.prop = p THEN {s.val} ELSE {}
  BY OneMoreVal
<1>3. /\ PartType(i) = NoValue /\ PartType(i) # "iso9660" /\ s.prop \in CompProps
      /\ s.prop \notin DOMAIN SlotOf
  BY NoValueIsNone, PropTable DEF Defers, Loaded, PartType
<1>4. d \in Seq(Settings) /\ i.deferred = d
  BY <1>1 DEF Images
<1> HIDE DEF d, H
<1>5. PICK n \in 1 .. Len(d) + 1 : r = [i EXCEPT !.deferred = InsertAt(@, n, s)]
  BY <1>4 DEF Defer
<1> DEFINE a == InsertAt(d, n, s)
<1>6. a \in Seq(Settings) /\ ToSet(a) = ToSet(d) \cup {s}
  BY <1>4, InsertSetting
<1>7. a = InsertAt(d, n, s)
  OBVIOUS
<1> HIDE DEF a
<1>8. /\ r \in Images /\ r.comps = i.comps /\ r.size = i.size /\ r.bootMode = i.bootMode
      /\ r.bootImage = i.bootImage /\ r.bootEmu = i.bootEmu /\ r.refs = i.refs
      /\ r.deferred = a
  BY <1>1, <1>4, <1>5, <1>6, <1>7 DEF Images
<1>9. ToSet(r.deferred) = ToSet(i.deferred) \cup {s}
  BY <1>4, <1>6, <1>8
<1>10. KeepsAll(r, H)
  <2>1. \A p, v : HasProp(i, p, v) => HasProp(r, p, v)
    BY <1>8 DEF HasProp
  <2> QED
    BY <1>2, <1>9, <2>1 DEF Fits, KeepsAll, H
<1>11. Stuck(r) /\ Waits(r, H)
  <2>1. PartType(r) # "iso9660"
    BY <1>3, <1>8 DEF PartType
  <2> QED
    BY <1>3, <1>9, <2>1 DEF Fits, Stuck, Waits, CompTakes, H
<1>12. SlotsFrom(r, H, FALSE)
  BY <1>2, <1>3, <1>8 DEF Fits, SlotsFrom
<1>13. EmuFrom(r, H, FALSE) /\ RefsFrom(r, H, FALSE)
  BY <1>2, <1>8 DEF Fits, EmuFrom, RefsFrom
<1>14. IsoOnly(r)
  BY <1>8 DEF Fits, IsoOnly, PartType
<1> QED
  BY <1>1, <1>8, <1>10, <1>11, <1>12, <1>13, <1>14 DEF Fits, H

\* The last reference is resolved to its image.
LEMMA ReferenceFits ==
    ASSUME NEW i, NEW G, Fits(i, G, FALSE), i.refs # <<>>,
           NEW r, r = [i EXCEPT !.bootImage = Last(i.refs)]
    PROVE  Fits(r, G, FALSE) /\ r.comps = i.comps
<1> DEFINE names == i.refs
           last == Last(names)
<1>1. i \in Images /\ G \in SUBSET Settings
  BY DEF Fits
<1>2. names \in Seq(RefNames) /\ i.refs = names
  BY <1>1 DEF Images, RefNames
<1> HIDE DEF names
<1>3. last \in ToSet(names) /\ last \in RefNames
  <2>1. Len(names) \in 1 .. Len(names) /\ DOMAIN names = 1 .. Len(names)
    BY <1>2
  <2> QED
    BY <1>2, <2>1 DEF Last, ToSet
<1> HIDE DEF last
<1>4. last \in Vals(G, "boot_image")
  BY <1>2, <1>3 DEF Fits, RefsFrom
<1>5. last \in Names
  <2>1. last \in Names \cup {"unknown", Mistyped}
    BY <1>1, <1>4, SettingShape, KnownTable DEF Vals
  <2> QED
    BY <1>3, <2>1 DEF RefNames, Mistyped
<1>6. /\ r \in Images /\ r.comps = i.comps /\ r.size = i.size /\ r.bootMode = i.bootMode
      /\ r.bootImage = last /\ r.bootEmu = i.bootEmu /\ r.refs = i.refs
      /\ r.deferred = i.deferred
  BY <1>1, <1>2, <1>5 DEF Images, last
<1>7. ToSet(i.refs) # {}
  BY <1>2, <1>3
<1>8. \A p, v : HasProp(i, p, v) => HasProp(r, p, v)
  BY <1>6 DEF HasProp
<1>9. Stuck(r) /\ Waits(r, G) /\ KeepsAll(r, G)
  BY <1>6, <1>8 DEF Fits, Stuck, Waits, KeepsAll, CompTakes, PartType
<1>10. SlotsFrom(r, G, FALSE) /\ EmuFrom(r, G, FALSE)
  BY <1>6 DEF Fits, SlotsFrom, EmuFrom
<1>11. IsoOnly(r) /\ RefsFrom(r, G, FALSE)
  BY <1>4, <1>6, <1>7 DEF Fits, IsoOnly, RefsFrom, PartType
<1> QED
  BY <1>1, <1>6, <1>9, <1>10, <1>11 DEF Fits

\* Defaults go where no setting is in force.
LEMMA BaseDefaultsFit ==
    ASSUME NEW i, NEW G, Fits(i, G, FALSE), NEW r, r = BaseDefaults(i)
    PROVE  /\ r \in Images /\ r.bootImage = i.bootImage /\ r.bootEmu = i.bootEmu
           /\ r.refs = i.refs /\ r.deferred = i.deferred
           /\ r.comps["PartType"] = i.comps["PartType"]
           /\ r.comps["Format"]
                 = IF i.comps["Format"] = NoValue THEN "raw" ELSE i.comps["Format"]
           /\ r.comps["Boot"]
                 = IF i.comps["Boot"] = NoValue THEN "none" ELSE i.comps["Boot"]
           /\ KeepsAll(r, G)
<1>1. i \in Images /\ G \in SUBSET Settings
  BY DEF Fits
<1> DEFINE a == [i EXCEPT !.bootMode = IF @ = NoValue THEN "none" ELSE @]
           b == Default(a, "Format", "raw")
<1>2. r = Default(b, "Boot", "none")
  BY DEF BaseDefaults
<1>3. /\ a \in Images /\ a.bootImage = i.bootImage /\ a.bootEmu = i.bootEmu
      /\ a.refs = i.refs /\ a.deferred = i.deferred /\ a.size = i.size /\ a.comps = i.comps
      /\ a.bootMode = IF i.bootMode = NoValue THEN "none" ELSE i.bootMode
  BY <1>1 DEF Images, BootModes
<1> HIDE DEF a
<1>4. b = IF a.comps["Format"] # NoValue THEN a ELSE [a EXCEPT !.comps["Format"] = "raw"]
  BY DEF Default, Loaded, AddComponent
<1>5. /\ b \in Images /\ b.bootImage = i.bootImage /\ b.bootEmu = i.bootEmu
      /\ b.refs = i.refs /\ b.deferred = i.deferred /\ b.size = i.size
      /\ b.bootMode = a.bootMode
      /\ b.comps["PartType"] = i.comps["PartType"] /\ b.comps["Boot"] = i.comps["Boot"]
      /\ b.comps["Format"]
            = IF i.comps["Format"] = NoValue THEN "raw" ELSE i.comps["Format"]
  <2>1. a.comps \in [Slots -> PartTypes \cup FormatTypes \cup BootTypes \cup {NoValue}]
    BY <1>3 DEF Images
  <2>2. CASE a.comps["Format"] # NoValue
    BY <1>3, <1>4, <2>2
  <2>3. CASE a.comps["Format"] = NoValue
    <3>1. b = [a EXCEPT !.comps["Format"] = "raw"]
      BY <1>4, <2>3
    <3>2. b.comps = [a.comps EXCEPT !["Format"] = "raw"]
      BY <1>3, <3>1 DEF Images
    <3>3. b.comps \in [Slots -> PartTypes \cup FormatTypes \cup BootTypes \cup {NoValue}]
      BY <2>1, <3>2 DEF FormatTypes
    <3>4. /\ b \in Images /\ b.bootImage = a.bootImage /\ b.bootEmu = a.bootEmu
          /\ b.refs = a.refs /\ b.deferred = a.deferred /\ b.size = a.size
          /\ b.bootMode = a.bootMode
      BY <1>3, <3>1, <3>3 DEF Images
    <3> QED
      BY <1>3, <2>1, <2>3, <3>2, <3>4, PropTable
  <2> QED
    BY <2>2, <2>3
<1> HIDE DEF b
<1>6. r = IF b.comps["Boot"] # NoValue THEN b ELSE [b EXCEPT !.comps["Boot"] = "none"]
  BY <1>2 DEF Default, Loaded, AddComponent
<1>7. /\ r \in Images /\ r.bootImage = i.bootImage /\ r.bootEmu = i.bootEmu
      /\ r.refs = i.refs /\ r.deferred = i.deferred /\ r.size = i.size
      /\ r.bootMode = a.bootMode
      /\ r.comps["PartType"] = i.comps["PartType"] /\ r.comps["Format"] = b.comps["Format"]
      /\ r.comps["Boot"]
            = IF i.comps["Boot"] = NoValue THEN "none" ELSE i.comps["Boot"]
  <2>1. b.comps \in [Slots -> PartTypes \cup FormatTypes \cup BootTypes \cup {NoValue}]
    BY <1>5 DEF Images
  <2>2. CASE b.comps["Boot"] # NoValue
    BY <1>5, <1>6, <2>2
  <2>3. CASE b.comps["Boot"] = NoValue
    <3>1. r = [b EXCEPT !.comps["Boot"] = "none"]
      BY <1>6, <2>3
    <3>2. r.comps = [b.comps EXCEPT !["Boot"] = "none"]
      BY <1>5, <3>1 DEF Images
    <3>3. r.comps \in [Slots -> PartTypes \cup FormatTypes \cup BootTypes \cup {NoValue}]
      BY <2>1, <3>2 DEF BootTypes
    <3>4. /\ r \in Images /\ r.bootImage = b.bootImage /\ r.bootEmu = b.bootEmu
          /\ r.refs = b.refs /\ r.deferred = b.deferred /\ r.size = b.size
          /\ r.bootMode = b.bootMode
      BY <1>5, <3>1, <3>3 DEF Images
    <3> QED
      BY <1>5, <2>1, <2>3, <3>2, <3>4, PropTable
  <2> QED
    BY <2>2, <2>3
<1>8. ASSUME NEW p \in Props, NEW v \in Vals(G, p), HasProp(i, p, v)
      PROVE  HasProp(r, p, v)
  <2>1. v # NoValue
    BY <1>1, NoValueNotGiven
  <2>2. BootModeOf(v) # NoValue
    BY <2>1, NoValueIsNone, ImageAssumption DEF BootModeOf
  <2> QED
    BY <1>3, <1>5, <1>7, <1>8, <2>1, <2>2, PropTable DEF HasProp
<1>9. KeepsAll(r, G)
  <2>1. \A x \in G : x.prop \in Props
    BY <1>1, SettingShape
  <2> QED
    BY <1>7, <1>8, <2>1 DEF Fits, KeepsAll
<1> QED
  BY <1>5, <1>7, <1>9

\* Nothing is lost when the layout is loaded.
LEMMA LayoutKeeps ==
    ASSUME NEW i \in Images, NEW G \in SUBSET Settings, Waits(i, G), IsoOnly(i), KeepsAll(i, G),
           ~ Loaded(i, "PartType"), NEW type \in PartTypes,
           NEW r, r = AddComponent(i, "PartType", type)
    PROVE  KeepsAll(r, G)
<1>1. /\ r.size = i.size /\ r.bootMode = i.bootMode
      /\ r.comps = [i.comps EXCEPT !["PartType"] = type]
      /\ \A x \in ToSet(i.deferred) \ ToSet(r.deferred) :
            x.val \in Known[x.prop] /\ \E v \in Vals(G, x.prop) : HasProp(r, x.prop, v)
  BY LayoutLoads
<1>2. i.comps["PartType"] = NoValue /\ i.bootEmu = NoValue /\ ToSet(i.refs) = {}
  BY NoValueIsNone DEF IsoOnly, Loaded, PartType
<1>3. \A slot \in Slots : slot # "PartType" => r.comps[slot] = i.comps[slot]
  BY <1>1 DEF Images
<1>4. ASSUME NEW p \in Props, NEW v \in Vals(G, p), HasProp(i, p, v)
      PROVE  HasProp(r, p, v)
  <2>1. v # NoValue
    BY NoValueNotGiven
  <2>2. p # "type" /\ p # "boot_emu" /\ p # "boot_image"
    BY <1>2, <1>4, <2>1, PropTable DEF HasProp
  <2> QED
    BY <1>1, <1>3, <1>4, <2>2, PropTable DEF HasProp
<1>5. \A x \in G : x.prop \in Props
  BY SettingShape
<1> QED
  BY <1>1, <1>4, <1>5 DEF KeepsAll

LEMMA DefaultsFit ==
    ASSUME NEW i, NEW G, Fits(i, G, FALSE), NEW r, r = SetDefaults(i)
    PROVE  /\ Fits(r, G, TRUE)
           /\ r.bootImage \in {i.bootImage, NoValue}
           /\ \A slot \in Slots : Loaded(i, slot) => r.comps[slot] = i.comps[slot]
<1> DEFINE b == BaseDefaults(i)
           f == FormatDefaults(b)
           type == IF b.comps["Format"] = "iso9660" THEN "iso9660" ELSE "gpt"
<1>1. /\ i \in Images /\ G \in SUBSET Settings /\ Stuck(i) /\ Waits(i, G) /\ IsoOnly(i)
      /\ RefsFrom(i, G, FALSE) /\ EmuFrom(i, G, FALSE) /\ SlotsFrom(i, G, FALSE)
  BY DEF Fits
<1>2. /\ b \in Images /\ b.bootImage = i.bootImage /\ b.bootEmu = i.bootEmu
      /\ b.refs = i.refs /\ b.deferred = i.deferred
      /\ b.comps["PartType"] = i.comps["PartType"]
      /\ b.comps["Format"] = IF i.comps["Format"] = NoValue THEN "raw" ELSE i.comps["Format"]
      /\ b.comps["Boot"] = IF i.comps["Boot"] = NoValue THEN "none" ELSE i.comps["Boot"]
      /\ KeepsAll(b, G)
  BY BaseDefaultsFit
<1>3. r = PartDefaults(f)
  BY DEF SetDefaults
<1>4. f = IF Loaded(b, "PartType") THEN b ELSE AddComponent(b, "PartType", type)
  BY DEF FormatDefaults, Default
<1>5. type \in PartTypes
  BY DEF PartTypes
<1>6. type = IF b.comps["Format"] = "iso9660" THEN "iso9660" ELSE "gpt"
  OBVIOUS
<1> HIDE DEF b, f, type
<1>7. Waits(b, G) /\ IsoOnly(b)
  BY <1>1, <1>2 DEF Waits, IsoOnly, PartType
\* The layout.
<1>8. /\ f \in Images /\ Stuck(f) /\ Waits(f, G) /\ KeepsAll(f, G) /\ IsoOnly(f)
      /\ Vals(G, "boot_emu") = {} => f.bootEmu = NoValue
      /\ ToSet(f.refs) \subseteq Vals(G, "boot_image")
      /\ f.bootImage \in Vals(G, "boot_image") \cup {NoValue}
      /\ f.bootImage \in {b.bootImage, NoValue}
      /\ f.comps["Format"] = b.comps["Format"] /\ f.comps["Boot"] = b.comps["Boot"]
      /\ f.comps["PartType"]
            = IF b.comps["PartType"] = NoValue THEN type ELSE b.comps["PartType"]
  <2>1. CASE Loaded(b, "PartType")
    <3>1. f = b /\ b.comps["PartType"] # NoValue
      BY <1>4, <2>1 DEF Loaded
    <3>2. Stuck(f)
      BY <1>1, <1>2, <3>1 DEF Stuck, CompTakes, PartType
    <3> QED
      BY <1>1, <1>2, <1>7, <3>1, <3>2 DEF RefsFrom, EmuFrom
  <2>2. CASE ~ Loaded(b, "PartType")
    <3>1. f = AddComponent(b, "PartType", type)
      BY <1>4, <2>2
    <3>2. /\ f \in Images
          /\ f.comps = [b.comps EXCEPT !["PartType"] = type]
          /\ f.bootImage = NoValue
          /\ Stuck(f) /\ ToSet(f.deferred) \subseteq ToSet(b.deferred)
          /\ Vals(G, "boot_emu") = {} => f.bootEmu = NoValue
          /\ ToSet(f.refs) \subseteq Vals(G, "boot_image")
          /\ type # "iso9660" => f.bootEmu = NoValue /\ ToSet(f.refs) = {}
      BY <1>1, <1>2, <1>5, <1>7, <2>2, <3>1, LayoutLoads
    <3>3. KeepsAll(f, G)
      BY <1>1, <1>2, <1>5, <1>7, <2>2, <3>1, LayoutKeeps
    <3>4. /\ f.comps["Format"] = b.comps["Format"] /\ f.comps["Boot"] = b.comps["Boot"]
          /\ f.comps["PartType"] = type /\ b.comps["PartType"] = NoValue
      BY <1>2, <2>2, <3>2, PropTable DEF Images, Loaded
    <3>5. Waits(f, G) /\ IsoOnly(f)
      BY <1>7, <3>2, <3>4 DEF Waits, IsoOnly, PartType
    <3> QED
      BY <3>2, <3>3, <3>4, <3>5
  <2> QED
    BY <2>1, <2>2
\* The properties of the layout.
<1>9. /\ r \in Images /\ r.comps = f.comps /\ r.size = f.size /\ r.bootMode = f.bootMode
      /\ r.bootImage = f.bootImage /\ r.deferred = f.deferred
      /\ r.bootEmu = IF PartType(f) = "iso9660" /\ f.bootEmu = NoValue THEN "noemu" ELSE f.bootEmu
      /\ ToSet(f.refs) \subseteq ToSet(r.refs)
      /\ ToSet(r.refs) \subseteq ToSet(f.refs) \cup {""}
      /\ PartType(f) # "iso9660" => r.refs = f.refs
  <2>1. CASE PartType(f) # "iso9660"
    <3>1. r = f
      BY <1>3, <2>1 DEF PartDefaults
    <3> QED
      BY <1>8, <2>1, <3>1
  <2>2. CASE PartType(f) = "iso9660"
    <3> DEFINE names == f.refs
               more == IF f.bootImage = NoValue THEN Append(names, "") ELSE names
    <3>1. names \in Seq(RefNames) /\ f.refs = names /\ "" \in RefNames
      BY <1>8 DEF Images, RefNames
    <3> HIDE DEF names
    <3>2. Append(names, "") \in Seq(RefNames) /\ ToSet(Append(names, "")) = ToSet(names) \cup {""}
      BY <3>1, AppendName
    <3>3. more \in Seq(RefNames) /\ ToSet(more) \in {ToSet(names), ToSet(names) \cup {""}}
      BY <3>1, <3>2
    <3>4. r = [f EXCEPT !.bootEmu = IF @ = NoValue THEN "noemu" ELSE @, !.refs = more]
      BY <1>3, <2>2, <3>1 DEF PartDefaults
    <3> HIDE DEF more
    <3>5. /\ r \in Images /\ r.comps = f.comps /\ r.size = f.size /\ r.bootMode = f.bootMode
          /\ r.bootImage = f.bootImage /\ r.deferred = f.deferred /\ r.refs = more
          /\ r.bootEmu = IF f.bootEmu = NoValue THEN "noemu" ELSE f.bootEmu
      BY <1>8, <3>3, <3>4 DEF Images, RefNames, BootEmus
    <3> QED
      BY <2>2, <3>1, <3>3, <3>5
  <2> QED
    BY <2>1, <2>2
<1>10. KeepsAll(r, G)
  <2>1. ASSUME NEW p \in Props, NEW v \in Vals(G, p), HasProp(f, p, v)
        PROVE  HasProp(r, p, v)
    <3>1. v # NoValue
      BY <1>1, NoValueNotGiven
    <3> QED
      BY <1>9, <2>1, <3>1, PropTable DEF HasProp
  <2>2. \A x \in G : x.prop \in Props
    BY <1>1, SettingShape
  <2> QED
    BY <1>8, <1>9, <2>1, <2>2 DEF KeepsAll
<1>11. Stuck(r) /\ Waits(r, G) /\ IsoOnly(r)
  BY <1>8, <1>9 DEF Stuck, Waits, IsoOnly, CompTakes, PartType
<1>12. EmuFrom(r, G, TRUE) /\ RefsFrom(r, G, TRUE)
  BY <1>8, <1>9, NoValueIsNone DEF EmuFrom, RefsFrom, PartType
<1>13. SlotsFrom(r, G, TRUE)
  <2>1. /\ DefaultOf(r)["type"] = type /\ DefaultOf(r)["format"] = "raw"
        /\ DefaultOf(r)["bootloader"] = "none"
    BY <1>6, <1>8, <1>9 DEF DefaultOf
  <2>2. \A p \in DOMAIN SlotOf :
            r.comps[SlotOf[p]] = IF i.comps[SlotOf[p]] = NoValue THEN DefaultOf(r)[p]
                                 ELSE i.comps[SlotOf[p]]
    <3>1. /\ r.comps["Format"] = b.comps["Format"] /\ r.comps["Boot"] = b.comps["Boot"]
          /\ r.comps["PartType"]
                = IF i.comps["PartType"] = NoValue THEN type ELSE i.comps["PartType"]
      BY <1>2, <1>8, <1>9
    <3> QED
      BY <1>2, <2>1, <3>1, PropTable
  <2>3. \A p : NoValue \notin Vals(G, p)
    BY <1>1, NoValueNotGiven
  <2> QED
    BY <1>1, <2>2, <2>3 DEF SlotsFrom
<1>14. \A slot \in Slots : Loaded(i, slot) => r.comps[slot] = i.comps[slot]
  BY <1>2, <1>8, <1>9, PropTable DEF Loaded
<1>15. r.bootImage \in {i.bootImage, NoValue}
  BY <1>2, <1>8, <1>9
<1> QED
  BY <1>1, <1>9, <1>10, <1>11, <1>12, <1>13, <1>14, <1>15 DEF Fits

\* Image::Set: the image fits the settings it had and the one it accepts.
LEMMA SetFits ==
    ASSUME NEW i, NEW G, Fits(i, G, FALSE), NEW s \in Settings, NEW r \in Set(i, s)
    PROVE  /\ Fits(r, G \cup {s}, FALSE)
           /\ \A slot \in Slots : Loaded(i, slot) => r.comps[slot] = i.comps[slot]
<1>1. CASE Defers(i, s)
  <2>1. r \in Defer(i, s)
    BY <1>1 DEF Set
  <2> QED
    BY <1>1, <2>1, DeferFits
<1>2. CASE ~ Defers(i, s)
  <2>1. Takes(i, s) /\ r = Put(i, s)
    BY <1>2 DEF Set
  <2>2. s.val \in Known[s.prop] /\ s.prop \in Props
    BY <2>1, SettingShape DEF Takes
  <2>3. CASE s.prop \in {"size", "boot_mode"}
    BY <2>1, <2>2, <2>3, OwnPropFits
  <2>4. CASE s.prop \in DOMAIN SlotOf
    <3>1. ~ Loaded(i, SlotOf[s.prop])
      BY <2>1, <2>4 DEF Takes
    <3>2. r = AddComponent(i, SlotOf[s.prop], s.val)
      BY <2>1, <2>4, PropTable DEF Put
    <3>3. \A x : x = AddComponent(i, SlotOf[s.prop], s.val) =>
              /\ Fits(x, G \cup {s}, FALSE)
              /\ \A slot \in Slots : Loaded(i, slot) => x.comps[slot] = i.comps[slot]
      <4>1. s.val \in Known[s.prop]
        BY <2>2
      <4> QED
        BY <2>4, <3>1, <4>1, SlotFits
    <3> QED
      BY <3>2, <3>3
  <2>5. CASE s.prop \in CompProps
    <3>1. CompTakes(i, s)
      BY <2>1, <2>5 DEF Takes
    <3>2. r = CompSet(i, s)
      BY <2>1, <2>5, PropTable DEF Put
    <3> QED
      BY <2>5, <3>1, <3>2, CompPropFits
  <2> QED
    BY <2>2, <2>3, <2>4, <2>5, PropTable
<1> QED
  BY <1>1, <1>2

\* No setting resolves a reference.
LEMMA SetKeepsUnresolved ==
    ASSUME NEW i, NEW G, Fits(i, G, FALSE), i.bootImage = NoValue,
           NEW s \in Settings, NEW r \in Set(i, s)
    PROVE  r.bootImage = NoValue
<1>1. /\ i \in Images /\ G \in SUBSET Settings /\ Waits(i, G) /\ IsoOnly(i)
      /\ s.prop \in Props
  BY SettingShape DEF Fits
<1>2. CASE Defers(i, s)
  BY <1>1, <1>2 DEF Set, Defer, Images
<1>3. CASE ~ Defers(i, s)
  <2>1. Takes(i, s) /\ r = Put(i, s)
    BY <1>3 DEF Set
  <2>2. CASE s.prop \in {"size", "boot_mode"}
    <3>1. r = IF s.prop = "size" THEN [i EXCEPT !.size = s.val]
              ELSE [i EXCEPT !.bootMode = BootModeOf(s.val)]
      BY <2>1, <2>2, PropTable DEF Put
    <3> QED
      BY <1>1, <3>1 DEF Images
  <2>3. CASE s.prop \in CompProps
    <3>1. r = CompSet(i, s)
      BY <2>1, <2>3, PropTable DEF Put
    <3> QED
      BY <1>1, <3>1 DEF CompSet, Images
  <2>4. CASE s.prop \in {"format", "bootloader"}
    <3>1. r = AddComponent(i, SlotOf[s.prop], s.val) /\ SlotOf[s.prop] # "PartType"
      BY <2>1, <2>4, PropTable DEF Put
    <3> QED
      BY <1>1, <3>1 DEF AddComponent, Images
  <2>5. CASE s.prop = "type"
    <3>1. /\ r = AddComponent(i, "PartType", s.val) /\ ~ Loaded(i, "PartType")
          /\ s.val \in PartTypes
      BY <2>1, <2>5, PropTable, KnownTable DEF Put, Takes
    <3>2. i \in Images /\ G \in SUBSET Settings
      BY <1>1
    <3>4. Waits(i, G)
      BY <1>1
    <3>5. IsoOnly(i)
      BY <1>1
    <3>6. ~ Loaded(i, "PartType")
      BY <3>1
    <3>7. s.val \in PartTypes
      BY <3>1
    <3>3. \A x : x = AddComponent(i, "PartType", s.val) => x.bootImage = NoValue
      BY <3>2, <3>4, <3>5, <3>6, <3>7, LayoutLoads
    <3> QED
      BY <3>1, <3>3
  <2> QED
    BY <1>1, <2>2, <2>3, <2>4, <2>5, PropTable
<1> QED
  BY <1>2, <1>3

=============================================================================

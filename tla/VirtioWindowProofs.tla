------------------------- MODULE VirtioWindowProofs -------------------------
(***************************************************************************)
(* Proofs about VirtioWindow for every page size, every size of the        *)
(* structures, every selection and every access.                           *)
(***************************************************************************)
EXTENDS VirtioWindow, TLAPS

(***************************************************************************)
(* The one BAR.                                                            *)
(***************************************************************************)

\* A BAR that is decoded is the one at register 0, in memory space.
LEMMA OnlyBar ==
  ASSUME WindowTypeOK, NEW i \in Regs, B!GetBar(reg, space, i) # None
  PROVE  /\ i = 0 /\ "mem" \in space
         /\ B!GetBar(reg, space, i) \in Nat
         /\ VirtioBars[0] = [type |-> "Memory32Bit", size |-> 8 * Page]
  <1>1. VirtioBars[i] # None
    BY DEF B!GetBar
  <1>2. i = 0 /\ VirtioBars[0] = [type |-> "Memory32Bit", size |-> 8 * Page]
    BY <1>1 DEF VirtioBars
  <1>3. "mem" \in space
    BY <1>2 DEF B!GetBar, B!SpaceOf
  <1>4. B!AddressIn(reg, 0) = reg[0]
    BY <1>2 DEF B!AddressIn, B!Is64
  <1>5. B!GetBar(reg, space, 0) = B!AddressIn(reg, 0)
    BY <1>2 DEF B!GetBar
  <1>6. reg[0] \in Nat
    BY <1>2, BarAssumption DEF WindowTypeOK, Regs
  <1>7. QED
    BY <1>2, <1>3, <1>4, <1>5, <1>6

\* Where the search for an address ends: in the BAR, at an offset at which the
\* access fits (find_mmio_region).
LEMMA Found ==
  ASSUME WindowTypeOK, NEW address \in Nat, NEW size \in Nat,
         FindMmioRegion(address, size) # None
  PROVE  /\ FindMmioRegion(address, size) =
              [bar |-> 0, offset |-> address - B!GetBar(reg, space, 0)]
         /\ B!GetBar(reg, space, 0) \in Nat /\ "mem" \in space /\ size > 0
         /\ address - B!GetBar(reg, space, 0) \in Nat
         /\ address - B!GetBar(reg, space, 0) + size <= 8 * Page
  <1> DEFINE F(i) == B!Finds(i, address, size, "mem")
  <1>1. \E i \in Regs : F(i)
    BY DEF FindMmioRegion
  <1>2. ASSUME NEW i \in Regs, F(i)
        PROVE  /\ i = 0 /\ B!GetBar(reg, space, 0) \in Nat /\ "mem" \in space
               /\ size # 0
               /\ address >= B!GetBar(reg, space, 0)
               /\ address + size <= B!GetBar(reg, space, 0) + 8 * Page
    <2>1. /\ B!GetBar(reg, space, i) # None
          /\ B!RangeContains(B!GetBar(reg, space, i), VirtioBars[i].size, address, size)
      BY <1>2 DEF B!Finds, B!Matches
    <2>2. /\ i = 0 /\ "mem" \in space /\ B!GetBar(reg, space, 0) \in Nat
          /\ VirtioBars[0].size = 8 * Page
      BY <2>1, OnlyBar
    <2>3. QED
      BY <2>1, <2>2 DEF B!RangeContains
  <1> HIDE DEF F
  <1>3. F(0) /\ (CHOOSE i \in Regs : F(i)) = 0
    BY <1>1, <1>2
  <1>4. FindMmioRegion(address, size) =
          [bar |-> 0, offset |-> address - B!GetBar(reg, space, 0)]
    BY <1>3 DEF FindMmioRegion, F
  <1>5. 0 \in Regs
    BY BarAssumption DEF Regs
  <1>6. QED
    BY <1>2, <1>3, <1>4, <1>5, PageAssumption

\* The window leads to what the driver selected, in a BAR that is decoded.
LEMMA Led ==
  ASSUME WindowTypeOK, WindowTarget # None
  PROVE  /\ WindowTarget = [bar |-> cfg.bar, offset |-> cfg.offset]
         /\ cfg.bar = 0 /\ cfg.offset \in Nat /\ cfg.length \in 1 .. 4
         /\ "mem" \in space
         /\ cfg.offset + cfg.length <= 8 * Page
  <1>1. cfg.bar \in Nat /\ cfg.offset \in Nat /\ cfg.length \in Nat
    BY DEF WindowTypeOK
  <1> DEFINE base == B!GetBar(reg, space, cfg.bar)
  <1>2. /\ cfg.bar \in Regs /\ base # None /\ cfg.length <= 4
        /\ WindowTarget = FindMmioRegion(base + cfg.offset, cfg.length)
    BY DEF WindowTarget
  <1>3. cfg.bar = 0 /\ base \in Nat /\ base = B!GetBar(reg, space, 0)
    BY <1>2, OnlyBar
  <1> HIDE DEF base
  <1>4. base + cfg.offset \in Nat /\ base + cfg.offset - base = cfg.offset
    BY <1>1, <1>3
  <1>5. /\ WindowTarget = [bar |-> 0, offset |-> base + cfg.offset - base]
        /\ "mem" \in space /\ cfg.length > 0
        /\ base + cfg.offset - base + cfg.length <= 8 * Page
    BY <1>1, <1>2, <1>3, <1>4, Found
  <1>6. QED
    BY <1>1, <1>2, <1>3, <1>4, <1>5

-----------------------------------------------------------------------------
(***************************************************************************)
(* The regions.  They are a page apart and no longer than a page, so at    *)
(* most one is asked for an access, in whatever order they are asked.      *)
(***************************************************************************)
Names == {"common", "isr", "device", "notify", "msixTable", "pba"}

\* The page of a region, and what it holds.
PageOf == [common |-> 0, isr |-> 1, device |-> 2, notify |-> 3, msixTable |-> 4, pba |-> 5]

\* The regions lie in BAR 0, each in its page.
LEMMA RegionPlace ==
  ASSUME NEW n \in Names
  PROVE  /\ Regions[n].bar = 0 /\ Regions[n].offset = PageOf[n] * Page
         /\ Regions[n].length \in 1 .. Page
         /\ PageOf[n] \in 0 .. 5
  BY PageAssumption DEF Names, Regions, Region, PageOf

\* An access that a region handles lies in the region's page.
LEMMA TargetPlace ==
  ASSUME NEW n \in Names, NEW bar, NEW offset \in Nat, NEW size \in Nat \ {0},
         AccessTargets(Regions[n], bar, offset, size)
  PROVE  PageOf[n] * Page <= offset /\ offset + size <= PageOf[n] * Page + Page
  <1>1. /\ Regions[n].offset = PageOf[n] * Page /\ PageOf[n] * Page \in Nat
        /\ Regions[n].length \in Nat /\ Regions[n].length <= Page /\ Page \in Nat
    BY RegionPlace, PageAssumption
  <1>2. /\ offset >= Regions[n].offset
        /\ offset + size <= Regions[n].offset + Regions[n].length
    BY DEF AccessTargets, B!RangeContains
  <1>3. QED
    BY <1>1, <1>2

\* Two pages do not meet.
LEMMA PagesApart ==
  ASSUME NEW p \in 0 .. 5, NEW q \in 0 .. 5, p < q
  PROVE  p * Page + Page <= q * Page
  BY PageAssumption

\* No access is for two regions.
LEMMA OneTarget ==
  ASSUME NEW n \in Names, NEW m \in Names, NEW bar,
         NEW offset \in Nat, NEW size \in Nat \ {0},
         AccessTargets(Regions[n], bar, offset, size),
         AccessTargets(Regions[m], bar, offset, size)
  PROVE  n = m
  <1>1. PageOf[n] = PageOf[m]
    <2>1. PageOf[n] \in 0 .. 5 /\ PageOf[m] \in 0 .. 5
      BY RegionPlace
    <2>2. /\ PageOf[n] * Page <= offset /\ offset + size <= PageOf[n] * Page + Page
          /\ PageOf[m] * Page <= offset /\ offset + size <= PageOf[m] * Page + Page
      BY TargetPlace
    <2>3. PageOf[n] * Page \in Nat /\ PageOf[m] * Page \in Nat /\ Page \in Nat
      BY <2>1, PageAssumption
    <2>4. CASE PageOf[n] < PageOf[m]
      <3>1. PageOf[n] * Page + Page <= PageOf[m] * Page
        BY <2>1, <2>4, PagesApart
      <3>2. QED
        BY <2>2, <2>3, <3>1
    <2>5. CASE PageOf[m] < PageOf[n]
      <3>1. PageOf[m] * Page + Page <= PageOf[n] * Page
        BY <2>1, <2>5, PagesApart
      <3>2. QED
        BY <2>2, <2>3, <3>1
    <2>6. QED
      BY <2>1, <2>4, <2>5
  <1>2. QED
    BY <1>1 DEF PageOf, Names

\* What asking the regions of a list finds: none, or the one that handles the
\* access.
LEMMA FirstTargetedIs ==
  ASSUME NEW order, order \in {MsiXRegions, StructureOrder}, NEW bar,
         NEW offset \in Nat, NEW size \in Nat \ {0}
  PROVE  /\ \/ FirstTargeted(order, bar, offset, size) = "none"
            \/ \E i \in 1 .. Len(order) :
                 /\ FirstTargeted(order, bar, offset, size) = order[i]
                 /\ AccessTargets(Regions[order[i]], bar, offset, size)
         /\ \A i \in 1 .. Len(order) :
              AccessTargets(Regions[order[i]], bar, offset, size) =>
                FirstTargeted(order, bar, offset, size) = order[i]
  <1> DEFINE T(i) == AccessTargets(Regions[order[i]], bar, offset, size)
             hits == {i \in 1 .. Len(order) : T(i)}
             F == FirstTargeted(order, bar, offset, size)
  <1>1. Len(order) \in Nat /\ \A i \in 1 .. Len(order) : order[i] \in Names
    BY DEF MsiXRegions, StructureOrder, Names
  <1>2. \A i, j \in 1 .. Len(order) : order[i] = order[j] => i = j
    BY DEF MsiXRegions, StructureOrder
  <1>3. \A i, j \in hits : i = j
    BY <1>1, <1>2, OneTarget
  <1>4. F = IF hits = {} THEN "none"
            ELSE order[CHOOSE i \in hits : \A j \in hits : i <= j]
    BY DEF FirstTargeted
  <1>5. hits \subseteq 1 .. Len(order) /\ \A i \in hits : T(i)
    OBVIOUS
  <1>6. \A i \in 1 .. Len(order) : T(i) => i \in hits
    OBVIOUS
  <1> HIDE DEF T, hits, F
  <1>7. ASSUME NEW i \in hits
        PROVE  F = order[i]
    <2>1. i \in hits /\ \A j \in hits : i <= j
      BY <1>1, <1>3, <1>5
    <2>2. (CHOOSE k \in hits : \A j \in hits : k <= j) \in hits
      BY <2>1
    <2>3. (CHOOSE k \in hits : \A j \in hits : k <= j) = i
      BY <1>3, <2>2
    <2>4. QED
      BY <1>4, <2>3
  <1>8. hits = {} => F = "none"
    BY <1>4
  <1>9. QED
    BY <1>5, <1>6, <1>7, <1>8 DEF T, F

\* A region handles an access exactly if the access lies in it.
LEMMA HandlerIs ==
  ASSUME NEW bar, NEW offset \in Nat, NEW size \in Nat \ {0}
  PROVE  /\ Handler(bar, offset, size) \in Names \cup {"none"}
         /\ \A n \in Names : Handler(bar, offset, size) = n <=>
                               AccessTargets(Regions[n], bar, offset, size)
  <1> DEFINE msix == FirstTargeted(MsiXRegions, bar, offset, size)
             other == FirstTargeted(StructureOrder, bar, offset, size)
             H == Handler(bar, offset, size)
             T(n) == AccessTargets(Regions[n], bar, offset, size)
  <1>1. /\ msix \in {"none", "msixTable", "pba"}
        /\ msix = "msixTable" <=> T("msixTable")
        /\ msix = "pba" <=> T("pba")
    <2>1. Len(MsiXRegions) = 2 /\ MsiXRegions[1] = "msixTable" /\ MsiXRegions[2] = "pba"
      BY DEF MsiXRegions
    <2>2. QED
      BY <2>1, FirstTargetedIs
  <1>2. /\ other \in {"none", "common", "device", "notify", "isr"}
        /\ \A n \in {"common", "device", "notify", "isr"} : other = n <=> T(n)
    <2>1. /\ Len(StructureOrder) = 4 /\ StructureOrder[1] = "common"
          /\ StructureOrder[2] = "device" /\ StructureOrder[3] = "notify"
          /\ StructureOrder[4] = "isr"
      BY DEF StructureOrder
    <2>2. QED
      BY <2>1, FirstTargetedIs
  <1>3. H = IF msix # "none" THEN msix ELSE other
    BY DEF Handler
  <1>4. \A n, m \in Names : T(n) /\ T(m) => n = m
    BY OneTarget
  <1> HIDE DEF msix, other, T, H
  <1>5. /\ H \in Names \cup {"none"}
        /\ \A n \in Names : H = n <=> T(n)
    BY <1>1, <1>2, <1>3, <1>4 DEF Names
  <1>6. QED
    BY <1>5 DEF H, T

\* A capability advertises the start of a region and no more than the region.
LEMMA AdvertisedPlace ==
  ASSUME NEW c \in Advertised
  PROVE  /\ c.type \in Names /\ c.bar = 0 /\ c.offset = PageOf[c.type] * Page
         /\ c.length \in 1 .. Regions[c.type].length
  <1>1. ASSUME NEW n \in {"msixTable", "pba"}, NEW bytes \in 1 .. Page
        PROVE  /\ MsiXCap(n, MsiXRegister(Regions[n]), bytes)
                    = VirtioPciCap(n, 0, PageOf[n] * Page, bytes)
               /\ Regions[n].length = Page
    <2>1. MsiXRegister(Regions[n]) = PageOf[n] * Page /\ Regions[n].length = Page
      BY PageAssumption DEF MsiXRegister, Regions, Region, PageOf
    <2>2. PageOf[n] \in {4, 5} /\ Page \in Nat /\ Page % 8 = 0
      BY PageAssumption DEF PageOf
    <2>3. (PageOf[n] * Page) % 8 = 0 /\ PageOf[n] * Page \in Nat
      BY <2>2
    <2>4. QED
      BY <2>1, <2>3 DEF MsiXCap
  <1>2. \/ c = VirtioPciCap("common", 0, 0, CommonSize)
        \/ c = VirtioPciCap("isr", 0, Page, 1)
        \/ c = VirtioPciCap("device", 0, 2 * Page, Page)
        \/ c = VirtioPciCap("notify", 0, 3 * Page, Page)
        \/ c = VirtioPciCap("msixTable", 0, PageOf["msixTable"] * Page, TableBytes)
        \/ c = VirtioPciCap("pba", 0, PageOf["pba"] * Page, PbaBytes)
    BY <1>1, TableAssumption DEF Advertised
  <1>3. ASSUME NEW n \in Names, NEW offset, NEW length,
               c = VirtioPciCap(n, 0, offset, length),
               offset = PageOf[n] * Page, length \in 1 .. Regions[n].length
        PROVE  /\ c.type \in Names /\ c.bar = 0 /\ c.offset = PageOf[c.type] * Page
               /\ c.length \in 1 .. Regions[c.type].length
    BY <1>3 DEF VirtioPciCap
  <1>4. /\ PageOf["common"] * Page = 0 /\ PageOf["isr"] * Page = Page
        /\ PageOf["device"] * Page = 2 * Page /\ PageOf["notify"] * Page = 3 * Page
    BY PageAssumption DEF PageOf
  <1>5. /\ Regions["common"].length = CommonSize /\ Regions["isr"].length = 1
        /\ Regions["device"].length = Page /\ Regions["notify"].length = Page
        /\ Regions["msixTable"].length = Page /\ Regions["pba"].length = Page
    BY DEF Regions, Region
  <1>6. /\ CommonSize \in 1 .. CommonSize /\ 1 \in 1 .. 1 /\ Page \in 1 .. Page
        /\ TableBytes \in 1 .. Page /\ PbaBytes \in 1 .. Page
    BY PageAssumption, TableAssumption
  <1>7. {"common", "isr", "device", "notify", "msixTable", "pba"} \subseteq Names
    BY DEF Names
  <1>8. QED
    BY <1>2, <1>3, <1>4, <1>5, <1>6, <1>7

\* Addresses within the BAR are far from the end of 64-bit arithmetic.
LEMMA BarBelowQword == 8 * Page < B!Qword
  <1>1. Dword \in Nat /\ Dword >= 64 /\ 8 * Page <= Dword
    BY PageAssumption, BarAssumption
  <1>2. ASSUME NEW d \in Nat, d >= 64
        PROVE  d < d * d
    BY <1>2, Z3
  <1>3. Dword < Dword * Dword
    BY <1>1, <1>2
  <1>4. QED
    BY <1>1, <1>3, PageAssumption DEF B!Qword

\* An access within the BAR reaches the structure that is advertised where it
\* goes, and only that one.
LEMMA Reaches ==
  ASSUME NEW offset \in Nat, NEW size \in Nat \ {0}, offset + size <= 8 * Page,
         NEW c \in Advertised
  PROVE  /\ BytesOf(offset, size) \subseteq BytesOf(c.offset, c.length)
              => Handler(0, offset, size) = c.type
         /\ Handler(0, offset, size) \notin {"none", c.type} =>
              BytesOf(offset, size) \cap BytesOf(c.offset, c.length) = {}
  <1>1. /\ c.type \in Names /\ c.offset = PageOf[c.type] * Page
        /\ c.length \in 1 .. Regions[c.type].length
    BY AdvertisedPlace
  <1>2. /\ Regions[c.type].bar = 0 /\ Regions[c.type].offset = c.offset
        /\ Regions[c.type].length \in 1 .. Page
        /\ PageOf[c.type] \in 0 .. 5 /\ c.offset \in Nat /\ c.length \in Nat
        /\ c.length <= Regions[c.type].length
    BY <1>1, RegionPlace, PageAssumption
  <1>3. ASSUME BytesOf(offset, size) \subseteq BytesOf(c.offset, c.length)
        PROVE  Handler(0, offset, size) = c.type
    <2>1. offset \in BytesOf(offset, size) /\ offset + size - 1 \in BytesOf(offset, size)
      BY DEF BytesOf
    <2>2. c.offset <= offset /\ offset + size <= c.offset + c.length
      BY <1>2, <1>3, <2>1 DEF BytesOf
    <2>3. c.offset + Regions[c.type].length <= 6 * Page
      BY <1>1, <1>2, PageAssumption
    <2>4. /\ c.offset + Regions[c.type].length < B!Qword /\ offset + size < B!Qword
          /\ Regions[c.type].length # 0
      <3>1. B!Qword \in Nat /\ 8 * Page < B!Qword
        BY BarBelowQword, BarAssumption DEF B!Qword
      <3>2. QED
        BY <1>2, <2>3, <3>1, PageAssumption
    <2>5. AccessTargets(Regions[c.type], 0, offset, size)
      BY <1>2, <2>2, <2>4 DEF AccessTargets, B!RangeContains
    <2>6. QED
      BY <1>1, <2>5, HandlerIs
  <1>4. ASSUME Handler(0, offset, size) \notin {"none", c.type}
        PROVE  BytesOf(offset, size) \cap BytesOf(c.offset, c.length) = {}
    <2> DEFINE n == Handler(0, offset, size)
    <2>1. n \in Names /\ AccessTargets(Regions[n], 0, offset, size) /\ n # c.type
      BY <1>4, HandlerIs
    <2> HIDE DEF n
    <2>2. PageOf[n] * Page <= offset /\ offset + size <= PageOf[n] * Page + Page
      BY <2>1, TargetPlace
    <2>3. PageOf[n] \in 0 .. 5 /\ PageOf[n] # PageOf[c.type]
      BY <1>1, <2>1 DEF PageOf, Names
    <2>4. PageOf[n] * Page \in Nat /\ Page \in Nat /\ c.offset + c.length <= c.offset + Page
      BY <1>2, <2>3, PageAssumption
    <2>5. CASE PageOf[n] < PageOf[c.type]
      <3>1. PageOf[n] * Page + Page <= c.offset
        BY <1>1, <1>2, <2>3, <2>5, PagesApart
      <3>2. QED
        BY <1>2, <2>2, <2>4, <3>1 DEF BytesOf
    <2>6. CASE PageOf[c.type] < PageOf[n]
      <3>1. c.offset + Page <= PageOf[n] * Page
        BY <1>1, <1>2, <2>3, <2>6, PagesApart
      <3>2. QED
        BY <1>2, <2>2, <2>4, <3>1 DEF BytesOf
    <2>7. QED
      BY <1>2, <2>3, <2>5, <2>6
  <1>5. QED
    BY <1>3, <1>4

-----------------------------------------------------------------------------
(***************************************************************************)
(* Types.                                                                  *)
(***************************************************************************)

\* What is left of a register when the bits below the BAR's size are not
\* writable is no larger.
LEMMA Aligned ==
  ASSUME NEW v \in Nat, NEW s \in Nat \ {0}
  PROVE  B!AlignDown(v, s) \in 0 .. v
  <1>1. v % s \in Nat /\ v % s <= v
    <2>1. v % s \in 0 .. s - 1
      OBVIOUS
    <2>2. CASE v < s
      BY <2>2
    <2>3. CASE v >= s
      BY <2>1, <2>3
    <2>4. QED
      BY <2>2, <2>3
  <1>2. QED
    BY <1>1 DEF B!AlignDown

\* A write of the BAR register leaves a register value.
LEMMA WriteBarType ==
  ASSUME WindowTypeOK, NEW v \in BarValues
  PROVE  B!Write(0, v) \in 0 .. Dword - 1
  <1>1. 0 \in Regs /\ v \in Nat /\ v <= Dword - 1 /\ Dword \in Nat
        /\ 8 * Page \in Nat \ {0}
    BY BarAssumption, AccessAssumption, PageAssumption DEF Regs
  <1>2. CASE VirtioBars[0] # None
    <2>1. VirtioBars[0].size = 8 * Page
      BY <1>1, <1>2 DEF VirtioBars
    <2>2. B!Write(0, v) = B!AlignDown(v, 8 * Page)
      BY <1>2, <2>1 DEF B!Write, B!IsUpper
    <2>3. QED
      BY <1>1, <2>2, Aligned
  <1>3. CASE VirtioBars[0] = None
    <2>1. B!Write(0, v) = reg[0]
      BY <1>3 DEF B!Write, B!IsUpper
    <2>2. QED
      BY <1>1, <2>1 DEF WindowTypeOK
  <1>4. QED
    BY <1>2, <1>3

\* A read through the window leaves four bytes in the data register.
LEMMA PrepareReadType ==
  ASSUME WindowTypeOK, NEW content, PrepareRead(content)
  PROVE  DOMAIN pci_cfg_data' = 0 .. 3 /\ isr' \in 0 .. 3
  BY DEF PrepareRead, Invalid, Padded, ReadAndClearIsr, WindowTypeOK

\* Every step keeps the types.
LEMMA WindowTypeStep == WindowTypeOK /\ [WindowNext]_windowVars => WindowTypeOK'
  <1> SUFFICES ASSUME WindowTypeOK, [WindowNext]_windowVars
               PROVE  WindowTypeOK'
    OBVIOUS
  <1>1. ASSUME NEW address \in Addresses, NEW size \in Sizes, NEW content \in Contents,
               ReadMmio(address, size, content)
        PROVE  WindowTypeOK'
    <2>1. isr' \in 0 .. 3
      BY <1>1 DEF ReadMmio, ReadAndClearIsr, WindowTypeOK
    <2>2. QED
      BY <1>1, <2>1 DEF ReadMmio, WindowTypeOK
  <1>2. ASSUME NEW address \in Addresses, NEW size \in Sizes, NEW content \in Contents,
               WriteMmio(address, size, content)
        PROVE  WindowTypeOK'
    BY <1>2 DEF WriteMmio, WindowTypeOK
  <1>3. ASSUME NEW o \in ConfigOffsets, NEW size \in Sizes, NEW content \in Contents,
               ReadConfig(o, size, content)
        PROVE  WindowTypeOK'
    <2>1. DOMAIN pci_cfg_data' = 0 .. 3 /\ isr' \in 0 .. 3
      BY <1>3, PrepareReadType DEF ReadConfig, WindowTypeOK
    <2>2. QED
      BY <1>3, <2>1 DEF ReadConfig, WindowTypeOK
  <1>4. ASSUME NEW o \in ConfigOffsets, NEW size \in Sizes, NEW content \in Contents,
               WriteConfig(o, size, content)
        PROVE  WindowTypeOK'
    BY <1>4 DEF WriteConfig, WindowTypeOK
  <1>5. ASSUME NEW s \in Selections, Select(s)
        PROVE  WindowTypeOK'
    BY <1>5, CfgAssumption DEF Select, WindowTypeOK
  <1>6. ASSUME NEW v \in BarValues, WriteBar(v)
        PROVE  WindowTypeOK'
    <2>1. reg' \in [Regs -> 0 .. Dword - 1]
      BY <1>6, WriteBarType DEF WriteBar, WindowTypeOK
    <2>2. QED
      BY <1>6, <2>1 DEF WriteBar, WindowTypeOK
  <1>7. ASSUME NEW s \in SUBSET {"io", "mem"}, WriteCommand(s)
        PROVE  WindowTypeOK'
    BY <1>7 DEF WriteCommand, WindowTypeOK
  <1>8. ASSUME NEW bit \in {1, 2}, Raise(bit)
        PROVE  WindowTypeOK'
    <2>1. isr' \in 0 .. 3
      <3>1. isr \in {0, 1, 2, 3}
        BY DEF WindowTypeOK
      <3>2. QED
        BY <1>8, <3>1 DEF Raise
    <2>2. QED
      BY <1>8, <2>1 DEF Raise, WindowTypeOK
  <1>9. CASE UNCHANGED windowVars
    BY <1>9 DEF windowVars, WindowTypeOK
  <1>10. QED
    BY <1>1, <1>2, <1>3, <1>4, <1>5, <1>6, <1>7, <1>8, <1>9 DEF WindowNext

\* The registers of the window keep their types, whatever the driver selects
\* and accesses (pci_cfg_cap.rs).
THEOREM WindowTypeCorrect == WindowSpec => []WindowTypeOK
  <1>1. WindowInit => WindowTypeOK
    BY BarAssumption, PageAssumption DEF WindowInit, WindowTypeOK, Invalid
  <1>2. QED
    BY <1>1, WindowTypeStep, PTL DEF WindowSpec

-----------------------------------------------------------------------------
(***************************************************************************)
(* The last access.  Every step says anew what it was, so nothing but the  *)
(* types has to be carried from one state to the next.                     *)
(***************************************************************************)

\* The last access lies in the BAR and was for the region that handles it.
AccessInBar ==
  access # None =>
    /\ access.bar = 0 /\ access.offset \in Nat /\ access.size \in 1 .. 8
    /\ access.offset + access.size <= 8 * Page
    /\ access.region = Handler(0, access.offset, access.size)

AccessInv == AccessInBar /\ WindowIsSelected /\ FreshOrOnes

\* The address of an access is a number, and so is its size.
LEMMA AccessTypes ==
  /\ \A address \in Addresses : address \in Nat
  /\ \A o \in ConfigOffsets : o \in Nat
  /\ \A size \in Sizes : size \in 1 .. 8
  BY AccessAssumption

\* A step that makes no access and reads no configuration space.
LEMMA NoAccessStep ==
  ASSUME access' = None, last'.op # "readConfig"
  PROVE  AccessInv'
  BY DEF AccessInv, AccessInBar, WindowIsSelected, FreshOrOnes

\* An access by the guest itself.
LEMMA DirectStep ==
  ASSUME WindowTypeOK, NEW address \in Addresses, NEW size \in Sizes, NEW what, NEW bytes,
         access' = IF FindMmioRegion(address, size) = None THEN None
                   ELSE BarAccess(what, "direct", FindMmioRegion(address, size), bytes, size),
         last'.op # "readConfig"
  PROVE  AccessInv'
  <1>1. address \in Nat /\ size \in 1 .. 8
    BY AccessTypes
  <1>2. CASE FindMmioRegion(address, size) = None
    BY <1>2, NoAccessStep
  <1>3. CASE FindMmioRegion(address, size) # None
    <2> DEFINE offset == address - B!GetBar(reg, space, 0)
    <2>1. /\ FindMmioRegion(address, size) = [bar |-> 0, offset |-> offset]
          /\ offset \in Nat /\ offset + size <= 8 * Page
      BY <1>1, <1>3, Found
    <2> HIDE DEF offset
    <2>2. /\ access'.via = "direct" /\ access'.bar = 0 /\ access'.offset = offset
          /\ access'.size = size /\ access'.region = Handler(0, offset, size)
      BY <1>3, <2>1 DEF BarAccess
    <2>3. AccessInBar'
      BY <1>1, <2>1, <2>2 DEF AccessInBar
    <2>4. WindowIsSelected' /\ FreshOrOnes'
      BY <2>2 DEF WindowIsSelected, FreshOrOnes
    <2>5. QED
      BY <2>3, <2>4 DEF AccessInv
  <1>4. QED
    BY <1>2, <1>3

\* An access through the window: its fields are those the driver selected.
LEMMA WindowAccess ==
  ASSUME WindowTypeOK, UNCHANGED <<cfg, space>>, WindowTarget # None, NEW what, NEW bytes,
         access' = BarAccess(what, "window", WindowTarget, bytes, cfg.length)
  PROVE  /\ AccessInBar'
         /\ access'.bar = cfg'.bar /\ access'.offset = cfg'.offset
         /\ access'.size = cfg'.length /\ "mem" \in space'
         /\ access'.op = what /\ access'.bytes = bytes
         /\ access'.region = Handler(WindowTarget.bar, WindowTarget.offset, cfg.length)
  <1>1. /\ WindowTarget = [bar |-> cfg.bar, offset |-> cfg.offset]
        /\ cfg.bar = 0 /\ cfg.offset \in Nat /\ cfg.length \in 1 .. 4
        /\ "mem" \in space /\ cfg.offset + cfg.length <= 8 * Page
    BY Led
  <1>2. /\ access'.bar = cfg.bar /\ access'.offset = cfg.offset
        /\ access'.size = cfg.length
        /\ access'.region = Handler(cfg.bar, cfg.offset, cfg.length)
        /\ access'.op = what /\ access'.bytes = bytes
    BY <1>1 DEF BarAccess
  <1>3. AccessInBar'
    BY <1>1, <1>2 DEF AccessInBar
  <1>4. QED
    BY <1>1, <1>2, <1>3

\* What a read leaves in the caller's bytes.
LEMMA ReadBytesType ==
  ASSUME WindowTypeOK, NEW region, NEW size \in 1 .. 8, NEW content \in Contents
  PROVE  ReadBytes(region, size, content) \in Bytes(size)
  BY DEF ReadBytes, WindowTypeOK, Bytes

\* A read through the window is an access.
LEMMA WindowReadIsAccess ==
  ASSUME WindowTypeOK, WindowTarget # None, NEW region, NEW content \in Contents
  PROVE  BarAccess("read", "window", WindowTarget,
                   ReadBytes(region, cfg.length, content), cfg.length) # None
  <1>1. /\ WindowTarget = [bar |-> cfg.bar, offset |-> cfg.offset]
        /\ cfg.bar = 0 /\ cfg.offset \in Nat /\ cfg.length \in 1 .. 8
    BY Led
  <1>2. Handler(cfg.bar, cfg.offset, cfg.length) \in DOMAIN Regions \cup {"none"}
    BY <1>1, HandlerIs DEF Regions, Names
  <1>3. ReadBytes(region, cfg.length, content) \in Bytes(cfg.length)
    BY <1>1, ReadBytesType
  <1>4. BarAccess("read", "window", WindowTarget,
                  ReadBytes(region, cfg.length, content), cfg.length) \in Accesses(cfg.length)
    BY <1>1, <1>2, <1>3 DEF BarAccess, Accesses
  <1>5. QED
    BY <1>1, <1>4, NoneAssumption

\* A read through the window leaves in the data register what it read, or
\* ones (prepare_read).
LEMMA PrepareReadStep ==
  ASSUME WindowTypeOK, UNCHANGED <<cfg, space>>, NEW content \in Contents,
         PrepareRead(content)
  PROVE  /\ AccessInBar' /\ WindowIsSelected'
         /\ \A i \in 0 .. 3 :
              \/ pci_cfg_data'[i] = AllOnes
              \/ access' # None /\ i < access'.size /\ pci_cfg_data'[i] = access'.bytes[i]
  <1>1. CASE WindowTarget = None
    <2>1. access' = None /\ pci_cfg_data' = Invalid
      BY <1>1 DEF PrepareRead
    <2>2. QED
      BY <2>1 DEF AccessInBar, WindowIsSelected, Invalid
  <1>2. CASE WindowTarget # None
    <2> DEFINE region == Handler(WindowTarget.bar, WindowTarget.offset, cfg.length)
               bytes == ReadBytes(region, cfg.length, content)
    <2>1. /\ access' = BarAccess("read", "window", WindowTarget, bytes, cfg.length)
          /\ pci_cfg_data' = IF ReadFails(region, cfg.length)
                               THEN Invalid ELSE Padded(bytes, cfg.length)
      BY <1>2 DEF PrepareRead
    <2>2. access' # None
      BY <1>2, <2>1, WindowReadIsAccess
    <2> HIDE DEF region, bytes
    <2>3. /\ AccessInBar' /\ access'.bar = cfg'.bar /\ access'.offset = cfg'.offset
          /\ access'.size = cfg'.length /\ "mem" \in space' /\ access'.op = "read"
          /\ access'.bytes = bytes
      BY <1>2, <2>1, WindowAccess
    <2>4. WindowIsSelected'
      BY <2>3 DEF WindowIsSelected
    <2>5. \A i \in 0 .. 3 : \/ pci_cfg_data'[i] = AllOnes
                            \/ i < cfg.length /\ pci_cfg_data'[i] = bytes[i]
      BY <2>1 DEF Invalid, Padded
    <2>6. QED
      BY <2>2, <2>3, <2>4, <2>5
  <1>3. QED
    BY <1>1, <1>2

\* A read that covers a byte of the data register overlaps it, and the other
\* way round.
LEMMA CoveredOverlaps ==
  ASSUME NEW o \in Nat, NEW size \in 1 .. 8
  PROVE  RangeOverlaps(o, size, DataOffset, 4) <=> Covered(o, size) # {}
  <1>1. DataOffset \in Nat
    BY DataAssumption
  <1>2. ASSUME NEW i \in Covered(o, size)
        PROVE  RangeOverlaps(o, size, DataOffset, 4)
    BY <1>1, <1>2 DEF Covered, RangeOverlaps
  <1>3. ASSUME RangeOverlaps(o, size, DataOffset, 4)
        PROVE  Covered(o, size) # {}
    <2>1. o < DataOffset + 4 /\ DataOffset < o + size
      BY <1>1, <1>3 DEF RangeOverlaps
    <2>2. CASE o <= DataOffset
      <3>1. 0 \in Covered(o, size)
        BY <1>1, <2>1, <2>2 DEF Covered
      <3>2. QED
        BY <3>1
    <2>3. CASE o > DataOffset
      <3>1. o - DataOffset \in Covered(o, size)
        BY <1>1, <2>1, <2>3 DEF Covered
      <3>2. QED
        BY <3>1
    <2>4. QED
      BY <1>1, <2>2, <2>3
  <1>4. QED
    BY <1>2, <1>3

\* A read of configuration space answers with the data register as the window
\* has just filled it (read_config).
LEMMA ReadConfigStep ==
  ASSUME WindowTypeOK, NEW o \in ConfigOffsets, NEW size \in Sizes, NEW content \in Contents,
         ReadConfig(o, size, content)
  PROVE  AccessInv'
  <1>1. o \in Nat /\ size \in 1 .. 8
    BY AccessTypes
  <1>2. UNCHANGED <<cfg, space>>
    BY DEF ReadConfig
  <1>3. last'.reply # None =>
          last'.reply = [i \in Covered(o, size) |-> pci_cfg_data'[i]] /\ FunctionZero(o)
    BY DEF ReadConfig
  <1>4. Covered(o, size) \subseteq 0 .. 3
    BY DEF Covered
  <1>5. CASE FunctionZero(o) /\ RangeOverlaps(o, size, DataOffset, 4)
    <2>1. PrepareRead(content)
      BY <1>5 DEF ReadConfig
    <2>2. /\ AccessInBar' /\ WindowIsSelected'
          /\ \A i \in 0 .. 3 :
               \/ pci_cfg_data'[i] = AllOnes
               \/ access' # None /\ i < access'.size /\ pci_cfg_data'[i] = access'.bytes[i]
      BY <1>2, <2>1, PrepareReadStep
    <2>3. FreshOrOnes'
      BY <1>3, <1>4, <2>2 DEF FreshOrOnes
    <2>4. QED
      BY <2>2, <2>3 DEF AccessInv
  <1>6. CASE ~(FunctionZero(o) /\ RangeOverlaps(o, size, DataOffset, 4))
    <2>1. access' = None
      BY <1>6 DEF ReadConfig
    <2>2. last'.reply # None => DOMAIN last'.reply = {}
      BY <1>1, <1>3, <1>6, CoveredOverlaps
    <2>3. QED
      BY <2>1, <2>2 DEF AccessInv, AccessInBar, WindowIsSelected, FreshOrOnes
  <1>7. QED
    BY <1>5, <1>6

\* A write of configuration space makes the selected access with the bytes the
\* data register then holds (write_config, process_write).
LEMMA WriteConfigStep ==
  ASSUME WindowTypeOK, NEW o \in ConfigOffsets, NEW size \in Sizes, NEW content \in Contents,
         WriteConfig(o, size, content)
  PROVE  AccessInv'
  <1>1. UNCHANGED <<cfg, space>> /\ last'.op # "readConfig"
    BY DEF WriteConfig
  <1>2. CASE access' = None
    BY <1>1, <1>2, NoAccessStep
  <1>3. CASE access' # None
    <2> DEFINE bytes == [i \in 0 .. cfg.length - 1 |-> pci_cfg_data'[i]]
    <2>1. /\ WindowTarget # None
          /\ access' = BarAccess("write", "window", WindowTarget, bytes, cfg.length)
      BY <1>3 DEF WriteConfig, ProcessWrite
    <2>2. \A i \in 0 .. cfg'.length - 1 : bytes[i] = pci_cfg_data'[i]
      BY <1>1
    <2> HIDE DEF bytes
    <2>3. /\ AccessInBar' /\ access'.bar = cfg'.bar /\ access'.offset = cfg'.offset
          /\ access'.size = cfg'.length /\ "mem" \in space' /\ access'.bytes = bytes
      BY <1>1, <2>1, WindowAccess
    <2>4. WindowIsSelected'
      BY <2>2, <2>3 DEF WindowIsSelected
    <2>5. QED
      BY <1>1, <2>3, <2>4 DEF AccessInv, FreshOrOnes
  <1>4. QED
    BY <1>2, <1>3

\* Every step leaves an access as the properties want it.
LEMMA AccessStep == WindowTypeOK /\ AccessInv /\ [WindowNext]_windowVars => AccessInv'
  <1> SUFFICES ASSUME WindowTypeOK, AccessInv, [WindowNext]_windowVars
               PROVE  AccessInv'
    OBVIOUS
  <1>1. ASSUME NEW address \in Addresses, NEW size \in Sizes, NEW content \in Contents,
               ReadMmio(address, size, content)
        PROVE  AccessInv'
    <2> DEFINE found == FindMmioRegion(address, size)
               bytes == ReadBytes(Handler(found.bar, found.offset, size), size, content)
    <2>1. /\ access' = IF found = None THEN None
                       ELSE BarAccess("read", "direct", found, bytes, size)
          /\ last'.op # "readConfig"
      BY <1>1 DEF ReadMmio
    <2> HIDE DEF bytes
    <2>2. QED
      BY <2>1, DirectStep
  <1>2. ASSUME NEW address \in Addresses, NEW size \in Sizes, NEW content \in Contents,
               WriteMmio(address, size, content)
        PROVE  AccessInv'
    <2> DEFINE found == FindMmioRegion(address, size)
               bytes == [i \in 0 .. size - 1 |-> content]
    <2>1. /\ access' = IF found = None THEN None
                       ELSE BarAccess("write", "direct", found, bytes, size)
          /\ last'.op # "readConfig"
      BY <1>2 DEF WriteMmio
    <2> HIDE DEF bytes
    <2>2. QED
      BY <2>1, DirectStep
  <1>3. ASSUME NEW o \in ConfigOffsets, NEW size \in Sizes, NEW content \in Contents,
               ReadConfig(o, size, content) \/ WriteConfig(o, size, content)
        PROVE  AccessInv'
    BY <1>3, ReadConfigStep, WriteConfigStep
  <1>4. ASSUME \/ \E s \in Selections : Select(s)
               \/ \E v \in BarValues : WriteBar(v)
               \/ \E s \in SUBSET {"io", "mem"} : WriteCommand(s)
               \/ \E bit \in {1, 2} : Raise(bit)
        PROVE  AccessInv'
    <2>1. access' = None /\ last'.op # "readConfig"
      BY <1>4 DEF Select, WriteBar, WriteCommand, Raise
    <2>2. QED
      BY <2>1, NoAccessStep
  <1>5. CASE UNCHANGED windowVars
    BY <1>5 DEF windowVars, AccessInv, AccessInBar, WindowIsSelected, FreshOrOnes
  <1>6. QED
    BY <1>1, <1>2, <1>3, <1>4, <1>5 DEF WindowNext

\* It holds in every state.
LEMMA AccessInvariant == WindowSpec => []AccessInv
  <1>1. WindowInit => AccessInv
    BY DEF WindowInit, AccessInv, AccessInBar, WindowIsSelected, FreshOrOnes
  <1>2. QED
    BY <1>1, AccessStep, WindowTypeCorrect, PTL DEF WindowSpec

\* Whatever the driver selects, wherever the guest moves the BAR and whenever
\* it stops decoding it, the window makes the selected access with the data
\* register's bytes, or none (find_bar, access_params, process_write).
THEOREM WindowIsSelectedInvariant == WindowSpec => []WindowIsSelected
  <1>1. AccessInv => WindowIsSelected
    BY DEF AccessInv
  <1>2. QED
    BY <1>1, AccessInvariant, PTL

\* A read of the data register never returns what an earlier operation left
\* there (prepare_read).
THEOREM FreshOrOnesInvariant == WindowSpec => []FreshOrOnes
  <1>1. AccessInv => FreshOrOnes
    BY DEF AccessInv
  <1>2. QED
    BY <1>1, AccessInvariant, PTL

\* For every page size and every size of the structures, an access within a
\* structure that a capability advertises reaches that structure, and an
\* access that is handled touches no other (read_bar, write_bar, the order of
\* the regions, the packed offsets of the MSI-X capability).
THEOREM ReachesAdvertisedInvariant == WindowSpec => []ReachesAdvertised
  <1>1. AccessInv => ReachesAdvertised
    <2> SUFFICES ASSUME AccessInv, access # None, NEW c \in Advertised
                 PROVE  /\ BytesOf(access.offset, access.size) \subseteq
                             BytesOf(c.offset, c.length) => access.region = c.type
                        /\ access.region \notin {"none", c.type} =>
                             BytesOf(access.offset, access.size)
                               \cap BytesOf(c.offset, c.length) = {}
      BY DEF ReachesAdvertised
    <2>1. /\ access.offset \in Nat /\ access.size \in Nat \ {0}
          /\ access.offset + access.size <= 8 * Page
          /\ access.region = Handler(0, access.offset, access.size)
      BY DEF AccessInv, AccessInBar
    <2>2. QED
      BY <2>1, Reaches
  <1>2. QED
    BY <1>1, AccessInvariant, PTL

-----------------------------------------------------------------------------
(***************************************************************************)
(* The ISR status.                                                         *)
(***************************************************************************)
Delivered ==
  isr # 0 /\ isr' = 0 =>
    LET reply == last'.reply IN
    \/ last'.op = "readMmio" /\ reply # None /\ reply[0] = isr
    \/ /\ last'.op = "readConfig"
       /\ reply # None =>
            DOMAIN reply # {} /\ (0 \in DOMAIN reply => reply[0] = isr)

\* The guest reads the byte itself.
LEMMA ReadMmioDelivers ==
  ASSUME WindowTypeOK, NEW address \in Addresses, NEW size \in Sizes,
         NEW content \in Contents, ReadMmio(address, size, content),
         isr # 0, isr' = 0
  PROVE  last'.op = "readMmio" /\ last'.reply # None /\ last'.reply[0] = isr
  <1> DEFINE found == FindMmioRegion(address, size)
             region == Handler(found.bar, found.offset, size)
             bytes == ReadBytes(region, size, content)
  <1>1. size \in 1 .. 8
    BY AccessTypes
  <1>2. found # None /\ region = "isr"
    BY DEF ReadMmio, ReadAndClearIsr
  <1>3. last' = [op |-> "readMmio", reply |-> bytes]
    BY <1>2 DEF ReadMmio, ReadFails
  <1>4. bytes \in Bytes(size) /\ bytes[0] = isr
    <2>1. bytes \in Bytes(size)
      BY <1>1, ReadBytesType
    <2>2. 0 \in 0 .. size - 1
      BY <1>1
    <2>3. QED
      BY <1>2, <2>1, <2>2 DEF ReadBytes
  <1>5. QED
    BY <1>1, <1>3, <1>4, NoneAssumption

\* The driver reads it through the window.
LEMMA ReadConfigDelivers ==
  ASSUME WindowTypeOK, NEW o \in ConfigOffsets, NEW size \in Sizes,
         NEW content \in Contents, ReadConfig(o, size, content),
         isr # 0, isr' = 0, last'.reply # None
  PROVE  /\ last'.op = "readConfig" /\ DOMAIN last'.reply # {}
         /\ 0 \in DOMAIN last'.reply => last'.reply[0] = isr
  <1> DEFINE region == Handler(WindowTarget.bar, WindowTarget.offset, cfg.length)
             bytes == ReadBytes(region, cfg.length, content)
  <1>1. o \in Nat /\ size \in 1 .. 8
    BY AccessTypes
  <1>2. RangeOverlaps(o, size, DataOffset, 4) /\ PrepareRead(content)
    BY DEF ReadConfig
  <1>3. WindowTarget # None /\ region = "isr"
    BY <1>2 DEF PrepareRead, ReadAndClearIsr
  <1>4. pci_cfg_data' = Padded(bytes, cfg.length)
    BY <1>2, <1>3 DEF PrepareRead, ReadFails
  <1>5. cfg.length \in 1 .. 4
    BY <1>3, Led
  <1>6. pci_cfg_data'[0] = isr
    BY <1>3, <1>4, <1>5 DEF Padded, ReadBytes
  <1>7. /\ last'.op = "readConfig"
        /\ last'.reply = [i \in Covered(o, size) |-> pci_cfg_data'[i]]
    BY DEF ReadConfig
  <1>8. QED
    BY <1>1, <1>2, <1>6, <1>7, CoveredOverlaps

\* The ISR status byte is cleared only by a read whose reply carries it, by
\* either way to it, except when the driver reads past the byte or with an
\* access that is refused (read_and_clear_isr, read_config).
THEOREM IsrDeliveredTheorem == WindowSpec => IsrDelivered
  <1>1. ASSUME WindowTypeOK, WindowNext
        PROVE  Delivered
    <2> SUFFICES ASSUME isr # 0, isr' = 0
                 PROVE  Delivered
      BY DEF Delivered
    <2>1. ASSUME NEW address \in Addresses, NEW size \in Sizes, NEW content \in Contents,
                 ReadMmio(address, size, content)
          PROVE  Delivered
      BY <1>1, <2>1, ReadMmioDelivers DEF Delivered
    <2>2. ASSUME NEW o \in ConfigOffsets, NEW size \in Sizes, NEW content \in Contents,
                 ReadConfig(o, size, content)
          PROVE  Delivered
      <3>1. last'.op = "readConfig"
        BY <2>2 DEF ReadConfig
      <3>2. QED
        BY <1>1, <2>2, <3>1, ReadConfigDelivers DEF Delivered
    <2>3. ASSUME NEW bit \in {1, 2}, Raise(bit)
          PROVE  FALSE
      BY <1>1, <2>3 DEF Raise, WindowTypeOK
    <2>4. isr' # isr
      OBVIOUS
    <2>5. QED
      BY <1>1, <2>1, <2>2, <2>3, <2>4
      DEF WindowNext, WriteMmio, WriteConfig, Select, WriteBar, WriteCommand
  <1>2. WindowTypeOK /\ [WindowNext]_windowVars => [Delivered]_windowVars
    BY <1>1
  <1>3. QED
    BY <1>2, WindowTypeCorrect, PTL DEF WindowSpec, IsrDelivered, Delivered

=============================================================================

-------------------------- MODULE DeviceRegistryProofs -------------------------
(***************************************************************************)
(* Proofs about the registrations of a customer's devices, for any devices,*)
(* sites, addresses, capacity and concurrent saves: duplicates, addresses, *)
(* retired sites, and the revisions collectors pull by.                    *)
(***************************************************************************)
EXTENDS DeviceRegistry, TLAPS

RegistryInv == RegistryTypeOK /\ LinksAreFlat /\ OneDevicePerAddress /\ RetiredSiteIsEmpty

OneDevice(d) == \/ Delete(d) \/ Restore(d)
                \/ \E a \in Address : Rebind(d, a)
                \/ \E e \in Device : RebindDuplicate(d, e)
                \/ \E s \in Site, a \in Address : Create(d, s, a) \/ Edit(d, s, a)

--------------------------------------------------------------------------------
(* Types, one row at a time.                                                    *)

LEMMA RowIsTyped ==
  ASSUME NEW r \in Row, r # Absent
  PROVE  /\ r.state \in {"on", "off"} /\ r.site \in Site /\ r.at \in Address
         /\ r = [state |-> r.state, site |-> r.site, at |-> r.at]
<1>. QED  BY DEF Row, Absent

LEMMA RowIsMade ==
  ASSUME NEW st \in {"on", "off"}, NEW s \in Site, NEW a \in Address
  PROVE  [state |-> st, site |-> s, at |-> a] \in Row
<1>. QED  BY DEF Row

LEMMA AbsentIsOff == Absent \in Row /\ Absent.state = "absent"
<1>. QED  BY DEF Row, Absent

LEMMA RowIsChanged ==
  ASSUME NEW r \in Row, r # Absent
  PROVE  /\ [r EXCEPT !.state = "off"] \in Row
         /\ [r EXCEPT !.state = "on"] \in Row
         /\ \A a \in Address : [r EXCEPT !.at = a] \in Row
<1>. QED  BY RowIsTyped DEF Row

LEMMA VersionIsTyped ==
  ASSUME RegistryTypeOK, NEW sites, Publish(sites)
  PROVE  /\ version' \in [Site -> 0..1]
         /\ \A s \in Site \cap sites : version'[s] # version[s]
<1>1. \A s \in Site : version[s] \in 0..1
  BY DEF RegistryTypeOK
<1>. QED  BY <1>1 DEF Publish
--------------------------------------------------------------------------------
(* One device at a time.  A step that leaves every row but d's alone keeps what *)
(* the other rows are; only what concerns d has to be looked at.                *)

LEMMA CreateKeepsInv ==
  ASSUME RegistryInv, NEW d \in Device, NEW s \in Site, NEW a \in Address, Create(d, s, a)
  PROVE  RegistryInv'
<1>. USE DEF RegistryInv, Create, Registered
<1>1. Registered(s, a) \in Row
  BY RowIsMade
<1>2. RegistryTypeOK'
  BY <1>1, VersionIsTyped DEF RegistryTypeOK
<1>3. LinksAreFlat'
  BY AbsentIsOff DEF LinksAreFlat, RegistryTypeOK
<1>4. OneDevicePerAddress'
  BY DEF OneDevicePerAddress, RegistryTypeOK, Free, Enabled, On
<1>5. RetiredSiteIsEmpty'
  BY DEF RetiredSiteIsEmpty, RegistryTypeOK, Enabled, On
<1>. QED  BY <1>2, <1>3, <1>4, <1>5

LEMMA EditKeepsInv ==
  ASSUME RegistryInv, NEW d \in Device, NEW s \in Site, NEW a \in Address, Edit(d, s, a)
  PROVE  RegistryInv'
<1>. USE DEF RegistryInv, Edit, Registered
<1>1. Registered(s, a) \in Row
  BY RowIsMade
<1>2. RegistryTypeOK'
  BY <1>1, VersionIsTyped DEF RegistryTypeOK
<1>3. LinksAreFlat'
  BY DEF LinksAreFlat, RegistryTypeOK, On
<1>4. OneDevicePerAddress'
  BY DEF OneDevicePerAddress, RegistryTypeOK, Free, Enabled, On
<1>5. RetiredSiteIsEmpty'
  BY DEF RetiredSiteIsEmpty, RegistryTypeOK, Enabled, On
<1>. QED  BY <1>2, <1>3, <1>4, <1>5

LEMMA DeleteKeepsInv ==
  ASSUME RegistryInv, NEW d \in Device, Delete(d)
  PROVE  RegistryInv'
<1>. USE DEF RegistryInv, Delete, Disabled
<1>1. row[d] \in Row /\ row[d] # Absent
  BY AbsentIsOff DEF RegistryTypeOK, On
<1>2. Disabled(row[d]) \in Row
  BY <1>1, RowIsChanged
<1>3. RegistryTypeOK'
  BY <1>2, VersionIsTyped DEF RegistryTypeOK
<1>4. \A e \in Device : e # d => row'[e] = row[e]
  BY DEF RegistryTypeOK
<1>5. row'[d].state = "off"
  BY <1>1, RowIsTyped DEF RegistryTypeOK
<1>6. LinksAreFlat'
  BY <1>4, <1>5 DEF LinksAreFlat
<1>7. OneDevicePerAddress'
  BY <1>4, <1>5 DEF OneDevicePerAddress, Enabled, On
<1>8. RetiredSiteIsEmpty'
  BY <1>4, <1>5 DEF RetiredSiteIsEmpty, Enabled, On
<1>. QED  BY <1>3, <1>6, <1>7, <1>8

LEMMA RestoreKeepsInv ==
  ASSUME RegistryInv, NEW d \in Device, Restore(d)
  PROVE  RegistryInv'
<1>. USE DEF RegistryInv, Restore
<1>1. row[d] \in Row /\ row[d] # Absent
  BY AbsentIsOff DEF RegistryTypeOK
<1>2. [row[d] EXCEPT !.state = "on"] \in Row
  BY <1>1, RowIsChanged
<1>3. RegistryTypeOK'
  BY <1>2, VersionIsTyped DEF RegistryTypeOK
<1>4. \A e \in Device : e # d => row'[e] = row[e]
  BY DEF RegistryTypeOK
<1>5. row'[d].site = row[d].site /\ row'[d].at = row[d].at
  BY <1>1, RowIsTyped DEF RegistryTypeOK
<1>6. LinksAreFlat'
  BY <1>4 DEF LinksAreFlat
<1>7. OneDevicePerAddress'
  BY <1>4, <1>5 DEF OneDevicePerAddress, Free, Enabled, On
<1>8. RetiredSiteIsEmpty'
  BY <1>4, <1>5 DEF RetiredSiteIsEmpty, Enabled, On
<1>. QED  BY <1>3, <1>6, <1>7, <1>8

LEMMA RebindKeepsInv ==
  ASSUME RegistryInv, NEW d \in Device, NEW a \in Address, Rebind(d, a)
  PROVE  RegistryInv'
<1>. USE DEF RegistryInv, Rebind
<1>1. row[d] \in Row /\ row[d] # Absent
  BY AbsentIsOff DEF RegistryTypeOK, On
<1>2. [row[d] EXCEPT !.at = a] \in Row
  BY <1>1, RowIsChanged
<1>3. RegistryTypeOK'
  BY <1>2, VersionIsTyped DEF RegistryTypeOK
<1>4. \A e \in Device : e # d => row'[e] = row[e]
  BY DEF RegistryTypeOK
<1>5. row'[d].site = row[d].site /\ row'[d].at = a /\ row'[d].state = "on"
  BY <1>1, RowIsTyped DEF RegistryTypeOK, On
<1>6. LinksAreFlat'
  BY <1>4 DEF LinksAreFlat
<1>7. OneDevicePerAddress'
  BY <1>4, <1>5 DEF OneDevicePerAddress, Free, Enabled, On
<1>8. RetiredSiteIsEmpty'
  BY <1>4, <1>5 DEF RetiredSiteIsEmpty, Enabled, On
<1>. QED  BY <1>3, <1>6, <1>7, <1>8

LEMMA RebindDuplicateKeepsInv ==
  ASSUME RegistryInv, NEW d \in Device, NEW e \in Device, RebindDuplicate(d, e)
  PROVE  RegistryInv'
<1>. USE DEF RegistryInv, RebindDuplicate, Disabled
<1>1. /\ row[d] \in Row /\ row[d] # Absent
      /\ row[e] \in Row /\ row[e] # Absent
      /\ d # e
  BY AbsentIsOff DEF RegistryTypeOK, On
<1>2. [row[d] EXCEPT !.at = row[e].at] \in Row /\ Disabled(row[e]) \in Row
  BY <1>1, RowIsChanged, RowIsTyped
<1>3. RegistryTypeOK'
  BY <1>1, <1>2, VersionIsTyped DEF RegistryTypeOK
<1>4. \A f \in Device : f \notin {d, e} => row'[f] = row[f]
  BY DEF RegistryTypeOK
<1>5. /\ row'[d].site = row[d].site /\ row'[d].at = row[e].at /\ row'[d].state = "on"
      /\ row'[e].state = "off"
  BY <1>1, RowIsTyped DEF RegistryTypeOK, On
<1>6. LinksAreFlat'
  BY <1>1, <1>4, <1>5 DEF LinksAreFlat, RegistryTypeOK, Linked
<1>7. OneDevicePerAddress'
  <2>1. \A f \in Enabled' : f # e /\ (f # d => f \in Enabled)
    BY <1>4, <1>5 DEF Enabled, On
  <2>2. d \in Enabled /\ e \in Enabled /\ row[e].site = row[d].site
    BY DEF Enabled
  <2>3. \A f \in Enabled' : (row'[f].site = row'[d].site /\ row'[f].at = row'[d].at) => f = d
    BY <1>4, <1>5, <2>1, <2>2 DEF OneDevicePerAddress, Enabled
  <2>4. \A f, g \in Enabled' \ {d} : (row'[f].site = row'[g].site /\ row'[f].at = row'[g].at)
                                     => f = g
    BY <1>4, <2>1 DEF OneDevicePerAddress, Enabled
  <2>. QED  BY <2>3, <2>4 DEF OneDevicePerAddress
<1>8. RetiredSiteIsEmpty'
  BY <1>1, <1>4, <1>5 DEF RetiredSiteIsEmpty, Enabled, On
<1>. QED  BY <1>3, <1>6, <1>7, <1>8
--------------------------------------------------------------------------------
(* Retirement, and the saves of a whole configuration.                          *)

LEMMA RetireKeepsInv ==
  ASSUME RegistryInv, NEW s \in Site, Retire(s)
  PROVE  RegistryInv'
<1>. USE DEF RegistryInv, Retire
<1>1. RegistryTypeOK'
  BY DEF RegistryTypeOK
<1>2. LinksAreFlat' /\ OneDevicePerAddress'
  BY DEF LinksAreFlat, OneDevicePerAddress, Enabled, On
<1>3. RetiredSiteIsEmpty'
  BY DEF RetiredSiteIsEmpty, RegistryTypeOK, Enabled, On
<1>. QED  BY <1>1, <1>2, <1>3

\* A save ends.
LEMMA SaverIsFree ==
  ASSUME RegistryTypeOK, NEW u \in Saver, save' = [save EXCEPT ![u] = NotSaving]
  PROVE  save' \in [Saver -> SaveState]
<1>. QED  BY DEF RegistryTypeOK, SaveState

\* What a handler read is a configuration.
LEMMA KnownIsTyped ==
  ASSUME RegistryTypeOK, NEW u \in Saver, save[u] # NotSaving
  PROVE  /\ save[u].known \in Known
         /\ save[u].by = "console" => save[u].site \in Site
<1>1. save[u] \in SaveState
  BY DEF RegistryTypeOK
<1>. QED  BY <1>1 DEF SaveState

LEMMA SaveReadsKeepsInv ==
  ASSUME RegistryInv, NEW u \in Saver, SaveReads(u)
  PROVE  RegistryInv'
<1>. USE DEF RegistryInv
<1>1. \A d \in Device : Shown(d) \in Address \cup {None}
  BY RowIsTyped, AbsentIsOff DEF RegistryTypeOK, Shown, On
<1>2. save' \in [Saver -> SaveState]
  <2>1. CASE save' = [save EXCEPT ![u] = [by |-> "web", site |-> None,
                                          known |-> [d \in Device |-> Shown(d)]]]
    BY <1>1, <2>1 DEF RegistryTypeOK, SaveState, Known
  <2>2. ASSUME NEW s \in Site,
               save' = [save EXCEPT ![u] =
                          [by |-> "console", site |-> s,
                           known |-> [d \in Device |-> IF row[d].site = s THEN Shown(d)
                                                       ELSE None]]]
        PROVE  save' \in [Saver -> SaveState]
    BY <1>1, <2>2 DEF RegistryTypeOK, SaveState, Known
  <2>. QED  BY <2>1, <2>2 DEF SaveReads
<1>3. UNCHANGED <<row, link, retired, version>>
  BY DEF SaveReads
<1>. QED  BY <1>2, <1>3 DEF RegistryTypeOK, LinksAreFlat, OneDevicePerAddress,
          RetiredSiteIsEmpty, Enabled, On

LEMMA SaveFailsKeepsInv ==
  ASSUME RegistryInv, NEW u \in Saver, SaveFails(u)
  PROVE  RegistryInv'
<1>. QED  BY SaverIsFree DEF RegistryInv, SaveFails, RegistryTypeOK, LinksAreFlat,
          OneDevicePerAddress, RetiredSiteIsEmpty, Enabled, On

\* A list whose rows could be written one by one has every address once.
LEMMA WritableIsUnique ==
  ASSUME RegistryTypeOK', Writable(row')
  PROVE  OneDevicePerAddress'
<1>1. \A d \in Enabled' : row'[d] = [state |-> "on", site |-> row'[d].site, at |-> row'[d].at]
  BY RowIsTyped, AbsentIsOff DEF RegistryTypeOK, Enabled, On
<1>2. \A d, e \in Device : (row'[d].state = "on" /\ row'[d] = row'[e]) => d = e
  BY DEF Writable
<1>3. ASSUME NEW d \in Enabled', NEW e \in Enabled',
             row'[d].site = row'[e].site, row'[d].at = row'[e].at
      PROVE  d = e
  <2>1. row'[d] = row'[e]
    BY <1>1, <1>3
  <2>2. d \in Device /\ e \in Device /\ row'[d].state = "on"
    BY DEF Enabled, On
  <2>. QED  BY <1>2, <2>1, <2>2
<1>. QED  BY <1>3 DEF OneDevicePerAddress

LEMMA WebSavesKeepsInv ==
  ASSUME RegistryInv, NEW u \in Saver, WebSaves(u)
  PROVE  RegistryInv'
<1>. DEFINE known == save[u].known
<1>. USE DEF RegistryInv
<1>1. save[u] # NotSaving /\ known \in Known
  BY KnownIsTyped DEF WebSaves, NotSaving
<1>2. /\ row' = [d \in Device |-> IF On(d) /\ known[d] # None
                                   THEN [row[d] EXCEPT !.at = known[d]] ELSE row[d]]
      /\ Writable(row') /\ Publish(Site)
      /\ save' = [save EXCEPT ![u] = NotSaving]
      /\ UNCHANGED <<link, retired>>
  BY DEF WebSaves
<1>3. \A d \in Device : /\ row'[d] \in Row
                        /\ row'[d].state = row[d].state
                        /\ row'[d].site = row[d].site
  <2>. TAKE d \in Device
  <2>1. row[d] \in Row
    BY DEF RegistryTypeOK
  <2>2. CASE On(d) /\ known[d] # None
    <3>1. known[d] \in Address /\ row[d] # Absent
      BY <1>1, <2>2, AbsentIsOff DEF Known, On
    <3>2. row'[d] = [row[d] EXCEPT !.at = known[d]]
      BY <1>2, <2>2
    <3>3. [row[d] EXCEPT !.at = known[d]] \in Row
      BY <2>1, <3>1, RowIsChanged
    <3>4. /\ [row[d] EXCEPT !.at = known[d]].state = row[d].state
          /\ [row[d] EXCEPT !.at = known[d]].site = row[d].site
      <4>. HIDE DEF known, RegistryInv
      <4>. QED  BY <2>1, <3>1, RowIsTyped
    <3>. QED  BY <3>2, <3>3, <3>4
  <2>3. CASE ~(On(d) /\ known[d] # None)
    BY <1>2, <2>1, <2>3
  <2>. QED  BY <2>2, <2>3
<1>4. RegistryTypeOK'
  BY <1>2, <1>3, SaverIsFree, VersionIsTyped DEF RegistryTypeOK
<1>5. LinksAreFlat'
  BY <1>2, <1>3 DEF LinksAreFlat
<1>6. OneDevicePerAddress'
  BY <1>2, <1>4, WritableIsUnique
<1>7. RetiredSiteIsEmpty'
  BY <1>2, <1>3 DEF RetiredSiteIsEmpty, Enabled, On
<1>. QED  BY <1>4, <1>5, <1>6, <1>7

LEMMA ConsoleSavesKeepsInv ==
  ASSUME RegistryInv, NEW u \in Saver, ConsoleSaves(u)
  PROVE  RegistryInv'
<1>. DEFINE known == save[u].known
            s == save[u].site
<1>. USE DEF RegistryInv
<1>1. save[u] # NotSaving /\ known \in Known /\ s \in Site /\ ~retired[s]
  BY KnownIsTyped DEF ConsoleSaves, NotSaving
<1>2. PICK p \in Payload(known) : Writable(Saved(s, known, p)) /\ row' = Saved(s, known, p)
  BY DEF ConsoleSaves
<1>3. /\ Writable(row') /\ Publish(Site)
      /\ save' = [save EXCEPT ![u] = NotSaving]
      /\ UNCHANGED <<link, retired>>
  BY <1>2 DEF ConsoleSaves
<1>4. \A d \in Device : \/ row'[d] = row[d]
                        \/ /\ row[d] = Absent /\ row'[d] \in Row
                           /\ row'[d].state = "on" /\ row'[d].site = s
                        \/ On(d) /\ row'[d] \in Row /\ row'[d].site = row[d].site
  <2>. TAKE d \in Device
  <2>1. row[d] \in Row /\ p[d] \in Address \cup {None}
    BY DEF RegistryTypeOK, Payload
  <2>2. CASE row[d] = Absent /\ p[d] # None
    BY <1>1, <1>2, <2>1, <2>2, RowIsMade DEF Saved, Registered
  <2>3. CASE On(d) /\ row'[d] # row[d]
    <3>1. row[d] # Absent
      BY <2>3, AbsentIsOff DEF On
    <3>2. \/ p[d] = None /\ row'[d] = [row[d] EXCEPT !.state = "off"]
          \/ p[d] \in Address /\ row'[d] = [row[d] EXCEPT !.at = p[d]]
      BY <1>2, <2>1, <2>3, <3>1 DEF Saved, Disabled
    <3>. QED  BY <2>1, <2>3, <3>1, <3>2, RowIsChanged, RowIsTyped
  <2>4. CASE ~On(d) /\ ~(row[d] = Absent /\ p[d] # None)
    BY <1>2, <2>4 DEF Saved
  <2>. QED  BY <2>2, <2>3, <2>4
<1>5. row' \in [Device -> Row]
  BY <1>2, <1>4 DEF RegistryTypeOK, Saved
<1>6. RegistryTypeOK'
  BY <1>3, <1>5, SaverIsFree, VersionIsTyped DEF RegistryTypeOK
<1>7. LinksAreFlat'
  BY <1>3, <1>4, AbsentIsOff DEF LinksAreFlat, On
<1>8. OneDevicePerAddress'
  BY <1>3, <1>6, WritableIsUnique
<1>9. RetiredSiteIsEmpty'
  BY <1>1, <1>3, <1>4, AbsentIsOff DEF RetiredSiteIsEmpty, Enabled, On
<1>. QED  BY <1>6, <1>7, <1>8, <1>9
--------------------------------------------------------------------------------
LEMMA RegistryInitInv == RegistryInit => RegistryInv
<1>. SUFFICES ASSUME RegistryInit PROVE RegistryInv
  OBVIOUS
<1>. USE DEF RegistryInit
<1>1. RegistryTypeOK
  BY AbsentIsOff DEF RegistryTypeOK, SaveState
<1>2. LinksAreFlat
  BY RegistryAssumption DEF LinksAreFlat
<1>3. OneDevicePerAddress /\ RetiredSiteIsEmpty
  BY AbsentIsOff DEF OneDevicePerAddress, RetiredSiteIsEmpty, Enabled, On
<1>. QED  BY <1>1, <1>2, <1>3 DEF RegistryInv

LEMMA RegistryStepInv == RegistryInv /\ [RegistryNext]_registryVars => RegistryInv'
<1>. SUFFICES ASSUME RegistryInv, [RegistryNext]_registryVars PROVE RegistryInv'
  OBVIOUS
<1>1. ASSUME NEW d \in Device, Delete(d) \/ Restore(d) PROVE RegistryInv'
  BY <1>1, DeleteKeepsInv, RestoreKeepsInv
<1>2. ASSUME NEW d \in Device, NEW a \in Address, Rebind(d, a) PROVE RegistryInv'
  BY <1>2, RebindKeepsInv
<1>3. ASSUME NEW d \in Device, NEW e \in Device, RebindDuplicate(d, e) PROVE RegistryInv'
  BY <1>3, RebindDuplicateKeepsInv
<1>4. ASSUME NEW d \in Device, NEW s \in Site, NEW a \in Address,
             Create(d, s, a) \/ Edit(d, s, a)
      PROVE  RegistryInv'
  BY <1>4, CreateKeepsInv, EditKeepsInv
<1>5. ASSUME NEW s \in Site, Retire(s) PROVE RegistryInv'
  BY <1>5, RetireKeepsInv
<1>6. ASSUME NEW u \in Saver, SaveReads(u) \/ WebSaves(u) \/ ConsoleSaves(u) \/ SaveFails(u)
      PROVE  RegistryInv'
  BY <1>6, SaveReadsKeepsInv, WebSavesKeepsInv, ConsoleSavesKeepsInv, SaveFailsKeepsInv
<1>7. CASE UNCHANGED registryVars
  BY <1>7 DEF registryVars, RegistryInv, RegistryTypeOK, LinksAreFlat, OneDevicePerAddress,
     RetiredSiteIsEmpty, Enabled, On
<1>. QED  BY <1>1, <1>2, <1>3, <1>4, <1>5, <1>6, <1>7 DEF RegistryNext

THEOREM RegistryInvariant == RegistrySpec => []RegistryInv
<1>. QED  BY RegistryInitInv, RegistryStepInv, PTL DEF RegistrySpec

\* The tables keep their types, whatever handlers race.
THEOREM RegistryTypeCorrect == RegistrySpec => []RegistryTypeOK
<1>1. RegistryInv => RegistryTypeOK
  BY DEF RegistryInv
<1>. QED  BY <1>1, RegistryInvariant, PTL

\* A duplicate stays disabled and its association one step long: nothing but
\* rebind_device writes a link, and nothing enables a linked registration again.
THEOREM DuplicatesStaySilent == RegistrySpec => []LinksAreFlat
<1>1. RegistryInv => LinksAreFlat
  BY DEF RegistryInv
<1>. QED  BY <1>1, RegistryInvariant, PTL

\* Two collected devices of a site never share an address.
THEOREM AddressesAreUnique == RegistrySpec => []OneDevicePerAddress
<1>1. RegistryInv => OneDevicePerAddress
  BY DEF RegistryInv
<1>. QED  BY <1>1, RegistryInvariant, PTL

\* A retired site never has a device again, stale saves included.
THEOREM RetiredStaysEmpty == RegistrySpec => []RetiredSiteIsEmpty
<1>1. RegistryInv => RetiredSiteIsEmpty
  BY DEF RegistryInv
<1>. QED  BY <1>1, RegistryInvariant, PTL

--------------------------------------------------------------------------------
(* Revisions: what changes a list raises the revision of its site.              *)

\* Only devices that were, or become, those of the sites published may change.
Confined(sites) ==
  \A d \in Device : \/ row'[d] = row[d]
                    \/ row[d].site \in sites \cup {None} /\ row'[d].site \in sites

LEMMA ConfinedIsPublished ==
  ASSUME RegistryTypeOK, NEW sites, Publish(sites), Confined(sites), NEW s \in Site,
         ListOf(s)' # ListOf(s)
  PROVE  version'[s] # version[s]
<1>1. CASE s \in sites
  BY <1>1, VersionIsTyped
<1>2. CASE s \notin sites
  <2>1. s # None
    BY RegistryAssumption
  <2>2. \A d \in Device : (IF row'[d].site = s THEN Shown(d)' ELSE None)
                             = (IF row[d].site = s THEN Shown(d) ELSE None)
    BY <1>2, <2>1 DEF Confined, Shown, On
  <2>3. ListOf(s)' = ListOf(s)
    BY <2>2 DEF ListOf
  <2>. QED  BY <2>3
<1>. QED  BY <1>1, <1>2

LEMMA UnchangedIsPublished ==
  ASSUME row' = row, NEW s \in Site
  PROVE  ListOf(s)' = ListOf(s)
<1>. QED  BY DEF ListOf, Shown, On

LEMMA DeviceStepIsConfined ==
  ASSUME RegistryTypeOK, NEW d \in Device,
         OneDevice(d)
  PROVE  \E sites : Publish(sites) /\ Confined(sites)
<1>0. row[d] \in Row
  BY DEF RegistryTypeOK
<1>1. CASE Delete(d)
  <2>1. row'[d].site = row[d].site /\ \A e \in Device \ {d} : row'[e] = row[e]
    BY <1>0, <1>1, RowIsTyped, AbsentIsOff DEF Delete, Disabled, RegistryTypeOK, On
  <2>. QED  BY <1>1, <2>1 DEF Delete, Confined
<1>2. CASE Restore(d)
  <2>1. row'[d].site = row[d].site /\ \A e \in Device \ {d} : row'[e] = row[e]
    BY <1>0, <1>2, RowIsTyped, AbsentIsOff DEF Restore, RegistryTypeOK
  <2>. QED  BY <1>2, <2>1 DEF Restore, Confined
<1>3. ASSUME NEW a \in Address, Rebind(d, a)
      PROVE  \E sites : Publish(sites) /\ Confined(sites)
  <2>1. row'[d].site = row[d].site /\ \A e \in Device \ {d} : row'[e] = row[e]
    BY <1>0, <1>3, RowIsTyped, AbsentIsOff DEF Rebind, RegistryTypeOK, On
  <2>. QED  BY <1>3, <2>1 DEF Rebind, Confined
<1>4. ASSUME NEW e \in Device, RebindDuplicate(d, e)
      PROVE  \E sites : Publish(sites) /\ Confined(sites)
  <2>1. /\ row'[d].site = row[d].site /\ row'[e].site = row[d].site
        /\ row[e].site = row[d].site
        /\ \A f \in Device \ {d, e} : row'[f] = row[f]
    BY <1>0, <1>4, RowIsTyped, AbsentIsOff DEF RebindDuplicate, Disabled, RegistryTypeOK, On
  <2>. QED  BY <1>4, <2>1 DEF RebindDuplicate, Confined
<1>5. ASSUME NEW s \in Site, NEW a \in Address, Create(d, s, a)
      PROVE  \E sites : Publish(sites) /\ Confined(sites)
  <2>1. row'[d].site = s /\ row[d].site = None /\ \A e \in Device \ {d} : row'[e] = row[e]
    BY <1>5 DEF Create, Registered, Absent, RegistryTypeOK
  <2>. QED  BY <1>5, <2>1 DEF Create, Confined
<1>6. ASSUME NEW s \in Site, NEW a \in Address, Edit(d, s, a)
      PROVE  \E sites : Publish(sites) /\ Confined(sites)
  <2>1. row'[d].site = s /\ \A e \in Device \ {d} : row'[e] = row[e]
    BY <1>6 DEF Edit, Registered, RegistryTypeOK
  <2>. QED  BY <1>6, <2>1 DEF Edit, Confined
<1>. QED  BY <1>1, <1>2, <1>3, <1>4, <1>5, <1>6 DEF OneDevice

\* No handler changes the list of a site and leaves its revision: a collector
\* that has the revision has the list.
THEOREM ChangesArePublished == RegistrySpec => EveryChangeIsPublished
<1>1. ASSUME RegistryInv, [RegistryNext]_registryVars, NEW s \in Site, ListOf(s)' # ListOf(s)
      PROVE  version'[s] # version[s]
  <2>. USE DEF RegistryInv
  <2>1. CASE \E d \in Device : OneDevice(d)
    <3>1. \E sites : Publish(sites) /\ Confined(sites)
      BY <1>1, <2>1, DeviceStepIsConfined
    <3>. QED  BY <1>1, <3>1, ConfinedIsPublished
  <2>2. CASE \E u \in Saver : WebSaves(u) \/ ConsoleSaves(u)
    <3>1. Publish(Site)
      BY <2>2 DEF WebSaves, ConsoleSaves
    <3>. QED  BY <1>1, <3>1, VersionIsTyped
  <2>3. CASE \/ \E t \in Site : Retire(t)
             \/ \E u \in Saver : SaveReads(u) \/ SaveFails(u)
             \/ UNCHANGED registryVars
    BY <1>1, <2>3, UnchangedIsPublished DEF Retire, SaveReads, SaveFails, registryVars
  <2>. QED  BY <1>1, <2>1, <2>2, <2>3 DEF RegistryNext, OneDevice
<1>2. RegistryInv /\ [RegistryNext]_registryVars
        => [\A s \in Site : ListOf(s)' # ListOf(s) => version'[s] # version[s]]_registryVars
  BY <1>1
<1>. QED  BY <1>2, RegistryInvariant, PTL DEF RegistrySpec, EveryChangeIsPublished
================================================================================

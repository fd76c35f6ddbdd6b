----------------------------- MODULE DeviceRegistry ----------------------------
(***************************************************************************)
(* The registrations of one customer's devices in the cloud: registering,  *)
(* editing, removing and restoring a device (cloud_api.py and              *)
(* device_lifecycle.py), following an instrument to a new address and      *)
(* linking a duplicate registration to it (rebind_device), retiring a      *)
(* collector site, and the two handlers that save a whole configuration    *)
(* (apply_customer_config).                                                *)
(*                                                                         *)
(* All of them lock the customer's row, so each is one step, with one      *)
(* exception: apply_customer_config validates what it was sent against a   *)
(* configuration it read before it took the lock.  It is two steps.        *)
(*                                                                         *)
(* One cleanroom; names, slaves and ports are part of the address.         *)
(***************************************************************************)
EXTENDS Naturals, FiniteSets

CONSTANTS
  Device,      \* ids of registrations ever made: the bound
  Site,        \* collector sites
  Address,     \* endpoints (host, port, slave) in a site's network
  Capacity,    \* MAX_ACTIVE_DEVICES
  Saver,       \* requests that save a whole configuration at the same time
  None

ASSUME RegistryAssumption == /\ Capacity \in Nat
                             /\ None \notin Device \cup Site \cup Address

VARIABLES
  row,       \* devices: the registrations
  link,      \* device_registration_links: the registration kept instead of this one
  retired,   \* sites.retired_at is set
  version,   \* sites.config_version: only whether a step changes it matters, so modulo 2
  save       \* what each running apply_customer_config has read

registryVars == <<row, link, retired, version, save>>

Row == [state : {"absent"}, site : {None}, at : {None}]
         \cup [state : {"on", "off"}, site : Site, at : Address]
Absent == [state |-> "absent", site |-> None, at |-> None]

\* known: the enabled devices the handler found, with their addresses.
Known == [Device -> Address \cup {None}]
NotSaving == [by |-> "nobody", site |-> None, known |-> [d \in Device |-> None]]
SaveState == {NotSaving} \cup [by : {"console"}, site : Site, known : Known]
                         \cup [by : {"web"}, site : {None}, known : Known]

RegistryTypeOK == /\ row \in [Device -> Row]
                  /\ link \in [Device -> Device \cup {None}]
                  /\ retired \in [Site -> BOOLEAN]
                  /\ version \in [Site -> 0..1]
                  /\ save \in [Saver -> SaveState]

RegistryInit == /\ row = [d \in Device |-> Absent]
                /\ link = [d \in Device |-> None]
                /\ retired = [s \in Site |-> FALSE]
                /\ version = [s \in Site |-> 0]
                /\ save = [u \in Saver |-> NotSaving]

On(d) == row[d].state = "on"
Enabled == {d \in Device : On(d)}
Linked(d) == \E e \in Device : link[e] = d

\* validate_target: no other enabled device of the site is at that address.
Free(d, s, a) == \A e \in Enabled \ {d} : ~(row[e].site = s /\ row[e].at = a)

\* UPDATE sites SET config_version = config_version + 1, for some of the sites.
Publish(sites) == version' = [s \in Site |-> IF s \in sites THEN 1 - version[s]
                                             ELSE version[s]]

Registered(s, a) == [state |-> "on", site |-> s, at |-> a]
Disabled(r) == [r EXCEPT !.state = "off"]

--------------------------------------------------------------------------------
(* One device: administrators, and collectors that register what they see. *)

\* create_cloud_device, from the web, a collector or the assignment of a scan's result.
Create(d, s, a) ==
  /\ row[d] = Absent
  /\ ~retired[s]
  /\ Free(d, s, a)
  /\ Cardinality(Enabled) < Capacity
  /\ row' = [row EXCEPT ![d] = Registered(s, a)]
  /\ Publish({s})
  /\ UNCHANGED <<link, retired, save>>

\* Mutant: only the collector that gets the device is told.
EditTellsOne(d, s, a) ==
  /\ On(d)
  /\ ~retired[s]
  /\ Free(d, s, a)
  /\ row' = [row EXCEPT ![d] = Registered(s, a)]
  /\ Publish({s})
  /\ UNCHANGED <<link, retired, save>>

\* edit_device, from a screen that shows the device as it is (expected_updated_at).
Edit(d, s, a) ==
  /\ On(d)
  /\ <<s, a>> # <<row[d].site, row[d].at>>
  /\ ~retired[s]
  /\ Free(d, s, a)
  /\ row' = [row EXCEPT ![d] = Registered(s, a)]
  /\ Publish({row[d].site, s})
  /\ UNCHANGED <<link, retired, save>>

\* admin_delete_device; on a device that is disabled it does nothing.
Delete(d) ==
  /\ On(d)
  /\ row' = [row EXCEPT ![d] = Disabled(@)]
  /\ Publish({row[d].site})
  /\ UNCHANGED <<link, retired, save>>

\* Mutant: a linked registration may be restored by itself.
RestoreAny(d) ==
  /\ row[d].state = "off"
  /\ ~retired[row[d].site]
  /\ Free(d, row[d].site, row[d].at)
  /\ Cardinality(Enabled) < Capacity
  /\ row' = [row EXCEPT ![d].state = "on"]
  /\ Publish({row[d].site})
  /\ UNCHANGED <<link, retired, save>>

Restore(d) ==
  /\ row[d].state = "off"
  /\ link[d] = None
  /\ ~retired[row[d].site]
  /\ Free(d, row[d].site, row[d].at)
  /\ Cardinality(Enabled) < Capacity
  /\ row' = [row EXCEPT ![d].state = "on"]
  /\ Publish({row[d].site})
  /\ UNCHANGED <<link, retired, save>>

--------------------------------------------------------------------------------
(* rebind_device: an operator confirms that an instrument has another address. *)

Rebind(d, a) ==
  /\ On(d)
  /\ link[d] = None
  /\ a # row[d].at
  /\ Free(d, row[d].site, a)
  /\ row' = [row EXCEPT ![d].at = a]
  /\ Publish({row[d].site})
  /\ UNCHANGED <<link, retired, save>>

\* The new address is that of another registration of the same site, which is
\* disabled and linked; neither may have a part in another association.
RebindDuplicate(d, e) ==
  /\ On(d) /\ link[d] = None
  /\ e # d /\ row[e].site = row[d].site
  /\ On(e) /\ link[e] = None /\ ~Linked(e)
  /\ row' = [row EXCEPT ![e] = Disabled(@), ![d].at = row[e].at]
  /\ link' = [link EXCEPT ![e] = d]
  /\ Publish({row[d].site})
  /\ UNCHANGED <<retired, save>>

--------------------------------------------------------------------------------
\* retire_collector, once the collector is offline: a site without enabled devices.
Retire(s) ==
  /\ ~retired[s]
  /\ \A d \in Enabled : row[d].site # s
  /\ retired' = [retired EXCEPT ![s] = TRUE]
  /\ UNCHANGED <<row, link, version, save>>

--------------------------------------------------------------------------------
(* apply_customer_config. *)

Shown(d) == IF On(d) THEN row[d].at ELSE None

\* The handler reads the configuration; of one site when a collector's console
\* saves, of all when the web does.
SaveReads(u) ==
  /\ save[u] = NotSaving
  /\ \/ save' = [save EXCEPT ![u] = [by |-> "web", site |-> None,
                                     known |-> [d \in Device |-> Shown(d)]]]
     \/ \E s \in Site : ~retired[s] /\
          save' = [save EXCEPT ![u] =
                     [by |-> "console", site |-> s,
                      known |-> [d \in Device |-> IF row[d].site = s THEN Shown(d)
                                                  ELSE None]]]
  /\ UNCHANGED <<row, link, retired, version>>

\* The rows are written one by one and the unique index on the address is looked
\* at each time: some order must exist in which each finds its address free.
Writable(new) ==
  LET moved == {d \in Device : new[d] # row[d] /\ new[d].state = "on"}
      holds(e, r) == On(e) /\ row[e].site = r.site /\ row[e].at = r.at
  IN  /\ \A d, e \in Device : (new[d].state = "on" /\ new[d] = new[e]) => d = e
      /\ \A S \in SUBSET moved : S # {} => \E d \in S : \A e \in S \ {d} : ~holds(e, new[d])

\* The web may not change addresses: the handler puts the ones it read itself in
\* place of what was sent, and writes them over what the rows have by now.
WebSaves(u) ==
  LET known == save[u].known
      new == [d \in Device |-> IF On(d) /\ known[d] # None
                               THEN [row[d] EXCEPT !.at = known[d]] ELSE row[d]]
  IN  /\ save[u].by = "web"
      /\ \E s \in Site : ~retired[s]
      /\ Writable(new)
      /\ row' = new
      /\ Publish(Site)
      /\ save' = [save EXCEPT ![u] = NotSaving]
      /\ UNCHANGED <<link, retired>>

\* What a console may send: distinct addresses for devices the handler knows, to
\* keep or move them, and for new ones; what is known and missing is removed.
Payload(known) ==
  {p \in [Device -> Address \cup {None}] :
     /\ \A d \in Device : p[d] # None => known[d] # None \/ row[d] = Absent
     /\ \A d, e \in Device : (p[d] # None /\ p[d] = p[e]) => d = e
     /\ Cardinality({d \in Device : p[d] # None}) <= Capacity}

\* UPDATE ... WHERE site_id = the site AND enabled, INSERT, and the removals.
Saved(s, known, p) ==
  [d \in Device |->
     IF row[d] = Absent /\ p[d] # None THEN Registered(s, p[d])
     ELSE IF ~On(d) \/ row[d].site # s \/ known[d] = None THEN row[d]
     ELSE IF p[d] = None THEN Disabled(row[d])
     ELSE [row[d] EXCEPT !.at = p[d]]]

\* Mutant: the site is looked up with the configuration, before the lock.
ConsoleSavesLate(u) ==
  LET s == save[u].site IN
  /\ save[u].by = "console"
  /\ \E p \in Payload(save[u].known) :
       /\ Writable(Saved(s, save[u].known, p))
       /\ row' = Saved(s, save[u].known, p)
  /\ Publish(Site)
  /\ save' = [save EXCEPT ![u] = NotSaving]
  /\ UNCHANGED <<link, retired>>

ConsoleSaves(u) ==
  LET s == save[u].site IN
  /\ save[u].by = "console"
  /\ ~retired[s]
  /\ \E p \in Payload(save[u].known) :
       /\ Writable(Saved(s, save[u].known, p))
       /\ row' = Saved(s, save[u].known, p)
  /\ Publish(Site)
  /\ save' = [save EXCEPT ![u] = NotSaving]
  /\ UNCHANGED <<link, retired>>

\* An unknown device, a site that is gone, an address that is taken: all is undone.
SaveFails(u) ==
  /\ save[u] # NotSaving
  /\ save' = [save EXCEPT ![u] = NotSaving]
  /\ UNCHANGED <<row, link, retired, version>>

RegistryNext ==
  \/ \E d \in Device : \/ Delete(d) \/ Restore(d)
                       \/ \E a \in Address : Rebind(d, a)
                       \/ \E e \in Device : RebindDuplicate(d, e)
                       \/ \E s \in Site, a \in Address : Create(d, s, a) \/ Edit(d, s, a)
  \/ \E s \in Site : Retire(s)
  \/ \E u \in Saver : SaveReads(u) \/ WebSaves(u) \/ ConsoleSaves(u) \/ SaveFails(u)

RegistrySpec == RegistryInit /\ [][RegistryNext]_registryVars

--------------------------------------------------------------------------------
\* A registration that was declared a duplicate is never polled again, and what
\* it is linked to is a registration in its own right, so that the history of the
\* instrument is found in one step (rebind_device, restore_device, and the saves
\* of consoles that still show the duplicate).
LinksAreFlat == \A d \in Device : link[d] # None => /\ row[d].state = "off"
                                                    /\ link[d] # d
                                                    /\ link[link[d]] = None

\* No two collected devices of a site share an address, whatever stale list a
\* console or the web saves: a gateway may serve one session only
\* (validate_target, create_cloud_device, idx_devices_active_site_endpoint).
OneDevicePerAddress ==
  \A d, e \in Enabled : (row[d].site = row[e].site /\ row[d].at = row[e].at) => d = e

\* A retired site has no device: nothing would collect it (retire_collector
\* against every handler that gives a site a device).
RetiredSiteIsEmpty == \A d \in Enabled : ~retired[row[d].site]

\* The list of a site does not change under the revision its collector has, which
\* would never pull it again: every handler raises config_version of every site
\* whose list it changes.
ListOf(s) == [d \in Device |-> IF row[d].site = s THEN Shown(d) ELSE None]
EveryChangeIsPublished ==
  [][\A s \in Site : ListOf(s)' # ListOf(s) => version'[s] # version[s]]_registryVars
================================================================================

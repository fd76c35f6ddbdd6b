------------------------------ MODULE EdgeIdentity -----------------------------
(***************************************************************************)
(* How a computer becomes a collector of a customer, and who may speak for *)
(* a site: activation packages, enrolment and its approval, provisioning,  *)
(* retirement, and the lease every edge request takes (cloud_api.py,       *)
(* provision_edge.py, collector_activation.py, collector_enrollment.py).   *)
(*                                                                         *)
(* One customer.  An edge token is not random except when it is            *)
(* provisioned: it is an HMAC of what it was issued for, so a token is the *)
(* pair of its origin and its machine.  A request that fails changes       *)
(* nothing and is not a step; an application that expires before it is     *)
(* approved is one that is never approved.  An HTTP request and its answer *)
(* are one step, with a variant in which the answer is lost: what a        *)
(* machine does with an answer changes only its own files.  A machine's    *)
(* claim secret lives as long as its enrolment and is not modelled.        *)
(***************************************************************************)
EXTENDS Naturals, FiniteSets

CONSTANTS
  Machine,         \* installation ids
  Site,            \* site ids ever used, most of them not yet
  Code,            \* activation tokens ever issued
  Provisioned,     \* tokens the provisioning command can mint
  None,
  MaxCollectors,   \* MAX_COLLECTORS
  MaxGeneration    \* bound: rotations of the enrolment package

\* The generations start at 1; the origins of a token are told apart.
ASSUME IdentityAssumption == /\ MaxGeneration \in Nat \ {0}
                             /\ MaxCollectors \in Nat
                             /\ None \notin Machine \cup Site \cup Code \cup Provisioned
                             /\ Code \cap Provisioned = {}

VARIABLES
  generation,   \* customers.enrollment_generation
  site,         \* sites: state, active_collector_instance, contact in the lease
  code,         \* collector_activation_tokens
  enrollment,   \* collector_enrollments: the row of each machine
  owner,        \* edge_tokens: the site a token was inserted for
  enabled,      \* edge_tokens: the enabled ones
  package,      \* the enrolment package on each machine: its generation, or 0
  file,         \* the activation file on each machine
  settings,     \* collector_settings.json of each machine
  writers       \* history: who was accepted for a site since its lease was free

cloudVars == <<generation, site, code, enrollment, owner, enabled, writers>>
localVars == <<package, file, settings>>
identityVars == <<generation, site, code, enrollment, owner, enabled,
                  package, file, settings, writers>>

Token == [origin : Code \cup Provisioned \cup {None}, machine : Machine \cup {None}]

\* The HMAC of an activation token and a machine; of an enrolment row.
Activated(c, m) == [origin |-> c, machine |-> m]
EnrolledToken(m) == [origin |-> None, machine |-> m]
ProvisionedToken(p) == [origin |-> p, machine |-> None]

NoSettings == [site |-> None, token |-> [origin |-> None, machine |-> None]]
Settings == [site : Site, token : Token] \cup {NoSettings}
Configured(m) == settings[m] # NoSettings

SiteRow == [state : {"unused", "live", "retired"}, holder : Machine \cup {None},
            recent : BOOLEAN]
CodeRow == [state : {"unissued", "issued", "deleted"}, site : Site \cup {None},
            claimedBy : Machine \cup {None}, packaged : BOOLEAN, expired : BOOLEAN]
EnrollmentRow == [status : {"absent", "pending", "approved", "revoked"},
                  generation : 0..MaxGeneration, site : Site \cup {None}]

IdentityTypeOK == /\ generation \in 1..MaxGeneration
                  /\ site \in [Site -> SiteRow]
                  /\ code \in [Code -> CodeRow]
                  /\ enrollment \in [Machine -> EnrollmentRow]
                  /\ owner \in [Token -> Site \cup {None}]
                  /\ enabled \in SUBSET Token
                  /\ package \in [Machine -> 0..MaxGeneration]
                  /\ file \in [Machine -> Code \cup {None}]
                  /\ settings \in [Machine -> Settings]
                  /\ writers \in [Site -> SUBSET Machine]

IdentityInit ==
  /\ generation = 1
  /\ site = [s \in Site |-> [state |-> "unused", holder |-> None, recent |-> FALSE]]
  /\ code = [c \in Code |-> [state |-> "unissued", site |-> None, claimedBy |-> None,
                             packaged |-> FALSE, expired |-> FALSE]]
  /\ enrollment = [m \in Machine |-> [status |-> "absent", generation |-> 0,
                                      site |-> None]]
  /\ owner = [t \in Token |-> None]
  /\ enabled = {}
  /\ package = [m \in Machine |-> 0]
  /\ file = [m \in Machine |-> None]
  /\ settings = [m \in Machine |-> NoSettings]
  /\ writers = [s \in Site |-> {}]

Live(s) == site[s].state = "live"
TokensOf(s) == {t \in Token : owner[t] = s}
RoomForCollector == Cardinality({s \in Site : Live(s)}) < MaxCollectors

\* Mutant: an idle holder is not waited for.
LeaseTaken(s, m) == Live(s)

\* The UPDATE of edge_identity finds the site: nobody else spoke for it lately.
LeaseFree(s, m) == /\ Live(s)
                   /\ site[s].holder \in {None, m}

\* A request of machine m with token t passes edge_identity.
Accept(m, t) ==
  /\ t \in enabled
  /\ LET s == owner[t]
     IN /\ LeaseFree(s, m)
        /\ site' = [site EXCEPT ![s].holder = m, ![s].recent = TRUE]
        /\ writers' = [writers EXCEPT ![s] = @ \cup {m}]

--------------------------------------------------------------------------------
(* Administrators. *)

CreateCollector(s) ==
  /\ site[s].state = "unused"
  /\ RoomForCollector
  /\ site' = [site EXCEPT ![s].state = "live"]
  /\ UNCHANGED <<generation, code, enrollment, owner, enabled, writers>>
  /\ UNCHANGED localVars

Unclaimed(s) == {c \in Code : /\ code[c].state = "issued"
                              /\ code[c].site = s
                              /\ code[c].claimedBy = None}

\* A fresh activation token; the unconsumed ones of the site are deleted.
Reissue(s, c) ==
  /\ Live(s)
  /\ enabled \cap TokensOf(s) = {}
  /\ code[c].state = "unissued"
  /\ code' = [d \in Code |->
                IF d = c THEN [code[c] EXCEPT !.state = "issued", !.site = s]
                ELSE IF d \in Unclaimed(s) THEN [code[d] EXCEPT !.state = "deleted"]
                ELSE code[d]]
  /\ UNCHANGED <<generation, site, enrollment, owner, enabled, writers>>
  /\ UNCHANGED localVars

\* The ZIP is built in a transaction of its own: the token may be gone by now.
BuildPackage(c) ==
  /\ code[c].state = "issued"
  /\ code[c].claimedBy = None
  /\ ~code[c].expired
  /\ code' = [code EXCEPT ![c].packaged = TRUE]
  /\ UNCHANGED <<generation, site, enrollment, owner, enabled, writers>>
  /\ UNCHANGED localVars

\* token_hash is the primary key of edge_tokens: a second INSERT of the
\* machine's token fails and takes the whole transaction with it.
Approve(m, s) ==
  /\ enrollment[m].status = "pending"
  /\ site[s].state = "unused"
  /\ RoomForCollector
  /\ owner[EnrolledToken(m)] = None
  /\ site' = [site EXCEPT ![s].state = "live"]
  /\ owner' = [owner EXCEPT ![EnrolledToken(m)] = s]
  /\ enabled' = enabled \cup {EnrolledToken(m)}
  /\ enrollment' = [enrollment EXCEPT ![m].status = "approved", ![m].site = s]
  /\ UNCHANGED <<generation, code, writers>>
  /\ UNCHANGED localVars

Reject(m) ==
  /\ enrollment[m].status = "pending"
  /\ enrollment' = [enrollment EXCEPT ![m].status = "revoked"]
  /\ UNCHANGED <<generation, site, code, owner, enabled, writers>>
  /\ UNCHANGED localVars

\* Old packages and the applications made with them are void.
Rotate ==
  /\ generation < MaxGeneration
  /\ generation' = generation + 1
  /\ enrollment' = [m \in Machine |->
                      IF enrollment[m].status = "pending"
                      THEN [enrollment[m] EXCEPT !.status = "revoked"]
                      ELSE enrollment[m]]
  /\ UNCHANGED <<site, code, owner, enabled, writers>>
  /\ UNCHANGED localVars

\* Mutant: the credentials of the site stay usable.
RetireKeepsTokens(s) ==
  /\ Live(s)
  /\ ~site[s].recent
  /\ site' = [site EXCEPT ![s].state = "retired"]
  /\ enrollment' = [m \in Machine |->
                      IF enrollment[m].site = s
                      THEN [enrollment[m] EXCEPT !.status = "revoked"]
                      ELSE enrollment[m]]
  /\ UNCHANGED <<generation, code, owner, enabled, writers>>
  /\ UNCHANGED localVars

\* Mutant: whether a collector is still in contact is not looked at.
RetireInContact(s) ==
  /\ Live(s)
  /\ site' = [site EXCEPT ![s].state = "retired"]
  /\ enabled' = enabled \ TokensOf(s)
  /\ enrollment' = [m \in Machine |->
                      IF enrollment[m].site = s
                      THEN [enrollment[m] EXCEPT !.status = "revoked"]
                      ELSE enrollment[m]]
  /\ UNCHANGED <<generation, code, owner, writers>>
  /\ UNCHANGED localVars

\* Only without contact for the time of a lease, and without enabled devices, of
\* which DeviceRegistry keeps count: here it may always be so.
Retire(s) ==
  /\ Live(s)
  /\ ~site[s].recent
  /\ site' = [site EXCEPT ![s].state = "retired"]
  /\ enabled' = enabled \ TokensOf(s)
  /\ enrollment' = [m \in Machine |->
                      IF enrollment[m].site = s
                      THEN [enrollment[m] EXCEPT !.status = "revoked"]
                      ELSE enrollment[m]]
  /\ UNCHANGED <<generation, code, owner, writers>>
  /\ UNCHANGED localVars

\* provision_edge.py: a new token replaces the site's credentials and frees its
\* lease.  A retired site stays retired; activation tokens are left alone.
Provision(s, p) ==
  /\ owner[ProvisionedToken(p)] = None
  /\ site' = [site EXCEPT ![s].state = IF @ = "unused" THEN "live" ELSE @,
                          ![s].holder = None]
  /\ owner' = [owner EXCEPT ![ProvisionedToken(p)] = s]
  /\ enabled' = (enabled \ TokensOf(s)) \cup {ProvisionedToken(p)}
  /\ writers' = [writers EXCEPT ![s] = {}]
  /\ UNCHANGED <<generation, code, enrollment>>
  /\ UNCHANGED localVars

--------------------------------------------------------------------------------
(* Machines. *)

\* The installer copies the files of a package, which may be an old download.
\* Nobody looks at them on a configured machine, so they only matter before, and
\* a copy that could not be removed afterwards is as good as removed.
InstallActivation(m, c) ==
  /\ ~Configured(m)
  /\ code[c].packaged
  /\ file' = [file EXCEPT ![m] = c]
  /\ UNCHANGED <<package, settings>>
  /\ UNCHANGED cloudVars

InstallEnrollment(m, g) ==
  /\ ~Configured(m)
  /\ g \in 1..generation
  /\ package' = [package EXCEPT ![m] = g]
  /\ UNCHANGED <<file, settings>>
  /\ UNCHANGED cloudVars

\* The settings are stored, then the activation file is removed.
StoreActivated(m, s, t) ==
  /\ settings' = [settings EXCEPT ![m] = [site |-> s, token |-> t]]
  /\ file' = [file EXCEPT ![m] = None]
  /\ UNCHANGED package

FirstClaim(m, c) ==
  /\ code[c].claimedBy = None
  /\ code' = [code EXCEPT ![c].claimedBy = m]
  /\ owner' = [owner EXCEPT ![Activated(c, m)] = code[c].site]
  /\ enabled' = enabled \cup {Activated(c, m)}

\* Mutant: a consumed activation token is good for any machine.
RetriedByAnyone(m, c) ==
  /\ code[c].claimedBy # None
  /\ UNCHANGED <<code, owner, enabled>>

\* Mutant: a consumed activation token is refused to its own machine too.
RetryRefused(m, c) == /\ code[c].claimedBy = m
                      /\ code[c].claimedBy = None

RetriedClaim(m, c) ==
  /\ code[c].claimedBy = m
  /\ Activated(c, m) \in enabled
  /\ UNCHANGED <<code, owner, enabled>>

Claimed(m) == /\ ~Configured(m)
              /\ file[m] # None
              /\ code[file[m]].state = "issued"
              /\ ~code[file[m]].expired
              /\ Live(code[file[m]].site)
              /\ FirstClaim(m, file[m]) \/ RetriedClaim(m, file[m])
              /\ UNCHANGED <<generation, site, enrollment, writers>>

\* activate_if_available: the claim, then the settings.
Activate(m) == /\ Claimed(m)
               /\ StoreActivated(m, code[file[m]].site, Activated(file[m], m))

\* The answer is lost, or the machine stops before it has stored it.
ActivateLost(m) == Claimed(m) /\ UNCHANGED localVars

\* enroll_if_available: an activation file that is still there is tried first,
\* and while it fails the enrolment is not reached.
Enrolling(m) == /\ ~Configured(m)
                /\ file[m] = None
                /\ package[m] = generation

Pending == [status |-> "pending", generation |-> generation, site |-> None]

WaitingApplications == {m \in Machine : enrollment[m].status = "pending"}

\* A new application, or a later one of a revoked machine.  Asking again while
\* it waits only puts off its expiry.
Register(m) ==
  /\ Enrolling(m)
  /\ \/ /\ enrollment[m].status = "absent"
        /\ Cardinality(WaitingApplications) < 2 * MaxCollectors
        /\ enrollment' = [enrollment EXCEPT ![m] = Pending]
     \/ /\ enrollment[m].status = "revoked"
        /\ enrollment[m].generation < generation
        /\ enrollment' = [enrollment EXCEPT ![m] = Pending]
  /\ UNCHANGED <<generation, site, code, owner, enabled, writers>>
  /\ UNCHANGED localVars

\* An approved machine is given its credential; a lost answer changes nothing.
FetchCredential(m) ==
  /\ Enrolling(m)
  /\ enrollment[m].status = "approved"
  /\ EnrolledToken(m) \in enabled \cap TokensOf(enrollment[m].site)
  /\ settings' = [settings EXCEPT ![m] = [site |-> enrollment[m].site,
                                          token |-> EnrolledToken(m)]]
  /\ package' = [package EXCEPT ![m] = 0]
  /\ UNCHANGED file
  /\ UNCHANGED cloudVars

\* An edge request of a configured machine.
Contact(m) ==
  /\ Configured(m)
  /\ Accept(m, settings[m].token)
  /\ UNCHANGED <<generation, code, enrollment, owner, enabled>>
  /\ UNCHANGED localVars

\* The local console: an operator types a provisioned token, which is saved
\* once a request with it was accepted.
Configure(m, p) ==
  /\ Accept(m, ProvisionedToken(p))
  /\ \/ settings' = [settings EXCEPT ![m] = [site |-> owner[ProvisionedToken(p)],
                                             token |-> ProvisionedToken(p)]]
     \/ UNCHANGED settings
  /\ file' = [file EXCEPT ![m] = IF settings' = settings THEN @ ELSE None]
  /\ package' = [package EXCEPT ![m] = IF settings' = settings THEN @ ELSE 0]
  /\ UNCHANGED <<generation, code, enrollment, owner, enabled>>

--------------------------------------------------------------------------------
(* Time. *)

\* Nobody spoke for the site for COLLECTOR_LEASE_SECONDS: whoever held it last,
\* its lease is free.
Lapse(s) ==
  /\ site[s].recent
  /\ site' = [site EXCEPT ![s].recent = FALSE, ![s].holder = None]
  /\ writers' = [writers EXCEPT ![s] = {}]
  /\ UNCHANGED <<generation, code, enrollment, owner, enabled>>
  /\ UNCHANGED localVars

ExpireCode(c) ==
  /\ code[c].state = "issued"
  /\ code' = [code EXCEPT ![c].expired = TRUE]
  /\ UNCHANGED <<generation, site, enrollment, owner, enabled, writers>>
  /\ UNCHANGED localVars

AdminStep == \/ \E s \in Site : \/ CreateCollector(s) \/ Retire(s)
                                \/ \E c \in Code : Reissue(s, c)
                                \/ \E p \in Provisioned : Provision(s, p)
                                \/ \E m \in Machine : Approve(m, s)
             \/ \E m \in Machine : Reject(m)
             \/ \E c \in Code : BuildPackage(c)
             \/ Rotate

MachineStep(m) == \/ \E c \in Code : InstallActivation(m, c)
                  \/ \E g \in 1..MaxGeneration : InstallEnrollment(m, g)
                  \/ Activate(m) \/ ActivateLost(m)
                  \/ Register(m) \/ FetchCredential(m)
                  \/ Contact(m)
                  \/ \E p \in Provisioned : Configure(m, p)

TimeStep == \/ \E s \in Site : Lapse(s)
            \/ \E c \in Code : ExpireCode(c)

IdentityNext == AdminStep \/ (\E m \in Machine : MachineStep(m)) \/ TimeStep

IdentitySpec == IdentityInit /\ [][IdentityNext]_identityVars

\* The launcher retries for ever, and not every answer is lost.
IdentityFairness == \A m \in Machine : WF_identityVars(Activate(m) \/ FetchCredential(m))

FairIdentitySpec == IdentitySpec /\ IdentityFairness

--------------------------------------------------------------------------------
\* Two machines never both speak for a site within one lease, unless the site
\* was provisioned anew in between (edge_identity's UPDATE, COLLECTOR_LEASE_SECONDS).
OneWriterPerLease == \A s \in Site : \A m, n \in writers[s] : m = n

\* An upload credential exists only for what an administrator granted: an enabled
\* token of an enrolment belongs to an approved row and its site, an activated
\* one to the machine that claimed the package, and a machine that was given a
\* token was given its own, for the site it was issued for.
CredentialIsGranted ==
  /\ \A m \in Machine : EnrolledToken(m) \in enabled =>
       /\ enrollment[m].status = "approved"
       /\ owner[EnrolledToken(m)] = enrollment[m].site
  /\ \A m \in Machine, c \in Code : Activated(c, m) \in enabled =>
       /\ code[c].claimedBy = m
       /\ owner[Activated(c, m)] = code[c].site
  /\ \A m \in Machine : Configured(m) =>
       /\ settings[m].token.machine \in {m, None}
       /\ owner[settings[m].token] = settings[m].site

\* Retirement is final for whoever was there before: no approved machine and no
\* enabled credential but one that was provisioned afterwards is left at a retired
\* site (retire_collector).
RetiredIsClosed ==
  \A s \in Site : site[s].state = "retired" =>
      /\ \A m \in Machine : enrollment[m].site = s => enrollment[m].status # "approved"
      /\ \A t \in enabled \cap TokensOf(s) : t.origin \in Provisioned

\* An application that waits for approval was made with a package that is still
\* valid (register_collector_enrollment, rotate_customer_enrollment).
PendingIsCurrent ==
  \A m \in Machine : enrollment[m].status = "pending" =>
                       enrollment[m].generation = generation

(***************************************************************************)
(* The refinement: who holds a site's lease speaks for it, an enabled      *)
(* token is a key, and one that was ever inserted is used.  Packages,      *)
(* applications and the machines' files do not exist to the contract.      *)
(***************************************************************************)
PhaseView == [s \in Site |-> CASE site[s].state = "unused" -> "unused"
                               [] site[s].state = "live"   -> "open"
                               [] OTHER                    -> "closed"]
SpeakerView == [s \in Site |-> site[s].holder]
KeyView == [s \in Site |-> {t \in enabled : owner[t] = s}]
UsedKeys == {t \in Token : owner[t] # None}

Access == INSTANCE SiteAccess WITH Place <- Site, Speaker <- Machine, Key <- Token,
            Nobody <- None, phase <- PhaseView, speaking <- SpeakerView,
            keys <- KeyView, used <- UsedKeys

\* Packages, approvals, claims, provisioning, retirement and leases, with answers
\* lost and requests repeated, keep what SiteAccess promises of every site.
ImplementsSiteAccess == Access!Spec

\* A machine that was approved gets its credential however often an answer is
\* lost, unless its package is replaced, its credential is revoked or a failing
\* activation file keeps it from asking (launcher loop, deterministic token).
CanFetch(m) == /\ Enrolling(m)
               /\ enrollment[m].status = "approved"
               /\ EnrolledToken(m) \in enabled
CanRetry(m) == /\ file[m] # None
               /\ code[file[m]].claimedBy = m
               /\ ~code[file[m]].expired
               /\ Activated(file[m], m) \in enabled
               /\ Live(code[file[m]].site)
CredentialArrives == \A m \in Machine : /\ CanFetch(m) ~> (Configured(m) \/ ~CanFetch(m))
                                        /\ CanRetry(m) ~> (Configured(m) \/ ~CanRetry(m))
================================================================================

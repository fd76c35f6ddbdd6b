--------------------------- MODULE EdgeIdentityProofs --------------------------
(***************************************************************************)
(* Proofs about collectors' identities, for any machines, sites, packages  *)
(* and provisioned tokens: one writer per lease, credentials that were     *)
(* granted, and retired sites.                                             *)
(***************************************************************************)
EXTENDS EdgeIdentity, TLAPS

\* Whoever spoke for a site since its lease was free still holds it.
LeaseInv == \A s \in Site : \A m \in writers[s] : site[s].holder = m

\* A token belongs to a site from when it is first enabled, and one of a claimed
\* package to the site of the package; an issued package is of some site.
OwnerInv ==
  /\ \A t \in enabled : t \in Token /\ owner[t] \in Site
  /\ \A c \in Code, m \in Machine : owner[Activated(c, m)] # None =>
       /\ code[c].claimedBy = m
       /\ owner[Activated(c, m)] = code[c].site
  /\ \A c \in Code : IF code[c].state = "unissued" THEN code[c].claimedBy = None
                     ELSE code[c].site \in Site

IdentityInv == /\ IdentityTypeOK /\ LeaseInv /\ OwnerInv
               /\ CredentialIsGranted /\ RetiredIsClosed /\ PendingIsCurrent

USE DEF cloudVars, localVars

--------------------------------------------------------------------------------
(* Tokens of different origins are different.                                   *)

LEMMA TokensAreTyped ==
  /\ \A c \in Code, m \in Machine : Activated(c, m) \in Token
  /\ \A m \in Machine : EnrolledToken(m) \in Token
  /\ \A p \in Provisioned : ProvisionedToken(p) \in Token
<1>. QED  BY DEF Token, Activated, EnrolledToken, ProvisionedToken

LEMMA TokensDiffer ==
  /\ \A c, d \in Code, m, n \in Machine : Activated(c, m) = Activated(d, n) => c = d /\ m = n
  /\ \A m, n \in Machine : EnrolledToken(m) = EnrolledToken(n) => m = n
  /\ \A c \in Code, m, n \in Machine : Activated(c, m) # EnrolledToken(n)
  /\ \A p \in Provisioned, m \in Machine : ProvisionedToken(p) # EnrolledToken(m)
  /\ \A p \in Provisioned, c \in Code, m \in Machine : ProvisionedToken(p) # Activated(c, m)
<1>. QED  BY IdentityAssumption DEF Activated, EnrolledToken, ProvisionedToken

LEMMA IdentityInitInv == IdentityInit => IdentityInv
<1>. SUFFICES ASSUME IdentityInit PROVE IdentityInv
  OBVIOUS
<1>. USE IdentityAssumption DEF IdentityInit
<1>1. IdentityTypeOK
  <2>1. site \in [Site -> SiteRow]
    BY DEF SiteRow
  <2>2. code \in [Code -> CodeRow]
    BY DEF CodeRow
  <2>3. enrollment \in [Machine -> EnrollmentRow]
    BY DEF EnrollmentRow
  <2>4. settings \in [Machine -> Settings]
    BY DEF Settings
  <2>5. generation \in 1..MaxGeneration /\ package \in [Machine -> 0..MaxGeneration]
    OBVIOUS
  <2>6. owner \in [Token -> Site \cup {None}] /\ enabled \in SUBSET Token
    OBVIOUS
  <2>7. file \in [Machine -> Code \cup {None}] /\ writers \in [Site -> SUBSET Machine]
    OBVIOUS
  <2>. QED  BY <2>1, <2>2, <2>3, <2>4, <2>5, <2>6, <2>7 DEF IdentityTypeOK
<1>2. LeaseInv
  BY DEF LeaseInv
<1>3. OwnerInv
  BY TokensAreTyped DEF OwnerInv
<1>4. CredentialIsGranted
  BY DEF CredentialIsGranted, Configured
<1>5. RetiredIsClosed /\ PendingIsCurrent
  BY DEF RetiredIsClosed, PendingIsCurrent
<1>. QED  BY <1>1, <1>2, <1>3, <1>4, <1>5 DEF IdentityInv

--------------------------------------------------------------------------------
(* What administrators do.                                                      *)

LEMMA CreateCollectorKeepsInv ==
  ASSUME IdentityInv, NEW s \in Site, CreateCollector(s)
  PROVE  IdentityInv'
<1>. USE DEF IdentityInv, CreateCollector
<1>1. site' \in [Site -> SiteRow]
  BY DEF IdentityTypeOK, SiteRow
<1>2. IdentityTypeOK'
  BY <1>1 DEF IdentityTypeOK
<1>3. \A r \in Site : site'[r].holder = site[r].holder
  BY DEF IdentityTypeOK, SiteRow
<1>4. LeaseInv'
  BY <1>3 DEF LeaseInv
<1>5. OwnerInv' /\ CredentialIsGranted' /\ PendingIsCurrent'
  BY DEF OwnerInv, CredentialIsGranted, PendingIsCurrent, Configured
<1>6. RetiredIsClosed'
  BY DEF RetiredIsClosed, TokensOf, IdentityTypeOK
<1>. QED  BY <1>2, <1>4, <1>5, <1>6

LEMMA ReissueKeepsInv ==
  ASSUME IdentityInv, NEW s \in Site, NEW c \in Code, Reissue(s, c)
  PROVE  IdentityInv'
<1>. USE DEF IdentityInv, Reissue
<1>1. \A d \in Code : /\ code'[d] \in CodeRow
                      /\ code'[d].claimedBy = code[d].claimedBy
                      /\ IF d = c THEN code'[d].state = "issued" /\ code'[d].site = s
                         ELSE /\ code'[d].site = code[d].site
                              /\ code'[d].state = "unissued" <=> code[d].state = "unissued"
  <2>. HIDE DEF IdentityInv, Reissue
  <2>. TAKE d \in Code
  <2>1. /\ code[d] \in CodeRow /\ s \in Site
        /\ code'[d] = IF d = c THEN [code[c] EXCEPT !.state = "issued", !.site = s]
                      ELSE IF d \in Unclaimed(s) THEN [code[d] EXCEPT !.state = "deleted"]
                      ELSE code[d]
        /\ d \in Unclaimed(s) => code[d].state = "issued"
    BY DEF IdentityInv, IdentityTypeOK, Reissue, Unclaimed
  <2>2. CASE d = c
    <3>1. code'[d] = [code[d] EXCEPT !.state = "issued", !.site = s]
      BY <2>1, <2>2
    <3>. QED  BY ONLY <2>1, <2>2, <3>1 DEF CodeRow
  <2>3. CASE d # c /\ d \in Unclaimed(s)
    BY <2>1, <2>3 DEF CodeRow
  <2>4. CASE d # c /\ d \notin Unclaimed(s)
    BY <2>1, <2>4
  <2>. QED  BY <2>2, <2>3, <2>4
<1>2. code' \in [Code -> CodeRow]
  BY <1>1
<1>3. IdentityTypeOK'
  BY <1>2 DEF IdentityTypeOK
<1>4. code[c].claimedBy = None
  BY DEF OwnerInv
<1>5. OwnerInv'
  BY <1>1, <1>4, IdentityAssumption DEF OwnerInv
<1>6. CredentialIsGranted'
  BY <1>1, <1>4, IdentityAssumption DEF CredentialIsGranted, Configured
<1>7. LeaseInv' /\ RetiredIsClosed' /\ PendingIsCurrent'
  BY DEF LeaseInv, RetiredIsClosed, PendingIsCurrent, TokensOf
<1>. QED  BY <1>3, <1>5, <1>6, <1>7

LEMMA ApproveKeepsInv ==
  ASSUME IdentityInv, NEW m \in Machine, NEW s \in Site, Approve(m, s)
  PROVE  IdentityInv'
<1>. DEFINE token == EnrolledToken(m)
<1>0. /\ site' = [site EXCEPT ![s].state = "live"]
      /\ owner' = [owner EXCEPT ![token] = s]
      /\ enabled' = enabled \cup {token}
      /\ IdentityTypeOK /\ CredentialIsGranted
  BY DEF IdentityInv, Approve
<1>. USE DEF IdentityInv, Approve
<1>1. /\ site' \in [Site -> SiteRow]
      /\ owner' \in [Token -> Site \cup {None}]
      /\ enrollment' \in [Machine -> EnrollmentRow]
      /\ enabled' \in SUBSET Token
  <2>1. site' \in [Site -> SiteRow]
    <3>. HIDE DEF IdentityInv, Approve
    <3>1. site \in [Site -> SiteRow]
      BY <1>0 DEF IdentityTypeOK
    <3>2. [site[s] EXCEPT !.state = "live"] \in SiteRow
      BY <3>1 DEF SiteRow
    <3>. QED  BY <1>0, <3>1, <3>2
  <2>2. enrollment' \in [Machine -> EnrollmentRow]
    <3>1. enrollment[m] \in EnrollmentRow
      BY DEF IdentityTypeOK
    <3>2. [enrollment[m] EXCEPT !.status = "approved", !.site = s] \in EnrollmentRow
      BY <3>1 DEF EnrollmentRow
    <3>. QED  BY <3>2 DEF IdentityTypeOK
  <2>3. owner' \in [Token -> Site \cup {None}] /\ enabled' \in SUBSET Token
    BY TokensAreTyped DEF IdentityTypeOK
  <2>. QED  BY <2>1, <2>2, <2>3
<1>2. IdentityTypeOK'
  BY <1>1 DEF IdentityTypeOK
<1>3. \A r \in Site : site'[r].holder = site[r].holder
  BY DEF IdentityTypeOK, SiteRow
<1>4. LeaseInv'
  BY <1>3 DEF LeaseInv
<1>5. /\ token \in Token /\ owner'[token] = s
      /\ \A t \in Token : t # token => owner'[t] = owner[t]
  BY TokensAreTyped DEF IdentityTypeOK
<1>6. OwnerInv'
  BY <1>5, TokensAreTyped, TokensDiffer DEF OwnerInv
<1>7. /\ enrollment'[m].status = "approved" /\ enrollment'[m].site = s
      /\ \A n \in Machine \ {m} : enrollment'[n] = enrollment[n]
  BY DEF IdentityTypeOK, EnrollmentRow
<1>8. CredentialIsGranted'
  <2>1. \A n \in Machine : EnrolledToken(n) \in enabled' =>
          enrollment'[n].status = "approved" /\ owner'[EnrolledToken(n)] = enrollment'[n].site
    <3>. HIDE DEF IdentityInv, Approve, token
    <3>. TAKE n \in Machine
    <3>1. CASE n = m
      BY <1>5, <1>7, <3>1 DEF token
    <3>2. CASE n # m
      <4>1. EnrolledToken(n) \in Token /\ EnrolledToken(n) # token
        BY <3>2, TokensAreTyped, TokensDiffer DEF token
      <4>2. EnrolledToken(n) \in enabled =>
              enrollment[n].status = "approved" /\ owner[EnrolledToken(n)] = enrollment[n].site
        BY <1>0 DEF CredentialIsGranted
      <4>. QED  BY <1>0, <1>5, <1>7, <3>2, <4>1, <4>2
    <3>. QED  BY <3>1, <3>2
  <2>2. \A n \in Machine, c \in Code : Activated(c, n) \in enabled' =>
          code'[c].claimedBy = n /\ owner'[Activated(c, n)] = code'[c].site
    BY <1>5, TokensAreTyped, TokensDiffer DEF CredentialIsGranted
  <2>3. \A n \in Machine : Configured(n) => settings[n].token \in Token /\ settings[n].site # None
    BY IdentityAssumption DEF IdentityTypeOK, Settings, Configured
  <2>4. \A n \in Machine : Configured(n)' => /\ settings'[n].token.machine \in {n, None}
                                             /\ owner'[settings'[n].token] = settings'[n].site
    BY <1>5, <2>3 DEF CredentialIsGranted, Configured
  <2>. QED  BY <2>1, <2>2, <2>4 DEF CredentialIsGranted
<1>9. RetiredIsClosed'
  BY <1>5, <1>7, TokensAreTyped DEF RetiredIsClosed, TokensOf, IdentityTypeOK
<1>10. PendingIsCurrent'
  BY <1>7 DEF PendingIsCurrent
<1>. QED  BY <1>2, <1>4, <1>6, <1>8, <1>9, <1>10
\* Applications that wait are refused, one of them or all.
LEMMA RefusalKeepsInv ==
  ASSUME IdentityInv,
         UNCHANGED <<site, code, owner, enabled, writers, package, file, settings>>,
         generation' \in 1..MaxGeneration,
         enrollment' \in [Machine -> EnrollmentRow],
         \A m \in Machine : /\ enrollment'[m].site = enrollment[m].site
                            /\ \/ enrollment'[m].status = "revoked" /\ enrollment[m].status = "pending"
                               \/ enrollment'[m].status = enrollment[m].status,
         PendingIsCurrent'
  PROVE  IdentityInv'
<1>. USE DEF IdentityInv
<1>1. IdentityTypeOK'
  BY DEF IdentityTypeOK
<1>2. LeaseInv' /\ OwnerInv'
  BY DEF LeaseInv, OwnerInv
<1>3. CredentialIsGranted'
  BY DEF CredentialIsGranted, Configured
<1>4. RetiredIsClosed'
  BY DEF RetiredIsClosed, TokensOf
<1>. QED  BY <1>1, <1>2, <1>3, <1>4

LEMMA RejectKeepsInv ==
  ASSUME IdentityInv, NEW m \in Machine, Reject(m)
  PROVE  IdentityInv'
<1>1. enrollment[m] \in EnrollmentRow /\ generation' \in 1..MaxGeneration
  BY DEF Reject, IdentityInv, IdentityTypeOK
<1>2. [enrollment[m] EXCEPT !.status = "revoked"] \in EnrollmentRow
  BY <1>1 DEF EnrollmentRow
<1>3. enrollment' \in [Machine -> EnrollmentRow]
  BY <1>2 DEF Reject, IdentityInv, IdentityTypeOK
<1>4. /\ enrollment'[m].site = enrollment[m].site /\ enrollment'[m].status = "revoked"
      /\ \A n \in Machine \ {m} : enrollment'[n] = enrollment[n]
  BY <1>1 DEF Reject, IdentityInv, IdentityTypeOK, EnrollmentRow
<1>5. PendingIsCurrent'
  BY <1>4 DEF Reject, IdentityInv, PendingIsCurrent
<1>. QED  BY <1>1, <1>3, <1>4, <1>5, RefusalKeepsInv DEF Reject

LEMMA RotateKeepsInv ==
  ASSUME IdentityInv, Rotate
  PROVE  IdentityInv'
<1>1. generation' \in 1..MaxGeneration
  BY IdentityAssumption DEF Rotate, IdentityInv, IdentityTypeOK
<1>2. \A m \in Machine : /\ enrollment'[m] \in EnrollmentRow
                         /\ enrollment'[m].site = enrollment[m].site
                         /\ enrollment'[m].status = IF enrollment[m].status = "pending"
                                                    THEN "revoked" ELSE enrollment[m].status
  <2>. TAKE m \in Machine
  <2>1. enrollment[m] \in EnrollmentRow
    BY DEF IdentityInv, IdentityTypeOK
  <2>2. enrollment'[m] = IF enrollment[m].status = "pending"
                         THEN [enrollment[m] EXCEPT !.status = "revoked"] ELSE enrollment[m]
    BY DEF Rotate
  <2>. QED  BY <2>1, <2>2 DEF EnrollmentRow
<1>3. enrollment' \in [Machine -> EnrollmentRow]
  BY <1>2 DEF Rotate
<1>4. PendingIsCurrent'
  BY <1>2 DEF PendingIsCurrent
<1>. QED  BY <1>1, <1>2, <1>3, <1>4, RefusalKeepsInv DEF Rotate

LEMMA CodeOnlyKeepsInv ==
  ASSUME IdentityInv, NEW c \in Code, BuildPackage(c) \/ ExpireCode(c)
  PROVE  IdentityInv'
<1>. USE DEF IdentityInv
<1>1. /\ \E r \in {[code[c] EXCEPT !.packaged = TRUE], [code[c] EXCEPT !.expired = TRUE]} :
           code' = [code EXCEPT ![c] = r]
      /\ UNCHANGED <<generation, site, enrollment, owner, enabled, writers, localVars>>
  BY DEF BuildPackage, ExpireCode
<1>2. \A d \in Code : /\ code'[d] \in CodeRow
                      /\ code'[d].claimedBy = code[d].claimedBy
                      /\ code'[d].site = code[d].site
                      /\ code'[d].state = code[d].state
  <2>1. code[c] \in CodeRow
    BY DEF IdentityTypeOK
  <2>2. ASSUME NEW r \in {[code[c] EXCEPT !.packaged = TRUE], [code[c] EXCEPT !.expired = TRUE]}
        PROVE  /\ r \in CodeRow /\ r.claimedBy = code[c].claimedBy
               /\ r.site = code[c].site /\ r.state = code[c].state
    BY <2>1, <2>2 DEF CodeRow
  <2>3. \A d \in Code \ {c} : code'[d] = code[d] /\ code[d] \in CodeRow
    BY <1>1 DEF IdentityTypeOK
  <2>. QED  BY <1>1, <2>2, <2>3 DEF IdentityTypeOK
<1>3. code' \in [Code -> CodeRow]
  BY <1>1, <1>2 DEF IdentityTypeOK
<1>4. IdentityTypeOK'
  BY <1>1, <1>3 DEF IdentityTypeOK
<1>5. OwnerInv' /\ CredentialIsGranted'
  BY <1>1, <1>2 DEF OwnerInv, CredentialIsGranted, Configured
<1>6. LeaseInv' /\ RetiredIsClosed' /\ PendingIsCurrent'
  BY <1>1 DEF LeaseInv, RetiredIsClosed, PendingIsCurrent, TokensOf
<1>. QED  BY <1>4, <1>5, <1>6

LEMMA RetireKeepsInv ==
  ASSUME IdentityInv, NEW s \in Site, Retire(s)
  PROVE  IdentityInv'
<1>. USE DEF IdentityInv
<1>1. /\ UNCHANGED <<generation, code, owner, writers, localVars>>
      /\ site' = [site EXCEPT ![s].state = "retired"]
      /\ enabled' = enabled \ TokensOf(s)
      /\ enrollment' = [m \in Machine |-> IF enrollment[m].site = s
                                          THEN [enrollment[m] EXCEPT !.status = "revoked"]
                                          ELSE enrollment[m]]
  BY DEF Retire
<1>2. /\ site' \in [Site -> SiteRow]
      /\ \A r \in Site : /\ site'[r].holder = site[r].holder
                          /\ r # s => site'[r].state = site[r].state
  BY <1>1 DEF IdentityTypeOK, SiteRow
<1>3. \A m \in Machine : /\ enrollment'[m] \in EnrollmentRow
                         /\ enrollment'[m].site = enrollment[m].site
                         /\ enrollment'[m].status = IF enrollment[m].site = s THEN "revoked"
                                                    ELSE enrollment[m].status
                         /\ enrollment'[m].generation = enrollment[m].generation
  <2>. TAKE m \in Machine
  <2>1. enrollment[m] \in EnrollmentRow
    BY DEF IdentityTypeOK
  <2>2. enrollment'[m] = IF enrollment[m].site = s
                         THEN [enrollment[m] EXCEPT !.status = "revoked"] ELSE enrollment[m]
    BY <1>1
  <2>. QED  BY <2>1, <2>2 DEF EnrollmentRow
<1>4. enrollment' \in [Machine -> EnrollmentRow]
  BY <1>1, <1>3
<1>5. IdentityTypeOK'
  BY <1>1, <1>2, <1>4 DEF IdentityTypeOK
<1>6. LeaseInv'
  BY <1>1, <1>2 DEF LeaseInv
<1>7. OwnerInv'
  BY <1>1 DEF OwnerInv
<1>8. CredentialIsGranted'
  <2>1. \A m \in Machine : EnrolledToken(m) \in enabled' => enrollment[m].site # s
    BY <1>1, TokensAreTyped DEF CredentialIsGranted, TokensOf
  <2>. QED  BY <1>1, <1>3, <2>1 DEF CredentialIsGranted, Configured
<1>9. RetiredIsClosed'
  BY <1>1, <1>2, <1>3 DEF RetiredIsClosed, TokensOf
<1>10. PendingIsCurrent'
  BY <1>1, <1>3 DEF PendingIsCurrent
<1>. QED  BY <1>5, <1>6, <1>7, <1>8, <1>9, <1>10

LEMMA ProvisionKeepsInv ==
  ASSUME IdentityInv, NEW s \in Site, NEW p \in Provisioned, Provision(s, p)
  PROVE  IdentityInv'
<1>. DEFINE token == ProvisionedToken(p)
<1>. USE DEF IdentityInv
<1>1. /\ UNCHANGED <<generation, code, enrollment, localVars>>
      /\ owner[token] = None /\ owner' = [owner EXCEPT ![token] = s]
      /\ enabled' = (enabled \ TokensOf(s)) \cup {token}
      /\ writers' = [writers EXCEPT ![s] = {}]
  BY DEF Provision
<1>2. /\ site' \in [Site -> SiteRow]
      /\ \A r \in Site : r # s => site'[r] = site[r]
      /\ site'[s].state = "retired" => site[s].state = "retired"
  <2>1. site[s] \in SiteRow
    BY DEF IdentityTypeOK
  <2>2. PICK st \in {"unused", "live", "retired"} :
            /\ site' = [site EXCEPT ![s] = [site[s] EXCEPT !.state = st, !.holder = None]]
            /\ st = "retired" => site[s].state = "retired"
    <3>1. DEFINE st == IF site[s].state = "unused" THEN "live" ELSE site[s].state
    <3>2. site' = [site EXCEPT ![s] = [site[s] EXCEPT !.state = st, !.holder = None]]
      BY DEF Provision
    <3>3. st \in {"unused", "live", "retired"} /\ (st = "retired" => site[s].state = "retired")
      BY <2>1 DEF SiteRow
    <3>. QED  BY <3>2, <3>3
  <2>3. [site[s] EXCEPT !.state = st, !.holder = None] \in SiteRow
    BY <2>1 DEF SiteRow
  <2>4. site'[s] \in SiteRow /\ (site'[s].state = "retired" => site[s].state = "retired")
    BY <2>1, <2>2, <2>3 DEF IdentityTypeOK, SiteRow
  <2>. QED  BY <2>2, <2>3, <2>4 DEF IdentityTypeOK
<1>3. /\ token \in Token /\ owner'[token] = s
      /\ \A t \in Token : t # token => owner'[t] = owner[t]
  BY <1>1, TokensAreTyped DEF IdentityTypeOK
<1>4. IdentityTypeOK'
  BY <1>1, <1>2, <1>3 DEF IdentityTypeOK
<1>5. LeaseInv'
  BY <1>1, <1>2 DEF LeaseInv, IdentityTypeOK
<1>6. OwnerInv'
  BY <1>1, <1>3, TokensAreTyped, TokensDiffer DEF OwnerInv
<1>7. CredentialIsGranted'
  <2>1. \A m \in Machine : EnrolledToken(m) \in enabled' =>
          /\ enrollment'[m].status = "approved"
          /\ owner'[EnrolledToken(m)] = enrollment'[m].site
    BY <1>1, <1>3, TokensAreTyped, TokensDiffer DEF CredentialIsGranted
  <2>2. \A m \in Machine, c \in Code : Activated(c, m) \in enabled' =>
          code'[c].claimedBy = m /\ owner'[Activated(c, m)] = code'[c].site
    BY <1>1, <1>3, TokensAreTyped, TokensDiffer DEF CredentialIsGranted
  <2>3. \A m \in Machine : Configured(m) => settings[m].token \in Token /\ settings[m].site # None
    BY IdentityAssumption DEF IdentityTypeOK, Settings, Configured
  <2>4. \A m \in Machine : Configured(m)' => /\ settings'[m].token.machine \in {m, None}
                                             /\ owner'[settings'[m].token] = settings'[m].site
    BY <1>1, <1>3, <2>3 DEF CredentialIsGranted, Configured
  <2>. QED  BY <2>1, <2>2, <2>4 DEF CredentialIsGranted
<1>8. RetiredIsClosed'
  BY <1>1, <1>2, <1>3, TokensAreTyped DEF RetiredIsClosed, TokensOf, OwnerInv, ProvisionedToken
<1>9. PendingIsCurrent'
  BY <1>1 DEF PendingIsCurrent
<1>. QED  BY <1>4, <1>5, <1>6, <1>7, <1>8, <1>9
--------------------------------------------------------------------------------
(* What machines do, and time.                                                  *)

\* The lease, taken or kept.
LEMMA AcceptKeepsLease ==
  ASSUME IdentityInv, NEW m \in Machine, NEW t \in Token, Accept(m, t)
  PROVE  /\ owner[t] \in Site
         /\ site' \in [Site -> SiteRow] /\ writers' \in [Site -> SUBSET Machine]
         /\ \A r \in Site : site'[r].state = site[r].state
         /\ LeaseInv'
<1>. DEFINE s == owner[t]
<1>1. s \in Site
  BY DEF Accept, IdentityInv, OwnerInv
<1>2. /\ site[s].holder \in {None, m}
      /\ site' = [site EXCEPT ![s] = [site[s] EXCEPT !.holder = m, !.recent = TRUE]]
      /\ writers' = [writers EXCEPT ![s] = writers[s] \cup {m}]
  BY DEF Accept, LeaseFree
<1>3. site[s] \in SiteRow
  BY <1>1 DEF IdentityInv, IdentityTypeOK
<1>4. /\ [site[s] EXCEPT !.holder = m, !.recent = TRUE] \in SiteRow
      /\ [site[s] EXCEPT !.holder = m, !.recent = TRUE].holder = m
      /\ [site[s] EXCEPT !.holder = m, !.recent = TRUE].state = site[s].state
  BY <1>3 DEF SiteRow
<1>5. site' \in [Site -> SiteRow] /\ writers' \in [Site -> SUBSET Machine]
  BY <1>1, <1>2, <1>4 DEF IdentityInv, IdentityTypeOK
<1>6. \A r \in Site \ {s} : site'[r] = site[r] /\ writers'[r] = writers[r]
  BY <1>2 DEF IdentityInv, IdentityTypeOK
<1>7. site'[s].holder = m /\ site'[s].state = site[s].state /\ writers'[s] = writers[s] \cup {m}
  BY <1>1, <1>2, <1>4 DEF IdentityInv, IdentityTypeOK
<1>8. writers[s] \subseteq {m}
  BY <1>1, <1>2, IdentityAssumption DEF IdentityInv, LeaseInv, IdentityTypeOK
<1>9. LeaseInv'
  BY <1>6, <1>7, <1>8 DEF IdentityInv, LeaseInv
<1>. QED  BY <1>1, <1>5, <1>6, <1>7, <1>9

\* A step of a machine that changes neither credentials nor applications.
LEMMA LocalStepKeepsInv ==
  ASSUME IdentityInv,
         UNCHANGED <<generation, code, enrollment, owner, enabled>>,
         site' \in [Site -> SiteRow], writers' \in [Site -> SUBSET Machine],
         \A s \in Site : site'[s].state = site[s].state,
         LeaseInv',
         package' \in [Machine -> 0..MaxGeneration],
         file' \in [Machine -> Code \cup {None}],
         settings' \in [Machine -> Settings],
         \A m \in Machine : \/ settings'[m] = settings[m]
                            \/ /\ settings'[m].token.machine \in {m, None}
                               /\ owner[settings'[m].token] = settings'[m].site
  PROVE  IdentityInv'
<1>. USE DEF IdentityInv
<1>1. IdentityTypeOK'
  BY DEF IdentityTypeOK
<1>2. OwnerInv'
  BY DEF OwnerInv
<1>3. CredentialIsGranted'
  BY DEF CredentialIsGranted, Configured
<1>4. RetiredIsClosed' /\ PendingIsCurrent'
  BY DEF RetiredIsClosed, PendingIsCurrent, TokensOf
<1>. QED  BY <1>1, <1>2, <1>3, <1>4

LEMMA InstallKeepsInv ==
  ASSUME IdentityInv, NEW m \in Machine,
         \/ \E c \in Code : InstallActivation(m, c)
         \/ \E g \in 1..MaxGeneration : InstallEnrollment(m, g)
  PROVE  IdentityInv'
<1>1. /\ UNCHANGED <<cloudVars, settings>>
      /\ package' \in [Machine -> 0..MaxGeneration] /\ file' \in [Machine -> Code \cup {None}]
  BY DEF InstallActivation, InstallEnrollment, IdentityInv, IdentityTypeOK
<1>2. /\ LeaseInv' /\ site' \in [Site -> SiteRow] /\ writers' \in [Site -> SUBSET Machine]
      /\ settings' \in [Machine -> Settings]
  BY <1>1 DEF IdentityInv, IdentityTypeOK, LeaseInv
<1>. QED  BY <1>1, <1>2, LocalStepKeepsInv

LEMMA ContactKeepsInv ==
  ASSUME IdentityInv, NEW m \in Machine, Contact(m)
  PROVE  IdentityInv'
<1>1. settings[m].token \in Token
  BY DEF Contact, Configured, IdentityInv, IdentityTypeOK, Settings
<1>2. Accept(m, settings[m].token) /\ UNCHANGED <<generation, code, enrollment, owner, enabled>>
        /\ UNCHANGED localVars
  BY DEF Contact
<1>3. /\ package' \in [Machine -> 0..MaxGeneration] /\ file' \in [Machine -> Code \cup {None}]
      /\ settings' \in [Machine -> Settings]
  BY <1>2 DEF IdentityInv, IdentityTypeOK
<1>. QED  BY <1>1, <1>2, <1>3, AcceptKeepsLease, LocalStepKeepsInv

LEMMA ConfigureKeepsInv ==
  ASSUME IdentityInv, NEW m \in Machine, NEW p \in Provisioned, Configure(m, p)
  PROVE  IdentityInv'
<1>. DEFINE token == ProvisionedToken(p)
<1>1. token \in Token /\ token.machine = None
  BY TokensAreTyped DEF ProvisionedToken
<1>2. /\ Accept(m, token) /\ UNCHANGED <<generation, code, enrollment, owner, enabled>>
      /\ \/ settings' = [settings EXCEPT ![m] = [site |-> owner[token], token |-> token]]
         \/ settings' = settings
  BY DEF Configure
<1>3. owner[token] \in Site
  BY <1>1, <1>2, AcceptKeepsLease
<1>4. [site |-> owner[token], token |-> token] \in Settings
  BY <1>1, <1>3 DEF Settings
<1>5. /\ settings' \in [Machine -> Settings]
      /\ \A n \in Machine : \/ settings'[n] = settings[n]
                            \/ /\ settings'[n].token.machine \in {n, None}
                               /\ owner[settings'[n].token] = settings'[n].site
  BY <1>1, <1>2, <1>4 DEF IdentityInv, IdentityTypeOK
<1>6. package' \in [Machine -> 0..MaxGeneration] /\ file' \in [Machine -> Code \cup {None}]
  BY IdentityAssumption DEF Configure, IdentityInv, IdentityTypeOK
<1>. QED  BY <1>1, <1>2, <1>5, <1>6, AcceptKeepsLease, LocalStepKeepsInv

LEMMA FetchKeepsInv ==
  ASSUME IdentityInv, NEW m \in Machine, FetchCredential(m)
  PROVE  IdentityInv'
<1>. DEFINE token == EnrolledToken(m)
<1>1. /\ token \in enabled /\ owner[token] = enrollment[m].site /\ token.machine = m
      /\ settings' = [settings EXCEPT ![m] = [site |-> enrollment[m].site, token |-> token]]
      /\ package' = [package EXCEPT ![m] = 0]
      /\ UNCHANGED <<file, cloudVars>>
  BY DEF FetchCredential, TokensOf, EnrolledToken
<1>2. [site |-> enrollment[m].site, token |-> token] \in Settings
  BY <1>1 DEF IdentityInv, OwnerInv, Settings
<1>3. /\ settings' \in [Machine -> Settings]
      /\ \A n \in Machine : \/ settings'[n] = settings[n]
                            \/ /\ settings'[n].token.machine \in {n, None}
                               /\ owner[settings'[n].token] = settings'[n].site
  BY <1>1, <1>2 DEF IdentityInv, IdentityTypeOK
<1>4. /\ LeaseInv' /\ site' \in [Site -> SiteRow] /\ writers' \in [Site -> SUBSET Machine]
      /\ package' \in [Machine -> 0..MaxGeneration] /\ file' \in [Machine -> Code \cup {None}]
  BY <1>1, IdentityAssumption DEF IdentityInv, IdentityTypeOK, LeaseInv
<1>. QED  BY <1>1, <1>3, <1>4, LocalStepKeepsInv

LEMMA LapseKeepsInv ==
  ASSUME IdentityInv, NEW s \in Site, Lapse(s)
  PROVE  IdentityInv'
<1>1. /\ site' = [site EXCEPT ![s] = [site[s] EXCEPT !.recent = FALSE, !.holder = None]]
      /\ writers' = [writers EXCEPT ![s] = {}]
      /\ UNCHANGED <<generation, code, enrollment, owner, enabled, localVars>>
  BY DEF Lapse
<1>2. site[s] \in SiteRow
  BY DEF IdentityInv, IdentityTypeOK
<1>3. /\ [site[s] EXCEPT !.recent = FALSE, !.holder = None] \in SiteRow
      /\ [site[s] EXCEPT !.recent = FALSE, !.holder = None].state = site[s].state
  BY <1>2 DEF SiteRow
<1>4. /\ site' \in [Site -> SiteRow] /\ writers' \in [Site -> SUBSET Machine]
      /\ \A r \in Site : site'[r].state = site[r].state
      /\ LeaseInv'
  BY <1>1, <1>3 DEF IdentityInv, IdentityTypeOK, LeaseInv
<1>5. /\ package' \in [Machine -> 0..MaxGeneration] /\ file' \in [Machine -> Code \cup {None}]
      /\ settings' \in [Machine -> Settings]
  BY <1>1 DEF IdentityInv, IdentityTypeOK
<1>. QED  BY <1>1, <1>4, <1>5, LocalStepKeepsInv

LEMMA RegisterKeepsInv ==
  ASSUME IdentityInv, NEW m \in Machine, Register(m)
  PROVE  IdentityInv'
<1>. USE DEF IdentityInv
<1>1. /\ enrollment[m].status \in {"absent", "revoked"}
      /\ enrollment' = [enrollment EXCEPT ![m] = Pending]
      /\ UNCHANGED <<generation, site, code, owner, enabled, writers, localVars>>
  BY DEF Register
<1>2. Pending \in EnrollmentRow
  BY DEF Pending, EnrollmentRow, IdentityTypeOK
<1>3. /\ enrollment'[m].status = "pending" /\ enrollment'[m].generation = generation
      /\ \A n \in Machine \ {m} : enrollment'[n] = enrollment[n]
  BY <1>1 DEF IdentityTypeOK, Pending
<1>4. IdentityTypeOK'
  BY <1>1, <1>2 DEF IdentityTypeOK
<1>5. LeaseInv' /\ OwnerInv'
  BY <1>1 DEF LeaseInv, OwnerInv
<1>6. CredentialIsGranted'
  BY <1>1, <1>3 DEF CredentialIsGranted, Configured
<1>7. RetiredIsClosed' /\ PendingIsCurrent'
  BY <1>1, <1>3 DEF RetiredIsClosed, PendingIsCurrent, TokensOf
<1>. QED  BY <1>4, <1>5, <1>6, <1>7

\* A claim enables the machine's token, or finds it enabled; the machine's
\* settings are left alone or hold that token for the site of the package.
LEMMA ClaimKeepsInv ==
  ASSUME IdentityInv, NEW m \in Machine, Claimed(m),
         package' \in [Machine -> 0..MaxGeneration],
         file' \in [Machine -> Code \cup {None}],
         settings' \in [Machine -> Settings],
         \A n \in Machine : \/ settings'[n] = settings[n]
                            \/ /\ n = m
                               /\ settings'[n].token = Activated(file[m], m)
                               /\ settings'[n].site = code[file[m]].site
  PROVE  IdentityInv'
<1>. DEFINE c == file[m]
            token == Activated(c, m)
<1>. USE DEF IdentityInv
<1>1. /\ c \in Code /\ code[c].state = "issued" /\ Live(code[c].site)
      /\ UNCHANGED <<generation, site, enrollment, writers>>
      /\ FirstClaim(m, c) \/ RetriedClaim(m, c)
  BY DEF Claimed, IdentityTypeOK
<1>2. CASE RetriedClaim(m, c)
  <2>1. /\ UNCHANGED <<generation, code, enrollment, owner, enabled, site, writers>>
        /\ owner[token] = code[c].site /\ token.machine = m
    BY <1>1, <1>2 DEF RetriedClaim, CredentialIsGranted, Activated
  <2>2. LeaseInv' /\ site' \in [Site -> SiteRow] /\ writers' \in [Site -> SUBSET Machine]
    BY <2>1 DEF LeaseInv, IdentityTypeOK
  <2>3. \A n \in Machine : \/ settings'[n] = settings[n]
                            \/ /\ settings'[n].token.machine \in {n, None}
                               /\ owner[settings'[n].token] = settings'[n].site
    BY <2>1
  <2>. QED  BY <2>1, <2>2, <2>3, LocalStepKeepsInv
<1>3. CASE FirstClaim(m, c)
  <2>1. code[c].claimedBy = None /\ code[c].site \in Site /\ token \in Token
    BY <1>1, <1>3, TokensAreTyped DEF FirstClaim, OwnerInv
  <2>2. /\ code' = [code EXCEPT ![c] = [code[c] EXCEPT !.claimedBy = m]]
        /\ owner' = [owner EXCEPT ![token] = code[c].site]
        /\ enabled' = enabled \cup {token}
    BY <1>3 DEF FirstClaim
  <2>3. /\ [code[c] EXCEPT !.claimedBy = m] \in CodeRow
        /\ [code[c] EXCEPT !.claimedBy = m].claimedBy = m
        /\ [code[c] EXCEPT !.claimedBy = m].site = code[c].site
        /\ [code[c] EXCEPT !.claimedBy = m].state = code[c].state
    <3>1. code[c] \in CodeRow
      BY <1>1 DEF IdentityTypeOK
    <3>. QED  BY <3>1 DEF CodeRow
  <2>4. /\ code' \in [Code -> CodeRow]
        /\ \A d \in Code : /\ code'[d].site = code[d].site /\ code'[d].state = code[d].state
                            /\ code'[d].claimedBy = IF d = c THEN m ELSE code[d].claimedBy
    BY <1>1, <2>2, <2>3 DEF IdentityTypeOK
  <2>5. owner'[token] = code[c].site /\ \A t \in Token \ {token} : owner'[t] = owner[t]
    BY <2>1, <2>2 DEF IdentityTypeOK
  <2>6. IdentityTypeOK'
    BY <1>1, <2>1, <2>2, <2>4 DEF IdentityTypeOK
  <2>7. LeaseInv' /\ PendingIsCurrent'
    BY <1>1 DEF LeaseInv, PendingIsCurrent
  <2>8. owner[token] = None
    BY <1>1, <2>1, IdentityAssumption DEF OwnerInv
  <2>9. OwnerInv'
    <3>1. \A t \in enabled' : t \in Token /\ owner'[t] \in Site
      BY <2>1, <2>2, <2>5 DEF OwnerInv
    <3>2. ASSUME NEW d \in Code, NEW n \in Machine, owner'[Activated(d, n)] # None
          PROVE  code'[d].claimedBy = n /\ owner'[Activated(d, n)] = code'[d].site
      <4>1. CASE d = c /\ n = m
        BY <2>4, <2>5, <4>1
      <4>2. CASE ~(d = c /\ n = m)
        <5>1. owner'[Activated(d, n)] = owner[Activated(d, n)]
          BY <1>1, <2>5, <4>2, TokensAreTyped, TokensDiffer
        <5>2. code[d].claimedBy = n /\ owner[Activated(d, n)] = code[d].site
          BY <3>2, <5>1 DEF OwnerInv
        <5>. QED  BY <2>1, <2>4, <5>1, <5>2, IdentityAssumption
      <4>. QED  BY <4>1, <4>2
    <3>3. \A d \in Code : IF code'[d].state = "unissued" THEN code'[d].claimedBy = None
                          ELSE code'[d].site \in Site
      BY <1>1, <2>4 DEF OwnerInv
    <3>. QED  BY <3>1, <3>2, <3>3 DEF OwnerInv
  <2>10. CredentialIsGranted'
    <3>1. \A n \in Machine : EnrolledToken(n) \in enabled' =>
            /\ enrollment'[n].status = "approved"
            /\ owner'[EnrolledToken(n)] = enrollment'[n].site
      BY <1>1, <2>2, <2>5, TokensAreTyped, TokensDiffer DEF CredentialIsGranted
    <3>2. \A n \in Machine, d \in Code : Activated(d, n) \in enabled' =>
            code'[d].claimedBy = n /\ owner'[Activated(d, n)] = code'[d].site
      <4>1. \A n \in Machine, d \in Code : Activated(d, n) \in enabled' =>
              owner'[Activated(d, n)] # None
        BY <2>9, IdentityAssumption DEF OwnerInv
      <4>. QED  BY <2>9, <4>1 DEF OwnerInv
    <3>3. \A n \in Machine : Configured(n) => settings[n].token \in Token /\ settings[n].site # None
      BY IdentityAssumption DEF IdentityTypeOK, Settings, Configured
    <3>4. ASSUME NEW n \in Machine, Configured(n)'
          PROVE  /\ settings'[n].token.machine \in {n, None}
                 /\ owner'[settings'[n].token] = settings'[n].site
      <4>1. CASE settings'[n] = settings[n]
        <5>1. Configured(n)
          BY <3>4, <4>1 DEF Configured
        <5>. QED  BY <2>5, <2>8, <3>3, <4>1, <5>1 DEF CredentialIsGranted
      <4>2. CASE /\ n = m
                 /\ settings'[n].token = token
                 /\ settings'[n].site = code[c].site
        BY <2>5, <4>2 DEF Activated
      <4>. QED  BY <4>1, <4>2
    <3>. QED  BY <3>1, <3>2, <3>4 DEF CredentialIsGranted
  <2>11. RetiredIsClosed'
    BY <1>1, <2>1, <2>2, <2>5, TokensAreTyped DEF RetiredIsClosed, TokensOf, Live, OwnerInv
  <2>. QED  BY <2>6, <2>7, <2>9, <2>10, <2>11
<1>. QED  BY <1>1, <1>2, <1>3

LEMMA ActivateKeepsInv ==
  ASSUME IdentityInv, NEW m \in Machine, Activate(m)
  PROVE  IdentityInv'
<1>. DEFINE c == file[m]
            stored == [site |-> code[c].site, token |-> Activated(c, m)]
<1>1. /\ Claimed(m) /\ UNCHANGED package
      /\ settings' = [settings EXCEPT ![m] = stored]
      /\ file' = [file EXCEPT ![m] = None]
  BY DEF Activate, StoreActivated
<1>2. c \in Code /\ code[c].state = "issued"
  BY <1>1 DEF Claimed, IdentityInv, IdentityTypeOK
<1>3. stored \in Settings
  BY <1>2, TokensAreTyped DEF IdentityInv, OwnerInv, Settings
<1>4. /\ package' \in [Machine -> 0..MaxGeneration]
      /\ file' \in [Machine -> Code \cup {None}]
      /\ settings' \in [Machine -> Settings]
  BY <1>1, <1>3 DEF IdentityInv, IdentityTypeOK
<1>5. \A n \in Machine : \/ settings'[n] = settings[n]
                          \/ /\ n = m
                             /\ settings'[n].token = Activated(c, m)
                             /\ settings'[n].site = code[c].site
  BY <1>1 DEF IdentityInv, IdentityTypeOK
<1>. QED  BY <1>1, <1>4, <1>5, ClaimKeepsInv

LEMMA ActivateLostKeepsInv ==
  ASSUME IdentityInv, NEW m \in Machine, ActivateLost(m)
  PROVE  IdentityInv'
<1>1. /\ Claimed(m) /\ UNCHANGED localVars
  BY DEF ActivateLost
<1>2. /\ package' \in [Machine -> 0..MaxGeneration]
      /\ file' \in [Machine -> Code \cup {None}]
      /\ settings' \in [Machine -> Settings]
      /\ \A n \in Machine : settings'[n] = settings[n]
  BY <1>1 DEF IdentityInv, IdentityTypeOK
<1>. QED  BY <1>1, <1>2, ClaimKeepsInv

--------------------------------------------------------------------------------
(* The step, and what follows.                                                  *)

LEMMA IdentityStepInv == IdentityInv /\ [IdentityNext]_identityVars => IdentityInv'
<1>. SUFFICES ASSUME IdentityInv, [IdentityNext]_identityVars
              PROVE  IdentityInv'
  OBVIOUS
<1>1. CASE AdminStep
  <2>1. ASSUME NEW s \in Site, CreateCollector(s) PROVE IdentityInv'
    BY <2>1, CreateCollectorKeepsInv
  <2>2. ASSUME NEW s \in Site, Retire(s) PROVE IdentityInv'
    BY <2>2, RetireKeepsInv
  <2>3. ASSUME NEW s \in Site, NEW c \in Code, Reissue(s, c) PROVE IdentityInv'
    BY <2>3, ReissueKeepsInv
  <2>4. ASSUME NEW s \in Site, NEW p \in Provisioned, Provision(s, p) PROVE IdentityInv'
    BY <2>4, ProvisionKeepsInv
  <2>5. ASSUME NEW s \in Site, NEW m \in Machine, Approve(m, s) PROVE IdentityInv'
    BY <2>5, ApproveKeepsInv
  <2>6. ASSUME NEW m \in Machine, Reject(m) PROVE IdentityInv'
    BY <2>6, RejectKeepsInv
  <2>7. ASSUME NEW c \in Code, BuildPackage(c) PROVE IdentityInv'
    BY <2>7, CodeOnlyKeepsInv
  <2>8. ASSUME Rotate PROVE IdentityInv'
    BY <2>8, RotateKeepsInv
  <2>. QED  BY <1>1, <2>1, <2>2, <2>3, <2>4, <2>5, <2>6, <2>7, <2>8 DEF AdminStep
<1>2. ASSUME NEW m \in Machine, MachineStep(m) PROVE IdentityInv'
  <2>1. CASE \/ \E c \in Code : InstallActivation(m, c)
             \/ \E g \in 1..MaxGeneration : InstallEnrollment(m, g)
    BY <2>1, InstallKeepsInv
  <2>2. CASE Activate(m)
    BY <2>2, ActivateKeepsInv
  <2>3. CASE ActivateLost(m)
    BY <2>3, ActivateLostKeepsInv
  <2>4. CASE Register(m)
    BY <2>4, RegisterKeepsInv
  <2>5. CASE FetchCredential(m)
    BY <2>5, FetchKeepsInv
  <2>6. CASE Contact(m)
    BY <2>6, ContactKeepsInv
  <2>7. ASSUME NEW p \in Provisioned, Configure(m, p) PROVE IdentityInv'
    BY <2>7, ConfigureKeepsInv
  <2>. QED  BY <1>2, <2>1, <2>2, <2>3, <2>4, <2>5, <2>6, <2>7 DEF MachineStep
<1>3. CASE TimeStep
  <2>1. ASSUME NEW s \in Site, Lapse(s) PROVE IdentityInv'
    BY <2>1, LapseKeepsInv
  <2>2. ASSUME NEW c \in Code, ExpireCode(c) PROVE IdentityInv'
    BY <2>2, CodeOnlyKeepsInv
  <2>. QED  BY <1>3, <2>1, <2>2 DEF TimeStep
<1>4. CASE UNCHANGED identityVars
  BY <1>4 DEF identityVars, IdentityInv, IdentityTypeOK, LeaseInv, OwnerInv,
     CredentialIsGranted, Configured, RetiredIsClosed, TokensOf, PendingIsCurrent
<1>. QED  BY <1>1, <1>2, <1>3, <1>4 DEF IdentityNext

\* The strengthened invariant of packages, credentials and leases.
THEOREM IdentityInvariant == IdentitySpec => []IdentityInv
BY IdentityInitInv, IdentityStepInv, PTL DEF IdentitySpec

\* Rows, credentials and the machines' files keep their shape.
THEOREM IdentityTypeCorrect == IdentitySpec => []IdentityTypeOK
<1>1. IdentityInv => IdentityTypeOK
  BY DEF IdentityInv
<1>. QED  BY <1>1, IdentityInvariant, PTL

\* Within one lease only one machine is accepted for a site, whatever the two
\* of them hold (edge_identity).
THEOREM OneWriter == IdentitySpec => []OneWriterPerLease
<1>1. IdentityInv => OneWriterPerLease
  BY DEF IdentityInv, LeaseInv, OneWriterPerLease
<1>. QED  BY <1>1, IdentityInvariant, PTL

\* Every upload credential was granted, to the machine and the site it is used
\* for (approval, claim and provisioning in cloud_api.py and provision_edge.py).
THEOREM CredentialsAreGranted == IdentitySpec => []CredentialIsGranted
<1>1. IdentityInv => CredentialIsGranted
  BY DEF IdentityInv
<1>. QED  BY <1>1, IdentityInvariant, PTL

\* A retired site keeps neither an approved machine nor a credential of one
\* (retire_collector).
THEOREM RetiredStaysClosed == IdentitySpec => []RetiredIsClosed
<1>1. IdentityInv => RetiredIsClosed
  BY DEF IdentityInv
<1>. QED  BY <1>1, IdentityInvariant, PTL

\* No application made with a replaced package waits for approval
\* (rotate_customer_enrollment, register_collector_enrollment).
THEOREM WaitingIsCurrent == IdentitySpec => []PendingIsCurrent
<1>1. IdentityInv => PendingIsCurrent
  BY DEF IdentityInv
<1>. QED  BY <1>1, IdentityInvariant, PTL

--------------------------------------------------------------------------------
(* The contract of access to a site.                                            *)

\* The machine in active_collector_instance was heard of within the lease.
HolderIsRecent == \A s \in Site : site[s].holder # None => site[s].recent

AccessInv == IdentityInv /\ HolderIsRecent

\* What every action has to be shown to be for the contract.
AccessGoes == Access!Next \/ UNCHANGED Access!accessVars

LEMMA HolderStaysRecent ==
  ASSUME IdentityTypeOK, HolderIsRecent, [IdentityNext]_identityVars
  PROVE  HolderIsRecent'
<1>1. CASE UNCHANGED site
  BY <1>1 DEF HolderIsRecent
<1>2. ASSUME NEW s \in Site,
             \E r \in {[site[s] EXCEPT !.state = "live"], [site[s] EXCEPT !.state = "retired"]} :
               site' = [site EXCEPT ![s] = r]
      PROVE  HolderIsRecent'
  BY <1>2 DEF HolderIsRecent, IdentityTypeOK, SiteRow
<1>3. ASSUME NEW s \in Site, NEW p \in Provisioned, Provision(s, p) PROVE HolderIsRecent'
  BY <1>3 DEF Provision, HolderIsRecent, IdentityTypeOK, SiteRow
<1>4. ASSUME NEW s \in Site, Lapse(s) PROVE HolderIsRecent'
  BY <1>4 DEF Lapse, HolderIsRecent, IdentityTypeOK, SiteRow
<1>5. ASSUME NEW m \in Machine, NEW t, Accept(m, t) PROVE HolderIsRecent'
  BY <1>5 DEF Accept, HolderIsRecent, IdentityTypeOK, SiteRow
<1>6. CASE AdminStep
  BY <1>1, <1>2, <1>3, <1>6 DEF AdminStep, CreateCollector, Retire, Reissue, Approve, Reject,
     BuildPackage, Rotate
<1>7. ASSUME NEW m \in Machine, MachineStep(m) PROVE HolderIsRecent'
  BY <1>1, <1>5, <1>7 DEF MachineStep, InstallActivation, InstallEnrollment, Activate,
     ActivateLost, Claimed, Register, FetchCredential, Contact, Configure
<1>8. CASE TimeStep
  BY <1>1, <1>4, <1>8 DEF TimeStep, ExpireCode
<1>9. CASE UNCHANGED identityVars
  BY <1>1, <1>9 DEF identityVars
<1>. QED  BY <1>6, <1>7, <1>8, <1>9 DEF IdentityNext

\* The contract sees nothing but the sites and the credentials.
LEMMA AccessUnseen ==
  ASSUME UNCHANGED <<site, owner, enabled>>
  PROVE  AccessGoes
BY DEF AccessGoes, Access!accessVars, PhaseView, SpeakerView, KeyView, UsedKeys

LEMMA ViewsUnchanged ==
  /\ UNCHANGED <<owner, enabled>> => KeyView' = KeyView /\ UsedKeys' = UsedKeys
  /\ (\A s \in Site : site'[s].holder = site[s].holder) => SpeakerView' = SpeakerView
  /\ (\A s \in Site : site'[s].state = site[s].state) => PhaseView' = PhaseView
BY DEF KeyView, UsedKeys, SpeakerView, PhaseView

\* A new credential is a key that nobody had before.
LEMMA InsertMaps ==
  ASSUME IdentityInv, NEW s \in Site, NEW t \in Token, owner[t] = None,
         owner' = [owner EXCEPT ![t] = s], enabled' = enabled \cup {t}
  PROVE  /\ t \in Token \ UsedKeys
         /\ KeyView' = [KeyView EXCEPT ![s] = @ \cup {t}]
         /\ UsedKeys' = UsedKeys \cup {t}
<1>1. t \notin enabled /\ s # None
  BY IdentityAssumption DEF IdentityInv, OwnerInv
<1>2. owner'[t] = s /\ \A u \in Token \ {t} : owner'[u] = owner[u]
  BY DEF IdentityInv, IdentityTypeOK
<1>3. UsedKeys' = UsedKeys \cup {t}
  BY <1>1, <1>2 DEF UsedKeys
<1>4. enabled \in SUBSET Token
  BY DEF IdentityInv, IdentityTypeOK
<1>5. ASSUME NEW r \in Site
      PROVE  KeyView'[r] = IF r = s THEN KeyView[r] \cup {t} ELSE KeyView[r]
  BY <1>1, <1>2, <1>4 DEF KeyView
<1>. QED  BY <1>3, <1>5 DEF KeyView, UsedKeys

LEMMA CreateMaps ==
  ASSUME IdentityInv, NEW s \in Site, CreateCollector(s)
  PROVE  AccessGoes
<1>1. /\ site[s].state = "unused" /\ UNCHANGED <<owner, enabled>>
      /\ \A r \in Site : /\ site'[r].holder = site[r].holder
                         /\ site'[r].state = IF r = s THEN "live" ELSE site[r].state
  BY DEF CreateCollector, IdentityInv, IdentityTypeOK, SiteRow
<1>2. PhaseView[s] = "unused" /\ PhaseView' = [PhaseView EXCEPT ![s] = "open"]
  BY <1>1 DEF PhaseView
<1>3. Access!Open(s)
  BY <1>1, <1>2, ViewsUnchanged DEF Access!Open
<1>. QED  BY <1>3 DEF AccessGoes, Access!Next

LEMMA ApproveMaps ==
  ASSUME IdentityInv, NEW m \in Machine, NEW s \in Site, Approve(m, s)
  PROVE  AccessGoes
<1>. DEFINE t == EnrolledToken(m)
<1>1. /\ site[s].state = "unused" /\ t \in Token /\ owner[t] = None
      /\ owner' = [owner EXCEPT ![t] = s] /\ enabled' = enabled \cup {t}
      /\ \A r \in Site : /\ site'[r].holder = site[r].holder
                         /\ site'[r].state = IF r = s THEN "live" ELSE site[r].state
  BY TokensAreTyped DEF Approve, IdentityInv, IdentityTypeOK, SiteRow
<1>2. PhaseView[s] = "unused" /\ PhaseView' = [PhaseView EXCEPT ![s] = "open"]
  BY <1>1 DEF PhaseView
<1>3. Access!Issue(s, t)
  BY <1>1, <1>2, ViewsUnchanged, InsertMaps DEF Access!Issue
<1>. QED  BY <1>1, <1>3 DEF AccessGoes, Access!Next

LEMMA ClaimMaps ==
  ASSUME IdentityInv, NEW m \in Machine, Claimed(m)
  PROVE  AccessGoes
<1>. DEFINE c == file[m]
            s == code[c].site
            t == Activated(c, m)
<1>1. /\ c \in Code /\ s \in Site /\ Live(s) /\ UNCHANGED site
      /\ FirstClaim(m, c) \/ RetriedClaim(m, c)
  BY DEF Claimed, IdentityInv, IdentityTypeOK, OwnerInv
<1>2. CASE RetriedClaim(m, c)
  BY <1>1, <1>2, AccessUnseen DEF RetriedClaim
<1>3. CASE FirstClaim(m, c)
  <2>1. /\ t \in Token /\ code[c].claimedBy = None
        /\ owner' = [owner EXCEPT ![t] = s] /\ enabled' = enabled \cup {t}
    BY <1>1, <1>3, TokensAreTyped DEF FirstClaim
  <2>2. owner[t] = None
    BY <1>1, <2>1, IdentityAssumption DEF IdentityInv, OwnerInv
  <2>3. PhaseView[s] = "open" /\ PhaseView' = [PhaseView EXCEPT ![s] = "open"]
    BY <1>1 DEF PhaseView, Live
  <2>4. Access!Issue(s, t)
    BY <1>1, <2>1, <2>2, <2>3, ViewsUnchanged, InsertMaps DEF Access!Issue
  <2>. QED  BY <1>1, <2>1, <2>4 DEF AccessGoes, Access!Next
<1>. QED  BY <1>1, <1>2, <1>3

LEMMA ProvisionMaps ==
  ASSUME IdentityInv, NEW s \in Site, NEW p \in Provisioned, Provision(s, p)
  PROVE  AccessGoes
<1>. DEFINE t == ProvisionedToken(p)
<1>1. /\ t \in Token /\ owner[t] = None
      /\ owner' = [owner EXCEPT ![t] = s]
      /\ enabled' = (enabled \ TokensOf(s)) \cup {t}
      /\ \A r \in Site : /\ site'[r].holder = IF r = s THEN None ELSE site[r].holder
                         /\ site'[r].state = IF r = s /\ site[r].state = "unused" THEN "live"
                                             ELSE site[r].state
  BY TokensAreTyped DEF Provision, IdentityInv, IdentityTypeOK, SiteRow
<1>2. /\ t \notin enabled /\ s # None /\ enabled \in SUBSET Token
      /\ owner'[t] = s /\ \A u \in Token \ {t} : owner'[u] = owner[u]
  BY <1>1, IdentityAssumption DEF IdentityInv, IdentityTypeOK, OwnerInv
<1>3. UsedKeys' = UsedKeys \cup {t} /\ t \in Token \ UsedKeys
  BY <1>1, <1>2 DEF UsedKeys
<1>4. KeyView' = [KeyView EXCEPT ![s] = {t}]
  <2>1. \A r \in Site : KeyView'[r] = IF r = s THEN {t} ELSE KeyView[r]
    BY <1>1, <1>2 DEF KeyView, TokensOf
  <2>. QED  BY <2>1 DEF KeyView
<1>5. SpeakerView' = [SpeakerView EXCEPT ![s] = None]
  BY <1>1 DEF SpeakerView
<1>6. PhaseView' = [PhaseView EXCEPT ![s] = IF @ = "unused" THEN "open" ELSE @]
  <2>1. site[s].state \in {"unused", "live", "retired"}
    BY DEF IdentityInv, IdentityTypeOK, SiteRow
  <2>. QED  BY <1>1, <2>1 DEF PhaseView
<1>7. Access!Replace(s, t)
  BY <1>3, <1>4, <1>5, <1>6 DEF Access!Replace
<1>. QED  BY <1>1, <1>7 DEF AccessGoes, Access!Next

\* Nobody speaks for a site that was silent for a lease.
LEMMA RetireMaps ==
  ASSUME AccessInv, NEW s \in Site, Retire(s)
  PROVE  AccessGoes
<1>1. /\ site[s].state = "live" /\ ~site[s].recent /\ UNCHANGED owner
      /\ enabled' = enabled \ TokensOf(s) /\ enabled \in SUBSET Token
      /\ \A r \in Site : /\ site'[r].holder = site[r].holder
                         /\ site'[r].state = IF r = s THEN "retired" ELSE site[r].state
  BY DEF Retire, Live, AccessInv, IdentityInv, IdentityTypeOK, SiteRow
<1>2. SpeakerView[s] = None /\ SpeakerView' = SpeakerView
  BY <1>1 DEF SpeakerView, AccessInv, HolderIsRecent
<1>3. PhaseView[s] = "open" /\ PhaseView' = [PhaseView EXCEPT ![s] = "closed"]
  BY <1>1 DEF PhaseView
<1>4. KeyView' = [KeyView EXCEPT ![s] = {}] /\ UsedKeys' = UsedKeys
  BY <1>1 DEF KeyView, UsedKeys, TokensOf
<1>5. Access!Close(s)
  BY <1>2, <1>3, <1>4 DEF Access!Close
<1>. QED  BY <1>5 DEF AccessGoes, Access!Next

LEMMA AcceptMaps ==
  ASSUME IdentityInv, NEW m \in Machine, NEW t, Accept(m, t), UNCHANGED <<owner, enabled>>
  PROVE  AccessGoes
<1>. DEFINE s == owner[t]
<1>1. /\ t \in enabled /\ s \in Site /\ site[s].state = "live" /\ site[s].holder \in {None, m}
      /\ \A r \in Site : /\ site'[r].holder = IF r = s THEN m ELSE site[r].holder
                         /\ site'[r].state = site[r].state
  BY DEF Accept, LeaseFree, Live, IdentityInv, IdentityTypeOK, SiteRow, OwnerInv
<1>2. PhaseView[s] = "open" /\ KeyView[s] # {} /\ SpeakerView[s] \in {None, m}
  BY <1>1 DEF PhaseView, KeyView, SpeakerView
<1>3. SpeakerView' = [SpeakerView EXCEPT ![s] = m]
  BY <1>1 DEF SpeakerView
<1>4. Access!Speak(s, m)
  BY <1>1, <1>2, <1>3, ViewsUnchanged DEF Access!Speak
<1>. QED  BY <1>1, <1>4 DEF AccessGoes, Access!Next

LEMMA LapseMaps ==
  ASSUME IdentityInv, NEW s \in Site, Lapse(s)
  PROVE  AccessGoes
<1>1. /\ UNCHANGED <<owner, enabled>>
      /\ \A r \in Site : /\ site'[r].holder = IF r = s THEN None ELSE site[r].holder
                         /\ site'[r].state = site[r].state
  BY DEF Lapse, IdentityInv, IdentityTypeOK, SiteRow
<1>2. SpeakerView' = [SpeakerView EXCEPT ![s] = None]
  BY <1>1 DEF SpeakerView
<1>3. Access!Stop(s)
  BY <1>1, <1>2, ViewsUnchanged DEF Access!Stop
<1>. QED  BY <1>3 DEF AccessGoes, Access!Next

LEMMA IdentityStepMaps ==
  ASSUME AccessInv, [IdentityNext]_identityVars
  PROVE  AccessGoes
<1>. USE DEF AccessInv
<1>1. CASE AdminStep
  <2>1. CASE \/ Rotate
             \/ \E c \in Code : BuildPackage(c)
             \/ \E s \in Site, c \in Code : Reissue(s, c)
             \/ \E m \in Machine : Reject(m)
    BY <2>1, AccessUnseen DEF Rotate, BuildPackage, Reissue, Reject
  <2>2. CASE \E s \in Site : CreateCollector(s)
    BY <2>2, CreateMaps
  <2>3. CASE \E s \in Site : Retire(s)
    BY <2>3, RetireMaps
  <2>4. CASE \E s \in Site, p \in Provisioned : Provision(s, p)
    BY <2>4, ProvisionMaps
  <2>5. CASE \E s \in Site, m \in Machine : Approve(m, s)
    BY <2>5, ApproveMaps
  <2>. QED  BY <1>1, <2>1, <2>2, <2>3, <2>4, <2>5 DEF AdminStep
<1>2. ASSUME NEW m \in Machine, MachineStep(m) PROVE AccessGoes
  <2>1. CASE \/ \E c \in Code : InstallActivation(m, c)
             \/ \E g \in 1..MaxGeneration : InstallEnrollment(m, g)
             \/ Register(m) \/ FetchCredential(m)
    BY <2>1, AccessUnseen DEF InstallActivation, InstallEnrollment, Register, FetchCredential
  <2>2. CASE Activate(m) \/ ActivateLost(m)
    BY <2>2, ClaimMaps DEF Activate, ActivateLost
  <2>3. CASE Contact(m)
    BY <2>3, AcceptMaps DEF Contact
  <2>4. CASE \E p \in Provisioned : Configure(m, p)
    BY <2>4, AcceptMaps DEF Configure
  <2>. QED  BY <1>2, <2>1, <2>2, <2>3, <2>4 DEF MachineStep
<1>3. CASE TimeStep
  BY <1>3, LapseMaps, AccessUnseen DEF TimeStep, ExpireCode
<1>4. CASE UNCHANGED identityVars
  BY <1>4, AccessUnseen DEF identityVars
<1>. QED  BY <1>1, <1>2, <1>3, <1>4 DEF IdentityNext

\* Every behaviour of the administrators' handlers, the provisioning command and the
\* machines is one of the contract of access: one speaker per site, with a key of it
\* that was never another's, and nobody once it is retired (edge_identity,
\* retire_collector, claim_collector_activation, provision_edge.py).
THEOREM IdentityRefinesAccess == IdentitySpec => ImplementsSiteAccess
<1>1. IdentityInit => Access!Init /\ HolderIsRecent
  BY DEF IdentityInit, Access!Init, HolderIsRecent, PhaseView, SpeakerView, KeyView, UsedKeys
<1>2. IdentityInv /\ HolderIsRecent /\ [IdentityNext]_identityVars => HolderIsRecent'
  BY HolderStaysRecent DEF IdentityInv
<1>3. IdentityInv /\ HolderIsRecent /\ [IdentityNext]_identityVars
        => [Access!Next]_(Access!accessVars)
  BY IdentityStepMaps DEF AccessInv, AccessGoes
<1>. QED
  BY <1>1, <1>2, <1>3, IdentityInvariant, PTL DEF IdentitySpec, ImplementsSiteAccess,
     Access!Spec
================================================================================

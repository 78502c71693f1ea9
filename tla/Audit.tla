-------------------------------- MODULE Audit -------------------------------
(***************************************************************************)
(* Continuous verification (go/internal/audit): what Detect finds in a     *)
(* snapshot of the cluster and of the HR roster, with the device posture   *)
(* that go/internal/jamf reduces the inventory to.  The order in which     *)
(* findings are reported and their wording are left out: a finding is the  *)
(* detector, the user and the role or session it names.                    *)
(***************************************************************************)
EXTENDS AccessPlane, Naturals

CONSTANTS SessionId,
          Address,      \* source IPs
          Serial        \* serial numbers, as ranks in the order Jamf lists them

ASSUME SerialAssumption == Serial \subseteq Nat

Session == [id : SessionId, user : Human, ip : Address]

\* overall is the hardening baseline.  The runner stamps every device with an
\* inventory one hour old, so the staleness limit of a day is never reached.
Device == [serial : Serial, owner : Human, managed : BOOLEAN, overall : BOOLEAN]

IsCompliant(d) == d.managed /\ d.overall

\* PostureMaps: the devices are taken in the order of their serial numbers and
\* the last one of an owner decides.
Posture(devices, h) ==
    LET own == {d \in devices : d.owner = h} IN
    {d \in own : \A e \in own : e.serial <= d.serial}

IsManaged(devices, h)   == \E d \in Posture(devices, h) : d.managed
PassesPosture(devices, h) == \E d \in Posture(devices, h) : IsCompliant(d)

-----------------------------------------------------------------------------
\* c is what Detect reads: the cluster's users, locks and sessions, and the maps
\* active, entitled and known, in which a missing entry reads as not active, no
\* entitlement and no baseline.
Finding(detector, h, what) == [detector |-> detector, user |-> h, what |-> what]

\* Detector 1, for a user the HRIS no longer lists and no lock contains.
AtLarge(c, h) == h \notin c.active /\ h \notin c.locks

OffboardedSessions(c) ==
    {Finding("offboarded-active-session", s.user, s.id) :
        s \in {t \in c.sessions : AtLarge(c, t.user)}}

OffboardedSurvivors(c) ==
    {Finding("offboarded-identity-survives", h, h) :
        h \in {x \in Human : c.users[x].exists /\ AtLarge(c, x)}}

\* Detector 2.
PrivilegeEscalations(c) ==
    UNION {{Finding("privilege-escalation", h, r) :
               r \in c.users[h].roles \ c.entitled[h]} : h \in Human}

\* Detector 3: a user with no baseline is skipped.
NewGeoAccess(c) ==
    {Finding("new-geo-access", s.user, s.id) :
        s \in {t \in c.sessions : /\ c.known[t.user] # {}
                                  /\ t.ip \notin c.known[t.user]}}

\* Detector 4: skipped when the inventory is empty; an unmanaged device is not
\* reported as non-compliant as well.
UntrustedDevices(c) ==
    IF c.devices = {} THEN {}
    ELSE {Finding(IF IsManaged(c.devices, s.user) THEN "noncompliant-device"
                                                  ELSE "unmanaged-device",
                  s.user, s.id) :
             s \in {t \in c.sessions : ~PassesPosture(c.devices, t.user)}}

IdentityFindings(c) ==
    OffboardedSessions(c) \cup OffboardedSurvivors(c)
        \cup PrivilegeEscalations(c) \cup NewGeoAccess(c)

Detect(c) == IdentityFindings(c) \cup UntrustedDevices(c)

=============================================================================

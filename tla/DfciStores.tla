----------------------------- MODULE DfciStores -----------------------------
(***************************************************************************)
(* What DfciPkg keeps about who may manage a device, and how one packet    *)
(* changes it: the certificate store of IdentityAndAuthManager, the        *)
(* permission store of DfciSettingPermissionLib and the version record of  *)
(* SettingsManager.  DfciManager applies these operators to the mailboxes. *)
(*                                                                         *)
(* A certificate is a model value and a signature is the certificate that  *)
(* made it.  USER1 and USER2 behave as USER does and are left out.  The    *)
(* device opted in to zero touch, so the ZTD certificate is always         *)
(* enrolled; the platform has no list of unsigned permissions.             *)
(***************************************************************************)
EXTENDS Integers, FiniteSets

CONSTANTS Certs,    \* certificates of owners and users
          ZtdCert,  \* the zero touch certificate
          NoCert    \* no certificate

ASSUME CertAssumption == ZtdCert \notin Certs /\ NoCert \notin Certs \cup {ZtdCert}

Keys == {"OWNER", "USER"}                       \* identities of the store
Identities == Keys \cup {"LOCAL", "ZTD"}
NoIdentity == "INVALID"

\* DFCI_PRIVATE_SETTING_ID__*: the settings whose permissions guard the keys.
KeySetting(id) == IF id = "OWNER" THEN "OWNER_KEY" ELSE "USER_KEY"
Settings == {"OWNER_KEY", "USER_KEY", "ZTD_KEY", "ZTD_UNENROLL", "ZTD_RECOVERY",
             "DFCI_RECOVERY"}

Entry(pmask, dmask) == [PMask |-> pmask, DMask |-> dmask]

-----------------------------------------------------------------------------
(* The certificate store.                                                  *)

Stores == [Keys -> Certs \cup {NoCert}]
NoKeys == [id \in Keys |-> NoCert]

Enrolled(certs) == {id \in Keys : certs[id] # NoCert}

\* The rule LoadProvisionedData ends with, broken.
OwnerMissing(populated) == "USER" \in populated /\ "OWNER" \notin populated

\* AuthWithSignedData: the identity whose certificate made the signature.
AuthWithSignedData(certs, signer) ==
  CASE signer = ZtdCert -> "ZTD"
    [] signer \in Certs /\ certs["OWNER"] = signer -> "OWNER"
    [] signer \in Certs /\ certs["OWNER"] # signer /\ certs["USER"] = signer -> "USER"
    [] OTHER -> NoIdentity

\* ApplyProvisionData: put the certificate in place of the old one, or drop it.
ApplyProvisionData(store, id, cert) ==
  [Certs |-> [store.Certs EXCEPT ![id] = cert],
   PopulatedIdentities |->
     (store.PopulatedIdentities \ IF store.Certs[id] # NoCert THEN {id} ELSE {})
       \cup IF cert # NoCert THEN {id} ELSE {}]

\* Mutation of LoadProvisionedData: certificates in memory are not freed first.
LoadOverCerts(store, var) ==
  [Certs |-> [id \in Keys |-> IF var[id] # NoCert THEN var[id] ELSE store.Certs[id]],
   PopulatedIdentities |-> store.PopulatedIdentities \cup Enrolled(var)]

\* What LoadProvisionedData makes of the variable: bits are set and never
\* cleared, and user keys without an owner are refused.
LoadProvisionedData(store, var) ==
  LET populated == store.PopulatedIdentities \cup Enrolled(var)
  IN  [Certs |-> IF OwnerMissing(populated) THEN [var EXCEPT !["USER"] = NoCert] ELSE var,
       PopulatedIdentities |-> populated]

\* InitializeProvisionedData, in memory.
InitialStore == [Certs |-> NoKeys, PopulatedIdentities |-> {}]

-----------------------------------------------------------------------------
(* The permission store: entries of some settings, a default for the rest. *)

\* InitPermStore and AddRequiredPermissions.
InitPermStore ==
  [Version |-> 0, Lsv |-> 0, Modified |-> TRUE,
   DefaultPMask |-> {"LOCAL"}, DefaultDMask |-> {"OWNER"},
   Entries |-> [s \in {"OWNER_KEY", "ZTD_KEY", "ZTD_UNENROLL", "ZTD_RECOVERY"} |->
                  CASE s = "OWNER_KEY" -> Entry({"LOCAL", "ZTD"}, {"OWNER"})
                    [] s = "ZTD_KEY"   -> Entry({"LOCAL"}, {})
                    [] OTHER           -> Entry({}, {})]]

\* AddRequiredPermissionEntry for every entry of new.
AddEntries(perm, new) ==
  [perm EXCEPT !.Entries = [s \in DOMAIN new \cup DOMAIN perm.Entries |->
                              IF s \in DOMAIN new THEN new[s] ELSE perm.Entries[s]]]

\* QueryPermission, and the mask HasWritePermissions tests for a setting in no group.
QueryPermission(perm, s) ==
  IF s \in DOMAIN perm.Entries THEN perm.Entries[s].PMask ELSE perm.DefaultPMask

\* HasUnenrollPermission: the owner key, recovery by the owner, recovery by ZTD.
HasUnenrollPermission(perm, who) ==
  \E s \in {"OWNER_KEY", "DFCI_RECOVERY", "ZTD_RECOVERY"} : who \in QueryPermission(perm, s)

\* IdentityChange: who enrolled a certificate for id.  The store in memory only.
IdentityChange(perm, who, id) ==
  LET owner == IF id = "OWNER"
               THEN AddEntries(perm, [s \in {"ZTD_KEY"} |-> Entry({}, {})]) ELSE perm
      ztd == [s \in {"ZTD_RECOVERY", "ZTD_UNENROLL", "DFCI_RECOVERY"} |->
                IF s = "DFCI_RECOVERY" THEN Entry({}, {}) ELSE Entry({"ZTD"}, {})]
  IN  IF who = "ZTD" THEN AddEntries(owner, ztd) ELSE owner

\* MarkPermissionEntriesForDeletion: entries whose highest delegate is who.
MarkedForDeletion(perm, who) ==
  {s \in DOMAIN perm.Entries :
     LET dmask == perm.Entries[s].DMask
     IN  \/ who = "OWNER" /\ "OWNER" \in dmask
         \/ who = "USER" /\ "USER" \in dmask /\ "OWNER" \notin dmask}

\* The default masks, when the packet brings them and who may delegate.
WithDefaults(perm, who, pkt) ==
  IF pkt.default = {} \/ who \notin perm.DefaultDMask THEN perm
  ELSE LET d == CHOOSE d \in pkt.default : TRUE
       IN  [perm EXCEPT !.DefaultPMask = d.PMask, !.DefaultDMask = d.DMask]

\* Where the walk over the packet's entries may write: who is a delegate.
Writable(perm, who, new) ==
  {s \in DOMAIN new : who \in IF s \in DOMAIN perm.Entries THEN perm.Entries[s].DMask
                                                           ELSE perm.DefaultDMask}

Newest(m, n) == IF m > n THEN m ELSE n

\* Mutation of NewLsv: the packet's own, even when it is lower.
PacketLsv(perm, pkt) == pkt.lsv

\* NewLsv of ApplyPermissionsInXml.
NewLsv(perm, pkt) == Newest(perm.Lsv, pkt.lsv)

\* ApplyPermissionsInXml on a packet that passed the checks; the entries it marks
\* and does not write again go.  ApplyNewPermissionsPacket sets Modified.
ApplyPermissionsInXml(perm, who, pkt) ==
  LET base    == WithDefaults(perm, who, pkt)
      written == Writable(base, who, pkt.entries)
      kept    == DOMAIN perm.Entries \
                   IF pkt.append THEN {} ELSE MarkedForDeletion(perm, who)
  IN  [base EXCEPT
         !.Version = pkt.version, !.Lsv = NewLsv(perm, pkt), !.Modified = TRUE,
         !.Entries = [s \in written \cup kept |->
                        IF s \in written THEN pkt.entries[s] ELSE perm.Entries[s]]]

\* What the variable holds after a save, which is also what LoadFromFlash reads.
InFlash(perm) == [perm EXCEPT !.Modified = FALSE]

\* SaveToFlash has something to write: not a store that came from flash, nor an
\* equal one.
MustSave(perm, var) == perm.Modified /\ InFlash(perm) # var

-----------------------------------------------------------------------------
(* The version record of the settings, _SMID; absent is all zero.          *)

SMID_InitInternalData == [Version |-> 0, LSV |-> 0]

\* Mutation of VersionAccepted: a packet may ask for more than its own version.
VersionOnly(lsv, pkt) == pkt.version >= lsv

\* The version checks of ApplySettings and of ApplyPermissionsInXml.
VersionAccepted(lsv, pkt) == pkt.version >= lsv /\ pkt.lsv <= pkt.version

\* ApplySettings on the record.
ApplySettings(smid, pkt) == [Version |-> pkt.version, LSV |-> Newest(smid.LSV, pkt.lsv)]
=============================================================================

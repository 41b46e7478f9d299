--------------------------- MODULE MCDfciManager ---------------------------
(* Batches for model checking DfciManager: what a management service sends. *)
EXTENDS DfciManager

CONSTANTS c1, c2

Identity(id, cert, signer) ==
  [sid |-> 0, decodes |-> TRUE, id |-> id, cert |-> cert, signer |-> signer]

Permissions(version, lsv, signer, entries) ==
  [sid |-> 0, decodes |-> TRUE, signer |-> signer, version |-> version, lsv |-> lsv,
   append |-> FALSE, default |-> {}, entries |-> entries]

SettingsOf(version, lsv, signer) ==
  [sid |-> 0, decodes |-> TRUE, signer |-> signer, version |-> version, lsv |-> lsv,
   reboot |-> FALSE]

Undecodable(pkt) == [pkt EXCEPT !.decodes = FALSE]

OwnerKeys == [s \in {"OWNER_KEY", "USER_KEY"} |-> Entry({"OWNER"}, {"OWNER"})]
UserKeys  == [s \in {"USER_KEY"} |-> Entry({"USER"}, {"USER"})]
AskUser   == [s \in {"DFCI_RECOVERY"} |-> Entry({"LOCAL"}, {"OWNER"})]

\* Boxes are given in the order of their names.
Enroll == [IDENTITY |-> Identity("OWNER", c1, ZtdCert),
           PERMISSIONS |-> Permissions(2, 2, c1, OwnerKeys),
           SETTINGS |-> SettingsOf(2, 2, c1)]

EnrollBoth == [IDENTITY |-> Identity("OWNER", c1, ZtdCert),
               IDENTITY2 |-> Identity("USER", c2, c1),
               PERMISSIONS |-> Permissions(1, 1, c1, AskUser),
               PERMISSIONS2 |-> Permissions(2, 2, c2, UserKeys)]

Undo == [IDENTITY |-> Identity("OWNER", NoCert, c1),
         IDENTITY2 |-> Identity("USER", NoCert, c1),
         SETTINGS2 |-> SettingsOf(3, 1, c1)]

Mixed == [IDENTITY |-> Identity("USER", c2, c2),
          IDENTITY2 |-> Identity("OWNER", NoCert, c1),
          PERMISSIONS2 |-> Permissions(1, 0, c1, OwnerKeys),
          SETTINGS |-> Undecodable(SettingsOf(1, 1, c1)),
          SETTINGS2 |-> SettingsOf(1, 2, c1)]

BatchesDef == {Enroll, EnrollBoth, Undo, Mixed}
=============================================================================

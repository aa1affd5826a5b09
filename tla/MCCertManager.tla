--------------------------- MODULE MCCertManager ---------------------------
(***************************************************************************)
(* Small instances of CertManager: two jobs that share the work slot, and  *)
(* requests to renew and revoke them.                                      *)
(***************************************************************************)
EXTENDS CertManager, TLC

CONSTANTS k1, k2, d1, d2, i1, i2, c1, c2

MCKeys == {k1, k2}
MCOneKey == {k1}
MCOneDomain == {d1}
MCTwoDomains == {d1, d2}
MCOneIssuer == {i1}
MCTwoIssuers == {i1, i2}
MCNoCaller == {}
MCOneCaller == {c1}
MCTwoCallers == {c1, c2}

MCSymmetry == Permutations(MCKeys) \cup Permutations(MCTwoCallers)

=============================================================================

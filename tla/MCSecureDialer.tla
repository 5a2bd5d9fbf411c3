---------------------------- MODULE MCSecureDialer ----------------------------
EXTENDS SecureDialer, TLC

CONSTANTS d1, d2, pub4, priv4, pub6

MCProcs1 == {d1}
MCProcs2 == {d1, d2}
MCNames == {"api.example.com"}
MCIPs == {pub4, priv4, pub6}
MCV4 == {pub4, priv4}
MCPrivate == {priv4}
MCLiterals == {priv4}
\* A public IPv4 answer, a rebinding to a private one, and an IPv6-first
\* answer whose IPv4 address is the private one.
MCAnswers == {<<pub4>>, <<priv4>>, <<pub6, priv4>>, <<pub6>>}
MCProcSymmetry == Permutations(MCProcs2)

================================================================================

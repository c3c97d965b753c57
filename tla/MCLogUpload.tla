---------------------------- MODULE MCLogUpload ----------------------------
\* Two logs, a file for each, one that is no log, a file for the second log
\* left from an earlier upload.  The key of the empty type is in each log's name.
EXTENDS LogUpload

CONSTANTS k1, k2, k0, f1, f2, g2, other, cwd

MCKeyList == <<k1, k2, k0>>
MCFiles == {f1, f2, g2, other, cwd}
MCKeysOf == [f \in MCFiles |-> CASE f = f1 -> {k1, k0} [] f \in {f2, g2} -> {k2, k0} [] OTHER -> {}]
MCOldFiles == {g2}
MCCwdFiles == {cwd}
=============================================================================

----------------------------- MODULE MCScanCli -----------------------------
(***************************************************************************)
(* ScanCli with two processes, a working directory one level below the     *)
(* root, an account that cannot be built, one that classify panics on, and *)
(* three rulebooks: one refused, one that panics in the matcher.  The      *)
(* report of one account is longer than that of the other.                 *)
(***************************************************************************)
EXTENDS ScanCli

CONSTANTS good, other, broken, taken, sound, refused, malformed

MCAccount == {good, other, broken, taken}
MCRulebook == {sound, refused, malformed}
MCPanics == {<<good, malformed>>, <<other, malformed>>}
MCSize(report) == IF report[1] = good THEN 2 ELSE 1

=============================================================================

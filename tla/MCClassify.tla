----------------------------- MODULE MCClassify -----------------------------
(***************************************************************************)
(* Classification of the small graphs of MCGraphFamilies.                  *)
(***************************************************************************)
EXTENDS Classify

Families == INSTANCE MCGraphFamilies

MCService == {"iam", "s3"}
MCWriteName == {"PutObject", "PutRolePolicy"}
MCEscalationName == {"PutRolePolicy", "PassRole"}
MCReadName == {"GetObject"}

MCGraphs == Families!AllFamilies

=============================================================================

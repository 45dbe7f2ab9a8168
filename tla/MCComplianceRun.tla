--------------------------- MODULE MCComplianceRun ---------------------------
(* Three resources, two of whose names sanitizeFilename maps to one.  One  *)
(* scenario runs for all of them, another has the name of a scenario of a  *)
(* different requirement, the third cannot be tested.                      *)
EXTENDS ComplianceRun, TLC

CONSTANTS r1, r2, r3, s1, s2, s3

MCRequirements == {"AR01", "AR02", "AR03"}
MCPlan == (r1 :> <<s1, s2>>) @@ (r2 :> <<s1>>) @@ (r3 :> <<s3, s1>>)
MCSteps == (s1 :> 2) @@ (s2 :> 1) @@ (s3 :> 2)
MCRequirement == (s1 :> "AR01") @@ (s2 :> "AR02") @@ (s3 :> "AR02")
MCName == (s1 :> "versions") @@ (s2 :> "versions") @@ (s3 :> "mfa")
MCBadge == (s1 :> "none") @@ (s2 :> "NotTested") @@ (s3 :> "NotTestable")
MCReport == (r1 :> "bucket") @@ (r2 :> "my-vm") @@ (r3 :> "my-vm")
=============================================================================

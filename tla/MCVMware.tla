------------------------------ MODULE MCVMware ------------------------------
(* From assessment to migration, in one run: the assessments and plans, and the *)
(* migrations.  They share no variable; a behaviour is one of either, in which  *)
(* the other stays as it begins.                                                *)
EXTENDS MCAssessment, Migration

VARIABLE part     \* whose behaviour it is

VMwareInit ==
    /\ part \in {"assessment", "migration"}
    /\ AssessmentInit /\ (part = "migration" => world = OffPlanned)
    /\ MigrationInit
    /\ part = "assessment" => of = [e \in Runs |-> CHOOSE m \in Migrations : TRUE]

VMwareNext ==
    /\ UNCHANGED part
    /\ \/ part = "assessment" /\ AssessmentNext /\ UNCHANGED migrationVars
       \/ part = "migration" /\ MigrationNext /\ UNCHANGED assessmentVars

VMwareSpec == VMwareInit /\ [][VMwareNext]_<<part, assessmentVars, migrationVars>>
=============================================================================

------------------------------ MODULE MCIntake ------------------------------
(* Two countries that ask for coordinates, one of which requires an        *)
(* identity number and has a section; a partner each; two children of one  *)
(* name.                                                                   *)
EXTENDS Intake

PartnersOfCountries == [p \in Partner |-> CHOOSE c \in Country :
                          (p = OwnPartner) <=> (c \in IdRequired)]
OneName == [c \in Child |-> "name"]
=============================================================================

----------------------------- MODULE MCWorkflows -----------------------------
(* Instance of Workflows: an organisation's admin and a partner's manager, *)
(* one report or transfer, or two records of one child.                    *)
EXTENDS Workflows

MCRow == 1..2
MCMaxOpen == [report |-> 1, transfer |-> 1, case |-> 2]
MCRole == [u \in Staff |-> IF u = "adm" THEN "org_admin" ELSE "partner_manager"]
MCTask == 1..2
=============================================================================

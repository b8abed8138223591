----------------------------- MODULE MCNotices -----------------------------
(* A small instance of Notices for TLC: two projects on one repository, each *)
(* with a deployment of the same commit on the branch of a pull request.     *)
EXTENDS Notices

CONSTANTS site, docs, site1, docs1, c1, fix, p1

ProjectOfAll == [d \in Deployments |-> IF d = docs1 THEN docs ELSE site]
BranchOfAll  == [d \in Deployments |-> fix]
ShaOfAll     == [d \in Deployments |-> c1]
HeadOfAll    == [p \in Pulls |-> fix]
=============================================================================

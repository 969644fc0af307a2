---------------------------- MODULE MCDashboard ----------------------------
EXTENDS Dashboard

MCCategoryOf == [c \in Conn |-> "adv"]
=============================================================================

------------------------------ MODULE MCHttpApi ------------------------------
EXTENDS HttpApi

CONSTANTS admin, alice, p1, t1, s1, ea, na

MCSeeds == {[id |-> admin, email |-> None, name |-> None, role |-> "ADMIN"],
            [id |-> alice, email |-> ea, name |-> na, role |-> "USER"]}
MCTests == {[id |-> t1, problem |-> p1]}
MCSubs  == {[id |-> s1, by |-> admin, problem |-> p1]}
==============================================================================

----------------------------- MODULE MCSession ------------------------------
(***************************************************************************)
(* Model values for the run of Session.                                    *)
(***************************************************************************)
EXTENDS Session

CONSTANTS t1, t2,   \* tabs
          f1, f2    \* requests in flight

TwoTabs == {t1, t2}
TwoCalls == {f1, f2}
TwoRoles == {"admin", "viewer"}
=============================================================================

--------------------------- MODULE MCBrowserPages ---------------------------
(****************************************************************************)
(* Two tabs of one browser, on a host with two tenants.  t1 has two         *)
(* accounts, ann with TOTP and the administrator ada, t2 has tom, who is a  *)
(* guest and an administrator of t1.                                        *)
(****************************************************************************)
EXTENDS BrowserPages, TLC

CONSTANTS ann, ada, tom, t1, t2

MCHome == ann :> t1 @@ ada :> t1 @@ tom :> t2

MCGuests == {<<tom, t1>>}
MCAdmins == {<<ada, t1>>, <<tom, t1>>}

MCOpenings ==
    {<<t1, "authorize">>, <<t1, "loginPage">>, <<t1, "home">>, <<t1, "invitePage">>,
     <<t2, "authorize">>, <<t2, "portalMfaPage">>, <<t1, "portalChangePage">>, <<t1, "adminChangePage">>}

\* A workload: what the tabs open first, who has to change the password, how
\* many disturbances.
Both(p, q, m, n) == [page |-> <<Found(p[1], p[2]), Found(q[1], q[2])>>, must |-> m, left |-> n]
One(p, m, n) == [page |-> <<Found(p[1], p[2]), Message(t1)>>, must |-> m, left |-> n]

Workloads == {
    Both(<<t1, "authorize">>, <<t1, "authorize">>, {}, 0),
    Both(<<t1, "authorize">>, <<t1, "authorize">>, {ann}, 0),
    One(<<t1, "authorize">>, {}, 1),
    One(<<t1, "authorize">>, {ann}, 1),
    Both(<<t1, "loginPage">>, <<t1, "loginPage">>, {}, 1),
    One(<<t1, "loginPage">>, {ann, ada}, 1),
    Both(<<t1, "loginPage">>, <<t2, "authorize">>, {}, 0),
    Both(<<t1, "loginPage">>, <<t2, "portalMfaPage">>, {}, 0),
    Both(<<t1, "portalChangePage">>, <<t1, "adminChangePage">>, {}, 0),
    Both(<<t1, "home">>, <<t1, "invitePage">>, {}, 1),
    Both(<<t1, "home">>, <<t2, "portalMfaPage">>, {}, 0),
    One(<<t1, "home">>, {ada}, 1)}

MCInit ==
    /\ BrowserInit
    /\ \E w \in Workloads : page = w.page /\ must = w.must /\ left = w.left

MCSpec == MCInit /\ [][BrowserNext]_browserVars /\ Fairness
=============================================================================

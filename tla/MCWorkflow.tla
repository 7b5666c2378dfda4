------------------------------ MODULE MCWorkflow ------------------------------
(***************************************************************************)
(* Small instances of Workflow.                                            *)
(***************************************************************************)
EXTENDS Workflow

Task(n, deps, from) == [name |-> n, dependsOn |-> deps, from |-> from]

\* One node, a chain, two roots, and a list with a cycle.
SmallLists ==
    {<<Task("a", << >>, << >>)>>,
     <<Task("b", <<"a">>, <<"a">>), Task("a", << >>, << >>)>>,
     <<Task("a", << >>, << >>), Task("b", << >>, << >>)>>,
     <<Task("a", <<"b">>, << >>), Task("b", <<"a">>, << >>)>>}

\* Three nodes: a chain, a join with one result source, and a chain beside
\* an independent node.
Lists ==
    {<<Task("a", << >>, << >>), Task("b", <<"a">>, <<"a">>), Task("c", <<"b">>, <<"b">>)>>,
     <<Task("c", <<"a", "b">>, <<"b">>), Task("a", << >>, << >>), Task("b", << >>, << >>)>>,
     <<Task("a", << >>, << >>), Task("b", <<"a">>, << >>), Task("c", << >>, << >>)>>}

=============================================================================

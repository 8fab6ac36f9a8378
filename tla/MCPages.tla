------------------------------ MODULE MCPages ------------------------------
(* Two parts of the browser that share no state, checked in one run: the    *)
(* panes of the file workspace and the administration page.  The initial    *)
(* state chooses the one that runs.                                         *)
EXTENDS FilePanes, AdminConsole, TLC

VARIABLE part

pageVars == <<part, vars, adminVars>>

PagesInit ==
    /\ part \in {"files", "admin"} /\ Init /\ AdminInit
    /\ part = "admin" => tabSequence = 1 /\ msgs = {} /\ suspended = None
PagesNext == \/ part = "files" /\ Next /\ UNCHANGED <<part, adminVars>>
             \/ part = "admin" /\ AdminNext /\ UNCHANGED <<part, vars>>
PagesSpec == PagesInit /\ [][PagesNext]_pageVars

Symmetry == Permutations(Sources) \cup Permutations(Admins)
=============================================================================

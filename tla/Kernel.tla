------------------------------- MODULE Kernel -------------------------------
(***************************************************************************)
(* The Jupyter kernel in which a notebook of the evaluation is evaluated.  *)
(* A cell reads and assigns names of the notebook; a name that is not      *)
(* bound when it is needed raises an error, which ends the cell: what the  *)
(* cell has assigned until then stays assigned, and the figures it would   *)
(* have drawn after that are not drawn.                                    *)
(*                                                                         *)
(* Names that are assigned and used within one cell only are left out.     *)
(***************************************************************************)
EXTENDS Rationals

CONSTANTS Notebooks,    \* the notebooks that are opened
          Shuffled,     \* those whose cells are also evaluated out of order
          Inputs(_)     \* what the files a notebook reads may hold

VARIABLES notebook,     \* the notebook that is open
          logs,         \* the files it reads
          globals,      \* name -> value
          imported,     \* names bound to modules
          position,     \* the next cell from the top; 0 after a jump; -n after cell n failed
          figures       \* figure -> what it shows

kernel == <<notebook, logs, globals, imported, position, figures>>

Empty == [name \in {} |-> 0]

\* The function with one value.
Entry(name, value) == [n \in {name} |-> value]

Open(nb) ==
    /\ notebook' = nb
    /\ logs' \in Inputs(nb)
    /\ globals' = Empty
    /\ imported' = {}
    /\ position' = 1
    /\ figures' = Empty

Closed ==
    /\ notebook = "none"
    /\ logs = << >>
    /\ globals = Empty
    /\ imported = {}
    /\ position = 1
    /\ figures = Empty

\* Cell n is the next one, whether the one before it has failed or not.
IsNext(n) == position # 0 /\ position \in {n, 1 - n}

\* Cells are evaluated from the top, or in any order.
Turn(nb, n) == notebook = nb /\ (IsNext(n) \/ nb \in Shuffled)

\* The position after cell n, which has failed or not.
Advance(n, completed) ==
    position' = IF ~IsNext(n) THEN 0 ELSE IF completed THEN n + 1 ELSE -n

\* Cell n imports modules and defines functions; it fails at a module that does not exist, or
\* later without anything to show.
Import(nb, n, modules, completed) ==
    /\ Turn(nb, n)
    /\ imported' = imported \cup modules
    /\ globals' = [name \in DOMAIN globals \ modules |-> globals[name]]
    /\ Advance(n, completed)
    /\ UNCHANGED <<notebook, logs, figures>>

\* Cell n needs the names in reads first, imports modules, binds the names of assigns(g), then
\* needs the modules in uses and the names in needs, and at its end binds those of results(g) and
\* saves its figures.
Cell(nb, n, reads, imports, assigns(_), uses, needs, results(_), saves(_)) ==
    LET begins == reads \subseteq DOMAIN globals
        assigned == IF begins THEN assigns(globals) ++ globals ELSE globals
        modules == IF begins THEN (imported \cup imports) \ DOMAIN assigns(globals) ELSE imported
        completes == begins /\ uses \subseteq modules /\ needs \subseteq DOMAIN assigned
        after == IF completes THEN results(assigned) ++ assigned ELSE assigned
    IN /\ Turn(nb, n)
       /\ globals' = [name \in DOMAIN after \ (IF begins THEN imports ELSE {}) |-> after[name]]
       /\ imported' = IF completes THEN modules \ DOMAIN results(assigned) ELSE modules
       /\ figures' = IF completes THEN saves(assigned) ++ figures ELSE figures
       /\ Advance(n, completes)
       /\ UNCHANGED <<notebook, logs>>

Nothing(g) == Empty

\* Cells that only assign, only compute, and only draw.
Assign(nb, n, assigns(_)) == Cell(nb, n, {}, {}, assigns, {}, {}, Nothing, Nothing)
Compute(nb, n, reads, uses, results(_)) == Cell(nb, n, reads, {}, Nothing, uses, {}, results, Nothing)
Draw(nb, n, reads, uses, saves(_)) == Cell(nb, n, reads, {}, Nothing, uses, {}, Nothing, saves)
=============================================================================

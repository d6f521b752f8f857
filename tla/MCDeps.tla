------------------------------- MODULE MCDeps -------------------------------
(***************************************************************************)
(* Instances of Deps for TLC: t1, t2 and t3 are published, other is a name *)
(* nobody publishes.  The requests repeat a name, leave one empty, and     *)
(* make a task depend on another one and on what that depends on.          *)
(***************************************************************************)
EXTENDS Deps, TLC

CONSTANTS t1, t2, t3, other, Empty

Tasks == {t1, t2, t3}
Names == Tasks \cup {other}
Lists == {<<>>, <<Empty>>, <<other>>, <<other, other>>, <<t1>>,
          <<t1, Empty, other>>, <<t2, t1>>}
=============================================================================

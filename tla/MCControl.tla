------------------------------ MODULE MCControl ------------------------------
(***************************************************************************)
(* Instances of Control for TLC: one run of scx_teddy, one process, two    *)
(* models of which one may be unusable.                                    *)
(***************************************************************************)
EXTENDS Control

CONSTANTS x, p, m, n, c

Chosen(model, config) == [model |-> model, config |-> config]
Line(mode, s) == [collect |-> mode = "collect", set |-> s]

OneModel == {Chosen(m, c), Chosen(n, c)}

(* a collecting run, one with a set that fits and one with a set that names *)
(* a kind there is not                                                      *)
AnyArgs == {Line("collect", NoSet), Line("classify", Chosen(m, c)),
            Line("classify", Chosen(n, c))}
=============================================================================

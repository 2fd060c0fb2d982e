--------------------------- MODULE MCParseRequest ---------------------------
(* Two subsystems and a name that is none of them; requests of up to two   *)
(* layers, with empty and unknown layers and a repeated dependency.        *)
EXTENDS ParseRequest

CONSTANTS a, b, unknown

MCSubs  == {a, b}
MCNames == {a, b, unknown}
MCPlans == {<<>>, <<{a, b}>>, <<{a, unknown}, {a, b}>>, <<{unknown}, {a, b}, {a}>>,
            <<{}, {b}, {unknown}>>}
=============================================================================

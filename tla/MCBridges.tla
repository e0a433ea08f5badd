----------------------------- MODULE MCBridges -----------------------------
(* Bounded instances of Bridges. *)
EXTENDS Bridges, TLC

CONSTANTS i1, i2, t1, a, b, x

MCInstallers == {i1, i2}
MCThreads == {t1}
MCSpans == {a, b, x}
MCSinkSpans == {x}

\* Installers, application spans and sink spans are interchangeable.
Symmetry == Permutations({i1, i2}) \cup Permutations({a, b})
==============================================================================

----------------------------- MODULE MCFieldProbe -----------------------------
(* Instance of FieldProbe: a required and an optional fast field, a list of  *)
(* three optional fields, two DCP fields; DCGM may accept any family of sets *)
(* of the listed fields that is closed under subsets.                        *)
EXTENDS FieldProbe

CONSTANTS r, a, b, c, d, p, q

Closed(F) == {A \in SUBSET SUBSET F : {} \in A /\ \A S \in A : \A T \in SUBSET S : T \in A}

MCCandidates   == <<(<<a>>), <<b, c, d>>>>
MCFamilies     == {A \cup B \cup SUBSET {p, q} : A \in Closed({r, a}), B \in Closed({b, c, d})}
MCMetricGroups == {<<>>, <<{p}, {q}>>, <<{q}, {p, q}>>}
=============================================================================

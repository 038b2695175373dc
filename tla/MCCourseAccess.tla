---------------------------- MODULE MCCourseAccess ----------------------------
\* CourseAccess for TLC: one deployment, interchangeable handlers.
EXTENDS CourseAccess, TLC

CONSTANTS a1, n1, n2

\* The course of a1 is named like the namespace n1.
MCCourseNs == [x \in {a1} |-> n1]

\* The shipped defaults, each of which a namespace overrides or leaves.
MCDefaults == [grounding_mode |-> "off", show_sources |-> "on", citations_enabled |-> "off"]
MCPatches == {<<n2, "grounding_mode", "on">>, <<n2, "show_sources", "off">>,
              <<n2, "show_sources", "unset">>}

Symmetry == Permutations(Slots)
=============================================================================

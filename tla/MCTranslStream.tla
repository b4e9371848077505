--------------------------- MODULE MCTranslStream ---------------------------
(***************************************************************************)
(* Instances of TranslStream for TLC.                                      *)
(***************************************************************************)
EXTENDS TranslStream

CONSTANTS u1, u2

Sample(u, suppress, beat) ==
    [uri |-> u, mode |-> "SAMPLE", suppress |-> suppress, every |-> 1, beat |-> beat]

OnChange(u, beat) ==
    [uri |-> u, mode |-> "ON_CHANGE", suppress |-> FALSE, every |-> 0, beat |-> beat]

Asked(subs, updatesOnly, patient, fails) ==
    [subs |-> subs, updatesOnly |-> updatesOnly, patient |-> patient, fails |-> fails]

\* Two paths on one timer, the second with suppression and a heartbeat
TwoSamples == <<Sample(u1, FALSE, 0), Sample(u2, TRUE, 2)>>

\* A sampled path and one reported on change, with a heartbeat
SampleAndChange == <<Sample(u1, TRUE, 0), OnChange(u2, 2)>>

OneChange == <<OnChange(u1, 0)>>

\* Three requests that are served to the end, and one with everything that fails
Served == {Asked(TwoSamples, FALSE, FALSE, {}), Asked(TwoSamples, TRUE, FALSE, {}),
           Asked(SampleAndChange, FALSE, TRUE, {}),
           Asked(SampleAndChange, FALSE, FALSE, {"read", "version", "backend"})}

ReadFails == {Asked(<<Sample(u1, FALSE, 0)>>, FALSE, FALSE, {"read"})}

VersionFails == {Asked(OneChange, FALSE, TRUE, {"version"})}

BackendFailsOnce == {Asked(OneChange, FALSE, TRUE, {"backend"})}

HastyChange == {Asked(OneChange, FALSE, FALSE, {})}
=============================================================================

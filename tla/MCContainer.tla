----------------------------- MODULE MCContainer -----------------------------
\* Three services, two that are registered later, one client, one abstract
\* class, one name that is no service.
EXTENDS Container, TLC
CONSTANTS s1, s2, s3, t1, t2, c1, abs, str

ThreeServices == {s1, s2, s3}
TwoServices == {s1, s2}
NoOne == <<>>
TwoLate == <<t1, t2>>
OneClient == {c1}
OneAbstract == {abs}

\* Up to two parameters, the same one twice, or a name that is no service.
TwoOf(S) == {<<>>} \cup {<<x>> : x \in S} \cup {<<x, y>> : x, y \in S}
AnyTwo == TwoOf({s1, s2, s3, abs}) \cup {<<str>>}
AtMostOne == {<<>>} \cup {<<x>> : x \in ThreeServices}
LateSignatures ==
    {<<>>, <<s1>>, <<s1, s1>>, <<s2, t1>>, <<t2>>, <<abs>>, <<s1, str>>}
AnySignature == AnyTwo \cup LateSignatures
OtherSignatures == {<<>>, <<s1>>, <<s1, str>>}

NothingPossible == {{}}
AnyPossible == {{}} \cup {{x} : x \in ThreeServices}

\* The graphs to be built.  Every graph over the services by parameters, ...
ByParameters ==
    /\ params \in {sigs @@ [x \in {t1, t2, c1} |-> <<str>>] :
                      sigs \in [ThreeServices -> AnyTwo]}
    /\ possible = [x \in Names |-> {}]

\* ... every one with a parameter and a possible dependency each, ...
ByPossible ==
    /\ params \in {sigs @@ [x \in {t1, t2, c1} |-> <<str>>] :
                      sigs \in [ThreeServices -> AtMostOne]}
    /\ possible \in {deps @@ [x \in {t1, t2} |-> {}] :
                        deps \in [ThreeServices -> AnyPossible]}

\* ... and what may be registered or defined after the build.
ByRegistration ==
    /\ params \in {[x \in ThreeServices |-> IF x = s2 THEN <<s1>> ELSE <<>>] @@ sigs :
                      sigs \in [{t1, t2, c1} -> LateSignatures]}
    /\ possible \in {[x \in Names |-> IF x = t1 THEN deps ELSE {}] :
                        deps \in {{}, {s1}}}

SmallGraphs == ByParameters \/ ByPossible \/ ByRegistration
GraphInit == SmallGraphs /\ Init
GraphSpec == GraphInit /\ [][Next]_vars /\ WF_vars(Next)
=============================================================================

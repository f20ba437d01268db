----------------------------- MODULE MCMatcher -----------------------------
EXTENDS Matcher, TLC

MCWords == {"blue", "cup", "red", "main", "side", "oy"}
MCSuffixes == {"oy"}

Says(category, name, street, house) ==
    [category |-> category, name |-> name, street |-> street, house |-> house]

\* A full record, one whose street is nothing but a suffix, and one whose name is.
MCRecords ==
    {Says("cafe", <<"blue", "cup">>, <<"main">>, "1"),
     Says("bar", <<"cup", "oy">>, <<"oy">>, None),
     Says("shop", <<"oy">>, <<"main">>, "1")}

\* Names with the same words in another order, a part of them, and none of them,
\* each with addresses that are absent, wrong, the street only, or full.
MCNamed ==
    LET same == <<"cup", "oy", "blue">> part == <<"blue">> other == <<"red">>
        absent == << <<>>, None >>      wrong == << <<"side">>, "1" >>
        street == << <<"main">>, None >> full == << <<"main", "oy">>, "1" >>
    IN {<<same, absent>>, <<same, wrong>>, <<same, full>>, <<part, street>>,
        <<part, full>>, <<other, absent>>, <<other, full>>}

At(dist, category, status, named) ==
    [category |-> category, name |-> named[1], street |-> named[2][1],
     house |-> named[2][2], dist |-> dist, status |-> status]

\* Places at, between and beyond the distances at which the thresholds change
\* hands, and perfect ones that are out of range, closed or of another category.
MCCandidates ==
    LET perfect == << <<"blue", "cup">>, << <<"main">>, "1" >> >> IN
    {At(d, "restaurant", "active", n) : d \in {0, 18, 50}, n \in MCNamed}
        \cup {At(51, "cafe", "active", perfect),
              At(0, "cafe", "closed", perfect),
              At(0, "shop", "active", perfect)}

Symmetry == Permutations(Places)
=============================================================================

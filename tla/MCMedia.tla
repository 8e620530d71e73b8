------------------------------ MODULE MCMedia ------------------------------
EXTENDS Media

CONSTANTS p, q, f, h, e, v, g, t

MCKind == [i \in Ours \cup Theirs |->
    IF i \in {p, t} THEN "persistent" ELSE IF i = q THEN "image"
    ELSE IF i \in {f, h, g} THEN "file" ELSE "ephemeral"]
============================================================================

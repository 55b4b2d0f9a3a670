----------------------------- MODULE MCBackend -----------------------------
(* Small instances of the parts of Backend.                                 *)
EXTENDS Backend, TLC

CONSTANTS p1, p2,  \* request handlers
          q1, q2,  \* swimlanes or sprints
          e1, e2,  \* epics
          s1, s2,  \* user stories
          m1, m2,  \* milestones
          u1, u2   \* users

SomeIds == {1, 2, 3, 4}

(* Two stories beside the lanes and two in one of them or in both, or all   *)
(* in lanes                                                                 *)
SomeStarts ==
    UNION {{<<None, None, a, a>>, <<None, None, a, b>>, <<a, a, a, b>>} :
             <<a, b>> \in {<<q1, q2>>, <<q2, q1>>}}

(* One story, or two against the order of their ids                         *)
SomeBulks == {<<1>>, <<4>>, <<4, 1>>}

SomePositions == {2, 3}

SomeDates == {1, 2, 3}

(* Exchanges each of the other pairs                                        *)
Mirror ==
    q1 :> q2 @@ q2 :> q1 @@ e1 :> e2 @@ e2 :> e1 @@ s1 :> s2 @@ s2 :> s1 @@
    m1 :> m2 @@ m2 :> m1 @@ u1 :> u2 @@ u2 :> u1

Symmetries == Permutations({p1, p2}) \cup {Mirror}

=============================================================================

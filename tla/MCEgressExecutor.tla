-------------------------- MODULE MCEgressExecutor --------------------------
(* An instance of EgressExecutor for TLC. *)
EXTENDS EgressExecutor, TLC

\* The host moves from one address to the other, or has both.
AllAnswers == {<<"a1">>, <<"a2">>, <<"a2", "a1">>}

\* A POST that Control marked replayable or not, and a GET that it did not.
AllAsks ==
    {[replayable |-> m[1], idempotent |-> m[2], allowed |-> a] :
        m \in {<<FALSE, FALSE>>, <<TRUE, FALSE>>, <<FALSE, TRUE>>}, a \in SUBSET Addresses \ {{}}}

RequestSymmetry == Permutations(Requests)
=============================================================================

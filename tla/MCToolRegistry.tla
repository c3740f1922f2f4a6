---------------------------- MODULE MCToolRegistry ----------------------------
(***************************************************************************)
(* The calls of the mocks, and calls that deviate from one of them in the  *)
(* presence or the kind of one or two arguments.                           *)
(***************************************************************************)
EXTENDS ToolRegistry

MaxChanges == 2

\* Each change leaves an argument out or gives it a kind.
Changed(arguments) ==
    LET names == DOMAIN arguments \cup {"undeclared"}
        changes == UNION {[ns -> Kinds \cup {"absent"}] :
                              ns \in {n \in SUBSET names : Cardinality(n) <= MaxChanges}}
        kind(c, k) == IF k \in DOMAIN c THEN c[k]
                      ELSE IF k \in DOMAIN arguments THEN arguments[k] ELSE "absent"
    IN  {[k \in {n \in names : kind(c, n) # "absent"} |-> kind(c, k)] : c \in changes}

MCRequests ==
    {[tool |-> "no_such_tool", arguments |-> a] : a \in MockArguments.risk_scorer}
    \cup UNION {UNION {{[tool |-> t, arguments |-> c] : c \in Changed(a)} :
                           a \in MockArguments[t]} : t \in Tools}

=============================================================================

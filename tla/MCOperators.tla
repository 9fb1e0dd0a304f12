----------------------------- MODULE MCOperators -----------------------------
(* Instances of OperatorChain: every line of up to three items in documented   *)
(* forms; every line of four commands with any operators; and every line of    *)
(* three nodes of any kind.                                                    *)
EXTENDS OperatorChain

N(k, o) == [kind |-> k, op |-> o]

\* One item, given the operators before and after it.
Item(before, after) ==
    LET first == before = "start"
        lefts == IF first THEN {"cmd", "piped"} ELSE {"cmd"}
        ops == IF first THEN CaptureOps \ {"|"} ELSE CaptureOps
        single == {<<N(k, after)>> : k \in lefts \cup {"group", "blank"}}
        chain == {<<N(k, o), N("cmd", after)>> : k \in lefts, o \in ops}
                 \cup {<<N(k, "?>"), N("cmd", "|"), N("cmd", after)>> : k \in lefts}
                 \cup {<<N(k, "?>"), N("cmd", "|"), N("cmd", "|>"), N("cmd", after)>> : k \in lefts}
    IN  IF before \in {"&&", "||"} THEN single ELSE single \cup chain

MCDocumented ==
    UNION {{s \o t \o u : s \in Item("start", o), t \in Item(o, p), u \in Item(p, "end")} :
               o \in ListOps, p \in ListOps}

MCAny ==
    {l \in [1..4 -> {N(k, o) : k \in {"cmd", "piped"}, o \in ListOps \cup {"|>", "?>", "|", "end"}}] :
        Parsed(l) /\ l[4].op = "end"}

MCOdd ==
    {l \in [1..3 -> {N(k, o) : k \in Kinds, o \in ListOps \cup CaptureOps \cup {"end"}}] :
        Parsed(l) /\ l[3].op = "end"}

MCLines == MCDocumented \cup MCOdd

\* The lines the properties of the documented forms are about.
ASSUME FormsAreDocumented == \A l \in MCDocumented : Documented(l)

===============================================================================

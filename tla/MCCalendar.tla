------------------------------ MODULE MCCalendar ------------------------------
(* Instances of Calendar on a grid of hours: the shapes of session that occur  *)
(* in src/calendar.json, with up to three holidays, one more than the table    *)
(* takes, on the first, fourth and fifth of the days from a Friday.            *)
EXTENDS Calendar

E(pre, open, close, lunch, after) ==
    [pre |-> pre, open |-> open, close |-> close, lunch |-> lunch, after |-> after,
     until |-> 4]

XNYS == E(<<4, 9>>, 9, 16, None, <<16, 20>>)
XHKG == E(None, 9, 16, <<12, 13>>, None)
XKLS == E(<<8, 9>>, 9, 17, <<12, 14>>, <<17, 18>>)
XDFM == E(<<9, 10>>, 10, 15, None, None)

MCExchanges == {XNYS, XHKG, XKLS, XDFM}
MCBuiltin == [XNYS EXCEPT !.until = None]

MCEntries ==
    {[day |-> d, status |-> s, at |-> 12] : d \in {0, 3, 4},
        s \in {"closed", "early_close", "delayed_open"}}
Lists == {<<>>} \cup {<<a>> : a \in MCEntries} \cup
    {<<a, b>> : a \in MCEntries, b \in MCEntries} \cup
    {<<a, b, c>> : a \in {e \in MCEntries : e.day = 0},
                   b \in {e \in MCEntries : e.day = 3},
                   c \in {e \in MCEntries : e.day = 4 /\ e.status = "closed"}}
MCRegistries == [e \in MCExchanges |-> Lists]

\* The zone keeps its offset, or changes it on the Sunday, either way.
MCOffsets == {<<0, 0>>, <<0, 1>>, <<1, 0>>}

===============================================================================

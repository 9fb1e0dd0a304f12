------------------------------- MODULE RiskGate -------------------------------
(***************************************************************************)
(* The limits of ~/.las_shell_risk (src/src/risk_config.c) and the ?> gate *)
(* that applies them (src/src/redirection.c): the file is read at start    *)
(* and on riskconfig reload, the gate captures what its left command       *)
(* writes, checks every line of it, asks the checker, and lets all of it   *)
(* through or nothing.  "left ?> checker | next |> log" takes the other of *)
(* the gate's two copies.                                                  *)
(*                                                                         *)
(* The output is cut to what the capture tells apart: every order line is  *)
(* a head ("SPY BUY ") and a tail ("100 50" and the newline), a read of    *)
(* the pipe brings some number of them, and lengths count in such units.   *)
(* Currencies are not in the state.                                        *)
(***************************************************************************)
EXTENDS Integers, Sequences, FiniteSetsExt, Functions

CONSTANTS
    Symbols,
    Sizes, Prices,  \* what an order line may say; 0 where it says none
    Files,          \* contents of the file: sequences of directives
    Defaults,       \* set_defaults()
    ListRoom,       \* symbols of a list that fit in line[1024]
    Room,           \* units that fit in captured[65536]
    Losses,         \* values of $DRAWDOWN and $DAILY_LOSS
    Variants,       \* the copies of the gate in use, see below
    MaxRead,        \* bound on the units one left command writes
    MaxChunk,       \* bound on the units of one read
    Absent,         \* there is no file
    Stray           \* the symbol read from a line that has lost its head

(* execute_risk_gate_chained() and ..._chained_logged(). *)
AllVariants == {"plain", "logged"}

Keys == {"MAX_POSITION_SIZE", "MIN_POSITION_SIZE", "MAX_ORDER_NOTIONAL",
         "MAX_ORDERS_PER_DAY", "MAX_DRAWDOWN_PCT", "MAX_DAILY_LOSS",
         "ALLOWED_SYMBOLS", "BLOCKED_SYMBOLS"}
Lists == {"ALLOWED_SYMBOLS", "BLOCKED_SYMBOLS"}

\* A file: a value for each limit and each list that it sets.
IsFile(f) ==
    /\ Len(f) \in Nat /\ DOMAIN f = 1..Len(f)
    /\ \A i \in DOMAIN f :
          /\ f[i].key \in Lists => f[i].val \in Seq(Symbols)
          /\ f[i].key \in Keys \ Lists => f[i].val \in Int

ASSUME RiskAssumption ==
    /\ Sizes \subseteq Nat /\ Prices \subseteq Nat /\ Losses \subseteq Nat
    /\ Variants \subseteq AllVariants
    /\ \A f \in Files : IsFile(f)
    /\ Defaults = [k \in Keys |-> Defaults[k]]
    /\ \A k \in Lists : Defaults[k] = {}
    /\ \A k \in Keys \ Lists : Defaults[k] \in Int
    /\ Room \in Nat /\ ListRoom \in Nat /\ MaxRead \in Nat /\ MaxChunk \in Nat
    /\ Stray \notin Symbols /\ Absent \notin Files

VARIABLES
    file,     \* ~/.las_shell_risk
    limits,   \* g_risk_cfg
    loaded,   \* g_risk_cfg.loaded
    line,     \* lines of the file that parse_config_file() has been through
    at,       \* where the shell is in a gate or in the file; "idle" outside both
    variant,  \* which copy of the gate it is in
    wrote,    \* the units the left command has written
    captured, \* captured
    warned,   \* truncated, and its message
    read,     \* the contents that are read, or were read last
    rejected, \* the lines this gate logged as CONFIG_LIMIT
    asserted  \* what the last assert was asked and said

gateVars == <<at, variant, wrote, captured, warned, rejected>>
configVars == <<limits, loaded, line, read>>
vars == <<file, configVars, gateVars, asserted>>

-------------------------------------------------------------------------------
\* parse_config_file(): a directive replaces what an earlier one set; fgets()
\* cuts a long line, and what is left of it has no '=' and is skipped.  Lines
\* that are not directives have a key of their own here.

Value(d) ==
    IF d.key \in Lists THEN {d.val[i] : i \in 1..Len(d.val) \cap 1..ListRoom}
                       ELSE d.val

Apply(l, d) == IF d.key \in Keys THEN [l EXCEPT ![d.key] = Value(d)] ELSE l

\* Mistake: the limits in force are what the new file is read over.
ReloadBaseKept == limits

\* set_defaults() comes before the file, also when it is read again.
ReloadBase == Defaults

\* What a line is taken for: parse_order_line().  A line that lost its tail
\* runs into the next one, whose symbol then stands where the size should be.
ParsedLine(us) ==
    CASE us[1].kind = "tail" -> [symbol |-> Stray, size |-> 0, price |-> 0]
      [] Len(us) = 2 /\ us[1].kind = "head" /\ us[2].kind = "tail" ->
            [symbol |-> us[1].symbol, size |-> us[2].size, price |-> us[2].price]
      [] OTHER -> [symbol |-> us[1].symbol, size |-> 0, price |-> 0]

\* The lines of a captured text: up to each tail, and what follows the last.
LinesOf(us) ==
    LET ends == {i \in DOMAIN us : us[i].kind = "tail" \/ i = Len(us)}
        starts == {i \in DOMAIN us : i = 1 \/ us[i - 1].kind = "tail"}
        spans == {e \in starts \X ends :
                     e[1] <= e[2] /\ ~\E k \in ends : e[1] <= k /\ k < e[2]}
    IN {ParsedLine(SubSeq(us, e[1], e[2])) : e \in spans}

\* validate_order_against_risk(): the first limit that is not kept.
Validate(o) ==
    IF o.symbol \in limits["BLOCKED_SYMBOLS"] THEN "BLOCKED_SYMBOLS"
    ELSE IF limits["ALLOWED_SYMBOLS"] # {} /\ o.symbol \notin limits["ALLOWED_SYMBOLS"]
         THEN "ALLOWED_SYMBOLS"
    ELSE IF o.size > 0 /\ o.size < limits["MIN_POSITION_SIZE"] THEN "MIN_POSITION_SIZE"
    ELSE IF o.size > 0 /\ o.size > limits["MAX_POSITION_SIZE"] THEN "MAX_POSITION_SIZE"
    ELSE IF o.size > 0 /\ o.price <= 0 THEN "MAX_ORDER_NOTIONAL"
    ELSE IF o.size * o.price > 0 /\ o.size * o.price > limits["MAX_ORDER_NOTIONAL"]
         THEN "MAX_ORDER_NOTIONAL"
    ELSE "PASS"

NotAsserted == [drawdown |-> 0, loss |-> 0, passes |-> TRUE]

Init ==
    /\ file \in Files \cup {Absent}
    /\ limits = Defaults
    /\ loaded = FALSE
    /\ line = 0
    /\ read = file
    /\ at = "parse"
    /\ variant \in Variants
    /\ wrote = <<>>
    /\ captured = <<>>
    /\ warned = FALSE
    /\ rejected = {}
    /\ asserted = NotAsserted

-------------------------------------------------------------------------------
\* The user, with an editor, which puts a new file in the place of the old; an
\* edit while the left command writes, or while the shell reads the old file, is
\* as good as one after that.
EditFile ==
    /\ at \notin {"capture", "parse"}
    /\ file' \in (Files \cup {Absent}) \ {file}
    /\ UNCHANGED <<configVars, gateVars, asserted>>

Resting == at \in {"idle", "passed", "refused"}

Clear ==
    /\ wrote' = <<>>
    /\ captured' = <<>>
    /\ warned' = FALSE
    /\ rejected' = {}

Open(base) ==
    /\ limits' = base
    /\ loaded' = FALSE
    /\ line' = 0
    /\ read' = file
    /\ at' = "parse"
    /\ Clear
    /\ asserted' = NotAsserted
    /\ UNCHANGED <<file, variant>>

LinesLeft == read # Absent /\ line < Len(read)

\* parse_config_file(): one fgets() and what it sets
ReadLine ==
    /\ at = "parse"
    /\ LinesLeft
    /\ limits' = Apply(limits, read[line + 1])
    /\ line' = line + 1
    /\ UNCHANGED <<file, loaded, read, gateVars, asserted>>

\* There is no file, or no more of it.
EndOfFile ==
    /\ at = "parse"
    /\ ~LinesLeft
    /\ loaded' = (read # Absent)
    /\ at' = "idle"
    /\ UNCHANGED <<file, limits, line, read, variant, wrote, captured, warned,
                   rejected, asserted>>

\* riskconfig reload
Reload ==
    /\ Resting
    /\ Open(ReloadBase)

\* assert without operands; a session without a file has no limits here, whatever
\* the defaults say.  (The record of the last gate ends with it.)
AssertPasses(drawdown, loss) ==
    loaded => /\ drawdown <= limits["MAX_DRAWDOWN_PCT"]
              /\ loss <= limits["MAX_DAILY_LOSS"]

CommandAssert(drawdown, loss) ==
    /\ Resting
    /\ asserted' = [drawdown |-> drawdown, loss |-> loss,
                    passes |-> AssertPasses(drawdown, loss)]
    /\ at' = "idle"
    /\ Clear
    /\ UNCHANGED <<file, configVars, variant>>

-------------------------------------------------------------------------------
StartGate(v) ==
    /\ Resting
    /\ at' = "capture"
    /\ variant' = v
    /\ Clear
    /\ asserted' = NotAsserted
    /\ UNCHANGED <<file, configVars>>

Head1(s) == [kind |-> "head", symbol |-> s]
Tail1(q, p) == [kind |-> "tail", size |-> q, price |-> p]

\* Heads and tails in turn.
Continues(us) ==
    \A i \in DOMAIN us : (us[i].kind = "head") = ((Len(wrote) + i) % 2 = 1)

Units == {Head1(s) : s \in Symbols} \cup {Tail1(q, p) : q \in Sizes, p \in Prices}
Chunks == {us \in UNION {[1..n -> Units] : n \in 1..MaxChunk} : Continues(us)}

\* Mistake: the chunk that does not fit goes without a word.
TruncatedSilent(v) == FALSE

\* Only one of the copies keeps a flag for it.
Truncated(v) == v = "plain"

\* Mistake: a chunk is appended as long as there is any room.
HasRoomLeft(us) == Len(captured) < Room

HasRoom(us) == Len(captured) + Len(us) <= Room

\* One read() of the left command's pipe: a chunk that does not fit whole is
\* dropped, and the next, if it is smaller, follows on what there is.
Capture(us) ==
    /\ at = "capture"
    /\ Len(wrote) + Len(us) <= MaxRead
    /\ wrote' = wrote \o us
    /\ IF HasRoom(us)
       THEN captured' = captured \o us /\ UNCHANGED warned
       ELSE warned' = (warned \/ Truncated(variant)) /\ UNCHANGED captured
    /\ UNCHANGED <<file, configVars, at, variant, rejected, asserted>>

\* Mistake: the line that was judged last decides.
RefusesLast(bad, lines) == bad = lines /\ bad # {}

\* One line is enough.
Refuses(bad, lines) == bad # {}

\* End of the output.  The plain gate checks each line against the limits and
\* logs those that fail; the logged one goes straight to the checker.
EndOfOutput ==
    /\ at = "capture"
    /\ LET lines == LinesOf(captured)
           bad == {o \in lines : Validate(o) # "PASS"}
       IN IF variant = "plain" /\ Refuses(bad, lines)
          THEN at' = "refused" /\ rejected' = bad
          ELSE at' = "check" /\ UNCHANGED rejected
    /\ UNCHANGED <<file, configVars, variant, wrote, captured, warned,
                   asserted>>

\* The checker has the captured text and ends: with 0 the text goes to the next
\* command, or to the terminal; otherwise it is logged as rejected.
Checker(exit) ==
    /\ at = "check"
    /\ at' = IF exit = 0 THEN "passed" ELSE "refused"
    /\ UNCHANGED <<file, configVars, variant, wrote, captured, warned,
                   rejected, asserted>>

\* A checker that ends before it has been written to: SIGPIPE ends the shell,
\* and the one started next reads the file.
CheckerGone ==
    /\ at = "check"
    /\ captured # <<>>
    /\ Open(Defaults)

Next ==
    \/ EditFile
    \/ Reload \/ ReadLine \/ EndOfFile
    \/ \E d, l \in Losses : CommandAssert(d, l)
    \/ \E v \in Variants : StartGate(v)
    \/ \E us \in Chunks : Capture(us)
    \/ EndOfOutput
    \/ \E exit \in {0, 1, 127} : Checker(exit)
    \/ CheckerGone

Spec == Init /\ [][Next]_vars

-------------------------------------------------------------------------------
\* The same, from the text of the file: the last directive of a kind counts.
Given(k) ==
    LET at_k == IF read = Absent THEN {} ELSE {i \in DOMAIN read : read[i].key = k}
    IN IF at_k = {} THEN Defaults[k]
       ELSE LET d == read[Max(at_k)]
            IN IF k \in Lists THEN Range(d.val) ELSE d.val

Permitted(o) ==
    /\ o.symbol \notin Given("BLOCKED_SYMBOLS")
    /\ Given("ALLOWED_SYMBOLS") # {} => o.symbol \in Given("ALLOWED_SYMBOLS")
    /\ o.size > 0 =>
          /\ o.size \in Given("MIN_POSITION_SIZE")..Given("MAX_POSITION_SIZE")
          /\ o.price > 0
          /\ o.size * o.price <= Given("MAX_ORDER_NOTIONAL")

\* Every list of the file fits on its line.
Fits(f) ==
    f # Absent => \A i \in DOMAIN f : f[i].key \in Lists => Len(f[i].val) <= ListRoom

\* The variables are of their types, and no more is captured than there is room
\* for.
TypeOK ==
    /\ file \in Files \cup {Absent} /\ read \in Files \cup {Absent}
    /\ DOMAIN limits = Keys
    /\ loaded \in BOOLEAN /\ warned \in BOOLEAN
    /\ line \in 0..(IF read = Absent THEN 0 ELSE Len(read))
    /\ at \in {"parse", "idle", "capture", "check", "passed", "refused"}
    /\ variant \in Variants
    /\ \A i \in DOMAIN wrote : wrote[i] \in Units
    /\ \A i \in DOMAIN captured : captured[i] \in Units
    /\ Len(captured) <= Len(wrote) /\ Len(captured) <= Room
    /\ \A o \in rejected : o.symbol \in Symbols \cup {Stray}
    /\ asserted.passes \in BOOLEAN

\* The file that was read last is what decides, whatever was read before it and
\* in whatever order it sets its limits: the plain gate lets a text through only
\* if every line of it is permitted, and otherwise refuses all of it and logs
\* just the lines that are not; assert fails just when a limit of a file is
\* exceeded.  The limits of an absent file are the defaults, and the gate compares
\* with them (load_risk_config() sets g_risk_loaded all the same, risk_config.c:257
\* and :397), although risk_config.h:143 says that then all orders pass.
PolicyInForce ==
    Fits(read) =>
        /\ variant = "plain" =>
              LET bad == {o \in LinesOf(captured) : ~Permitted(o)}
              IN /\ at \in {"check", "passed"} => bad = {}
                 /\ rejected # {} => rejected = bad
        /\ asserted.passes =
              (read = Absent \/ asserted = NotAsserted
                 \/ /\ asserted.drawdown <= Given("MAX_DRAWDOWN_PCT")
                    /\ asserted.loss <= Given("MAX_DAILY_LOSS"))

\* The plain gate passes on all that its left command wrote, or has warned that
\* it does not.
LossIsReported ==
    at = "passed" /\ variant = "plain" /\ captured # wrote => warned

\* src/src/redirection.c:277-279 says of the logged copy that capturing "and
\* gating" are identical to the plain one's: what passes either is permitted.
EitherCopyChecks ==
    at = "passed" /\ Fits(read) => \A o \in LinesOf(captured) : Permitted(o)

===============================================================================
